SPECIFICATION Spec
CONSTANTS
    Uuids = {u1}
    CredentialIds = {k1}
    Texts = {t1}
    NoText = NoText
    Callers = {a}
    Sessions = {s0}
    NilSession = s0
    Profiles <- MixedProfiles
    OnionKinds = {"text", "legacy"}
    Expiries = {2}
    Retentions = {0}
    Day = 1
    MaxTime = 1
INVARIANTS RetiredFormatsRejected
