SPECIFICATION Spec
CONSTANTS
    Uuids = {u1, u2}
    CredentialIds = {k1}
    Texts = {t1}
    NoText = NoText
    Callers = {a}
    Sessions = {s0}
    NilSession = s0
    Profiles <- MixedProfiles
    OnionKinds = {"text"}
    Expiries <- PastExpiry
    Retentions = {}
    Day = 1
    MaxTime = 0
SYMMETRY Symmetry
INVARIANTS ProtectedAtRest NoTransplant ReadsBack
CHECK_DEADLOCK TRUE
