SPECIFICATION GatewaySpec
CONSTANTS
    Uuids = {u1}
    CredentialIds = {k1}
    Texts = {t1}
    NoText = NoText
    Callers = {a, b}
    Sessions = {s0}
    NilSession = s0
    Profiles <- TextProfiles
    OnionKinds = {}
    Expiries = {2}
    Retentions = {}
    Day = 1
    MaxTime = 2
PROPERTIES SingleUse
