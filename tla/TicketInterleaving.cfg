SPECIFICATION Spec
CONSTANTS
    Uuids = {u1}
    CredentialIds = {k1}
    Texts = {t1}
    NoText = NoText
    Callers = {a, b}
    Sessions = {s0}
    NilSession = s0
    Profiles <- TextProfiles
    OnionKinds = {"text"}
    Expiries = {0, 2}
    Retentions <- MixedRetentions
    Day = 1
    MaxTime = 3
SYMMETRY Symmetry
INVARIANTS TypeOK TicketsHaveCredentials
PROPERTIES OnlySpentTicketsGo LifecycleOnlyAdvances ImplementsLifecycle
CHECK_DEADLOCK TRUE
