SPECIFICATION Spec
CONSTANTS
    Uuids = {u1}
    Texts = {t1}
    NoText = NoText
    Callers = {a, b}
    CredentialIds = {k1, k2}
    Onions = {o1}
    Terms = {basic}
    Operational = {p1}
    NoOnion = NoOnion
    Skews = {1}
    MaxTime = 1
SYMMETRY Symmetry
INVARIANTS AnswerFindsCredential SessionsHaveCredentials SessionOnionBound RotationWhole
PROPERTIES SessionsAppendOnly
CHECK_DEADLOCK TRUE
