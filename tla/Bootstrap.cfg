\* Two services and the repair command start, fail and start again.
SPECIFICATION SystemSpec
CONSTANTS
    a = a
    b = b
    op = op
    postgres = postgres
    none = none
    Procs = {a, b, op}
    Operator = op
    Owner = postgres
    Nobody = none
    Deployments <- MCDeployments
    ExtOrder <- MCExtOrder
    DataOnly <- MCDataOnly
    PublicCreate = TRUE
    MaxFaults = 1
    Audiences <- MCAudiences
    Prefix <- MCPrefix
    Matches <- MCMatches
    MaxAgain = 1
INVARIANTS
    ReadyAsConfigured
    MigrationsSerialised
    ReadyMeansSchema
    RepairKeepsWhatItFound
PROPERTIES
    EventuallyReady
CHECK_DEADLOCK FALSE
