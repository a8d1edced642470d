SPECIFICATION FairSpec
CONSTANTS
    Callers = {a, b}
    Pools = {p1, p2, p3, p4}
    Nobody = Nobody
    Forever = Forever
    MaxTtl = 3
    Ttls <- SomeTtls
    Grace = 1
    Retry = 1
INVARIANTS TypeOK CurrentPoolServes ConnectionsSurviveRotation
    WorkerTracksCurrentLease NoPoolLeak
PROPERTIES ExpiredLeaseIsReplaced
