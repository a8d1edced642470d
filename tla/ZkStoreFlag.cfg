SPECIFICATION Spec
CONSTANTS
    W = 7
    P = 5
    Sha <- SomeSha
    Digests <- SomeDigests
    Counts = {0, 2}
    Sequences = {0, 1, 2}
    Verifiable <- AllCircuits
    Ids = {i1}
    Users = {u1, u2}
    Callers = {a}
    Bundles <- SomeBundles
    Requests <- SomeRequests
INVARIANTS FlaggedBundleWasChecked
