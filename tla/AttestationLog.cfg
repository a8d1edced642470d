SPECIFICATION Spec
CONSTANTS
    Callers = {a, b}
    Nonces = {n1, n2}
    Quotes = {q1, q2}
    Decisions = {d1}
    Ttls <- MixedTtls
    Lifetimes = {0, 1}
    MaxTime = 3
SYMMETRY Symmetry
INVARIANTS TypeOK
PROPERTIES NoReplayInShortestWindow NoLiveDecisionLost
