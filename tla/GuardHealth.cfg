SPECIFICATION Spec
CONSTANTS
    Callers = {a, b, c}
    Guards = {g1}
    Reports = {r1}
    Verdicts = {yes, no}
    Null = Null
    MaxInt32 = 2
    MaxTime = 2
SYMMETRY Symmetry
INVARIANTS FailuresCounted
PROPERTIES LastOkOutlivesEarlier NothingForgotten
CHECK_DEADLOCK TRUE
