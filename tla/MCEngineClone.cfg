SPECIFICATION Spec
CONSTANTS
    Nil = Nil
    Requests <- MCRequests
    Scores <- MCScores
    Errors = {"counter", "store", "scorer"}
INVARIANTS
    UnappliedIsOriginal
CHECK_DEADLOCK FALSE
