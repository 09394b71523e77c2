SPECIFICATION Spec
CONSTANTS
    Nil = Nil
    Requests <- MCRequests
    Scores <- MCScores
    Errors = {"counter", "store", "scorer"}
INVARIANTS
    ArchivedFirst
    FailClosed
    BudgetTruth
    TotalsAgree
    StillValid
    KeptVerbatim
    UnmetIsHonest
PROPERTIES
    HandledByServer
CHECK_DEADLOCK FALSE
