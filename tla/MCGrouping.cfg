SPECIFICATION FairSpec
CONSTANTS
    Nil = Nil
    Requests <- MCRequests
INVARIANTS
    ForestInv
    GroupsAreComponents
    Verdict
PROPERTIES
    ImplementsPartition
    Terminates
CHECK_DEADLOCK FALSE
