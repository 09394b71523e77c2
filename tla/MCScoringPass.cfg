SPECIFICATION Spec
CONSTANTS
    Nil = Nil
    Plans <- MCPlans
    MaxConcurrent = 3
INVARIANTS
    Complete
    RootCause
CHECK_DEADLOCK FALSE
