SPECIFICATION FairScoring
CONSTANTS
    Nil = Nil
    Evaluations <- MCEvaluations
    Flaky <- MCFlaky
    Bytes <- MCBytes
    Tokens <- MCTokens
    MaxRequestBytes = 1024
    MaxRequestTokens = 256
    MaxBatches = 3
    MaxConcurrent = 2
INVARIANTS
    Answers
    Routed
    WithinLimits
    EvidenceHonest
    RefusedForCause
PROPERTIES
    Returns
    EarlyCancel
CHECK_DEADLOCK FALSE
