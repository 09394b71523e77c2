SPECIFICATION ReplaySpec
CONSTANTS
    None = None
    Supplies <- MCSupplies
    Ids = {"g", "h", "other"}
    Values = {0, 1}
    MaxReplies = 2
INVARIANTS
    Reproducible
