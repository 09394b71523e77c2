SPECIFICATION SpecContext
CONSTANTS
    Texts <- MCTexts
    Limits <- MCLimits
    Conversations <- MCConversations
INVARIANTS
    WithinBudget
    GivesEvidence
    NoShorterThanNeeded
PROPERTIES
    WholeRunes
CHECK_DEADLOCK FALSE
