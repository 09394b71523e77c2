SPECIFICATION SpecContext
CONSTANTS
    Texts <- MCTexts
    Limits <- MCLimits
    Conversations <- MCConversations
INVARIANTS
    ContextAsDocumented
CHECK_DEADLOCK FALSE
