SPECIFICATION FairSpec
CONSTANTS
    glazed = glazed
    filled = filled
    Items = {glazed}
    Menu <- SameItems
    MaxCheckouts = 1
    MaxRetries = 1
    MaxPages = 1
    MaxLate = 0
    CallableAlone = FALSE
PROPERTIES
    RetryOpensFreshCard
CHECK_DEADLOCK FALSE
