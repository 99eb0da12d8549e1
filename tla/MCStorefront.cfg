\* Two reviews in two loads of the page, one product, one change of its price.
SPECIFICATION Spec
CONSTANTS
    glazed = glazed
    filled = filled
    Items = {glazed}
    Menu <- SameItems
    MaxCheckouts = 2
    MaxRetries = 1
    MaxPages = 2
    MaxLate = 1
    CallableAlone = TRUE
INVARIANTS
    TypeOK
    OneOrderPerVisit
    OrderIsAsPrepared
    RetriesFollowRefusals
    OutcomeIsTrue
    DraftFollowsCart
CHECK_DEADLOCK FALSE
