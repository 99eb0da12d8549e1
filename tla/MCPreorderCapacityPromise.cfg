\* Two carts of one or two units, so that sums differ from counts, and a cart
\* that is held and ordered directly counts twice; a fair clock and job.
SPECIFICATION FairSpec
CONSTANTS
    Quotes = {q1, q2}
    Dates = {d1}
    MaxVersion = 2
    MaxQuantity = 2
    Policies <- TwoOrFour
INVARIANTS
    TypeOK
    WindowAccounting
    WindowWithinLimit
    ListedIsQuotable
    LedgerAccounting
    NoOversell
PROPERTIES
    SupersededWindowsDrain
    HoldFate
    PublishedLimitRespected
    PromiseKeptTogether
    UnpaidOrderSettles
CHECK_DEADLOCK FALSE
