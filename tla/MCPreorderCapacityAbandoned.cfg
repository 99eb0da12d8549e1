SPECIFICATION FairSpec
CONSTANTS
    Quotes = {q1, q2}
    Dates = {d1}
    MaxVersion = 2
    MaxQuantity = 1
    Policies <- TwoOrFour
PROPERTIES
    AbandonedHoldReturned
CHECK_DEADLOCK FALSE
