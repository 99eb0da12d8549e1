SPECIFICATION Spec
CONSTANTS
    glazed = glazed
    filled = filled
    Items = {glazed, filled}
    Menu <- OneFewer
    MaxCheckouts = 1
    MaxRetries = 0
    MaxPages = 1
    MaxLate = 0
    CallableAlone = FALSE
PROPERTIES
    CartIsSafe
CHECK_DEADLOCK FALSE
