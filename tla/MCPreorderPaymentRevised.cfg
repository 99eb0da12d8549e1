\* Square contradicts an old refusal.
SPECIFICATION Spec
CONSTANTS
    MaxAttempts = 2
    MaxClaims = 3
    MaxTick = 2
    MaxHooks = 1
    Moves <- Revised
PROPERTIES
    ReviewStopsCharges
CHECK_DEADLOCK FALSE
