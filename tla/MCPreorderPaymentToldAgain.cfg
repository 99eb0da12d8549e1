\* Square repeats an old refusal with a newer timestamp.
SPECIFICATION Spec
CONSTANTS
    MaxAttempts = 3
    MaxClaims = 3
    MaxTick = 2
    MaxHooks = 1
    Moves <- ToldAgain
INVARIANTS
    NoDoubleCharge
CHECK_DEADLOCK FALSE
