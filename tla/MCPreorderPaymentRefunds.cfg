\* Two attempts: a lost answer, a replay, a reconciliation and every webhook
\* race each other; facts of charges and refunds arrive in any order, until
\* they are answered; workers may crash.
SPECIFICATION FairSpec
CONSTANTS
    MaxAttempts = 2
    MaxClaims = 2
    MaxTick = 3
    MaxHooks = 1
    Moves <- Refunds
INVARIANTS
    TypeOK
    ConfirmedIsPaid
    NoDoubleCharge
    AttemptsAreProved
PROPERTIES
    PaymentPromiseKept
    AttemptsNeverRegress
    PaidOrderStands
    ChargeIsRecorded
CHECK_DEADLOCK FALSE
