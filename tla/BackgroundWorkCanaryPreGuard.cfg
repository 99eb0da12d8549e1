\* A bootstrap commits and its answer is lost.
SPECIFICATION Spec
CONSTANTS
    RecoveryRuns = {r}
    DryRuns = {}
    NoRun = NoRun
    MaxSamples = 2
    MaxFaults = 2
INVARIANTS
    PreGuardMeansNoGuard
CHECK_DEADLOCK FALSE
