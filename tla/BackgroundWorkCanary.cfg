\* A recovery run and a dry run side by side, with two failures.
SPECIFICATION FairSpec
CONSTANTS
    RecoveryRuns = {r}
    DryRuns = {d}
    NoRun = NoRun
    MaxSamples = 2
    MaxFaults = 2
INVARIANTS
    TypeOK
    ActiveIsGuarded
    RolledBackStaysOff
    ReportIsTrue
    GenerationKnown
PROPERTIES
    CanaryPromiseKept
    TargetsAreDrained
    RunsEnd
CHECK_DEADLOCK FALSE
