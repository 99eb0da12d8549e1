\* Rollback and cleanup fail, the dead-man recovers the database.
SPECIFICATION FairSpec
CONSTANTS
    RecoveryRuns = {r}
    DryRuns = {}
    NoRun = NoRun
    MaxSamples = 2
    MaxFaults = 2
PROPERTIES
    ReconciledRunIsCleaned
CHECK_DEADLOCK FALSE
