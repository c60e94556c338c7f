\* A migration killed part-way, then the rollback.
CONSTANTS
    f1 = f1  f2 = f2  f3 = f3
    Files = {f1, f2}
    FileOrder <- MCFileOrder
    Contents <- MigContents
    DryRun = FALSE
    MaxFaults = 1
    Crashes = TRUE
SPECIFICATION Spec
INVARIANT
    RollbackSuccessMeansRestored
CHECK_DEADLOCK FALSE
