\* Entities with jsonb columns migrated without a fault.
CONSTANTS
    f1 = f1  f2 = f2  f3 = f3
    Files = {f1, f2}
    FileOrder <- MCFileOrder
    Contents <- MigContents
    DryRun = FALSE
    MaxFaults = 1
    Crashes = FALSE
SPECIFICATION Spec
INVARIANT
    MigrationSuccessMeansCompilable
CHECK_DEADLOCK FALSE
