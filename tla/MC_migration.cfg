\* Three files, two faults and a crash anywhere: backups, the manifest, the exit status, the restore.
CONSTANTS
    f1 = f1  f2 = f2  f3 = f3
    Files = {f1, f2, f3}
    FileOrder <- MCFileOrder3
    Contents <- MigContents
    DryRun = FALSE
    MaxFaults = 2
    Crashes = TRUE
SPECIFICATION Spec
INVARIANTS
    TypeOK
    BackupBeforeWrite
    MigrationSuccessMeansMigrated
    RollbackWithManifestRestores
PROPERTIES
    MigrationRefinesFiles
CHECK_DEADLOCK FALSE
