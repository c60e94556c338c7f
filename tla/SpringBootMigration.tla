------------------------ MODULE SpringBootMigration ------------------------
(***************************************************************************)
(* The Spring Boot 3 migration, migrate-to-springboot3.py, followed by a   *)
(* run of rollback-migration.py on the backup it left.                     *)
(*                                                                         *)
(* The migrator processes the Java files one after another: read, rewrite *)
(* in memory, back up the original, write the new text, validate it.  The *)
(* backup manifest is kept in memory and saved to disk after the last     *)
(* file.  The process may be killed between any two of these steps.  The  *)
(* rollback picks the most recent backup directory holding a manifest and *)
(* copies every backup listed there over its original.                    *)
(*                                                                         *)
(* A Java file is abstracted to what the rewrite patterns look at: javax  *)
(* imports of the migrated packages, the @Type annotation (the jsonb or   *)
(* JsonType form the patterns rewrite, a form they do not, or the          *)
(* rewritten @JdbcTypeCode), antMatchers/mvcMatchers calls, and whether   *)
(* the JdbcTypeCode and SqlTypes imports are present.                     *)
(***************************************************************************)
EXTENDS Naturals, FiniteSets, SequencesExt

CONSTANTS
    Files,             \* the Java files find_java_files returns
    FileOrder,         \* the order rglob yields them in
    Contents,          \* the original contents a file may have
    DryRun,            \* --dry-run
    MaxFaults,         \* failed reads, backups, writes and copies in a run
    Crashes            \* whether the migrator may be killed part-way

Content == [javax : BOOLEAN, type : {"none", "json", "other", "jdbc"},
            security : BOOLEAN, hib : BOOLEAN]
Truncated == [empty |-> TRUE]   \* a file open(..., "w") emptied before a failed write

ASSUME /\ Contents \subseteq Content
       /\ FileOrder \in [1..Cardinality(Files) -> Files]
       /\ {FileOrder[i] : i \in DOMAIN FileOrder} = Files
       /\ MaxFaults \in Nat /\ {DryRun, Crashes} \subseteq BOOLEAN

PyNone == <<>>   \* no manifest file; a saved manifest m is written <<m>>

-----------------------------------------------------------------------------
(* migrate_file: the three pattern groups, applied to the text in memory. *)

\* the javax imports, the jsonb/JsonType @Type forms, the matcher calls
Rewrite(c) == [c EXCEPT !.javax = FALSE,
                        !.type = IF @ = "json" THEN "jdbc" ELSE @,
                        !.security = FALSE]

Modified(c) == c.javax \/ c.type = "json" \/ c.security

\* `pattern[0] in content` tests the regex source text, such as
\* @Type\s*\(\s*type..., as a plain substring; no Java source contains it,
\* so add_hibernate_imports and remove_old_type_import never run
NeedsHibernateImports(c) == FALSE

Migrated(c) ==
    IF Modified(c) /\ NeedsHibernateImports(Rewrite(c))
    THEN [Rewrite(c) EXCEPT !.hib = TRUE]
    ELSE Rewrite(c)

\* validate_migration: javax imports or an @Type annotation still present
Issues(c) == c.javax \/ c.type \in {"json", "other"}

-----------------------------------------------------------------------------
VARIABLES
    original,      \* the files' contents before the run
    disk,          \* the files' contents now
    backupDir,     \* backup_dir: the copy of each file backed up, or PyNone
    manifest,      \* backup_manifest in memory: files in insertion order
    saved,         \* backup_manifest.json on disk
    migPc,         \* the migrator: "run", "done" or "crashed"
    idx,           \* position in the file list
    fstep,         \* the current file's next step
    filesFailed,   \* migration_stats['files_failed']
    errors,        \* len(migration_stats['errors'])
    faults,        \* faults so far
    migExit,       \* the migrator's exit status, or <<>>
    rbPc,          \* the rollback: "idle", "restore" or "done"
    rbIdx,         \* position in the loaded manifest
    rbFailed,      \* rollback_stats['files_failed']
    rbExit,        \* the rollback's exit status, or <<>>
    eager          \* the interpreter evaluates annotations at def time

vars == <<original, disk, backupDir, manifest, saved, migPc, idx, fstep,
          filesFailed, errors, faults, migExit, rbPc, rbIdx, rbFailed, rbExit, eager>>

rbVars == <<rbPc, rbIdx, rbFailed, rbExit>>

Cur == FileOrder[idx]

Init ==
    /\ original \in [Files -> Contents]
    /\ disk = original
    /\ backupDir = [f \in Files |-> PyNone]
    /\ manifest = <<>>
    /\ saved = PyNone
    /\ migPc = "run" /\ idx = 1 /\ fstep = "read"
    /\ filesFailed = 0 /\ errors = 0 /\ faults = 0
    /\ migExit = <<>>
    /\ rbPc = "idle" /\ rbIdx = 1 /\ rbFailed = 0 /\ rbExit = <<>>
    \* Python 3.13 and older evaluate `-> Dict` when the method is defined;
    \* 3.14 defers it
    /\ eager \in BOOLEAN

NextFile == idx' = idx + 1 /\ fstep' = "read"

(* A failure: the exception is caught and logged, files_failed grows.     *)
Fail == /\ faults < MaxFaults
        /\ faults' = faults + 1
        /\ filesFailed' = filesFailed + 1
        /\ errors' = errors + 1

migVars == <<original, disk, backupDir, manifest, saved, migPc, idx, fstep,
             filesFailed, errors, faults, migExit>>
N == Len(FileOrder)

(* migrate_file: read the file and rewrite it in memory.  An unmodified   *)
(* file, or any file in a dry run, is left alone.                         *)
SkipFile ==
    /\ migPc = "run" /\ idx <= N /\ fstep = "read"
    /\ ~Modified(disk[Cur]) \/ DryRun
    /\ NextFile
    /\ UNCHANGED <<original, disk, backupDir, manifest, saved, migPc,
                   filesFailed, errors, faults, migExit>> /\ UNCHANGED rbVars /\ UNCHANGED eager

(* The read raises: the error is recorded and the next file is processed. *)
ReadFails ==
    /\ migPc = "run" /\ idx <= N /\ fstep = "read"
    /\ Fail /\ NextFile
    /\ UNCHANGED <<original, disk, backupDir, manifest, saved, migPc, migExit>>
    /\ UNCHANGED rbVars /\ UNCHANGED eager

(* backup_file: copy the original into backup_dir and add it to the       *)
(* in-memory manifest.                                                     *)
BackupFile ==
    /\ migPc = "run" /\ idx <= N /\ fstep = "read"
    /\ Modified(disk[Cur]) /\ ~DryRun
    /\ backupDir' = [backupDir EXCEPT ![Cur] = <<disk[Cur]>>]
    /\ manifest' = Append(manifest, Cur)
    /\ fstep' = "write"
    /\ UNCHANGED <<original, disk, saved, migPc, idx, filesFailed, errors, faults, migExit>>
    /\ UNCHANGED rbVars /\ UNCHANGED eager

BackupFailsStillWrites ==
    /\ migPc = "run" /\ idx <= N /\ fstep = "read"
    /\ Modified(disk[Cur]) /\ ~DryRun
    /\ Fail /\ fstep' = "write"
    /\ UNCHANGED <<original, disk, backupDir, manifest, saved, migPc, idx, migExit>>
    /\ UNCHANGED rbVars /\ UNCHANGED eager

(* Mutant: the manifest entry stored before shutil.copy2, which raises.  *)
BackupFailsAfterManifest ==
    /\ migPc = "run" /\ idx <= N /\ fstep = "read"
    /\ Modified(disk[Cur]) /\ ~DryRun
    /\ Fail /\ NextFile
    /\ manifest' = Append(manifest, Cur)
    /\ UNCHANGED <<original, disk, backupDir, saved, migPc, migExit>>
    /\ UNCHANGED rbVars /\ UNCHANGED eager

(* backup_file raises and returns None: "Failed to backup file", the file *)
(* is not written.                                                         *)
BackupFails ==
    /\ migPc = "run" /\ idx <= N /\ fstep = "read"
    /\ Modified(disk[Cur]) /\ ~DryRun
    /\ Fail /\ NextFile
    /\ UNCHANGED <<original, disk, backupDir, manifest, saved, migPc, migExit>>
    /\ UNCHANGED rbVars /\ UNCHANGED eager

(* open(file_path, 'w') and write the migrated text.                      *)
WriteFile ==
    /\ migPc = "run" /\ fstep = "write"
    /\ disk' = [disk EXCEPT ![Cur] = Migrated(@)]
    /\ fstep' = "validate"
    /\ UNCHANGED <<original, backupDir, manifest, saved, migPc, idx,
                   filesFailed, errors, faults, migExit>> /\ UNCHANGED rbVars /\ UNCHANGED eager

WriteFailsUncounted ==
    /\ migPc = "run" /\ fstep = "write"
    /\ faults < MaxFaults /\ faults' = faults + 1 /\ NextFile
    /\ disk' \in {disk, [disk EXCEPT ![Cur] = Truncated]}
    /\ UNCHANGED <<original, backupDir, manifest, saved, migPc, migExit, filesFailed, errors>>
    /\ UNCHANGED rbVars /\ UNCHANGED eager

(* The open or the write raises; once open() has run, the file is empty.  *)
WriteFails ==
    /\ migPc = "run" /\ fstep = "write"
    /\ Fail /\ NextFile
    /\ disk' \in {disk, [disk EXCEPT ![Cur] = Truncated]}
    /\ UNCHANGED <<original, backupDir, manifest, saved, migPc, migExit>>
    /\ UNCHANGED rbVars /\ UNCHANGED eager

(* validate_migration: re-read the file and record what it still holds.   *)
ValidateFile ==
    /\ migPc = "run" /\ fstep = "validate"
    /\ errors' = IF Issues(disk[Cur]) THEN errors + 1 ELSE errors
    /\ NextFile
    /\ UNCHANGED <<original, disk, backupDir, manifest, saved, migPc,
                   filesFailed, faults, migExit>> /\ UNCHANGED rbVars /\ UNCHANGED eager

(* After the last file: save_manifest (not in a dry run), the report, and *)
(* main's exit(1) when a file failed or an error was recorded.            *)
SaveManifest ==
    /\ migPc = "run" /\ idx > N
    /\ saved' = IF DryRun THEN saved ELSE <<manifest>>
    /\ migPc' = "done"
    /\ migExit' = <<IF filesFailed > 0 \/ errors > 0 THEN 1 ELSE 0>>
    /\ UNCHANGED <<original, disk, backupDir, manifest, idx, fstep,
                   filesFailed, errors, faults>> /\ UNCHANGED rbVars /\ UNCHANGED eager

(* The migrator is killed: what it wrote stays, its memory is lost.       *)
Crash ==
    /\ Crashes /\ migPc = "run"
    /\ migPc' = "crashed"
    /\ UNCHANGED <<original, disk, backupDir, manifest, saved, idx, fstep,
                   filesFailed, errors, faults, migExit>> /\ UNCHANGED rbVars /\ UNCHANGED eager

Migration ==
    SkipFile \/ ReadFails \/ BackupFile \/ BackupFails \/ WriteFile \/ WriteFails
    \/ ValidateFile \/ SaveManifest \/ Crash

-----------------------------------------------------------------------------
(* rollback-migration.py, run without --backup-dir once the migrator has  *)
(* stopped.  There is one backup directory; list_available_backups only   *)
(* returns it when backup_manifest.json exists.                            *)

Loaded == Head(saved)
RbStart == rbPc = "idle" /\ migPc # "run"

(* `Dict` and `List` are not imported: on an eager interpreter defining    *)
(* load_manifest raises NameError and the script dies with status 1.       *)
RollbackNameError ==
    /\ RbStart /\ eager
    /\ rbPc' = "done" /\ rbExit' = <<1>>
    /\ UNCHANGED migVars /\ UNCHANGED <<rbIdx, rbFailed, eager>>

(* "No backups found": main returns, the exit status is 0.                *)
RollbackNoBackup ==
    /\ RbStart /\ ~eager
    /\ saved = PyNone
    /\ rbPc' = "done" /\ rbExit' = <<0>>
    /\ UNCHANGED migVars /\ UNCHANGED <<rbIdx, rbFailed, eager>>

(* "No backup manifest found or manifest is empty": run_rollback returns  *)
(* with files_failed = 0, so the exit status is 0.                        *)
RollbackEmptyManifest ==
    /\ RbStart /\ ~eager
    /\ saved # PyNone /\ Loaded = <<>>
    /\ rbPc' = "done" /\ rbExit' = <<0>>
    /\ UNCHANGED migVars /\ UNCHANGED <<rbIdx, rbFailed, eager>>

RollbackBegin ==
    /\ RbStart /\ ~eager
    /\ saved # PyNone /\ Loaded # <<>>
    /\ rbPc' = "restore"
    /\ UNCHANGED migVars /\ UNCHANGED <<rbIdx, rbFailed, rbExit, eager>>

RestoreFileFirstEntry ==
    /\ rbPc = "restore" /\ rbIdx <= Len(Loaded)
    /\ backupDir[Loaded[rbIdx]] # PyNone
    /\ disk' = [disk EXCEPT ![Loaded[rbIdx]] = Head(backupDir[Loaded[1]])]
    /\ rbIdx' = rbIdx + 1
    /\ UNCHANGED <<original, backupDir, manifest, saved, migPc, idx, fstep,
                   filesFailed, errors, faults, migExit>>
    /\ UNCHANGED <<rbPc, rbFailed, rbExit, eager>>

(* rollback_file: copy the backup over the original.                      *)
RestoreFile ==
    /\ rbPc = "restore" /\ rbIdx <= Len(Loaded)
    /\ backupDir[Loaded[rbIdx]] # PyNone
    /\ disk' = [disk EXCEPT ![Loaded[rbIdx]] = Head(backupDir[Loaded[rbIdx]])]
    /\ rbIdx' = rbIdx + 1
    /\ UNCHANGED <<original, backupDir, manifest, saved, migPc, idx, fstep,
                   filesFailed, errors, faults, migExit>>
    /\ UNCHANGED <<rbPc, rbFailed, rbExit, eager>>

(* copy2 raises; the destination may already have been emptied.          *)
RestoreFails ==
    /\ rbPc = "restore" /\ rbIdx <= Len(Loaded)
    /\ faults < MaxFaults
    /\ faults' = faults + 1
    /\ disk' \in {disk, [disk EXCEPT ![Loaded[rbIdx]] = Truncated]}
    /\ rbFailed' = rbFailed + 1
    /\ rbIdx' = rbIdx + 1
    /\ UNCHANGED <<original, backupDir, manifest, saved, migPc, idx, fstep,
                   filesFailed, errors, migExit>>
    /\ UNCHANGED <<rbPc, rbExit, eager>>

RollbackEndOffByOne ==
    /\ rbPc = "restore" /\ rbIdx > Len(Loaded)
    /\ rbPc' = "done"
    /\ rbExit' = <<IF rbFailed > 1 THEN 1 ELSE 0>>
    /\ UNCHANGED migVars /\ UNCHANGED <<rbIdx, rbFailed, eager>>

(* The report, and exit(1) when a file could not be restored.             *)
RollbackEnd ==
    /\ rbPc = "restore" /\ rbIdx > Len(Loaded)
    /\ rbPc' = "done"
    /\ rbExit' = <<IF rbFailed > 0 THEN 1 ELSE 0>>
    /\ UNCHANGED migVars /\ UNCHANGED <<rbIdx, rbFailed, eager>>

Rollback ==
    RollbackNameError \/ RollbackNoBackup \/ RollbackEmptyManifest \/ RollbackBegin
    \/ RestoreFile \/ RestoreFails \/ RollbackEnd

Next == Migration \/ Rollback

(* The rollback is run after the migrator has stopped.  The properties  *)
(* are safety properties: no fairness is assumed.                          *)
Spec == Init /\ [][Next]_vars

-----------------------------------------------------------------------------
(* The variables' types, and the backup manifest: backup_file stores a    *)
(* file's manifest entry only after shutil.copy2 put its copy in the       *)
(* backup directory, so the manifest names each backed-up file once and   *)
(* nothing else, whatever raised or was killed.                            *)
TypeOK ==
    /\ original \in [Files -> Contents]
    /\ disk \in [Files -> Content \cup {Truncated}]
    /\ \A f \in Files : backupDir[f] \in {PyNone} \cup {<<c>> : c \in Content}
    /\ manifest \in Seq(Files) /\ IsInjective(manifest)
    /\ ToSet(manifest) = {f \in Files : backupDir[f] # PyNone}
    /\ migPc \in {"run", "done", "crashed"} /\ idx \in 1..N + 1
    /\ fstep \in {"read", "write", "validate"}
    /\ rbPc \in {"idle", "restore", "done"} /\ rbIdx \in 1..N + 1
    /\ faults <= MaxFaults

(* Whatever step the migrator or the rollback has reached or died in, a   *)
(* file that no longer holds its original text has a copy of that text in *)
(* the backup directory: backup_file runs before the file is opened for   *)
(* writing, and a failed backup stops the write.                          *)
BackupBeforeWrite ==
    \A f \in Files : disk[f] # original[f] => backupDir[f] = <<original[f]>>

(* When the migrator exits 0, every file is fully migrated (until the     *)
(* rollback runs): none is truncated and none still holds a pattern the   *)
(* migration rewrites or an @Type annotation the validation reports.      *)
MigrationSuccessMeansMigrated ==
    migExit = <<0>> /\ ~DryRun /\ rbPc = "idle" =>
        \A f \in Files : disk[f] # Truncated /\ ~Modified(disk[f]) /\ ~Issues(disk[f])

(* When the migrator exits 0, every file it left compiles: a file given   *)
(* @JdbcTypeCode(SqlTypes.JSON) imports JdbcTypeCode and SqlTypes.        *)
MigrationSuccessMeansCompilable ==
    migExit = <<0>> /\ rbPc = "idle" => \A f \in Files : disk[f] # Truncated /\ disk[f].type = "jdbc" => disk[f].hib

(* When the rollback exits 0, every file holds its text from before the   *)
(* migration again.                                                        *)
RollbackSuccessMeansRestored ==
    rbExit = <<0>> => disk = original

(* Once the migrator has saved its manifest, a rollback that exits 0 has  *)
(* copied every backup back: each file holds its text from before the     *)
(* migration, whatever failed on the way.                                  *)
RollbackWithManifestRestores ==
    rbExit = <<0>> /\ saved # PyNone => disk = original

(* The two scripts implement MigratedFiles: a backup directory holds a    *)
(* file once it was copied there, and the migrator is running until it    *)
(* saved its manifest or was killed.                                       *)
Promise == INSTANCE MigratedFiles
            WITH Migrate <- Migrated, Empty <- Truncated,
                 backed <- {f \in Files : backupDir[f] # PyNone},
                 migrating <- (migPc = "run")

(* Whatever fails and wherever the migrator is killed, a file is only ever *)
(* rewritten once, from its original text and after its backup, by        *)
(* migrate_file, and only ever restored to that original text, after the  *)
(* migrator stopped, by rollback_file: the scripts implement the per-file *)
(* promise of MigratedFiles.                                               *)
MigrationRefinesFiles == Promise!Spec
====
