--------------------------- MODULE MigratedFiles ---------------------------
(***************************************************************************)
(* What the Spring Boot 3 migration and its rollback promise a Java file, *)
(* whatever the order of their steps and wherever they fail: while the    *)
(* migrator runs, a file is copied to the backup and then, once, replaced *)
(* by its migration (or emptied by a failed write); after the migrator    *)
(* has stopped, a backed-up file may be put back to its original text (or *)
(* emptied by a failed copy).  Nothing else ever writes a file.           *)
(***************************************************************************)
CONSTANTS
    Files,       \* the Java files
    Contents,    \* the texts a file may hold before the migration
    Migrate(_),  \* the migrated text of a file
    Empty        \* a file left empty by a failed write

VARIABLES
    original,    \* each file's text before the migration
    disk,        \* each file's text now
    backed,      \* the files with a copy of their original in the backup
    migrating    \* the migrator has not stopped

vars == <<original, disk, backed, migrating>>

Init ==
    /\ original \in [Files -> Contents]
    /\ disk = original
    /\ backed = {}
    /\ migrating = TRUE

Backup(f) ==
    /\ migrating /\ f \notin backed /\ disk[f] = original[f]
    /\ backed' = backed \cup {f}
    /\ UNCHANGED <<original, disk, migrating>>

\* a backed-up file still holding its original text is rewritten
Rewrite(f) ==
    /\ migrating /\ f \in backed /\ disk[f] = original[f]
    /\ disk' = [disk EXCEPT ![f] = Migrate(original[f])] \/ disk' = [disk EXCEPT ![f] = Empty]
    /\ UNCHANGED <<original, backed, migrating>>

Stop ==
    /\ migrating /\ migrating' = FALSE
    /\ UNCHANGED <<original, disk, backed>>

\* the original text of a backed-up file is copied back
Restore(f) ==
    /\ ~migrating /\ f \in backed
    /\ disk' = [disk EXCEPT ![f] = original[f]] \/ disk' = [disk EXCEPT ![f] = Empty]
    /\ UNCHANGED <<original, backed, migrating>>

Next == Stop \/ \E f \in Files : Backup(f) \/ Rewrite(f) \/ Restore(f)

Spec == Init /\ [][Next]_vars
=============================================================================
