---------------------------- MODULE BackupRestore ----------------------------
(***************************************************************************)
(* backup_databases and restore_databases (ops/backup.py), file by file,   *)
(* with the crash of either command at any point, bit rot in the backups   *)
(* and services that write to the restored databases.                      *)
(*                                                                         *)
(* One restore runs at a time, as the runbook asks; two would share the    *)
(* temporary directory of the generation.  A hash stands for the bytes it  *)
(* is of; the generation id holds the creation time and is the number of   *)
(* the backup.                                                             *)
(***************************************************************************)
EXTENDS Integers, FiniteSets, Functions, Tables

CONSTANTS
    Stores,             \* the databases of a backup
    Written, Rot,       \* bytes after a service's write, and rotten bytes
    MaxBackups,         \* bound: backups begun
    MaxWrites,          \* bound: writes to the live databases, and rot
    MaxBackupCrashes    \* bound: crashes

ASSUME BackupAssumption ==
    Written \notin Nat /\ Rot \notin Nat /\ {MaxBackups, MaxWrites, MaxBackupCrashes} \subseteq Nat

VARIABLES
    live,               \* the databases in use when backups are taken
    backups,            \* number -> directory: files and manifest
    taking,             \* the running backup, 0 for none
    generations,        \* id -> installed directory
    temporary,          \* id -> .restore-tmp directory
    current,            \* the generation CURRENT links to, 0 for none
    restore,            \* the running restore: step, id, files left
    taken,              \* history: the contents of every finished backup
    writes, backupCrashes

backupVars == <<live, backups, taking, generations, temporary, current, restore, taken,
                writes, backupCrashes>>

NoManifest == <<>>
NoRestore == [step |-> "idle", id |-> 0, todo |-> {}]
NewDirectory == [files |-> <<>>, manifest |-> NoManifest]

BackupInit ==
    /\ live = [s \in Stores |-> 0]
    /\ backups = <<>> /\ generations = <<>> /\ temporary = <<>>
    /\ taking = 0 /\ current = 0
    /\ restore = NoRestore
    /\ taken = {}
    /\ writes = 0 /\ backupCrashes = 0

-----------------------------------------------------------------------------
(* backup_databases                                                        *)

write_live(s) ==
    /\ writes < MaxWrites
    /\ writes' = writes + 1
    /\ live' = [live EXCEPT ![s] = @ + 1]
    /\ UNCHANGED <<backups, taking, generations, temporary, current, restore, taken,
                   backupCrashes>>

\* The destination must not exist; a retry after a crash takes another one.
begin_backup ==
    LET n == Cardinality(DOMAIN backups) + 1 IN
    /\ taking = 0 /\ n <= MaxBackups
    /\ taking' = n
    /\ backups' = put(backups, n, NewDirectory)
    /\ UNCHANGED <<live, generations, temporary, current, restore, taken, writes, backupCrashes>>

\* The online backup of one store; the stores are copied one after another.
backup_store(s) ==
    /\ taking # 0 /\ s \notin DOMAIN backups[taking].files
    /\ backups' = [backups EXCEPT ![taking].files = put(@, s, live[s])]
    /\ UNCHANGED <<live, taking, generations, temporary, current, restore, taken, writes,
                   backupCrashes>>

all_copied(n) == DOMAIN backups[n].files = Stores

write_manifest ==
    /\ taking # 0 /\ all_copied(taking)
    /\ backups' = [backups EXCEPT ![taking].manifest = backups[taking].files]
    /\ taken' = taken \union {backups[taking].files}
    /\ taking' = 0
    /\ UNCHANGED <<live, generations, temporary, current, restore, writes, backupCrashes>>

crash_backup ==
    /\ taking # 0 /\ backupCrashes < MaxBackupCrashes
    /\ taking' = 0
    /\ backupCrashes' = backupCrashes + 1
    /\ UNCHANGED <<live, backups, generations, temporary, current, restore, taken, writes>>

\* External: a file of a finished backup decays while no restore reads it.
rot(n, s) ==
    /\ restore = NoRestore /\ writes < MaxWrites
    /\ backups[n].manifest # NoManifest /\ backups[n].files[s] # Rot
    /\ writes' = writes + 1
    /\ backups' = [backups EXCEPT ![n].files[s] = Rot]
    /\ UNCHANGED <<live, taking, generations, temporary, current, restore, taken, backupCrashes>>

-----------------------------------------------------------------------------
(* restore_databases                                                       *)

\* Mutant: the hashes of the files are not compared.
validated_manifest_only(d) == d.manifest # NoManifest

\* _validated_manifest: every file has the hash the manifest gives for it.
validated(d) == d.manifest # NoManifest /\ d.files = d.manifest

\* "existing generation is not the requested complete generation"
installable(id) ==
    id \in DOMAIN generations =>
      validated(generations[id]) /\ generations[id].manifest = backups[id].manifest

\* The calls that raise or return at once change nothing and are left out: a manifest
\* that does not verify, CURRENT without overwrite, a generation already current.
begin_restore(id, overwrite) ==
    /\ restore = NoRestore
    /\ validated(backups[id])
    /\ current = 0 \/ overwrite
    /\ installable(id)
    /\ ~(id \in DOMAIN generations /\ current = id)
    /\ IF id \in DOMAIN generations
       THEN /\ restore' = [step |-> "link", id |-> id, todo |-> {}]
            /\ UNCHANGED temporary
       ELSE /\ restore' = [step |-> "copy", id |-> id, todo |-> Stores]
            /\ temporary' = put(temporary, id, NewDirectory)
    /\ UNCHANGED <<live, backups, taking, generations, current, taken, writes, backupCrashes>>

copy_file(s) ==
    /\ restore.step = "copy" /\ s \in restore.todo
    /\ temporary' = [temporary EXCEPT ![restore.id].files =
                       put(@, s, backups[restore.id].files[s])]
    /\ restore' = [restore EXCEPT !.todo = @ \ {s}]
    /\ UNCHANGED <<live, backups, taking, generations, current, taken, writes, backupCrashes>>

\* An exception removes the temporary directory.
restore_fails ==
    /\ restore.step \in {"copy", "rename"}
    /\ temporary' = Restrict(temporary, DOMAIN temporary \ {restore.id})
    /\ restore' = NoRestore
    /\ UNCHANGED <<live, backups, taking, generations, current, taken, writes, backupCrashes>>

copy_manifest ==
    /\ restore.step = "copy" /\ restore.todo = {}
    /\ temporary' = [temporary EXCEPT ![restore.id].manifest = backups[restore.id].manifest]
    /\ restore' = [restore EXCEPT !.step = "rename"]
    /\ UNCHANGED <<live, backups, taking, generations, current, taken, writes, backupCrashes>>

rename_generation ==
    /\ restore.step = "rename"
    /\ generations' = put(generations, restore.id, temporary[restore.id])
    /\ temporary' = Restrict(temporary, DOMAIN temporary \ {restore.id})
    /\ restore' = [restore EXCEPT !.step = "link"]
    /\ UNCHANGED <<live, backups, taking, current, taken, writes, backupCrashes>>

\* A new symbolic link replaces CURRENT in one step.
switch_current ==
    /\ restore.step = "link"
    /\ current' = restore.id
    /\ restore' = NoRestore
    /\ UNCHANGED <<live, backups, taking, generations, temporary, taken, writes, backupCrashes>>

crash_restore ==
    /\ restore # NoRestore /\ backupCrashes < MaxBackupCrashes
    /\ restore' = NoRestore
    /\ backupCrashes' = backupCrashes + 1
    /\ UNCHANGED <<live, backups, taking, generations, temporary, current, taken, writes>>

\* Services run on the generation CURRENT resolves to.
serve(s) ==
    /\ current # 0
    /\ generations' = [generations EXCEPT ![current].files[s] = Written]
    /\ UNCHANGED <<live, backups, taking, temporary, current, restore, taken, writes,
                   backupCrashes>>

BackupNext ==
    \/ begin_backup \/ write_manifest \/ crash_backup
    \/ \E s \in Stores :
         \/ write_live(s) \/ backup_store(s) \/ copy_file(s) \/ serve(s)
         \/ \E n \in DOMAIN backups : rot(n, s)
    \/ \E id \in DOMAIN backups, overwrite \in BOOLEAN : begin_restore(id, overwrite)
    \/ restore_fails \/ copy_manifest \/ rename_generation \/ switch_current \/ crash_restore

BackupSpec == BackupInit /\ [][BackupNext]_backupVars

-----------------------------------------------------------------------------
(* Properties                                                              *)

served == IF current = 0 THEN <<>> ELSE generations[current].files

Abstract == INSTANCE AtomicRestore WITH whole <- taken, serving <- served

\* restore_databases implements the promise: at every moment CURRENT resolves to the
\* complete contents of one finished backup, plus the services' writes, and goes from one
\* to the next in a single step, whatever crashes, retries and rotten backups come
\* between.
RestoreIsAtomic == Abstract!RestoreSpec
=============================================================================
