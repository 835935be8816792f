----------------------------- MODULE ServerData -----------------------------
(***************************************************************************)
(* The server's data directory, the server that writes it, and the         *)
(* maintenance commands --backup and --restore.  The directory holds the   *)
(* database, its write-ahead log (one name for the -wal and -shm files),   *)
(* the vault and the vault's backup copy.  A database is abstracted to the *)
(* objects it has a record of, a vault to the objects it has a secret of.  *)
(*                                                                         *)
(* The server and the commands exclude each other by a file lock that ends *)
(* with the process.  A restore is modelled file by file: each step may    *)
(* fail, and the process may be stopped between any two.                   *)
(***************************************************************************)
EXTENDS Naturals, Sequences, FiniteSets

CONSTANTS BkObjects,     \* sources, accounts, keys and proxies
          BkMaxOps,      \* bound: changes the server makes
          BkMaxFaults,   \* bound: failing file operations
          BkMaxCrashes,  \* bound: processes stopped
          BkMaxJobs      \* bound: backups and restores

VARIABLES bkFile,      \* the files of the data directory
          bkMoved,     \* their .pre-restore-* copies
          bkHolder,    \* who holds server.lock
          bkBackup,    \* the backup taken: {} or one pair
          bkJob,       \* the restore in progress
          bkIds,       \* database identities given out
          bkCut,       \* ghost: a restore was stopped half way, or its rollback failed
          bkSpent

bkVars == <<bkFile, bkMoved, bkHolder, bkBackup, bkJob, bkIds, bkCut, bkSpent>>

BkNames == {"db", "wal", "vault", "bak"}
\* Contents are {} for an absent file, or one record; id says which database a log belongs to.
BkGone == {}
BkDb(i, s) == {[id |-> i, objects |-> s]}
BkVault(s) == {[id |-> 0, objects |-> s]}
BkOf(c) == UNION {x.objects : x \in c}
BkNoJob == [pc |-> "idle", at |-> 1, moved |-> <<>>, installed |-> <<>>,
            before |-> [f \in BkNames |-> BkGone]]

BkInit ==
    /\ bkFile = [f \in BkNames |-> BkGone]
    /\ bkMoved = [f \in BkNames |-> BkGone]
    /\ bkHolder = "none"
    /\ bkBackup = {}
    /\ bkJob = BkNoJob
    /\ bkIds = 0
    /\ bkCut = FALSE
    /\ bkSpent = [ops |-> 0, faults |-> 0, crashes |-> 0, jobs |-> 0]

BkDo(what) == bkSpent' = [bkSpent EXCEPT ![what] = @ + 1]

\* What opening the database reads: a log counts only beside the database it was written for.
BkRecords(files) ==
    IF \E w \in files["wal"], d \in files["db"] : w.id = d.id
    THEN BkOf(files["wal"]) ELSE BkOf(files["db"])
\* What opening the vault reads: the backup copy stands in for a missing file.
BkVaulted(files) == IF files["vault"] = BkGone THEN files["bak"] ELSE files["vault"]
BkRecovered(files) ==
    IF files["vault"] = BkGone
    THEN [files EXCEPT !["vault"] = files["bak"], !["bak"] = BkGone] ELSE files

\* Store::open creates the database where there is none.
BkNew == IF bkFile["db"] = BkGone THEN 1 ELSE 0
BkOpened ==
    [BkRecovered(bkFile) EXCEPT !["db"] = IF BkNew = 1 THEN BkDb(bkIds + 1, {}) ELSE @]

\* Closing the database writes the log back.
BkClosed(files) ==
    [files EXCEPT !["db"] = {[d EXCEPT !.objects = BkRecords(files)] : d \in files["db"]},
                  !["wal"] = BkGone]

\* validate_store_secrets: every record's secret is in the vault.
BkValid(records, secrets) == records \subseteq secrets

----------------------------------------------------------------------------
(* The server.                                                             *)

BkStart ==
    /\ bkHolder = "none"
    /\ bkHolder' = "server"
    /\ bkIds' = bkIds + BkNew
    /\ bkFile' = BkOpened
    /\ UNCHANGED <<bkMoved, bkBackup, bkJob, bkCut, bkSpent>>

\* A new object: its secret is saved before its record is written.
BkSaveSecret(o) ==
    /\ bkHolder = "server" /\ bkSpent.ops < BkMaxOps /\ BkDo("ops")
    /\ o \notin BkOf(bkFile["vault"])
    /\ bkFile' = [bkFile EXCEPT !["vault"] = BkVault(BkOf(@) \cup {o}), !["bak"] = BkGone]
    /\ UNCHANGED <<bkMoved, bkHolder, bkBackup, bkJob, bkIds, bkCut>>

BkWriteRecords(s) ==
    bkFile' = [bkFile EXCEPT !["wal"] = {[id |-> d.id, objects |-> s] : d \in bkFile["db"]}]

BkAddRecord(o) ==
    /\ bkHolder = "server" /\ bkSpent.ops < BkMaxOps /\ BkDo("ops")
    /\ o \in BkOf(bkFile["vault"]) \ BkRecords(bkFile)
    /\ BkWriteRecords(BkRecords(bkFile) \cup {o})
    /\ UNCHANGED <<bkMoved, bkHolder, bkBackup, bkJob, bkIds, bkCut>>

\* An object goes: its record first, then its secret.
BkDropRecord(o) ==
    /\ bkHolder = "server" /\ bkSpent.ops < BkMaxOps /\ BkDo("ops")
    /\ o \in BkRecords(bkFile)
    /\ BkWriteRecords(BkRecords(bkFile) \ {o})
    /\ UNCHANGED <<bkMoved, bkHolder, bkBackup, bkJob, bkIds, bkCut>>

BkDropSecret(o) ==
    /\ bkHolder = "server" /\ bkSpent.ops < BkMaxOps /\ BkDo("ops")
    /\ o \in BkOf(bkFile["vault"]) \ BkRecords(bkFile)
    /\ bkFile' = [bkFile EXCEPT !["vault"] = BkVault(BkOf(@) \ {o}), !["bak"] = BkGone]
    /\ UNCHANGED <<bkMoved, bkHolder, bkBackup, bkJob, bkIds, bkCut>>

BkStopServer ==
    /\ bkHolder = "server"
    /\ bkHolder' = "none"
    /\ bkFile' = BkClosed(bkFile)
    /\ UNCHANGED <<bkMoved, bkBackup, bkJob, bkIds, bkCut, bkSpent>>

\* The server is stopped hard: the log stays, and a save of the vault may be cut after its first rename.
BkCrashServer ==
    /\ bkHolder = "server" /\ bkSpent.crashes < BkMaxCrashes /\ BkDo("crashes")
    /\ bkHolder' = "none"
    /\ \/ UNCHANGED bkFile
       \/ /\ bkFile["vault"] # BkGone
          /\ bkFile' = [bkFile EXCEPT !["bak"] = bkFile["vault"], !["vault"] = BkGone]
    /\ UNCHANGED <<bkMoved, bkBackup, bkJob, bkIds, bkCut>>

----------------------------------------------------------------------------
(* --backup: staged beside the destination and renamed when it is valid.   *)
(* The lock is held throughout and nobody sees the staging directory, so   *)
(* the command is one step.                                                *)
TakeBackup ==
    /\ bkHolder = "none" /\ bkSpent.jobs < BkMaxJobs /\ BkDo("jobs")
    /\ bkBackup = {}
    /\ bkIds' = bkIds + BkNew
    /\ bkFile' = BkClosed(BkOpened)
    /\ bkBackup' = IF BkValid(BkRecords(bkFile), BkOf(BkVaulted(bkFile)))
                   THEN {[records |-> BkRecords(bkFile), vault |-> BkVaulted(bkFile)]} ELSE {}
    /\ UNCHANGED <<bkMoved, bkHolder, bkJob, bkCut>>

----------------------------------------------------------------------------
(* --restore.                                                              *)

\* Mutation: the vault's backup copy is not among the targets.
TargetsWithoutBak == <<"db", "wal", "vault">>
\* The files activate_restore replaces, in its order; only two of them come from the backup.
ActivateTargets == <<"db", "wal", "vault", "bak">>

BkStaged(f) ==
    CASE f = "db" -> UNION {BkDb(bkIds, b.records) : b \in bkBackup}
      [] f = "vault" -> UNION {b.vault : b \in bkBackup}
      [] OTHER -> BkGone

\* The backup is copied and validated before a file of the directory is touched.
StageRestore ==
    /\ bkHolder = "none" /\ bkSpent.jobs < BkMaxJobs /\ BkDo("jobs")
    /\ \E b \in bkBackup : BkValid(b.records, BkOf(b.vault))
    /\ bkHolder' = "restore"
    /\ bkIds' = bkIds + 1
    /\ bkJob' = [BkNoJob EXCEPT !.pc = "move", !.before = bkFile]
    /\ UNCHANGED <<bkFile, bkMoved, bkBackup, bkCut>>

BkGoto(pc) == bkJob' = [bkJob EXCEPT !.pc = pc, !.at = 1]
BkCanFail == bkSpent.faults < BkMaxFaults
BkTarget == ActivateTargets[bkJob.at]
BkMovedNames == {bkJob.moved[i] : i \in DOMAIN bkJob.moved}

\* Each existing target is renamed to a .pre-restore-* sibling.
MoveTarget ==
    /\ bkJob.pc = "move" /\ bkJob.at <= Len(ActivateTargets)
    /\ LET there == bkFile[BkTarget] # BkGone IN
         /\ bkFile' = [bkFile EXCEPT ![BkTarget] = BkGone]
         /\ bkMoved' = IF there THEN [bkMoved EXCEPT ![BkTarget] = bkFile[BkTarget]] ELSE bkMoved
         /\ bkJob' = [bkJob EXCEPT !.at = @ + 1,
                                   !.moved = IF there THEN Append(@, BkTarget) ELSE @]
    /\ UNCHANGED <<bkHolder, bkBackup, bkIds, bkCut, bkSpent>>

MovedAll ==
    /\ bkJob.pc = "move" /\ bkJob.at > Len(ActivateTargets)
    /\ BkGoto("install")
    /\ UNCHANGED <<bkFile, bkMoved, bkHolder, bkBackup, bkIds, bkCut, bkSpent>>

\* The staged files are renamed into place.
InstallTarget ==
    /\ bkJob.pc = "install" /\ bkJob.at <= Len(ActivateTargets)
    /\ LET staged == BkStaged(BkTarget) IN
         /\ bkFile' = IF staged = BkGone THEN bkFile ELSE [bkFile EXCEPT ![BkTarget] = staged]
         /\ bkJob' = [bkJob EXCEPT !.at = @ + 1,
                        !.installed = IF staged = BkGone THEN @ ELSE Append(@, BkTarget)]
    /\ UNCHANGED <<bkMoved, bkHolder, bkBackup, bkIds, bkCut, bkSpent>>

\* The moved files are deleted, a failure to do so being overlooked.
InstalledAll ==
    /\ bkJob.pc = "install" /\ bkJob.at > Len(ActivateTargets)
    /\ BkGoto("ok")
    /\ bkMoved' = [f \in BkNames |-> IF f \in BkMovedNames THEN BkGone ELSE bkMoved[f]]
    /\ UNCHANGED <<bkFile, bkHolder, bkBackup, bkIds, bkCut, bkSpent>>

\* A rename fails: what was installed is removed, what was moved goes back.
ActivateFails ==
    /\ bkJob.pc \in {"move", "install"} /\ bkJob.at <= Len(ActivateTargets)
    /\ BkCanFail /\ BkDo("faults")
    /\ bkJob.pc = "move" => bkFile[BkTarget] # BkGone
    /\ bkJob.pc = "install" => BkStaged(BkTarget) # BkGone
    /\ BkGoto("uninstall")
    /\ UNCHANGED <<bkFile, bkMoved, bkHolder, bkBackup, bkIds, bkCut>>

BkLast(s) == s[Len(s)]
BkFront(s) == SubSeq(s, 1, Len(s) - 1)

\* A removal that fails is overlooked; the rename that follows replaces the file.
RemoveInstalled ==
    /\ bkJob.pc = "uninstall" /\ bkJob.installed # <<>>
    /\ \/ bkFile' = [bkFile EXCEPT ![BkLast(bkJob.installed)] = BkGone] /\ UNCHANGED <<bkCut, bkSpent>>
       \/ /\ BkCanFail /\ BkDo("faults") /\ UNCHANGED bkFile
          /\ bkCut' = (bkCut \/ BkLast(bkJob.installed) \notin BkMovedNames)
    /\ bkJob' = [bkJob EXCEPT !.installed = BkFront(@)]
    /\ UNCHANGED <<bkMoved, bkHolder, bkBackup, bkIds>>

RenameBack ==
    /\ bkJob.pc = "uninstall" /\ bkJob.installed = <<>> /\ bkJob.moved # <<>>
    /\ LET f == BkLast(bkJob.moved) IN
         \/ /\ bkFile' = [bkFile EXCEPT ![f] = bkMoved[f]]
            /\ bkMoved' = [bkMoved EXCEPT ![f] = BkGone]
            /\ UNCHANGED <<bkCut, bkSpent>>
         \/ BkCanFail /\ BkDo("faults") /\ bkCut' = TRUE /\ UNCHANGED <<bkFile, bkMoved>>
    /\ bkJob' = [bkJob EXCEPT !.moved = BkFront(@)]
    /\ UNCHANGED <<bkHolder, bkBackup, bkIds>>

RolledBack ==
    /\ bkJob.pc = "uninstall" /\ bkJob.installed = <<>> /\ bkJob.moved = <<>>
    /\ BkGoto("failed")
    /\ UNCHANGED <<bkFile, bkMoved, bkHolder, bkBackup, bkIds, bkCut, bkSpent>>

\* The command ends and with it the lock.
BkExit ==
    /\ bkJob.pc \in {"ok", "failed"}
    /\ bkJob' = BkNoJob
    /\ bkHolder' = "none"
    /\ UNCHANGED <<bkFile, bkMoved, bkBackup, bkIds, bkCut, bkSpent>>

\* The command is stopped between two files; nothing takes the .pre-restore-* files up again.
BkCrashRestore ==
    /\ bkJob.pc \in {"move", "install", "uninstall"}
    /\ bkSpent.crashes < BkMaxCrashes /\ BkDo("crashes")
    /\ bkJob' = BkNoJob
    /\ bkHolder' = "none"
    /\ bkCut' = (bkCut \/ bkFile # bkJob.before)
    /\ UNCHANGED <<bkFile, bkMoved, bkBackup, bkIds>>

BkNext ==
    \/ BkStart \/ BkStopServer \/ BkCrashServer \/ TakeBackup
    \/ \E o \in BkObjects : BkSaveSecret(o) \/ BkAddRecord(o) \/ BkDropRecord(o) \/ BkDropSecret(o)
    \/ StageRestore \/ MoveTarget \/ MovedAll \/ InstallTarget \/ InstalledAll
    \/ ActivateFails \/ RemoveInstalled \/ RenameBack \/ RolledBack \/ BkExit \/ BkCrashRestore

----------------------------------------------------------------------------
BkContents == {BkGone} \cup {BkDb(i, s) : i \in 0..bkIds, s \in SUBSET BkObjects}

BkTypeOK ==
    /\ bkFile \in [BkNames -> BkContents] /\ bkMoved \in [BkNames -> BkContents]
    /\ bkHolder \in {"none", "server", "restore"}
    /\ bkJob.pc \in {"idle", "move", "install", "uninstall", "ok", "failed"}
    /\ (bkHolder = "restore") = (bkJob.pc # "idle")

(***************************************************************************)
(* A restore that reports success leaves exactly the backup's records and  *)
(* secrets to be read, whatever log, vault or vault copy an earlier stop   *)
(* of the server had left; one that reports an error leaves every file as  *)
(* it was (activate_restore, rollback_restore), unless the rollback itself *)
(* met a failing rename.                                                   *)
(***************************************************************************)
RestoreAllOrNothing ==
    /\ bkJob.pc = "ok" =>
         \E b \in bkBackup : BkRecords(bkFile) = b.records /\ BkOf(BkVaulted(bkFile)) = BkOf(b.vault)
    /\ (bkJob.pc = "failed" /\ ~bkCut) => bkFile = bkJob.before

(***************************************************************************)
(* Until the last staged file is in place every file the directory had is  *)
(* still in it or among the .pre-restore-* copies, also where the command  *)
(* was stopped half way: an operator can put the old data back by hand.    *)
(***************************************************************************)
OldFilesAreKept ==
    bkJob.pc \in {"move", "install", "uninstall", "failed"} =>
       \A f \in BkNames : bkJob.before[f] \in {bkFile[f], bkMoved[f]}

(***************************************************************************)
(* The server never runs on a record whose secret the vault lacks: saves   *)
(* put the secret first, deletions the record first, and a backup or a     *)
(* restore takes both from one moment.  A restore stopped between the      *)
(* database and the vault is the exception the code does not recover from. *)
(***************************************************************************)
RecordsHaveSecrets ==
    (bkHolder = "server" /\ ~bkCut) => BkRecords(bkFile) \subseteq BkOf(BkVaulted(bkFile))

-----------------------------------------------------------------------------
(***************************************************************************)
(* Opening the server's database: recovery of an interrupted migration,    *)
(* the pre-migration backup and its marker, the migrations one transaction *)
(* each, and the end of the migration.  Between two starts the operator    *)
(* may install a newer server.                                             *)
(*                                                                         *)
(* A database is its schema version and the state of its data; log says    *)
(* that part of it is still in the write-ahead log beside the file.  Each  *)
(* step may fail, which ends the start with an error, and the process may  *)
(* be stopped between any two.                                             *)
(***************************************************************************)

CONSTANTS SmTop,         \* the newest schema version a server is built for
          SmMaxWrites,   \* bound: changes the running server makes
          SmMaxStops     \* bound: stops and failing steps

ASSUME SmAssumption == SmTop \in Nat \ {0}

VARIABLES smSchema,    \* SERVER_SCHEMA_VERSION of the installed server
          smDb,        \* relay.sqlite: {} or its content
          smBackup,    \* relay.sqlite.pre-migration
          smTemp,      \* relay.sqlite.migration-restore.tmp
          smFailed,    \* relay.sqlite.failed-migration
          smMarker,    \* .migration-in-progress: {}, {torn} or {<<from, to>>}
          smOpen,      \* the start in progress, or the running server
          smData,      \* ghost: the data as last written by a running server
          smSpent

smVars == <<smSchema, smDb, smBackup, smTemp, smFailed, smMarker, smOpen, smData, smSpent>>

\* The registry: consecutive versions up to the one the server is built for.
SmMigrations == 1..smSchema

SmContent(v, d, l) == {[version |-> v, data |-> d, log |-> l]}
SmContents == [version : 0..SmTop, data : 0..SmMaxWrites, log : BOOLEAN]
SmTorn == <<0, 0>>
SmDown == [pc |-> "down"]

SmInit ==
    /\ smSchema \in 1..SmTop
    /\ smDb = {} /\ smBackup = {} /\ smTemp = {} /\ smFailed = {} /\ smMarker = {}
    /\ smOpen = SmDown
    /\ smData = 0
    /\ smSpent = [writes |-> 0, stops |-> 0]

SmAt(pc) == smOpen.pc = pc
SmGoto(pc) == smOpen' = [smOpen EXCEPT !.pc = pc]
SmFiles == <<smDb, smBackup, smTemp, smFailed, smMarker>>
SmRest == <<smSchema, smData, smSpent>>
\* read_schema_version: 0 for an empty database.
SmVersion == IF smDb = {} THEN 0 ELSE (CHOOSE x \in smDb : TRUE).version
\* Files carry no log of their own once copied.
SmCopy(c) == {[x EXCEPT !.log = FALSE] : x \in c}

----------------------------------------------------------------------------
(* recover_interrupted_migration.                                          *)

StartServer ==
    /\ SmAt("down")
    /\ SmGoto(IF smMarker = {} THEN "open" ELSE "recover")
    /\ UNCHANGED <<SmFiles, SmRest>>

\* The marker must be readable, name this server's version and match the backup.
SmRecoverable ==
    \E mk \in smMarker, b \in smBackup :
       mk # SmTorn /\ mk[2] = smSchema /\ mk[1] < mk[2] /\ b.version = mk[1]

RecoverChecks ==
    /\ SmAt("recover")
    /\ SmGoto(IF SmRecoverable THEN "copy" ELSE "refused")
    /\ UNCHANGED <<SmFiles, SmRest>>

\* restore_database_file: clear leftovers and copy the backup, drop the log, move the database aside, install.
CopyBackup ==
    /\ SmAt("copy")
    /\ smTemp' = SmCopy(smBackup) /\ smFailed' = {}
    /\ SmGoto("log")
    /\ UNCHANGED <<smDb, smBackup, smMarker, SmRest>>

DropLog ==
    /\ SmAt("log")
    /\ smDb' = {[x EXCEPT !.log = FALSE, !.data = IF x.log THEN 0 ELSE @] : x \in smDb}
    /\ SmGoto("aside")
    /\ UNCHANGED <<smBackup, smTemp, smFailed, smMarker, SmRest>>

SetAside ==
    /\ SmAt("aside")
    /\ smFailed' = smDb /\ smDb' = {}
    /\ SmGoto("install")
    /\ UNCHANGED <<smBackup, smTemp, smMarker, SmRest>>

InstallBackup ==
    /\ SmAt("install")
    /\ smDb' = smTemp /\ smTemp' = {} /\ smFailed' = {}
    /\ SmGoto("unmark")
    /\ UNCHANGED <<smBackup, smMarker, SmRest>>

\* The rename fails: the database set aside is put back and the start ends in an error.
InstallBackupFails ==
    /\ SmAt("install") /\ smSpent.stops < SmMaxStops
    /\ smDb' = smFailed /\ smFailed' = {}
    /\ smSpent' = [smSpent EXCEPT !.stops = @ + 1]
    /\ smOpen' = SmDown
    /\ UNCHANGED <<smSchema, smBackup, smTemp, smMarker, smData>>

RemoveMarker ==
    /\ SmAt("unmark")
    /\ smMarker' = {}
    /\ SmGoto("open")
    /\ UNCHANGED <<smDb, smBackup, smTemp, smFailed, SmRest>>

----------------------------------------------------------------------------
(* Store::open and the migrations.                                         *)

\* The database is created when missing, and then needs no backup; one of a newer server is refused.
OpenDatabase ==
    /\ SmAt("open")
    /\ smDb' = IF smDb = {} THEN SmContent(0, 0, FALSE) ELSE smDb
    /\ SmGoto(CASE SmVersion > smSchema -> "refused"
               [] SmVersion = smSchema -> "running"
               [] SmVersion = 0 -> "migrate"
               [] OTHER -> "backup")
    /\ UNCHANGED <<smBackup, smTemp, smFailed, smMarker, SmRest>>

\* prepare_migration_backup: the old backup goes, a synced and checked copy is made, then the marker.
DropOldBackup ==
    /\ SmAt("backup")
    /\ smBackup' = {}
    /\ SmGoto("save")
    /\ UNCHANGED <<smDb, smTemp, smFailed, smMarker, SmRest>>

SaveBackup ==
    /\ SmAt("save")
    /\ smBackup' = SmCopy(smDb)
    /\ SmGoto("mark")
    /\ UNCHANGED <<smDb, smTemp, smFailed, smMarker, SmRest>>

\* The marker is created empty and then written.
CreateMarker ==
    /\ SmAt("mark")
    /\ smMarker' = {SmTorn}
    /\ SmGoto("write")
    /\ UNCHANGED <<smDb, smBackup, smTemp, smFailed, SmRest>>

WriteMarker ==
    /\ SmAt("write")
    /\ smMarker' = {<<SmVersion, smSchema>>}
    /\ SmGoto("migrate")
    /\ UNCHANGED <<smDb, smBackup, smTemp, smFailed, SmRest>>

\* apply_migrations: each migration and its version are one transaction.
ApplyMigration ==
    /\ SmAt("migrate")
    /\ SmVersion < smSchema
    /\ smDb' = {[x EXCEPT !.version = CHOOSE v \in SmMigrations :
                      v > x.version /\ \A w \in SmMigrations : w > x.version => v <= w] : x \in smDb}
    /\ UNCHANGED <<smOpen, smBackup, smTemp, smFailed, smMarker, SmRest>>

\* Mutation: the marker stays.
MarkerKept ==
    /\ SmAt("migrate") /\ SmVersion = smSchema
    /\ SmGoto("running")
    /\ UNCHANGED <<SmFiles, SmRest>>
\* finish_migration removes the marker; the ledger is then complete and the store in use.
FinishMigration ==
    /\ SmAt("migrate") /\ SmVersion = smSchema
    /\ smMarker' = {}
    /\ SmGoto("running")
    /\ UNCHANGED <<smDb, smBackup, smTemp, smFailed, SmRest>>

----------------------------------------------------------------------------
(* The running server, stops and upgrades.                                 *)

ServerWrites ==
    /\ SmAt("running") /\ smSpent.writes < SmMaxWrites
    /\ smSpent' = [smSpent EXCEPT !.writes = @ + 1]
    /\ smDb' = {[x EXCEPT !.data = smSpent.writes + 1, !.log = TRUE] : x \in smDb}
    /\ smData' = smSpent.writes + 1
    /\ UNCHANGED <<smSchema, smBackup, smTemp, smFailed, smMarker, smOpen>>

ServerStops ==
    /\ SmAt("running")
    /\ smDb' = SmCopy(smDb)
    /\ smOpen' = SmDown
    /\ UNCHANGED <<smBackup, smTemp, smFailed, smMarker, SmRest>>

\* The process ends here, or the next step fails and the start with it.
SmStop ==
    /\ ~SmAt("down") /\ ~SmAt("refused") /\ smSpent.stops < SmMaxStops
    /\ smSpent' = [smSpent EXCEPT !.stops = @ + 1]
    /\ smOpen' = SmDown
    /\ UNCHANGED <<smSchema, smData, SmFiles>>

InstallNewerServer ==
    /\ SmAt("down") /\ smSchema < SmTop
    /\ smSchema' = smSchema + 1
    /\ UNCHANGED <<SmFiles, smOpen, smData, smSpent>>

SmNext ==
    \/ StartServer \/ RecoverChecks \/ CopyBackup \/ DropLog \/ SetAside \/ InstallBackup
    \/ InstallBackupFails \/ RemoveMarker \/ OpenDatabase \/ DropOldBackup \/ SaveBackup
    \/ CreateMarker \/ WriteMarker \/ ApplyMigration \/ FinishMigration
    \/ ServerWrites \/ ServerStops \/ SmStop \/ InstallNewerServer

----------------------------------------------------------------------------
SmTypeOK ==
    /\ smSchema \in 1..SmTop
    /\ \A c \in {smDb, smBackup, smTemp, smFailed} : c \subseteq SmContents /\ Cardinality(c) <= 1
    /\ smMarker \subseteq (0..SmTop) \X (0..SmTop) /\ Cardinality(smMarker) <= 1
    /\ smData \in 0..SmMaxWrites

(***************************************************************************)
(* A server that runs has its own schema version and every change a server *)
(* ever made, however many starts were stopped in the middle of a          *)
(* migration, of the backup, or of the recovery that puts the backup back  *)
(* (Store::open, recover_interrupted_migration, restore_database_file).    *)
(***************************************************************************)
UpgradeKeepsData ==
    SmAt("running") => smDb # {} /\ \A x \in smDb : x.version = smSchema /\ x.data = smData
=============================================================================
