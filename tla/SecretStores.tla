---------------------------- MODULE SecretStores ----------------------------
(***************************************************************************)
(* The encrypted secret vault of the desktop and of the server: one file   *)
(* holding every secret, replaced as a whole on each save and delete.      *)
(* The two implementations share their shape and differ in three places:   *)
(* the server neither syncs the temporary file nor ignores a failure to    *)
(* remove the old copy at the end, and only the desktop limits the number  *)
(* of values.  A file is abstracted to the map it decrypts to.             *)
(*                                                                         *)
(* Every file operation may fail, the process may stop between any two of  *)
(* them, and the machine may lose what was not synced.                     *)
(***************************************************************************)
EXTENDS Naturals, FiniteSets

CONSTANTS VtRefs,        \* secret references
          VtValues,      \* values a caller saves
          VtLimit,       \* MAX_VALUES of the desktop vault
          VtMaxOps,      \* bound: saves and deletes
          VtMaxFaults,   \* bound: failing file operations
          VtMaxCrashes   \* bound: stops of the process or the machine

ASSUME VtAssumption == VtLimit \in Nat \ {0} /\ 0 \notin VtValues

VARIABLES vtSide,      \* which implementation runs
          vtFile,      \* secrets.enc, secrets.enc.bak and the temporary file
          vtUp,        \* the process runs
          vtData,      \* the decrypted map in memory
          vtOp,        \* the save or delete holding the lock
          vtAcked,     \* ghost: the map the callers were told of, and the one being written
          vtMark,      \* ghost: what an earlier failure left behind
          vtSpent      \* operations, faults and crashes so far

vtVars == <<vtSide, vtFile, vtUp, vtData, vtOp, vtAcked, vtMark, vtSpent>>

\* A map from references to values; 0 is a reference the map does not have.
VtMaps == [VtRefs -> VtValues \cup {0}]
VtEmpty == [r \in VtRefs |-> 0]
VtKeys(d) == {r \in VtRefs : d[r] # 0}

\* A file: absent, or its map; whole says it decrypts, synced that it is on disk.
VtAbsent == [there |-> FALSE, data |-> VtEmpty, whole |-> TRUE, synced |-> TRUE]
VtHolding(d, s) == [there |-> TRUE, data |-> d, whole |-> TRUE, synced |-> s]
VtFiles == [there : BOOLEAN, data : VtMaps, whole : BOOLEAN, synced : BOOLEAN]

VtIdle == [pc |-> "idle", ref |-> CHOOSE r \in VtRefs : TRUE, before |-> VtEmpty]
VtSteps == {"write", "unback", "aside", "install", "putback", "clean"}

VtInit ==
    /\ vtSide \in {"desktop", "server"}
    /\ vtFile = [f \in {"path", "backup", "temp"} |-> VtAbsent]
    /\ vtUp = TRUE
    /\ vtData = VtEmpty
    /\ vtOp = VtIdle
    /\ vtAcked = [told |-> VtEmpty, tried |-> {}]
    /\ vtMark = {}
    /\ vtSpent = [ops |-> 0, faults |-> 0, crashes |-> 0]

\* The file operations a step is made of.
VtPut(f, c) == [vtFile EXCEPT ![f] = c]
VtRemoved(f) == [vtFile EXCEPT ![f] = VtAbsent]
VtRenamed(f, g) == [vtFile EXCEPT ![g] = vtFile[f], ![f] = VtAbsent]

VtCanFail == vtSpent.faults < VtMaxFaults
VtFailing == vtSpent' = [vtSpent EXCEPT !.faults = @ + 1]
VtGoto(pc) == vtOp' = [vtOp EXCEPT !.pc = pc]

\* The file a start of the process reads: Vault::open takes the backup back when the file is gone.
VtOpened == IF ~vtFile["path"].there /\ vtFile["backup"].there
            THEN VtRenamed("backup", "path") ELSE vtFile
VtReads == VtOpened["path"]

----------------------------------------------------------------------------
(* save and delete: the map in memory changes, then the file is replaced.  *)

VtBegin(r, d) ==
    /\ vtUp /\ vtOp = VtIdle
    /\ vtSpent.ops < VtMaxOps
    /\ vtSpent' = [vtSpent EXCEPT !.ops = @ + 1]
    /\ vtOp' = [pc |-> "write", ref |-> r, before |-> vtData]
    /\ vtData' = d
    /\ vtAcked' = [vtAcked EXCEPT !.tried = {d}]
    /\ UNCHANGED <<vtSide, vtUp, vtFile, vtMark>>

VtHasRoom(r) == vtSide = "server" \/ vtData[r] # 0 \/ Cardinality(VtKeys(vtData)) < VtLimit

VtSave(r, v) == vtUp /\ VtHasRoom(r) /\ VtBegin(r, [vtData EXCEPT ![r] = v])
VtDelete(r) == vtUp /\ vtData[r] # 0 /\ VtBegin(r, [vtData EXCEPT ![r] = 0])

\* The replacement succeeded: the caller is told.
VtFinish ==
    /\ vtOp' = VtIdle
    /\ vtAcked' = [told |-> vtData, tried |-> {}]
    /\ UNCHANGED vtData

\* It failed: the entry goes back to what it was and the caller gets the error.
VtRevert ==
    /\ vtOp' = VtIdle
    /\ vtData' = [vtData EXCEPT ![vtOp.ref] = vtOp.before[vtOp.ref]]
    /\ vtAcked' = [vtAcked EXCEPT !.tried = {}]

\* The way out of an error: only the desktop removes the temporary file wherever it failed.
VtSwept(files) == [files EXCEPT !["temp"] = VtAbsent]
VtLeft(files) == IF vtSide = "desktop" THEN VtSwept(files) ELSE files

----------------------------------------------------------------------------
(* atomic_replace, one file operation per step.                            *)

\* Writing the temporary file; the desktop also syncs it.
WriteTemporary ==
    /\ vtOp.pc = "write"
    /\ vtFile' = VtPut("temp", VtHolding(vtData, vtSide = "desktop"))
    /\ VtGoto("unback")
    /\ UNCHANGED <<vtSide, vtUp, vtData, vtAcked, vtMark, vtSpent>>

WriteFails ==
    /\ vtOp.pc = "write" /\ VtCanFail /\ VtFailing
    /\ VtRevert
    /\ UNCHANGED <<vtSide, vtUp, vtFile, vtMark>>

\* Removing a backup left by an earlier stop.  Where the file itself is gone, this is the last copy.
RemoveStaleBackup ==
    /\ vtOp.pc = "unback"
    /\ vtFile' = VtRemoved("backup")
    /\ vtMark' = IF vtFile["backup"].there /\ ~vtFile["path"].there
                 THEN vtMark \cup {"bare"} ELSE vtMark
    /\ VtGoto("aside")
    /\ UNCHANGED <<vtSide, vtUp, vtData, vtAcked, vtSpent>>

\* The backup is there when its removal fails, the file when its renaming does.
StepFails ==
    /\ \/ vtOp.pc = "unback" /\ vtFile["backup"].there
       \/ vtOp.pc = "aside" /\ vtFile["path"].there
    /\ VtCanFail /\ VtFailing
    /\ vtFile' = VtLeft(vtFile)
    /\ VtRevert
    /\ UNCHANGED <<vtSide, vtUp, vtMark>>

\* Mutation: the old file is deleted instead of kept as the backup.
MoveAsideDeletes ==
    /\ vtOp.pc = "aside"
    /\ vtFile' = VtRemoved("path")
    /\ VtGoto("install")
    /\ UNCHANGED <<vtSide, vtUp, vtData, vtAcked, vtMark, vtSpent>>

\* The file becomes the backup.
MoveAside ==
    /\ vtOp.pc = "aside"
    /\ vtFile' = IF vtFile["path"].there THEN VtRenamed("path", "backup") ELSE vtFile
    /\ VtGoto("install")
    /\ UNCHANGED <<vtSide, vtUp, vtData, vtAcked, vtMark, vtSpent>>

\* The temporary file takes its place.
Install ==
    /\ vtOp.pc = "install"
    /\ vtFile' = VtRenamed("temp", "path")
    /\ vtMark' = vtMark \ {"bare"}
    /\ VtGoto("clean")
    /\ UNCHANGED <<vtSide, vtUp, vtData, vtAcked, vtSpent>>

InstallFails ==
    /\ vtOp.pc = "install" /\ VtCanFail /\ VtFailing
    /\ vtFile' = VtSwept(vtFile)
    /\ VtGoto("putback")
    /\ UNCHANGED <<vtSide, vtUp, vtData, vtAcked, vtMark>>

\* The backup is put back, or its renaming fails too and the error is reported all the same.
PutBack ==
    /\ vtOp.pc = "putback"
    /\ \/ /\ vtFile' = IF vtFile["backup"].there THEN VtRenamed("backup", "path") ELSE vtFile
          /\ UNCHANGED vtSpent
       \/ vtFile["backup"].there /\ VtCanFail /\ VtFailing /\ UNCHANGED vtFile
    /\ VtRevert
    /\ UNCHANGED <<vtSide, vtUp, vtMark>>

\* The backup goes: the operation has succeeded.
RemoveBackup ==
    /\ vtOp.pc = "clean"
    /\ vtFile' = VtRemoved("backup")
    /\ VtFinish
    /\ vtMark' = vtMark \ {"late"}
    /\ UNCHANGED <<vtSide, vtUp, vtSpent>>

\* The desktop overlooks a backup it cannot remove; the server reports an error though the file is new.
RemoveBackupFails ==
    /\ vtOp.pc = "clean" /\ vtFile["backup"].there /\ VtCanFail /\ VtFailing
    /\ \/ vtSide = "desktop" /\ VtFinish /\ UNCHANGED vtMark
       \/ vtSide = "server" /\ VtRevert /\ vtMark' = vtMark \cup {"late"}
    /\ UNCHANGED <<vtSide, vtUp, vtFile>>

----------------------------------------------------------------------------
(* Stops and starts.                                                       *)

\* The process ends, or the machine does: then an unsynced file may come back empty.
VtStop ==
    /\ vtUp
    /\ vtSpent.crashes < VtMaxCrashes
    /\ vtSpent' = [vtSpent EXCEPT !.crashes = @ + 1]
    /\ vtUp' = FALSE
    /\ vtData' = VtEmpty
    /\ vtOp' = VtIdle
    /\ \E lost \in SUBSET {f \in DOMAIN vtFile : vtFile[f].there /\ ~vtFile[f].synced} :
          /\ vtFile' = [f \in DOMAIN vtFile |->
                          [vtFile[f] EXCEPT !.whole = @ /\ f \notin lost, !.synced = TRUE]]
          /\ vtMark' = IF lost \ {"temp"} = {} THEN vtMark ELSE vtMark \cup {"torn"}
    /\ UNCHANGED <<vtSide, vtAcked>>

\* Vault::open: a file that does not decrypt keeps the process from starting.
VtOpen ==
    /\ ~vtUp
    /\ VtReads.whole
    /\ vtFile' = VtOpened
    /\ vtUp' = TRUE
    /\ vtData' = VtReads.data
    /\ vtAcked' = [told |-> VtReads.data, tried |-> {}]
    /\ vtMark' = {}
    /\ UNCHANGED <<vtSide, vtOp, vtSpent>>

VtNext ==
    \/ \E r \in VtRefs : VtDelete(r) \/ \E v \in VtValues : VtSave(r, v)
    \/ WriteTemporary \/ WriteFails \/ RemoveStaleBackup \/ StepFails \/ MoveAside
    \/ Install \/ InstallFails \/ PutBack \/ RemoveBackup \/ RemoveBackupFails
    \/ VtStop \/ VtOpen

VtSpec == VtInit /\ [][VtNext]_vtVars

----------------------------------------------------------------------------
VtTypeOK ==
    /\ vtFile \in [{"path", "backup", "temp"} -> VtFiles]
    /\ vtUp \in BOOLEAN /\ vtData \in VtMaps
    /\ vtOp \in [pc : VtSteps \cup {"idle"}, ref : VtRefs, before : VtMaps]
    /\ vtAcked \in [told : VtMaps, tried : SUBSET VtMaps]
    /\ vtMark \subseteq {"bare", "late", "torn"}

(***************************************************************************)
(* Whenever the process stops, in the middle of atomic_replace as well as  *)
(* between two calls, Vault::open reads a whole file that holds what       *)
(* callers were told, or that and the one change whose call had not yet    *)
(* returned.  While it runs and no call is open, memory and file agree.    *)
(* Left out, because the code allows them: a server file written without a *)
(* sync and lost with the machine ("torn"); a server call that failed only *)
(* to remove the old copy, whose change stays in the file ("late"); and a  *)
(* backup that had become the only copy when the next call removed it      *)
(* ("bare").                                                               *)
(***************************************************************************)
SecretsSurviveStop ==
    vtMark = {} =>
       /\ VtReads.whole
       /\ VtReads.data \in {vtAcked.told} \cup vtAcked.tried
       /\ (vtUp /\ vtOp.pc = "idle") => vtData = vtAcked.told /\ VtReads.data = vtAcked.told

-----------------------------------------------------------------------------
(***************************************************************************)
(* A named secret in the operating system's keyring (key_storage.rs).  A   *)
(* short secret is one entry.  A long one is cut into chunks under a new   *)
(* generation, and its entry is a manifest naming the generation, so that  *)
(* writing the manifest switches from the old chunks to the new.  Entries  *)
(* of the product's former name are taken over when they are first read.   *)
(*                                                                         *)
(* Every keyring operation may fail and the process may end between any    *)
(* two.  One lock covers each call, so calls do not overlap.               *)
(***************************************************************************)

CONSTANTS KsShort,       \* values that fit one entry
          KsLong,        \* values that need KsChunks of them
          KsChunks,
          KsMaxOps,      \* bound: calls
          KsMaxFaults,   \* bound: failing keyring operations
          KsMaxCrashes   \* bound: processes stopped

ASSUME KsAssumption == KsChunks \in Nat \ {0} /\ KsShort \cap KsLong = {}

VARIABLES ksEntry,     \* per service the named entry: its value, its generation (0: short)
          ksChunk,     \* the chunks stored: <<service, generation, index, value>>
          ksGen,       \* generations given out
          ksCall,      \* the call in progress
          ksTold,      \* ghost: the value callers were told of, and the one being stored
          ksMark,      \* ghost: a failed way back, or a deletion that failed half way
          ksSpent

ksVars == <<ksEntry, ksChunk, ksGen, ksCall, ksTold, ksMark, ksSpent>>

KsServices == {"current", "legacy"}
KsValues == KsShort \cup KsLong
KsNothing == {}
KsEntryOf(v, g) == {[value |-> v, gen |-> g]}

KsIdle == [op |-> "none", pc |-> "idle", value |-> KsNothing, gen |-> 0, at |-> 0,
           previous |-> KsNothing]

KsInit ==
    /\ \E old \in {KsNothing} \cup {KsEntryOf(v, 0) : v \in KsShort} :
          /\ ksEntry = [s \in KsServices |-> IF s = "legacy" THEN old ELSE KsNothing]
          /\ ksTold = [told |-> {e.value : e \in old}, tried |-> {}]
    /\ ksChunk = {}
    /\ ksGen = 0
    /\ ksCall = KsIdle
    /\ ksMark = FALSE
    /\ ksSpent = [ops |-> 0, faults |-> 0, crashes |-> 0]

\* load_secret_from_service: "corrupt" where a chunk of the manifest's generation is missing.
KsRead(s) ==
    UNION {IF e.gen = 0 \/ \A i \in 1..KsChunks : <<s, e.gen, i, e.value>> \in ksChunk
           THEN {e.value} ELSE {"corrupt"} : e \in ksEntry[s]}
KsLoaded == IF ksEntry["current"] # KsNothing THEN KsRead("current") ELSE KsRead("legacy")

KsChunksOf(s, g) == {c \in ksChunk : c[1] = s /\ c[2] = g /\ g # 0}
KsCanFail == ksSpent.faults < KsMaxFaults
KsDo(what) == ksSpent' = [ksSpent EXCEPT ![what] = @ + 1]
KsAt(pc) == ksCall.pc = pc
KsGoto(pc) == ksCall' = [ksCall EXCEPT !.pc = pc]
KsStored == CHOOSE v \in ksCall.value : TRUE
\* After a stop in the middle of a call, what is read is what is known.
KsKnown == IF ksTold.tried = {} THEN ksTold.told ELSE KsLoaded

----------------------------------------------------------------------------
(* save_to_service, called by save_named_secret and by the taking over of  *)
(* a legacy entry.                                                         *)

KsBegin(op, v) ==
    /\ ksCall = KsIdle /\ ksSpent.ops < KsMaxOps
    /\ ksGen' = IF v \in KsLong THEN ksGen + 1 ELSE ksGen
    /\ ksCall' = [op |-> op, pc |-> IF v \in KsLong THEN "chunks" ELSE "set", value |-> {v},
                  gen |-> IF v \in KsLong THEN ksGen + 1 ELSE 0, at |-> 1,
                  previous |-> ksEntry["current"]]
    /\ ksTold' = [told |-> KsKnown, tried |-> {v}]

SaveNamedSecret(v) ==
    /\ KsBegin("save", v) /\ KsDo("ops")
    /\ UNCHANGED <<ksEntry, ksChunk, ksMark>>

\* load_named_secret_result with only a legacy entry: its value is saved under the present name.
TakeOverLegacy ==
    /\ ksEntry["current"] = KsNothing
    /\ \E v \in KsRead("legacy") \cap KsValues : KsBegin("adopt", v)
    /\ KsDo("ops")
    /\ UNCHANGED <<ksEntry, ksChunk, ksMark>>

\* The call ends in an error: nothing was promised.
KsGiveUp == ksCall' = KsIdle /\ ksTold' = [ksTold EXCEPT !.tried = {}]

WriteChunk ==
    /\ KsAt("chunks") /\ ksCall.at <= KsChunks
    /\ ksChunk' = ksChunk \cup {<<"current", ksCall.gen, ksCall.at, KsStored>>}
    /\ ksCall' = [ksCall EXCEPT !.at = @ + 1,
                                !.pc = IF ksCall.at = KsChunks THEN "set" ELSE "chunks"]
    /\ UNCHANGED <<ksEntry, ksGen, ksTold, ksMark, ksSpent>>

\* A chunk or the entry cannot be written: the chunks written so far are deleted, as far as they can be.
KsWriteFails ==
    /\ KsAt("chunks") \/ KsAt("set")
    /\ KsCanFail /\ KsDo("faults")
    /\ \E gone \in SUBSET KsChunksOf("current", ksCall.gen) : ksChunk' = ksChunk \ gone
    /\ KsGiveUp
    /\ UNCHANGED <<ksEntry, ksGen, ksMark>>

\* The entry is written: the value itself, or the manifest.
SetEntry ==
    /\ KsAt("set")
    /\ ksEntry' = [ksEntry EXCEPT !["current"] = KsEntryOf(KsStored, ksCall.gen)]
    /\ KsGoto("verify")
    /\ UNCHANGED <<ksChunk, ksGen, ksTold, ksMark, ksSpent>>

\* verify_saved_secret reads it back; then the chunks of the previous manifest are deleted.
VerifySaved ==
    /\ KsAt("verify")
    /\ KsRead("current") = ksCall.value
    /\ \E gone \in SUBSET UNION {KsChunksOf("current", e.gen) : e \in ksCall.previous} :
          ksChunk' = ksChunk \ gone
    /\ IF ksCall.op = "adopt" THEN KsGoto("unlegacy") ELSE ksCall' = KsIdle
    /\ ksTold' = [told |-> ksCall.value, tried |-> {}]
    /\ ksMark' = FALSE
    /\ UNCHANGED <<ksEntry, ksGen, ksSpent>>

VerifyFails ==
    /\ KsAt("verify") /\ KsCanFail /\ KsDo("faults")
    /\ KsGoto("restore")
    /\ UNCHANGED <<ksEntry, ksChunk, ksGen, ksTold, ksMark>>

\* Mutation: the new chunks are deleted and the entry is left as it is.
RestoreForgotten ==
    /\ KsAt("restore")
    /\ \E gone \in SUBSET KsChunksOf("current", ksCall.gen) : ksChunk' = ksChunk \ gone
    /\ KsGiveUp
    /\ UNCHANGED <<ksEntry, ksGen, ksMark, ksSpent>>
\* restore_raw_secret, and the new chunks are deleted whether or not it succeeded.
RestoreRaw ==
    /\ KsAt("restore")
    /\ \/ ksEntry' = [ksEntry EXCEPT !["current"] = ksCall.previous] /\ UNCHANGED <<ksMark, ksSpent>>
       \/ KsCanFail /\ KsDo("faults") /\ ksMark' = TRUE /\ UNCHANGED ksEntry
    /\ \E gone \in SUBSET KsChunksOf("current", ksCall.gen) : ksChunk' = ksChunk \ gone
    /\ KsGiveUp
    /\ UNCHANGED ksGen

\* After taking over, the legacy entry is deleted; a failure is overlooked.
DropLegacy ==
    /\ KsAt("unlegacy")
    /\ \/ ksEntry' = [ksEntry EXCEPT !["legacy"] = KsNothing] /\ UNCHANGED ksSpent
       \/ KsCanFail /\ KsDo("faults") /\ UNCHANGED ksEntry
    /\ ksCall' = KsIdle
    /\ UNCHANGED <<ksChunk, ksGen, ksTold, ksMark>>

----------------------------------------------------------------------------
(* delete_named_secret_result: the entry, its chunks, then the legacy one. *)

DeleteNamedSecret ==
    /\ ksCall = KsIdle /\ ksSpent.ops < KsMaxOps /\ KsDo("ops")
    /\ ksCall' = [KsIdle EXCEPT !.op = "delete", !.pc = "delete"]
    /\ ksTold' = [told |-> KsKnown, tried |-> {"deleted"}]
    /\ UNCHANGED <<ksEntry, ksChunk, ksGen, ksMark>>

DeleteEntry ==
    /\ KsAt("delete")
    /\ \/ /\ ksEntry' = [ksEntry EXCEPT !["current"] = KsNothing]
          /\ \E gone \in SUBSET UNION {KsChunksOf("current", e.gen) : e \in ksEntry["current"]} :
                ksChunk' = ksChunk \ gone
          /\ ksMark' = (ksMark \/ (ksEntry["legacy"] # KsNothing /\ ksEntry["current"] # KsNothing))
          /\ UNCHANGED ksSpent
       \/ KsCanFail /\ KsDo("faults") /\ UNCHANGED <<ksEntry, ksChunk, ksMark>>
    /\ KsGoto("delete legacy")
    /\ UNCHANGED <<ksGen, ksTold>>

DeleteLegacy ==
    /\ KsAt("delete legacy")
    /\ \/ ksEntry' = [ksEntry EXCEPT !["legacy"] = KsNothing] /\ UNCHANGED ksSpent
       \/ KsCanFail /\ KsDo("faults") /\ UNCHANGED ksEntry
    /\ ksCall' = KsIdle
    /\ IF \A s \in KsServices : ksEntry'[s] = KsNothing
       THEN ksTold' = [told |-> {}, tried |-> {}] /\ ksMark' = FALSE
       ELSE UNCHANGED <<ksTold, ksMark>>
    /\ UNCHANGED <<ksChunk, ksGen>>

KsStop ==
    /\ ksCall # KsIdle /\ ksSpent.crashes < KsMaxCrashes /\ KsDo("crashes")
    /\ ksCall' = KsIdle
    /\ UNCHANGED <<ksEntry, ksChunk, ksGen, ksTold, ksMark>>

KsNext ==
    \/ \E v \in KsValues : SaveNamedSecret(v)
    \/ TakeOverLegacy \/ WriteChunk \/ KsWriteFails \/ SetEntry \/ VerifySaved \/ VerifyFails
    \/ RestoreRaw \/ DropLegacy \/ DeleteNamedSecret \/ DeleteEntry \/ DeleteLegacy \/ KsStop

----------------------------------------------------------------------------
KsTypeOK ==
    /\ \A s \in KsServices : ksEntry[s] \subseteq [value : KsValues, gen : 0..ksGen]
    /\ ksChunk \subseteq KsServices \X (1..ksGen) \X (1..KsChunks) \X KsLong
    /\ ksCall.pc \in {"idle", "chunks", "set", "verify", "restore", "unlegacy", "delete", "delete legacy"}

(***************************************************************************)
(* Whatever fails and wherever the process ends, reading the secret gives  *)
(* what callers were told, or the one value (or deletion) whose call had   *)
(* not returned when the process ended; it never gives a manifest with a   *)
(* chunk missing.  A save that reports an error has changed nothing.  Left *)
(* out: a way back that itself fails (restore_raw_secret), and a deletion  *)
(* that reached the present entry but not the legacy one below it.         *)
(***************************************************************************)
NamedSecretIsWhole ==
    ~ksMark =>
       \/ KsLoaded = ksTold.told
       \/ KsLoaded # {} /\ KsLoaded \subseteq ksTold.tried
       \/ KsLoaded = {} /\ "deleted" \in ksTold.tried

=============================================================================
