--------------------------- MODULE PortableUpdate ---------------------------
(***************************************************************************)
(* The update of the portable Windows build: the running application       *)
(* downloads the new executable as a helper, starts it and exits; the      *)
(* helper replaces the executable, starts the new version and waits for    *)
(* its acknowledgement, or puts the old version back.                      *)
(*                                                                         *)
(* Executables are version numbers; 0 is no file and PuPartial a copy that *)
(* was not finished.  Every file operation of the helper is retried for    *)
(* some time and then fails.  Deadlines may pass at any moment.            *)
(***************************************************************************)
EXTENDS Naturals, TLAPS

CONSTANTS PuMaxVersion,  \* bound: the newest version offered
          PuMaxTries,    \* bound: updates asked for
          PuMaxFaults,   \* bound: file operations and starts that fail for good
          PuMaxCrashes   \* bound: helpers stopped from outside

ASSUME UpdateAssumption == PuMaxVersion \in Nat \ {0}

PuPartial == PuMaxVersion + 1

VARIABLES puFile,      \* target, its .bak, the helper's file and its .tmp
          puAck,       \* the acknowledgement file exists
          puApp,       \* the application: its state and version
          puHelper,    \* the helper process
          puMark,      \* ghost: a helper was cut off, or a rollback failed
          puSpent

puVars == <<puFile, puAck, puApp, puHelper, puMark, puSpent>>

PuWhole(v) == v \in 1..PuMaxVersion
PuNames == {"target", "backup", "helper", "temp"}

\* awaited: the helper that started it waits for its acknowledgement.
PuNoApp == [st |-> "none", version |-> 0, awaited |-> FALSE]
PuNoHelper == [pc |-> "none", version |-> 0, acked |-> FALSE, ok |-> TRUE]

PuInit ==
    /\ puFile = [f \in PuNames |-> IF f = "target" THEN 1 ELSE 0]
    /\ puAck = FALSE
    /\ puApp = [st |-> "up", version |-> 1, awaited |-> FALSE]
    /\ puHelper = PuNoHelper
    /\ puMark = FALSE
    /\ puSpent = [tries |-> 0, faults |-> 0, crashes |-> 0]

PuCanFail == puSpent.faults < PuMaxFaults
PuDo(what) == puSpent' = [puSpent EXCEPT ![what] = @ + 1]
PuAt(pc) == puHelper.pc = pc
PuGoto(pc) == puHelper' = [puHelper EXCEPT !.pc = pc]
PuPut(f, v) == puFile' = [puFile EXCEPT ![f] = v]

----------------------------------------------------------------------------
(* The application asks for the update.                                    *)

\* prepare_update_directory: a helper that still runs cannot be removed, and the update is refused.
PrepareUpdate ==
    /\ puApp.st = "up" /\ puSpent.tries < PuMaxTries /\ PuDo("tries")
    /\ PuAt("none")
    /\ puFile' = [puFile EXCEPT !["helper"] = 0, !["temp"] = 0]
    /\ puAck' = FALSE
    /\ puApp' = [puApp EXCEPT !.st = "updating"]
    /\ UNCHANGED <<puHelper, puMark>>

\* The check, the download or the version asked for fails, or a newer version is written as the helper.
DownloadFails ==
    /\ puApp.st = "updating"
    /\ puApp' = [puApp EXCEPT !.st = "up"]
    /\ UNCHANGED <<puFile, puAck, puHelper, puMark, puSpent>>

WriteHelper ==
    /\ puApp.st = "updating"
    /\ \E v \in (puApp.version + 1)..PuMaxVersion :
          puFile' = [puFile EXCEPT !["helper"] = v, !["temp"] = 0]
    /\ puApp' = [puApp EXCEPT !.st = "written"]
    /\ UNCHANGED <<puAck, puHelper, puMark, puSpent>>

\* The disk refuses the file: the temporary file stays for the next attempt to remove.
WriteHelperFails ==
    /\ puApp.st = "updating" /\ PuCanFail /\ PuDo("faults")
    /\ PuPut("temp", PuPartial)
    /\ puApp' = [puApp EXCEPT !.st = "up"]
    /\ UNCHANGED <<puAck, puHelper, puMark>>

\* The helper is started and the application asked to exit.
StartHelper ==
    /\ puApp.st = "written"
    /\ puHelper' = [PuNoHelper EXCEPT !.pc = "exit", !.version = puFile["helper"]]
    /\ puApp' = [puApp EXCEPT !.st = "exiting"]
    /\ UNCHANGED <<puFile, puAck, puMark, puSpent>>

StartHelperFails ==
    /\ puApp.st = "written" /\ PuCanFail /\ PuDo("faults")
    /\ puApp' = [puApp EXCEPT !.st = "up"]
    /\ UNCHANGED <<puFile, puAck, puHelper, puMark>>

\* The application is gone, by itself or at the user's hands.
AppExits ==
    /\ puApp # PuNoApp
    /\ puApp' = PuNoApp
    /\ UNCHANGED <<puFile, puAck, puHelper, puMark, puSpent>>

\* The user starts the executable by hand.
UserStarts ==
    /\ puApp = PuNoApp /\ PuAt("none") /\ PuWhole(puFile["target"])
    /\ puApp' = [st |-> "up", version |-> puFile["target"], awaited |-> FALSE]
    /\ UNCHANGED <<puFile, puAck, puHelper, puMark, puSpent>>

----------------------------------------------------------------------------
(* The helper.                                                             *)

\* relaunch: a start that fails is overlooked; beside a running application it makes no new one.
Relaunched ==
    IF puApp = PuNoApp /\ PuWhole(puFile["target"])
    THEN [st |-> "up", version |-> puFile["target"], awaited |-> FALSE] ELSE puApp

\* wait_for_process_exit: the application must be gone; after two minutes it is started again.
WaitExit ==
    /\ PuAt("exit")
    /\ \/ puApp.st # "exiting" /\ PuGoto("unback")
       \/ puApp.st = "exiting" /\ PuGoto("relaunch")
    /\ UNCHANGED <<puFile, puAck, puApp, puMark, puSpent>>

\* replace_executable: drop an old backup, rename the executable to it, copy the helper in its place.
DropBackup ==
    /\ PuAt("unback")
    /\ \/ PuPut("backup", 0) /\ PuGoto("aside") /\ UNCHANGED puSpent
       \/ /\ puFile["backup"] # 0 /\ PuCanFail /\ PuDo("faults")
          /\ PuGoto("relaunch") /\ UNCHANGED puFile
    /\ UNCHANGED <<puAck, puApp, puMark>>

RenameAside ==
    /\ PuAt("aside")
    /\ \/ /\ puFile' = [puFile EXCEPT !["backup"] = puFile["target"], !["target"] = 0]
          /\ PuGoto("copy") /\ UNCHANGED puSpent
       \/ PuCanFail /\ PuDo("faults") /\ PuGoto("relaunch") /\ UNCHANGED puFile
    /\ UNCHANGED <<puAck, puApp, puMark>>

\* A copy may stop half way and be retried; when the time is up the old version is put back.
CopyBreaks ==
    /\ PuAt("copy") /\ puFile["target"] = 0
    /\ PuPut("target", PuPartial)
    /\ UNCHANGED <<puAck, puApp, puHelper, puMark, puSpent>>

CopyHelper ==
    /\ PuAt("copy")
    /\ PuPut("target", puHelper.version)
    /\ PuGoto("start")
    /\ UNCHANGED <<puAck, puApp, puMark, puSpent>>

CopyFails ==
    /\ PuAt("copy") /\ PuCanFail /\ PuDo("faults")
    /\ PuGoto("remove")
    /\ UNCHANGED <<puFile, puAck, puApp, puMark>>

\* The new version is started with the path of the acknowledgement.
StartNew ==
    /\ PuAt("start")
    /\ \/ /\ puApp' = [st |-> "starting", version |-> puFile["target"], awaited |-> TRUE]
          /\ PuGoto("ack") /\ UNCHANGED puSpent
       \/ PuCanFail /\ PuDo("faults") /\ PuGoto("remove") /\ UNCHANGED puApp
    /\ UNCHANGED <<puFile, puAck, puMark>>

\* acknowledge_startup in the new version; the acknowledgement may also fail to be written.
Acknowledge ==
    /\ puApp.st = "starting"
    /\ puApp' = [puApp EXCEPT !.st = "up"]
    /\ \/ puAck' = TRUE /\ puHelper' = [puHelper EXCEPT !.acked = ~PuAt("none")] /\ UNCHANGED puSpent
       \/ PuCanFail /\ PuDo("faults") /\ UNCHANGED <<puAck, puHelper>>
    /\ UNCHANGED <<puFile, puMark>>

\* Its thread deletes the helper's file once the helper has ended.
DeleteHelper ==
    /\ puApp.awaited /\ puApp.st = "up" /\ PuAt("none") /\ puFile["helper"] # 0
    /\ PuPut("helper", 0)
    /\ UNCHANGED <<puAck, puApp, puHelper, puMark, puSpent>>

\* Mutation: the deadline of wait_for_ack is forgotten.
WaitAckForever ==
    /\ PuAt("ack")
    /\ \/ puAck /\ PuGoto("confirm")
       \/ ~puAck /\ puApp = PuNoApp /\ PuGoto("kill")
    /\ UNCHANGED <<puFile, puAck, puApp, puMark, puSpent>>
\* wait_for_ack: the file, the end of the process, or the deadline, looked at in this order.
WaitAck ==
    /\ PuAt("ack")
    /\ \/ puAck /\ PuGoto("confirm")
       \/ ~puAck /\ PuGoto("kill")
    /\ UNCHANGED <<puFile, puAck, puApp, puMark, puSpent>>

\* The acknowledgement and the old version are removed; failures are overlooked.
ConfirmUpdate ==
    /\ PuAt("confirm")
    /\ puAck' = FALSE
    /\ \/ PuPut("backup", 0) /\ UNCHANGED puSpent
       \/ PuCanFail /\ PuDo("faults") /\ UNCHANGED puFile
    /\ PuGoto("done")
    /\ UNCHANGED <<puApp, puMark>>

\* The new version is killed: what it acknowledged after the deadline counts no more.
KillNew ==
    /\ PuAt("kill")
    /\ puApp' = PuNoApp
    /\ puAck' = FALSE
    /\ PuGoto("remove")
    /\ UNCHANGED <<puFile, puMark, puSpent>>

\* Mutation: the helper gives up without putting the old version back.
RollbackForgotten ==
    /\ PuAt("remove")
    /\ PuGoto("relaunch")
    /\ UNCHANGED <<puFile, puAck, puApp, puMark, puSpent>>
\* rollback_executable: remove the new executable, rename the old one back.
RemoveNew ==
    /\ PuAt("remove")
    /\ \/ PuPut("target", 0) /\ PuGoto("restore") /\ UNCHANGED <<puMark, puSpent>>
       \/ PuCanFail /\ PuDo("faults") /\ puMark' = TRUE /\ PuGoto("relaunch") /\ UNCHANGED puFile
    /\ UNCHANGED <<puAck, puApp>>

RestoreOld ==
    /\ PuAt("restore")
    /\ \/ /\ puFile' = [puFile EXCEPT !["target"] = puFile["backup"], !["backup"] = 0]
          /\ UNCHANGED <<puMark, puSpent>>
       \/ PuCanFail /\ PuDo("faults") /\ puMark' = TRUE /\ UNCHANGED puFile
    /\ PuGoto("relaunch")
    /\ UNCHANGED <<puAck, puApp>>

PuRelaunch ==
    /\ PuAt("relaunch")
    /\ puApp' = Relaunched
    /\ puHelper' = [puHelper EXCEPT !.pc = "done", !.ok = FALSE]
    /\ UNCHANGED <<puFile, puAck, puMark, puSpent>>

\* The helper's process ends.
HelperExits ==
    /\ PuAt("done")
    /\ puHelper' = PuNoHelper
    /\ UNCHANGED <<puFile, puAck, puApp, puMark, puSpent>>

\* The helper is stopped from outside, or the machine is; nothing continues its work.
HelperCut ==
    /\ ~PuAt("none") /\ ~PuAt("done") /\ puSpent.crashes < PuMaxCrashes /\ PuDo("crashes")
    /\ puHelper' = PuNoHelper
    /\ puMark' = TRUE
    /\ UNCHANGED <<puFile, puAck, puApp>>

PuHelperStep ==
    \/ WaitExit \/ DropBackup \/ RenameAside \/ CopyHelper \/ CopyFails \/ StartNew \/ WaitAck
    \/ ConfirmUpdate \/ KillNew \/ RemoveNew \/ RestoreOld \/ PuRelaunch \/ HelperExits

PuNext ==
    \/ PrepareUpdate \/ DownloadFails \/ WriteHelper \/ WriteHelperFails \/ StartHelper
    \/ StartHelperFails \/ AppExits \/ UserStarts \/ Acknowledge \/ DeleteHelper
    \/ CopyBreaks \/ PuHelperStep \/ HelperCut

\* The helper's waits all have a deadline, so a scheduled helper takes its next step.
PuFairness == WF_puVars(PuHelperStep)
PuSpec == PuInit /\ [][PuNext]_puVars
PuFairSpec == PuSpec /\ PuFairness

----------------------------------------------------------------------------
PuContents == 0..PuMaxVersion \cup {PuPartial}
PuAppStates == {"none", "up", "updating", "written", "starting", "exiting"}
PuSteps == {"none", "exit", "unback", "aside", "copy", "start", "ack", "confirm", "kill",
            "remove", "restore", "relaunch", "done"}

PuTypeOK ==
    /\ puFile \in [PuNames -> PuContents]
    /\ puAck \in BOOLEAN
    /\ puApp \in [st : PuAppStates, version : 0..PuMaxVersion, awaited : BOOLEAN]
    /\ puHelper \in [pc : PuSteps, version : 0..PuMaxVersion, acked : BOOLEAN, ok : BOOLEAN]
    /\ puMark \in BOOLEAN

(***************************************************************************)
(* The version that last worked is not given up for one that has not       *)
(* started: until the new version has acknowledged, a whole older          *)
(* executable is in the target or its .bak, wherever the helper is stopped *)
(* (replace_executable, rollback_executable).  And unless a rollback met a *)
(* failing operation or a helper was cut off, a helper that ends leaves a  *)
(* whole executable in place, the older one if it reports an error.        *)
(***************************************************************************)
WorkingVersionIsKept ==
    /\ (~PuAt("none") /\ ~puHelper.acked) =>
          \E f \in {"target", "backup"} :
             PuWhole(puFile[f]) /\ puFile[f] < puHelper.version
    /\ (PuAt("done") /\ ~puMark) =>
          /\ PuWhole(puFile["target"])
          /\ (puFile["target"] = puHelper.version) = puHelper.ok

(***************************************************************************)
(* What an update keeps wherever it is cut off: well-formed state and a    *)
(* working version (replace_executable, rollback_executable).              *)
(***************************************************************************)
UpdateSafe == PuTypeOK /\ WorkingVersionIsKept
----------------------------------------------------------------------------
(***************************************************************************)
(* UpdateSafe for any versions, however often the update is tried, fails   *)
(* or is cut off.  The invariant says where the old executable is at each  *)
(* step of the helper, that a running application is the one in the        *)
(* target, and that an acknowledgement found while a helper waits is its   *)
(* own and not one left by an earlier update.                              *)
(***************************************************************************)
\* The file holds a whole executable older than the one being installed.
PuOlderIn(f) == PuWhole(puFile[f]) /\ puFile[f] < puHelper.version

\* A running application is the one in the target; while it prepares an update
\* there is no helper and no acknowledgement; and the helper touches the target
\* only when the application is gone.
PuAppFits ==
    /\ puApp # PuNoApp => /\ puApp.st # "none" /\ PuWhole(puFile["target"])
                          /\ puApp.version = puFile["target"]
    /\ puApp.st \in {"updating", "written"} => PuAt("none") /\ ~puAck
    /\ puApp.st = "written" => PuWhole(puFile["helper"]) /\ puApp.version < puFile["helper"]
    /\ PuAt("exit") => puApp = PuNoApp \/ puApp.st = "exiting"
    /\ puHelper.pc \in {"unback", "aside", "copy", "start", "remove", "restore"} => puApp = PuNoApp

\* Where the old and the new executable are at each step of the helper.
PuHelperFits ==
    /\ ~PuAt("none") => PuWhole(puHelper.version) /\ (puAck => puHelper.acked)
    /\ puHelper.pc \notin {"none", "done"} => puHelper.ok
    /\ puHelper.pc \in {"exit", "unback", "aside"} => PuOlderIn("target")
    /\ puHelper.pc \in {"copy", "start", "ack", "kill", "remove", "restore"} => PuOlderIn("backup")
    /\ puHelper.pc \in {"start", "ack", "kill", "confirm"} => puFile["target"] = puHelper.version
    /\ PuAt("confirm") => puHelper.acked
    /\ PuAt("done") /\ puHelper.ok => puHelper.acked /\ puFile["target"] = puHelper.version
    /\ PuAt("relaunch") \/ (PuAt("done") /\ ~puHelper.ok) =>
          /\ PuOlderIn("target") \/ PuOlderIn("backup")
          /\ ~puMark => PuOlderIn("target")

PuInv == PuTypeOK /\ PuAppFits /\ PuHelperFits

-----------------------------------------------------------------------------
\* The invariant says what UpdateSafe promises (replace_executable,
\* rollback_executable).
LEMMA PuInvIsSafe == PuInv => UpdateSafe
<1> SUFFICES ASSUME PuInv PROVE WorkingVersionIsKept
  BY DEF PuInv, UpdateSafe
<1> USE DEF PuInv, PuTypeOK, PuHelperFits, PuAt, PuOlderIn, PuWhole
<1>1. ASSUME ~PuAt("none"), ~puHelper.acked
      PROVE  \E f \in {"target", "backup"} : PuWhole(puFile[f]) /\ puFile[f] < puHelper.version
  <2>1. PuOlderIn("target") \/ PuOlderIn("backup")
    BY <1>1 DEF PuSteps
  <2> QED BY <2>1
<1>2. ASSUME PuAt("done"), ~puMark
      PROVE  PuWhole(puFile["target"]) /\ (puFile["target"] = puHelper.version) = puHelper.ok
  <2>1. CASE puHelper.ok
    BY <1>2, <2>1, Zenon
  <2>2. CASE ~puHelper.ok
    BY <1>2, <2>2
  <2> QED BY <2>1, <2>2
<1>3. QED
  BY <1>1, <1>2 DEF WorkingVersionIsKept

-----------------------------------------------------------------------------
\* What the records and the files look like after the changes the steps make.
LEMMA PuChanges ==
    ASSUME PuTypeOK
    PROVE  /\ \A f \in PuNames, v \in PuContents :
                 LET F == [puFile EXCEPT ![f] = v]
                 IN  /\ F \in [PuNames -> PuContents] /\ F[f] = v
                     /\ \A g \in PuNames \ {f} : F[g] = puFile[g]
           /\ \A st \in PuAppStates :
                 LET A == [puApp EXCEPT !.st = st]
                 IN  /\ A \in [st : PuAppStates, version : 0..PuMaxVersion, awaited : BOOLEAN]
                     /\ A.st = st /\ A.version = puApp.version /\ A.awaited = puApp.awaited
           /\ \A pc \in PuSteps :
                 LET H == [puHelper EXCEPT !.pc = pc]
                 IN  /\ H \in [pc : PuSteps, version : 0..PuMaxVersion, acked : BOOLEAN, ok : BOOLEAN]
                     /\ H.pc = pc /\ H.version = puHelper.version
                     /\ H.acked = puHelper.acked /\ H.ok = puHelper.ok
<1>1. ASSUME NEW f \in PuNames, NEW v \in PuContents
      PROVE  LET F == [puFile EXCEPT ![f] = v]
             IN  /\ F \in [PuNames -> PuContents] /\ F[f] = v
                 /\ \A g \in PuNames \ {f} : F[g] = puFile[g]
  BY DEF PuTypeOK
<1>2. ASSUME NEW st \in PuAppStates
      PROVE  LET A == [puApp EXCEPT !.st = st]
             IN  /\ A \in [st : PuAppStates, version : 0..PuMaxVersion, awaited : BOOLEAN]
                 /\ A.st = st /\ A.version = puApp.version /\ A.awaited = puApp.awaited
  BY DEF PuTypeOK
<1>3. ASSUME NEW pc \in PuSteps
      PROVE  LET H == [puHelper EXCEPT !.pc = pc]
             IN  /\ H \in [pc : PuSteps, version : 0..PuMaxVersion, acked : BOOLEAN, ok : BOOLEAN]
                 /\ H.pc = pc /\ H.version = puHelper.version
                 /\ H.acked = puHelper.acked /\ H.ok = puHelper.ok
  BY DEF PuTypeOK
<1>4. QED
  BY <1>1, <1>2, <1>3

\* What can be in a file, and the two records of nothing.
LEMMA PuNothing ==
    /\ 0 \in PuContents /\ PuPartial \in PuContents
    /\ \A v \in 0..PuMaxVersion : v \in PuContents
    /\ \A v \in PuContents : PuWhole(v) => v \in 0..PuMaxVersion /\ v \in Nat /\ v # 0
    /\ PuNoApp \in [st : PuAppStates, version : 0..PuMaxVersion, awaited : BOOLEAN]
    /\ PuNoApp.st = "none"
    /\ PuNoHelper \in [pc : PuSteps, version : 0..PuMaxVersion, acked : BOOLEAN, ok : BOOLEAN]
    /\ PuNoHelper.pc = "none"
  BY UpdateAssumption DEF PuContents, PuWhole, PuNoApp, PuAppStates, PuNoHelper, PuSteps

\* The first version runs and no update has begun.
LEMMA PuInitInv == PuInit => PuInv
<1> SUFFICES ASSUME PuInit PROVE PuInv
  OBVIOUS
<1>1. PuTypeOK
  <2>1. puFile \in [PuNames -> PuContents]
    <3>1. 1 \in PuContents
      BY UpdateAssumption DEF PuContents
    <3> QED BY <3>1, PuNothing DEF PuInit
  <2>2. 1 \in 0..PuMaxVersion
    BY UpdateAssumption
  <2>3. puApp \in [st : PuAppStates, version : 0..PuMaxVersion, awaited : BOOLEAN]
    BY <2>2 DEF PuInit, PuAppStates
  <2> QED
    BY <2>1, <2>3, PuNothing, Zenon DEF PuInit, PuTypeOK
<1>2. puHelper.pc = "none" /\ puApp.st = "up" /\ puApp.version = 1 /\ puFile["target"] = 1
  BY PuNothing DEF PuInit, PuNames
<1>3. PuWhole(1)
  BY UpdateAssumption DEF PuWhole
<1>4. PuAppFits
  BY <1>2, <1>3 DEF PuAppFits, PuAt
<1>5. PuHelperFits
  BY <1>2 DEF PuHelperFits, PuAt
<1>6. QED
  BY <1>1, <1>4, <1>5 DEF PuInv

-----------------------------------------------------------------------------
\* The steps of the application (portable_update.rs).
LEMMA PuAppSteps ==
    ASSUME PuInv,
           \/ PrepareUpdate \/ DownloadFails \/ WriteHelper \/ WriteHelperFails \/ StartHelper
           \/ StartHelperFails \/ AppExits \/ UserStarts \/ Acknowledge \/ DeleteHelper
    PROVE  PuInv'
<1> USE PuChanges, PuNothing DEF PuInv, PuAt
<1>1. CASE PrepareUpdate
  <2>1. /\ puFile' \in [PuNames -> PuContents]
        /\ puFile'["target"] = puFile["target"] /\ puFile'["backup"] = puFile["backup"]
    BY <1>1 DEF PrepareUpdate, PuTypeOK, PuNames
  <2>2. /\ puApp' \in [st : PuAppStates, version : 0..PuMaxVersion, awaited : BOOLEAN]
        /\ puApp'.st = "updating" /\ puApp'.version = puApp.version
    BY <1>1 DEF PrepareUpdate, PuAppStates
  <2>3. PuTypeOK'
    BY <1>1, <2>1, <2>2, Zenon DEF PrepareUpdate, PuTypeOK
  <2>4. PuAppFits' /\ PuHelperFits'
    BY <1>1, <2>1, <2>2, Zenon DEF PrepareUpdate, PuAppFits, PuHelperFits
  <2> QED BY <2>3, <2>4
<1>2. CASE DownloadFails \/ StartHelperFails
  <2>1. /\ puApp' \in [st : PuAppStates, version : 0..PuMaxVersion, awaited : BOOLEAN]
        /\ puApp'.st = "up" /\ puApp'.version = puApp.version /\ puApp.st # "none"
    BY <1>2 DEF DownloadFails, StartHelperFails, PuAppStates
  <2>2. UNCHANGED <<puFile, puAck, puHelper, puMark>> /\ puHelper.pc = "none"
    BY <1>2 DEF DownloadFails, StartHelperFails, PuAppFits
  <2> QED
    BY <2>1, <2>2 DEF PuTypeOK, PuAppFits, PuHelperFits
<1>3. CASE WriteHelper
  <2>1. PICK v \in (puApp.version + 1)..PuMaxVersion :
           puFile' = [puFile EXCEPT !["helper"] = v, !["temp"] = 0]
    BY <1>3, Zenon DEF WriteHelper
  <2>2. PuWhole(v) /\ puApp.version < v /\ v \in PuContents
    BY <2>1, UpdateAssumption DEF PuTypeOK, PuWhole, PuContents
  <2>3. /\ puFile' \in [PuNames -> PuContents] /\ puFile'["helper"] = v
        /\ puFile'["target"] = puFile["target"] /\ puFile'["backup"] = puFile["backup"]
    BY <2>1, <2>2 DEF PuTypeOK, PuNames
  <2>4. /\ puApp' \in [st : PuAppStates, version : 0..PuMaxVersion, awaited : BOOLEAN]
        /\ puApp'.st = "written" /\ puApp'.version = puApp.version
    BY <1>3 DEF WriteHelper, PuAppStates
  <2> QED
    BY <1>3, <2>2, <2>3, <2>4 DEF WriteHelper, PuTypeOK, PuAppFits, PuHelperFits
<1>4. CASE WriteHelperFails
  <2>1. /\ puFile' \in [PuNames -> PuContents]
        /\ puFile'["target"] = puFile["target"] /\ puFile'["backup"] = puFile["backup"]
    BY <1>4 DEF WriteHelperFails, PuPut, PuNames
  <2>2. /\ puApp' \in [st : PuAppStates, version : 0..PuMaxVersion, awaited : BOOLEAN]
        /\ puApp'.st = "up" /\ puApp'.version = puApp.version
    BY <1>4 DEF WriteHelperFails, PuAppStates
  <2> QED
    BY <1>4, <2>1, <2>2 DEF WriteHelperFails, PuTypeOK, PuAppFits, PuHelperFits
<1>5. CASE StartHelper
  <2>1. /\ puApp' \in [st : PuAppStates, version : 0..PuMaxVersion, awaited : BOOLEAN]
        /\ puApp'.st = "exiting" /\ puApp'.version = puApp.version
    BY <1>5 DEF StartHelper, PuAppStates
  <2>2. /\ puHelper' = [pc |-> "exit", version |-> puFile["helper"], acked |-> FALSE, ok |-> TRUE]
        /\ UNCHANGED <<puFile, puAck, puMark>> /\ puApp.st = "written"
    BY <1>5, Zenon DEF StartHelper, PuNoHelper
  <2>3. PuWhole(puFile["helper"]) /\ puApp.version < puFile["helper"] /\ ~puAck
        /\ PuWhole(puFile["target"]) /\ puApp.version = puFile["target"]
    BY <2>2 DEF PuAppFits
  <2>4. /\ puHelper' \in [pc : PuSteps, version : 0..PuMaxVersion, acked : BOOLEAN, ok : BOOLEAN]
        /\ puHelper'.pc = "exit" /\ puHelper'.version = puFile["helper"] /\ puHelper'.ok
    BY <2>2, <2>3 DEF PuSteps, PuWhole
  <2> QED
    BY <2>1, <2>2, <2>3, <2>4 DEF PuTypeOK, PuAppFits, PuHelperFits, PuOlderIn
<1>6. CASE AppExits
  <2>1. puApp' = PuNoApp /\ UNCHANGED <<puFile, puAck, puHelper, puMark>>
    BY <1>6 DEF AppExits
  <2> QED
    BY <2>1 DEF PuTypeOK, PuAppFits, PuHelperFits, PuOlderIn
<1>7. CASE UserStarts
  <2>1. /\ puApp' \in [st : PuAppStates, version : 0..PuMaxVersion, awaited : BOOLEAN]
        /\ puApp'.st = "up" /\ puApp'.version = puFile["target"] /\ PuWhole(puFile["target"])
    BY <1>7 DEF UserStarts, PuAppStates, PuTypeOK, PuWhole
  <2> QED
    BY <1>7, <2>1 DEF UserStarts, PuTypeOK, PuAppFits, PuHelperFits
<1>8. CASE Acknowledge
  <2>1. /\ puApp' \in [st : PuAppStates, version : 0..PuMaxVersion, awaited : BOOLEAN]
        /\ puApp'.st = "up" /\ puApp'.version = puApp.version /\ puApp.st = "starting"
    BY <1>8 DEF Acknowledge, PuAppStates
  <2>2. UNCHANGED <<puFile, puMark>>
    BY <1>8 DEF Acknowledge
  <2>3. CASE puAck' = TRUE /\ puHelper' = [puHelper EXCEPT !.acked = ~PuAt("none")]
    <3>1. /\ puHelper' \in [pc : PuSteps, version : 0..PuMaxVersion, acked : BOOLEAN, ok : BOOLEAN]
          /\ puHelper'.pc = puHelper.pc /\ puHelper'.version = puHelper.version
          /\ puHelper'.ok = puHelper.ok /\ (puHelper.pc # "none" => puHelper'.acked)
      BY <2>3, Zenon DEF PuTypeOK
    <3> QED
      BY <2>1, <2>2, <2>3, <3>1 DEF PuTypeOK, PuAppFits, PuHelperFits, PuOlderIn
  <2>4. CASE UNCHANGED <<puAck, puHelper>>
    BY <2>1, <2>2, <2>4 DEF PuTypeOK, PuAppFits, PuHelperFits, PuOlderIn
  <2> QED BY <1>8, <2>3, <2>4, Zenon DEF Acknowledge
<1>9. CASE DeleteHelper
  <2>1. /\ puFile' \in [PuNames -> PuContents]
        /\ puFile'["target"] = puFile["target"] /\ puFile'["backup"] = puFile["backup"]
    BY <1>9 DEF DeleteHelper, PuPut, PuNames
  <2> QED
    BY <1>9, <2>1 DEF DeleteHelper, PuTypeOK, PuAppFits, PuHelperFits, PuOlderIn
<1>10. QED
  BY <1>1, <1>2, <1>3, <1>4, <1>5, <1>6, <1>7, <1>8, <1>9

\* The steps that go on without touching a file.
LEMMA PuHelperMoves ==
    ASSUME PuInv,
           WaitExit \/ CopyFails \/ WaitAck \/ HelperExits \/ HelperCut
    PROVE  PuInv'
<1> USE PuChanges, PuNothing DEF PuInv, PuAt, PuOlderIn
<1>1. CASE HelperExits \/ HelperCut
  <2>1. /\ puHelper' = PuNoHelper /\ UNCHANGED <<puFile, puAck, puApp>>
        /\ puMark' \in BOOLEAN /\ puHelper.pc # "none"
    BY <1>1, Zenon DEF HelperExits, HelperCut, PuTypeOK
  <2> QED
    BY <2>1 DEF PuTypeOK, PuAppFits, PuHelperFits
<1>2. ASSUME NEW pc \in PuSteps, puHelper' = [puHelper EXCEPT !.pc = pc],
             UNCHANGED <<puFile, puAck, puApp, puMark>>,
             \/ puHelper.pc = "exit" /\ pc = "unback" /\ puApp.st # "exiting"
             \/ puHelper.pc = "exit" /\ pc = "relaunch"
             \/ puHelper.pc = "copy" /\ pc = "remove"
             \/ puHelper.pc = "ack" /\ pc = "confirm" /\ puAck
             \/ puHelper.pc = "ack" /\ pc = "kill"
      PROVE  PuInv'
  <2>1. /\ puHelper' \in [pc : PuSteps, version : 0..PuMaxVersion, acked : BOOLEAN, ok : BOOLEAN]
        /\ puHelper'.pc = pc /\ puHelper'.version = puHelper.version
        /\ puHelper'.acked = puHelper.acked /\ puHelper'.ok = puHelper.ok
    BY <1>2
  <2> QED
    BY <1>2, <2>1 DEF PuTypeOK, PuAppFits, PuHelperFits
<1>3. {"unback", "relaunch", "remove", "confirm", "kill"} \subseteq PuSteps
  BY DEF PuSteps
<1>4. CASE WaitExit
  BY <1>2, <1>3, <1>4 DEF WaitExit, PuGoto
<1>5. CASE CopyFails
  BY <1>2, <1>3, <1>5 DEF CopyFails, PuGoto
<1>6. CASE WaitAck
  BY <1>2, <1>3, <1>6 DEF WaitAck, PuGoto
<1>7. QED
  BY <1>1, <1>4, <1>5, <1>6

\* replace_executable: the target becomes the backup before the copy begins.
LEMMA PuReplaceSteps ==
    ASSUME PuInv,
           DropBackup \/ RenameAside \/ CopyBreaks \/ CopyHelper
    PROVE  PuInv'
<1> USE PuChanges, PuNothing DEF PuInv, PuAt, PuOlderIn
<1>1. {"target", "backup"} \subseteq PuNames /\ {"aside", "relaunch", "copy", "start"} \subseteq PuSteps
  BY DEF PuNames, PuSteps
<1>2. CASE DropBackup
  <2>1. UNCHANGED <<puAck, puApp, puMark>> /\ puHelper.pc = "unback"
    BY <1>2 DEF DropBackup
  <2>2. CASE puFile' = [puFile EXCEPT !["backup"] = 0] /\ puHelper' = [puHelper EXCEPT !.pc = "aside"]
    <3>1. puFile' \in [PuNames -> PuContents] /\ puFile'["target"] = puFile["target"]
      BY <1>1, <2>2
    <3>2. /\ puHelper' \in [pc : PuSteps, version : 0..PuMaxVersion, acked : BOOLEAN, ok : BOOLEAN]
          /\ puHelper'.pc = "aside" /\ puHelper'.version = puHelper.version
          /\ puHelper'.acked = puHelper.acked /\ puHelper'.ok = puHelper.ok
      BY <1>1, <2>2
    <3> QED
      BY <2>1, <3>1, <3>2 DEF PuTypeOK, PuAppFits, PuHelperFits
  <2>3. CASE UNCHANGED puFile /\ puHelper' = [puHelper EXCEPT !.pc = "relaunch"]
    <3>1. /\ puHelper' \in [pc : PuSteps, version : 0..PuMaxVersion, acked : BOOLEAN, ok : BOOLEAN]
          /\ puHelper'.pc = "relaunch" /\ puHelper'.version = puHelper.version
          /\ puHelper'.acked = puHelper.acked /\ puHelper'.ok = puHelper.ok
      BY <1>1, <2>3
    <3> QED
      BY <2>1, <2>3, <3>1 DEF PuTypeOK, PuAppFits, PuHelperFits
  <2> QED BY <1>2, <2>2, <2>3 DEF DropBackup, PuPut, PuGoto
<1>3. CASE RenameAside
  <2>1. UNCHANGED <<puAck, puApp, puMark>> /\ puHelper.pc = "aside"
    BY <1>3 DEF RenameAside
  <2>2. CASE /\ puFile' = [puFile EXCEPT !["backup"] = puFile["target"], !["target"] = 0]
             /\ puHelper' = [puHelper EXCEPT !.pc = "copy"]
    <3>1. puFile' \in [PuNames -> PuContents] /\ puFile'["backup"] = puFile["target"]
      BY <1>1, <2>2 DEF PuTypeOK
    <3>2. /\ puHelper' \in [pc : PuSteps, version : 0..PuMaxVersion, acked : BOOLEAN, ok : BOOLEAN]
          /\ puHelper'.pc = "copy" /\ puHelper'.version = puHelper.version
          /\ puHelper'.acked = puHelper.acked /\ puHelper'.ok = puHelper.ok
      BY <1>1, <2>2
    <3> QED
      BY <2>1, <3>1, <3>2 DEF PuTypeOK, PuAppFits, PuHelperFits
  <2>3. CASE UNCHANGED puFile /\ puHelper' = [puHelper EXCEPT !.pc = "relaunch"]
    <3>1. /\ puHelper' \in [pc : PuSteps, version : 0..PuMaxVersion, acked : BOOLEAN, ok : BOOLEAN]
          /\ puHelper'.pc = "relaunch" /\ puHelper'.version = puHelper.version
          /\ puHelper'.acked = puHelper.acked /\ puHelper'.ok = puHelper.ok
      BY <1>1, <2>3
    <3> QED
      BY <2>1, <2>3, <3>1 DEF PuTypeOK, PuAppFits, PuHelperFits
  <2> QED BY <1>3, <2>2, <2>3 DEF RenameAside, PuGoto
<1>4. CASE CopyBreaks
  <2>1. puFile' \in [PuNames -> PuContents] /\ puFile'["backup"] = puFile["backup"]
    BY <1>1, <1>4 DEF CopyBreaks, PuPut
  <2> QED
    BY <1>4, <2>1 DEF CopyBreaks, PuTypeOK, PuAppFits, PuHelperFits
<1>5. CASE CopyHelper
  <2>1. puHelper.version \in PuContents
    BY DEF PuTypeOK
  <2>2. /\ puFile' \in [PuNames -> PuContents] /\ puFile'["backup"] = puFile["backup"]
        /\ puFile'["target"] = puHelper.version
    BY <1>1, <1>5, <2>1 DEF CopyHelper, PuPut
  <2>3. /\ puHelper' \in [pc : PuSteps, version : 0..PuMaxVersion, acked : BOOLEAN, ok : BOOLEAN]
        /\ puHelper'.pc = "start" /\ puHelper'.version = puHelper.version
        /\ puHelper'.acked = puHelper.acked /\ puHelper'.ok = puHelper.ok
    BY <1>1, <1>5 DEF CopyHelper, PuGoto
  <2> QED
    BY <1>5, <2>2, <2>3 DEF CopyHelper, PuTypeOK, PuAppFits, PuHelperFits
<1>6. QED
  BY <1>2, <1>3, <1>4, <1>5

\* Starting the new version, and what its acknowledgement or its silence leads
\* to: the old version goes, or comes back.
LEMMA PuConcludeSteps ==
    ASSUME PuInv,
           StartNew \/ ConfirmUpdate \/ KillNew \/ RemoveNew \/ RestoreOld \/ PuRelaunch
    PROVE  PuInv'
<1> USE PuChanges, PuNothing DEF PuInv, PuAt, PuOlderIn
<1>1. /\ {"target", "backup"} \subseteq PuNames
      /\ {"ack", "remove", "done", "restore", "relaunch"} \subseteq PuSteps
  BY DEF PuNames, PuSteps
<1>2. ASSUME NEW pc \in PuSteps, puHelper' = [puHelper EXCEPT !.pc = pc]
      PROVE  /\ puHelper' \in [pc : PuSteps, version : 0..PuMaxVersion, acked : BOOLEAN, ok : BOOLEAN]
             /\ puHelper'.pc = pc /\ puHelper'.version = puHelper.version
             /\ puHelper'.acked = puHelper.acked /\ puHelper'.ok = puHelper.ok
  BY <1>2
<1>3. CASE StartNew
  <2>1. UNCHANGED <<puFile, puAck, puMark>> /\ puHelper.pc = "start"
    BY <1>3 DEF StartNew
  <2>2. CASE /\ puApp' = [st |-> "starting", version |-> puFile["target"], awaited |-> TRUE]
             /\ puHelper' = [puHelper EXCEPT !.pc = "ack"]
    <3>1. PuWhole(puFile["target"]) /\ puFile["target"] \in 0..PuMaxVersion
      BY <2>1 DEF PuHelperFits, PuTypeOK
    <3>2. /\ puApp' \in [st : PuAppStates, version : 0..PuMaxVersion, awaited : BOOLEAN]
          /\ puApp'.st = "starting" /\ puApp'.version = puFile["target"]
      BY <2>2, <3>1 DEF PuAppStates
    <3> QED
      BY <1>1, <1>2, <2>1, <2>2, <3>1, <3>2 DEF PuTypeOK, PuAppFits, PuHelperFits
  <2>3. CASE UNCHANGED puApp /\ puHelper' = [puHelper EXCEPT !.pc = "remove"]
    BY <1>1, <1>2, <2>1, <2>3 DEF PuTypeOK, PuAppFits, PuHelperFits
  <2> QED BY <1>3, <2>2, <2>3 DEF StartNew, PuGoto
<1>4. CASE ConfirmUpdate
  <2>1. /\ UNCHANGED <<puApp, puMark>> /\ puAck' = FALSE /\ puHelper.pc = "confirm"
        /\ puHelper' = [puHelper EXCEPT !.pc = "done"]
    BY <1>4 DEF ConfirmUpdate, PuGoto
  <2>2. puFile' \in [PuNames -> PuContents] /\ puFile'["target"] = puFile["target"]
        /\ puFile'["helper"] = puFile["helper"]
    BY <1>1, <1>4 DEF ConfirmUpdate, PuPut, PuTypeOK, PuNames
  <2> QED
    BY <1>1, <1>2, <2>1, <2>2, ZenonT(40) DEF PuTypeOK, PuAppFits, PuHelperFits
<1>5. CASE KillNew
  <2>1. /\ puApp' = PuNoApp /\ puAck' = FALSE /\ puHelper.pc = "kill" /\ UNCHANGED <<puFile, puMark>>
        /\ puHelper' = [puHelper EXCEPT !.pc = "remove"]
    BY <1>5 DEF KillNew, PuGoto
  <2> QED
    BY <1>1, <1>2, <2>1, Zenon DEF PuTypeOK, PuAppFits, PuHelperFits
<1>6. CASE RemoveNew
  <2>1. UNCHANGED <<puAck, puApp>> /\ puHelper.pc = "remove"
    BY <1>6 DEF RemoveNew
  <2>2. CASE /\ puFile' = [puFile EXCEPT !["target"] = 0] /\ UNCHANGED puMark
             /\ puHelper' = [puHelper EXCEPT !.pc = "restore"]
    <3>1. puFile' \in [PuNames -> PuContents] /\ puFile'["backup"] = puFile["backup"]
      BY <1>1, <2>2
    <3> QED
      BY <1>1, <1>2, <2>1, <2>2, <3>1 DEF PuTypeOK, PuAppFits, PuHelperFits
  <2>3. CASE /\ UNCHANGED puFile /\ puMark' = TRUE
             /\ puHelper' = [puHelper EXCEPT !.pc = "relaunch"]
    BY <1>1, <1>2, <2>1, <2>3 DEF PuTypeOK, PuAppFits, PuHelperFits
  <2> QED BY <1>6, <2>2, <2>3, Zenon DEF RemoveNew, PuPut, PuGoto
<1>7. CASE RestoreOld
  <2>1. /\ UNCHANGED <<puAck, puApp>> /\ puHelper.pc = "restore"
        /\ puHelper' = [puHelper EXCEPT !.pc = "relaunch"]
    BY <1>7 DEF RestoreOld, PuGoto
  <2>2. CASE /\ puFile' = [puFile EXCEPT !["target"] = puFile["backup"], !["backup"] = 0]
             /\ UNCHANGED puMark
    <3>1. puFile' \in [PuNames -> PuContents] /\ puFile'["target"] = puFile["backup"]
      BY <1>1, <2>2 DEF PuTypeOK
    <3> QED
      BY <1>1, <1>2, <2>1, <2>2, <3>1 DEF PuTypeOK, PuAppFits, PuHelperFits
  <2>3. CASE UNCHANGED puFile /\ puMark' = TRUE
    BY <1>1, <1>2, <2>1, <2>3 DEF PuTypeOK, PuAppFits, PuHelperFits
  <2> QED BY <1>7, <2>2, <2>3, Zenon DEF RestoreOld
<1>8. CASE PuRelaunch
  <2>1. /\ puApp' = Relaunched /\ UNCHANGED <<puFile, puAck, puMark>> /\ puHelper.pc = "relaunch"
        /\ puHelper' = [puHelper EXCEPT !.pc = "done", !.ok = FALSE]
    BY <1>8 DEF PuRelaunch
  <2>2. /\ puHelper' \in [pc : PuSteps, version : 0..PuMaxVersion, acked : BOOLEAN, ok : BOOLEAN]
        /\ puHelper'.pc = "done" /\ puHelper'.version = puHelper.version
        /\ puHelper'.acked = puHelper.acked /\ puHelper'.ok = FALSE
    BY <1>1, <2>1, Zenon DEF PuTypeOK
  <2>3. CASE puApp = PuNoApp /\ PuWhole(puFile["target"])
    <3>1. /\ puApp' \in [st : PuAppStates, version : 0..PuMaxVersion, awaited : BOOLEAN]
          /\ puApp'.st = "up" /\ puApp'.version = puFile["target"]
      BY <2>1, <2>3 DEF Relaunched, PuAppStates, PuTypeOK, PuWhole
    <3> QED
      BY <2>1, <2>2, <2>3, <3>1 DEF PuTypeOK, PuAppFits, PuHelperFits
  <2>4. CASE ~(puApp = PuNoApp /\ PuWhole(puFile["target"]))
    <3>1. puApp' = puApp
      BY <2>1, <2>4 DEF Relaunched
    <3> QED
      BY <2>1, <2>2, <3>1 DEF PuTypeOK, PuAppFits, PuHelperFits
  <2> QED BY <2>3, <2>4
<1>9. QED
  BY <1>3, <1>4, <1>5, <1>6, <1>7, <1>8

-----------------------------------------------------------------------------
\* Wherever the helper fails, waits in vain or is cut off, a whole older
\* executable is kept until the new version has acknowledged, and a helper that
\* ends without a failed rollback leaves the version it reports, for any number
\* of updates (replace_executable, rollback_executable).
THEOREM SpecUpdateSafe == PuSpec => []UpdateSafe
<1>1. PuInv /\ [PuNext]_puVars => PuInv'
  <2> SUFFICES ASSUME PuInv, [PuNext]_puVars PROVE PuInv'
    OBVIOUS
  <2>1. CASE UNCHANGED puVars
    BY <2>1 DEF puVars, PuInv, PuTypeOK, PuAppFits, PuHelperFits, PuAt, PuOlderIn
  <2>2. CASE PuNext
    BY <2>2, PuAppSteps, PuHelperMoves, PuReplaceSteps, PuConcludeSteps DEF PuNext, PuHelperStep
  <2> QED BY <2>1, <2>2
<1>2. QED
  BY <1>1, PuInitInv, PuInvIsSafe, PTL DEF PuSpec
============================================================================
