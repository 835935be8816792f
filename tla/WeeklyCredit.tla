---------------------------- MODULE WeeklyCredit ----------------------------
(***************************************************************************)
(* Redeeming a reset credit when the weekly quota window of an account is   *)
(* used up, in the desktop application (background.rs, accounts/            *)
(* reset_credits.rs) and on the server (jobs/weekly_reset.rs,               *)
(* jobs/account_refresh.rs, jobs/quota_refresh.rs).  Two refreshers of one   *)
(* account see the window change, decide that a credit is due, and redeem   *)
(* it; a fingerprint of the window, persisted, keeps them from redeeming     *)
(* twice.  Requests of the account use the window up meanwhile and report   *)
(* what they see of it in their quota headers.                             *)
(*                                                                         *)
(* A credit cannot be returned: it is the one step here that nothing undoes. *)
(***************************************************************************)
EXTENDS QuotaReading, Sequences

CONSTANTS
    WcSides,       \* a subset of {"desktop", "server"}
    WcActors,      \* the refreshers of the account
    WcLength,      \* the length of a quota window
    WcMaxCredits,  \* the credits the account starts with
    WcMaxNow,      \* bound: the last instant
    WcMaxRounds,   \* bound: refreshes ever started
    WcMaxFaults    \* bound: lost answers and restarts

VARIABLES
    wcSide,      \* which program runs
    wcProvider,  \* the provider: [level, reset, credits]
    wcAcct,      \* the stored account
    wcMarks,     \* the persisted fingerprints of windows a credit was redeemed for
    wcLock,      \* who holds the lock: the account's quota lock on the desktop,
                 \* its reset lock on the server
    wcJob,       \* what each refresher is doing
    wcNow, wcRounds, wcFaults,
    wcRedeemed   \* history: the credits redeemed, as [seen, mark, lost]

wcVars == <<wcSide, wcProvider, wcAcct, wcMarks, wcLock, wcJob, wcNow, wcRounds, wcFaults, wcRedeemed>>

-----------------------------------------------------------------------------
WcNobody == "nobody"
WcIdle == [pc |-> "idle", base |-> {}, answer |-> {}, seen |-> {}, mark |-> {}, credits |-> 0, again |-> FALSE]

WcSet(k, job) == [wcJob EXCEPT ![k] = job]

\* The quota answer the provider gives now.
WcAnswer ==
  ParsedUsage([weekly  |-> {[used |-> FullyAvailable - wcProvider.level, reset |-> {wcProvider.reset}]},
               reached |-> FALSE, limited |-> wcProvider.level = Exhausted, allowed |-> TRUE,
               plan    |-> {"plus"}], wcNow)

DesktopFullCandidates(before, after) ==
  UNION {FullTransition(w, before.quota.weekly) : w \in after.quota.weekly}

\* The windows whose credit the desktop considers: one that became exhausted,
\* or one that a restart found exhausted.
DesktopCandidates(before, after) ==
  UNION {ExhaustionTransition(w) : w \in after.quota.weekly}

\* What refresh_one hands to finalize_refresh on the server.
ServerCandidates(before, after) ==
  UNION {FullTransition(w, before.quota.weekly) : w \in after.quota.weekly}

WcCandidates(before, after) ==
  IF wcSide = "desktop" THEN DesktopCandidates(before, after) ELSE ServerCandidates(before, after)

-----------------------------------------------------------------------------
(* A refresh: the desktop holds the account's lock and writes over the      *)
(* record as it is; the server saves the record it read before it asked.    *)

WcAsk(k) ==
  /\ \/ wcJob[k].pc = "idle" /\ wcRounds < WcMaxRounds /\ wcRounds' = wcRounds + 1
     \/ wcJob[k].pc = "again" /\ UNCHANGED wcRounds
  /\ wcSide = "desktop" => wcLock = WcNobody
  /\ wcLock' = IF wcSide = "desktop" THEN k ELSE wcLock
  /\ wcJob' = WcSet(k, [wcJob[k] EXCEPT !.pc = "answered",
                                        !.base = IF wcSide = "server" THEN {wcAcct} ELSE {},
                                        !.answer = {WcAnswer}, !.credits = wcProvider.credits,
                                        !.again = wcJob[k].pc = "again"])
  /\ UNCHANGED <<wcSide, wcProvider, wcAcct, wcMarks, wcNow, wcFaults, wcRedeemed>>

\* After a refresh the desktop asks whether a credit is due; the refresh that
\* follows a redemption only leads to the mark.
WcAfterRefresh(k, base, after) ==
  LET due == IF wcJob[k].credits > 0 THEN WcCandidates(base, after) ELSE {}
  IN  IF wcJob[k].again
      THEN IF wcSide = "desktop"
           THEN [WcIdle EXCEPT !.pc = "mark", !.mark = wcJob[k].mark] ELSE WcIdle
      ELSE IF due = {} THEN WcIdle
      ELSE [WcIdle EXCEPT !.pc = "check", !.mark = due, !.credits = wcJob[k].credits,
                          !.seen = UNION {w.level : w \in after.quota.weekly}]

WcStore(k) ==
  /\ wcJob[k].pc = "answered"
  /\ LET base == IF wcSide = "desktop" THEN wcAcct ELSE CHOOSE a \in wcJob[k].base : TRUE
         after == QuotaRead(base, CHOOSE a \in wcJob[k].answer : TRUE)
     IN  /\ wcAcct' = after
         /\ wcJob' = WcSet(k, WcAfterRefresh(k, base, after))
  /\ wcLock' = IF wcSide = "desktop" THEN WcNobody ELSE wcLock
  /\ UNCHANGED <<wcSide, wcProvider, wcMarks, wcNow, wcRounds, wcFaults, wcRedeemed>>

-----------------------------------------------------------------------------
(* The redemption.                                                         *)

WcApplied(mark) == mark \subseteq wcMarks

WcCheck(k) ==
  /\ wcJob[k].pc = "check"
  /\ wcJob' = WcSet(k, IF WcApplied(wcJob[k].mark) THEN WcIdle ELSE [wcJob[k] EXCEPT !.pc = "lock"])
  /\ UNCHANGED <<wcSide, wcProvider, wcAcct, wcMarks, wcLock, wcNow, wcRounds, wcFaults, wcRedeemed>>

\* Only the server looks again once it holds the lock.
WcLockUnchecked(k) ==
  /\ wcJob[k].pc = "lock" /\ wcLock = WcNobody
  /\ wcLock' = k
  /\ wcJob' = WcSet(k, [wcJob[k] EXCEPT !.pc = "redeem"])
  /\ UNCHANGED <<wcSide, wcProvider, wcAcct, wcMarks, wcNow, wcRounds, wcFaults, wcRedeemed>>

WcTakeLock(k) ==
  /\ wcJob[k].pc = "lock" /\ wcLock = WcNobody
  /\ IF wcSide = "server" /\ WcApplied(wcJob[k].mark)
     THEN wcJob' = WcSet(k, WcIdle) /\ UNCHANGED wcLock
     ELSE wcJob' = WcSet(k, [wcJob[k] EXCEPT !.pc = "redeem"]) /\ wcLock' = k
  /\ UNCHANGED <<wcSide, wcProvider, wcAcct, wcMarks, wcNow, wcRounds, wcFaults, wcRedeemed>>

\* The provider says how many credits are left before one is asked for.
WcNoCredit(k) ==
  /\ wcJob[k].pc = "redeem" /\ wcProvider.credits = 0
  /\ wcJob' = WcSet(k, WcIdle)
  /\ wcLock' = WcNobody
  /\ UNCHANGED <<wcSide, wcProvider, wcAcct, wcMarks, wcNow, wcRounds, wcFaults, wcRedeemed>>

\* The provider resets the window; its answer arrives or is lost.  The server
\* marks the window at once, the desktop after one more refresh.
WcRedeem(k) ==
  /\ wcJob[k].pc = "redeem" /\ wcProvider.credits > 0
  /\ wcProvider' = [level |-> FullyAvailable, reset |-> wcNow + WcLength, credits |-> wcProvider.credits - 1]
  /\ \E lost \in BOOLEAN :
       /\ lost => wcFaults < WcMaxFaults
       /\ wcFaults' = IF lost THEN wcFaults + 1 ELSE wcFaults
       /\ wcRedeemed' = Append(wcRedeemed, [seen |-> wcJob[k].seen, mark |-> wcJob[k].mark, lost |-> lost])
       /\ wcMarks' = IF lost \/ wcSide = "desktop" THEN wcMarks ELSE wcMarks \cup wcJob[k].mark
       /\ wcJob' = WcSet(k, IF lost THEN WcIdle ELSE [WcIdle EXCEPT !.pc = "again", !.mark = wcJob[k].mark])
  /\ wcLock' = WcNobody
  /\ UNCHANGED <<wcSide, wcAcct, wcNow, wcRounds>>

\* The desktop keeps the last fingerprint of the account only.
WcMark(k) ==
  /\ wcJob[k].pc = "mark"
  /\ wcMarks' = wcJob[k].mark
  /\ wcJob' = WcSet(k, WcIdle)
  /\ UNCHANGED <<wcSide, wcProvider, wcAcct, wcLock, wcNow, wcRounds, wcFaults, wcRedeemed>>

-----------------------------------------------------------------------------
(* The window's life, and what requests report of it.                      *)

WcUse ==
  /\ wcProvider.level > Exhausted
  /\ wcProvider' = [wcProvider EXCEPT !.level = @ - 1]
  /\ UNCHANGED <<wcSide, wcAcct, wcMarks, wcLock, wcJob, wcNow, wcRounds, wcFaults, wcRedeemed>>

WcHeaders ==
  /\ \E level \in {{}, {wcProvider.level}}, reset \in {{}, {wcProvider.reset}} :
       /\ level # {} \/ reset # {}
       /\ wcAcct' = [wcAcct EXCEPT !.quota = MergedHeaders(@, [level |-> level, reset |-> reset, at |-> wcNow])]
  /\ wcAcct' # wcAcct
  /\ UNCHANGED <<wcSide, wcProvider, wcMarks, wcLock, wcJob, wcNow, wcRounds, wcFaults, wcRedeemed>>

WcTick ==
  /\ wcNow < WcMaxNow
  /\ wcNow' = wcNow + 1
  /\ wcProvider' = IF wcNow' < wcProvider.reset THEN wcProvider
                   ELSE [wcProvider EXCEPT !.level = FullyAvailable, !.reset = wcNow' + WcLength]
  /\ UNCHANGED <<wcSide, wcAcct, wcMarks, wcLock, wcJob, wcRounds, wcFaults, wcRedeemed>>

\* The program stops: what its refreshers knew is gone, the marks are not.
WcRestart ==
  /\ wcFaults < WcMaxFaults
  /\ \E k \in WcActors : wcJob[k].pc # "idle"
  /\ wcFaults' = wcFaults + 1
  /\ wcJob' = [k \in WcActors |-> WcIdle]
  /\ wcLock' = WcNobody
  /\ wcRedeemed' = [i \in DOMAIN wcRedeemed |->
                      IF wcRedeemed[i].mark \subseteq wcMarks THEN wcRedeemed[i]
                      ELSE [wcRedeemed[i] EXCEPT !.lost = TRUE]]
  /\ UNCHANGED <<wcSide, wcProvider, wcAcct, wcMarks, wcNow, wcRounds>>

WcInit ==
  /\ wcSide \in WcSides
  /\ wcProvider = [level |-> Partial, reset |-> 1 + WcLength, credits |-> WcMaxCredits]
  /\ wcAcct = [auth |-> "active", health |-> "healthy", error |-> {},
               quota |-> [weekly |-> {NormalizedWindow([level |-> {Partial}, reset |-> {1 + WcLength}, at |-> 1], {})},
                          limited |-> FALSE, at |-> {1}, error |-> {}],
               sub |-> [plan |-> {"plus"}, until |-> {}, status |-> "active", at |-> {1}]]
  /\ wcMarks = {} /\ wcLock = WcNobody
  /\ wcJob = [k \in WcActors |-> WcIdle]
  /\ wcNow = 1 /\ wcRounds = 0 /\ wcFaults = 0 /\ wcRedeemed = <<>>

WcNext ==
  \/ \E k \in WcActors :
       \/ WcAsk(k) \/ WcStore(k) \/ WcCheck(k) \/ WcTakeLock(k) \/ WcNoCredit(k) \/ WcRedeem(k) \/ WcMark(k)
  \/ WcUse \/ WcHeaders \/ WcTick \/ WcRestart

WcSpec == WcInit /\ [][WcNext]_wcVars

-----------------------------------------------------------------------------
\* The lock is held exactly while a refresher asks (desktop) or redeems, and
\* the stored window is one the code can hold.
WcTypeOK ==
  /\ \A k \in WcActors : (wcLock = k) <=> \/ wcJob[k].pc = "redeem"
                                          \/ wcSide = "desktop" /\ wcJob[k].pc = "answered"
  /\ \A w \in wcAcct.quota.weekly : w.level \subseteq Exhausted..FullyAvailable
  /\ wcProvider.credits + Len(wcRedeemed) = WcMaxCredits

\* A credit is redeemed for a window that reached zero ("Redeem one ChatGPT
\* reset credit after a weekly window reaches zero", weekly_reset.rs:15;
\* background.rs:497-559).
CreditAtZero == \A i \in DOMAIN wcRedeemed : wcRedeemed[i].seen = {Exhausted}

\* The desktop decides on exhausted windows only.
DesktopCreditAtZero == wcSide = "desktop" => CreditAtZero

\* On the server one fingerprint never costs two credits, however the
\* refreshers that hold it interleave, unless the answer to the first redemption
\* was lost or the server stopped before it was marked (weekly_reset.rs:42-56).
ServerOneCredit ==
  wcSide = "server" =>
    \A i, j \in DOMAIN wcRedeemed :
       i < j /\ wcRedeemed[i].mark = wcRedeemed[j].mark => wcRedeemed[i].lost
=============================================================================
