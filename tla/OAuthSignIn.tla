----------------------------- MODULE OAuthSignIn -----------------------------
(***************************************************************************)
(* Browser sign-in on the desktop: accounts/oauth_flow.rs keeps a pending  *)
(* snapshot file, a callback secret in the keychain and a listener task    *)
(* per login; commands/oauth.rs turns an accepted callback into an account *)
(* and undoes what it did when a step fails.  Commands hold setup_guard(), *)
(* so one runs at a time; listener tasks, the clock, crashes and the token *)
(* rotations of other parts of the program interleave with it.             *)
(***************************************************************************)
EXTENDS Integers, FiniteSets, FiniteSetsExt

CONSTANTS
    OaAccts,        \* local account ids
    OaNew,          \* the id a new account gets (a fresh uuid)
    OaIdents,       \* identities a user signs in with: <<team, member>>
    OaMaxFlows,     \* logins started
    OaMaxToks,      \* token pairs issued
    OaMaxFaults     \* failed writes and lost answers

NoTarget == "none"
OaPorts == {1455, 1457}     \* CODEX_OAUTH_CALLBACK_PORTS
OaFlows == 1 .. OaMaxFlows
OaToks == 0 .. OaMaxToks    \* 0: no token
NoIdent == <<0, 0>>
NoSecret == [kind |-> "none", tok |-> 0]
OaCode == [kind |-> "code", tok |-> 0]
Checkpoint(tok) == [kind |-> "tokens", tok |-> tok]     \* OAuthCompletionCheckpoint
NoCred == [tok |-> 0, ident |-> NoIdent]
NoSnap == [st |-> "none", target |-> NoTarget, port |-> 1455]

VARIABLES
    oaSnap,      \* login -> its snapshot file
    oaSecret,    \* login -> keychain entry oauth-callback:<login>
    oaTask,      \* login -> its listener: none, run, ended (not yet out of `listeners`)
    oaExpired,   \* logins past expires_at_ms
    oaWeb,       \* login -> [who, code]: what the provider granted
    oaAcct,      \* account -> identity of its record, NoIdent when there is none
    oaCred,      \* account -> stored credential
    oaSlot,      \* account -> token held by the token authority
    oaCmd,       \* the command that holds setup_guard()
    oaCount,     \* logins, tokens and faults so far
    oaGhost      \* live tokens, exchanged logins to keep, accounts overtaken or left to recovery

oaVars == <<oaSnap, oaSecret, oaTask, oaExpired, oaWeb, oaAcct, oaCred, oaSlot, oaCmd, oaCount, oaGhost>>
oaFlowVars == <<oaSnap, oaSecret, oaTask, oaExpired, oaWeb>>
oaAcctVars == <<oaAcct, oaCred, oaSlot>>

OaIdle == [at |-> "idle", f |-> 0, tok |-> 0, acct |-> OaNew, prev |-> NoCred, old |-> [a \in OaAccts |-> NoIdent]]

OaInit ==
    /\ oaSnap = [f \in OaFlows |-> NoSnap]
    /\ oaSecret = [f \in OaFlows |-> NoSecret]
    /\ oaTask = [f \in OaFlows |-> "none"]
    /\ oaExpired = {}
    /\ oaWeb = [f \in OaFlows |-> [who |-> NoIdent, code |-> "none"]]
    /\ \E i \in OaIdents :
        LET signed == OaAccts \ {OaNew} IN
        /\ oaAcct = [a \in OaAccts |-> IF a \in signed THEN i ELSE NoIdent]
        /\ oaCred = [a \in OaAccts |-> IF a \in signed THEN [tok |-> 1, ident |-> i] ELSE NoCred]
        /\ oaSlot = [a \in OaAccts |-> IF a \in signed THEN 1 ELSE 0]
    /\ oaCmd = OaIdle
    /\ oaCount = [flows |-> 0, toks |-> 1, faults |-> 0]
    /\ oaGhost = [live |-> {1}, kept |-> {}, overtaken |-> {}, recovery |-> FALSE]

----------------------------------------------------------------------------
(* Writes of two steps that one mutex covers.  A crash between the steps is *)
(* the partial outcome followed by OaCrash.                                 *)

MayFault(cost) == oaCount.faults + cost <= OaMaxFaults
Charged(cost) == [oaCount EXCEPT !.faults = @ + cost]

\* cleanup: the secret, then the snapshot; the second may be left behind.
CleanOutcome == [how : {"done"}, cost : {0}] \cup [how : {"left", "refused"}, cost : {1}]
CleanSecret(F, how) == [f \in OaFlows |-> IF f \in F /\ how # "refused" THEN NoSecret ELSE oaSecret[f]]
CleanSnap(F, how) == [f \in OaFlows |-> IF f \in F /\ how = "done" THEN NoSnap ELSE oaSnap[f]]

\* What is given up on purpose no longer has to be kept.
GivenUp(F, how) == [oaGhost EXCEPT !.kept = IF how = "refused" THEN @ ELSE {k \in @ : k[1] \notin F}]

\* accept_callback: refused unless the login is pending and unexpired.
CanAccept(f) == oaSnap[f].st = "pending" /\ f \notin oaExpired /\ oaWeb[f].code # "none"
AcceptOutcome == [how : {"ok"}, cost : {0}] \cup [how : {"unsaved", "undone"}, cost : {1}]
                 \cup [how : {"secretLeft"}, cost : {2}]
AcceptCallback(f, how) ==
    /\ oaSecret' = [oaSecret EXCEPT ![f] =
            CASE how \in {"ok", "secretLeft"} -> OaCode
              [] how = "undone" -> NoSecret
              [] how = "unsaved" -> @]
    /\ oaSnap' = IF how = "ok" THEN [oaSnap EXCEPT ![f].st = "callback"] ELSE oaSnap

----------------------------------------------------------------------------
(* Commands that start, resume, feed and cancel a login                     *)

Listening(p) == \E f \in OaFlows : oaTask[f] = "run" /\ oaSnap[f].port = p
FreePorts == {p \in OaPorts : ~Listening(p)}    \* other programs may hold some of them

ValidTargets == {NoTarget} \cup {a \in OaAccts : oaAcct[a] # NoIdent}     \* validate_oauth_target
Matching(t) == {f \in OaFlows : oaSnap[f].st # "none" /\ oaSnap[f].target = t}
Reusable(f, free) ==
    f \notin oaExpired /\ (oaSnap[f].st = "callback" \/ oaTask[f] # "none" \/ oaSnap[f].port \in free)

\* start_for_account: the newest login for the same target that can go on is reused; expired ones met
\* before it are cleaned up; otherwise a new login is written and listened for.
ReuseLogin(t) ==
    /\ oaCmd.at = "idle"
    /\ \E free \in SUBSET FreePorts :
        LET usable == {f \in Matching(t) : Reusable(f, free)} IN
        /\ usable # {}
        /\ LET f == Max(usable)
               stale == {g \in Matching(t) \cap oaExpired : g > f} IN
           /\ oaTask' = IF oaSnap[f].st = "pending" /\ oaTask[f] = "none"
                        THEN [oaTask EXCEPT ![f] = "run"] ELSE oaTask
           /\ oaSecret' = CleanSecret(stale, "done")
           /\ oaSnap' = CleanSnap(stale, "done")
           /\ oaGhost' = GivenUp(stale, "done")
    /\ UNCHANGED <<oaExpired, oaWeb, oaCmd, oaCount, oaAcctVars>>

StartLogin(t) ==
    /\ oaCmd.at = "idle"
    /\ oaCount.flows < OaMaxFlows
    /\ \E free \in SUBSET FreePorts :
        LET n == oaCount.flows + 1
            stale == Matching(t) \cap oaExpired IN
        /\ free # {}
        /\ ~ \E f \in Matching(t) : Reusable(f, free)
        /\ oaSnap' = [CleanSnap(stale, "done") EXCEPT ![n] = [st |-> "pending", target |-> t, port |-> Min(free)]]
        /\ oaTask' = [oaTask EXCEPT ![n] = "run"]
        /\ oaSecret' = CleanSecret(stale, "done")
        /\ oaGhost' = GivenUp(stale, "done")
    /\ oaCount' = [oaCount EXCEPT !.flows = @ + 1]
    /\ UNCHANGED <<oaExpired, oaWeb, oaCmd, oaAcctVars>>

ResumeLogin(f) ==
    /\ oaCmd.at = "idle"
    /\ oaSnap[f].st # "none"
    /\ \/ /\ f \in oaExpired
          /\ \E o \in CleanOutcome :
              /\ MayFault(o.cost)
              /\ oaSecret' = CleanSecret({f}, o.how)
              /\ oaSnap' = CleanSnap({f}, o.how)
              /\ oaGhost' = GivenUp({f}, o.how)
              /\ oaCount' = Charged(o.cost)
          /\ UNCHANGED oaTask
       \/ /\ f \notin oaExpired /\ oaSnap[f].st = "pending" /\ oaTask[f] = "none"
          /\ ~Listening(oaSnap[f].port)
          /\ oaTask' = [oaTask EXCEPT ![f] = "run"]
          /\ UNCHANGED <<oaSecret, oaSnap, oaGhost, oaCount>>
    /\ UNCHANGED <<oaExpired, oaWeb, oaCmd, oaAcctVars>>

\* submit_manual_callback accepts the pasted URL and then waits for the listener to end.
SubmitManualCallback(f) ==
    /\ oaCmd.at = "idle"
    /\ CanAccept(f)
    /\ \E o \in AcceptOutcome :
        /\ MayFault(o.cost)
        /\ AcceptCallback(f, o.how)
        /\ oaCount' = Charged(o.cost)
        /\ oaCmd' = IF o.how = "ok" THEN [OaIdle EXCEPT !.at = "submitStop", !.f = f] ELSE OaIdle
    /\ UNCHANGED <<oaTask, oaExpired, oaWeb, oaAcctVars, oaGhost>>

CancelLogin(f) ==
    /\ oaCmd.at = "idle"
    /\ oaSnap[f].st # "none"
    /\ oaCmd' = [OaIdle EXCEPT !.at = "cancelStop", !.f = f]
    /\ UNCHANGED <<oaFlowVars, oaAcctVars, oaCount, oaGhost>>

\* stop_listener sends the shutdown and joins the task, which may first serve what it had selected.
Stopping == oaCmd.at \in {"submitStop", "cancelStop", "finishStop"}
ListenerStops ==
    /\ Stopping /\ oaTask[oaCmd.f] = "run"
    /\ oaTask' = [oaTask EXCEPT ![oaCmd.f] = "none"]
    /\ UNCHANGED <<oaSnap, oaSecret, oaExpired, oaWeb, oaAcctVars, oaCmd, oaCount, oaGhost>>

StopListener ==
    /\ Stopping /\ oaTask[oaCmd.f] = "none"
    /\ oaCmd' = CASE oaCmd.at = "submitStop" -> OaIdle
                  [] oaCmd.at = "cancelStop" -> [oaCmd EXCEPT !.at = "cancel"]
                  [] oaCmd.at = "finishStop" -> [oaCmd EXCEPT !.at = "finish"]
    /\ UNCHANGED <<oaFlowVars, oaAcctVars, oaCount, oaGhost>>

CancelCleanup ==
    /\ oaCmd.at = "cancel"
    /\ \E o \in CleanOutcome :
        /\ MayFault(o.cost)
        /\ oaSecret' = CleanSecret({oaCmd.f}, o.how)
        /\ oaSnap' = CleanSnap({oaCmd.f}, o.how)
        /\ oaGhost' = GivenUp({oaCmd.f}, o.how)
        /\ oaCount' = Charged(o.cost)
    /\ oaCmd' = OaIdle
    /\ UNCHANGED <<oaTask, oaExpired, oaWeb, oaAcctVars>>

----------------------------------------------------------------------------
(* The listener task, the browser and the clock                             *)

\* run_listener, the expiry branch: what cleanup answers is ignored.
ListenerExpires(f) ==
    /\ oaTask[f] = "run" /\ f \in oaExpired
    /\ \E o \in CleanOutcome :
        /\ MayFault(o.cost)
        /\ oaSecret' = CleanSecret({f}, o.how)
        /\ oaSnap' = CleanSnap({f}, o.how)
        /\ oaGhost' = GivenUp({f}, o.how)
        /\ oaCount' = Charged(o.cost)
    /\ oaTask' = [oaTask EXCEPT ![f] = "ended"]
    /\ UNCHANGED <<oaExpired, oaWeb, oaAcctVars, oaCmd>>

\* process_request: an invalid callback leaves the task running, anything else ends it.
ListenerAccepts(f) ==
    /\ oaTask[f] = "run" /\ oaWeb[f].code # "none"
    /\ \/ /\ CanAccept(f)
          /\ \E o \in AcceptOutcome :
              /\ MayFault(o.cost)
              /\ AcceptCallback(f, o.how)
              /\ oaCount' = Charged(o.cost)
       \/ /\ oaSnap[f].st # "pending"
          /\ UNCHANGED <<oaSecret, oaSnap, oaCount>>
    /\ oaTask' = [oaTask EXCEPT ![f] = "ended"]
    /\ UNCHANGED <<oaExpired, oaWeb, oaAcctVars, oaCmd, oaGhost>>

\* The last thing a task does is to take itself out of `listeners`.
ListenerRemoved(f) ==
    /\ oaTask[f] = "ended"
    /\ oaTask' = [oaTask EXCEPT ![f] = "none"]
    /\ UNCHANGED <<oaSnap, oaSecret, oaExpired, oaWeb, oaAcctVars, oaCmd, oaCount, oaGhost>>

\* The user signs in, with an identity of their choice.
Authorize(f, i) ==
    /\ oaSnap[f].st # "none" /\ oaWeb[f].code = "none"
    /\ oaWeb' = [oaWeb EXCEPT ![f] = [who |-> i, code |-> "fresh"]]
    /\ UNCHANGED <<oaSnap, oaSecret, oaTask, oaExpired, oaAcctVars, oaCmd, oaCount, oaGhost>>

LoginExpires(f) ==
    /\ oaSnap[f].st # "none" /\ f \notin oaExpired
    /\ oaExpired' = oaExpired \cup {f}
    /\ UNCHANGED <<oaSnap, oaSecret, oaTask, oaWeb, oaAcctVars, oaCmd, oaCount, oaGhost>>

----------------------------------------------------------------------------
(* complete_oauth                                                           *)

Fail == oaCmd' = OaIdle
CompleteGoes(at) == oaCmd' = [oaCmd EXCEPT !.at = at]

\* completion_checkpoint: tokens stored by an earlier attempt are used again, a code is exchanged.
BeginCompletion(f) ==
    /\ oaCmd.at = "idle"
    /\ oaSnap[f].st = "callback"
    /\ \/ /\ oaSecret[f].kind = "tokens"
          /\ oaCmd' = [OaIdle EXCEPT !.at = "lookup", !.f = f, !.tok = oaSecret[f].tok]
       \/ /\ oaSecret[f].kind = "code" /\ f \notin oaExpired
          /\ oaCmd' = [OaIdle EXCEPT !.at = "exchange", !.f = f]
    /\ UNCHANGED <<oaFlowVars, oaAcctVars, oaCount, oaGhost>>

\* exchange_code: a code is good for one exchange, whether or not its answer arrives.
ExchangeCode ==
    /\ oaCmd.at = "exchange"
    /\ LET f == oaCmd.f IN
       \/ /\ oaWeb[f].code = "fresh" /\ oaCount.toks < OaMaxToks
          /\ oaWeb' = [oaWeb EXCEPT ![f].code = "spent"]
          /\ oaCount' = [oaCount EXCEPT !.toks = @ + 1]
          /\ oaGhost' = [oaGhost EXCEPT !.live = @ \cup {oaCount.toks + 1}]
          /\ oaCmd' = [oaCmd EXCEPT !.at = "checkpoint", !.tok = oaCount.toks + 1]
       \/ /\ Fail /\ MayFault(1) /\ oaCount' = Charged(1)
          /\ \/ oaWeb' = [oaWeb EXCEPT ![f].code = "spent"]
             \/ UNCHANGED oaWeb
          /\ UNCHANGED oaGhost
       \/ /\ oaWeb[f].code = "spent" /\ Fail
          /\ UNCHANGED <<oaWeb, oaCount, oaGhost>>
    /\ UNCHANGED <<oaSnap, oaSecret, oaTask, oaExpired, oaAcctVars>>

\* store_completion_checkpoint replaces the callback by the tokens.
StoreCheckpoint ==
    /\ oaCmd.at = "checkpoint"
    /\ LET f == oaCmd.f IN
       \/ /\ oaSecret' = [oaSecret EXCEPT ![f] = Checkpoint(oaCmd.tok)]
          /\ oaGhost' = [oaGhost EXCEPT !.kept = @ \cup {<<f, oaCmd.tok>>}]
          /\ CompleteGoes("lookup")
          /\ UNCHANGED oaCount
       \/ /\ MayFault(1) /\ oaCount' = Charged(1) /\ Fail
          /\ UNCHANGED <<oaSecret, oaGhost>>
    /\ UNCHANGED <<oaSnap, oaTask, oaExpired, oaWeb, oaAcctVars>>

\* The account the login belongs to: its target, unless the stored credential is of another team, or
\* the one record (then the one credential) with this identity, or a new one.
SameRecord(i) == {a \in OaAccts : oaAcct[a] = i}
SameCredential(i) == {a \in OaAccts : oaAcct[a] # NoIdent /\ oaCred[a].tok # 0 /\ oaCred[a].ident = i}
TargetMatches(t, i) == oaAcct[t] # NoIdent /\ (oaCred[t].tok = 0 \/ oaCred[t].ident[1] = i[1])
FindExistingAccount(i) ==
    IF SameRecord(i) # {} THEN SameRecord(i) ELSE SameCredential(i)

LookupAccount ==
    /\ oaCmd.at = "lookup"
    /\ LET i == oaWeb[oaCmd.f].who
           t == oaSnap[oaCmd.f].target
           Install(a) == oaCmd' = [oaCmd EXCEPT !.at = "save", !.acct = a, !.prev = oaCred[a], !.old = oaAcct] IN
       \/ t # NoTarget /\ TargetMatches(t, i) /\ Install(t)
       \/ t # NoTarget /\ ~TargetMatches(t, i) /\ Fail
       \/ t = NoTarget /\ Cardinality(FindExistingAccount(i)) > 1 /\ Fail
       \/ t = NoTarget /\ \E a \in OaAccts : FindExistingAccount(i) = {a} /\ Install(a)
       \/ /\ t = NoTarget /\ FindExistingAccount(i) = {}
          /\ oaAcct[OaNew] = NoIdent /\ oaCred[OaNew].tok = 0 /\ Install(OaNew)
    /\ UNCHANGED <<oaFlowVars, oaAcctVars, oaCount, oaGhost>>

\* The steps that install the login.  From the second on, a failure is rolled back.
SaveCredential ==
    /\ oaCmd.at = "save"
    /\ \/ /\ oaCred' = [oaCred EXCEPT ![oaCmd.acct] = [tok |-> oaCmd.tok, ident |-> oaWeb[oaCmd.f].who]]
          /\ CompleteGoes("upsert") /\ UNCHANGED oaCount
       \/ /\ MayFault(1) /\ oaCount' = Charged(1) /\ Fail /\ UNCHANGED oaCred
    /\ UNCHANGED <<oaFlowVars, oaAcct, oaSlot, oaGhost>>

UpsertAccount ==
    /\ oaCmd.at = "upsert"
    /\ \/ /\ oaAcct' = [oaAcct EXCEPT ![oaCmd.acct] = oaWeb[oaCmd.f].who]
          /\ CompleteGoes("register") /\ UNCHANGED oaCount
       \/ /\ MayFault(1) /\ oaCount' = Charged(1) /\ CompleteGoes("undoCredential") /\ UNCHANGED oaAcct
    /\ UNCHANGED <<oaFlowVars, oaCred, oaSlot, oaGhost>>

\* register in the token authority, then sync_accounts_or_rollback and the quota schedule.
RegisterTokens ==
    /\ oaCmd.at = "register"
    /\ \/ /\ oaSlot' = [oaSlot EXCEPT ![oaCmd.acct] = oaCmd.tok]
          /\ CompleteGoes("sync") /\ UNCHANGED oaCount
       \/ /\ MayFault(1) /\ oaCount' = Charged(1) /\ CompleteGoes("undoCredential") /\ UNCHANGED oaSlot
    /\ UNCHANGED <<oaFlowVars, oaCred, oaAcct, oaGhost>>

SyncRuntime ==
    /\ oaCmd.at = "sync"
    /\ \/ CompleteGoes("finishStop") /\ UNCHANGED oaCount
       \/ MayFault(1) /\ oaCount' = Charged(1) /\ CompleteGoes("undoCredential")
    /\ UNCHANGED <<oaFlowVars, oaAcctVars, oaGhost>>

\* A variant that rolls back without putting the checkpoint back.
FinishWithoutRestore ==
    /\ oaCmd.at = "finish"
    /\ \E o \in CleanOutcome :
        /\ MayFault(o.cost)
        /\ oaSecret' = CleanSecret({oaCmd.f}, o.how)
        /\ oaSnap' = CleanSnap({oaCmd.f}, o.how)
        /\ oaGhost' = IF o.how = "done" THEN GivenUp({oaCmd.f}, o.how) ELSE oaGhost
        /\ oaCount' = Charged(o.cost)
        /\ oaCmd' = IF o.how = "done" THEN OaIdle ELSE [oaCmd EXCEPT !.at = "undoCredential"]
    /\ UNCHANGED <<oaTask, oaExpired, oaWeb, oaAcctVars>>

\* flow.complete; when its cleanup fails the checkpoint is put back before the rollback.
FinishFlow ==
    /\ oaCmd.at = "finish"
    /\ \E o \in CleanOutcome :
        /\ MayFault(o.cost)
        /\ oaSecret' = CleanSecret({oaCmd.f}, o.how)
        /\ oaSnap' = CleanSnap({oaCmd.f}, o.how)
        /\ oaGhost' = IF o.how = "done" THEN GivenUp({oaCmd.f}, o.how) ELSE oaGhost
        /\ oaCount' = Charged(o.cost)
        /\ oaCmd' = IF o.how = "done" THEN OaIdle ELSE [oaCmd EXCEPT !.at = "restore"]
    /\ UNCHANGED <<oaTask, oaExpired, oaWeb, oaAcctVars>>

RestoreCheckpoint ==
    /\ oaCmd.at = "restore"
    /\ \/ /\ oaSecret' = [oaSecret EXCEPT ![oaCmd.f] = Checkpoint(oaCmd.tok)]
          /\ UNCHANGED <<oaCount, oaGhost>>
       \/ /\ MayFault(1) /\ oaCount' = Charged(1)   \* reported as RecoveryRequired
          /\ oaGhost' = GivenUp({oaCmd.f}, "left")
          /\ UNCHANGED oaSecret
    /\ CompleteGoes("undoCredential")
    /\ UNCHANGED <<oaSnap, oaTask, oaExpired, oaWeb, oaAcctVars>>

\* A variant that always deletes, as if the account were new.
UndoByDeleting ==
    /\ oaCmd.at = "undoCredential"
    /\ oaCred' = [oaCred EXCEPT ![oaCmd.acct] = NoCred]
    /\ CompleteGoes("undoRecords")
    /\ UNCHANGED <<oaFlowVars, oaAcct, oaSlot, oaCount, oaGhost>>

\* rollback_completion: credential, record list, token authority; a failure ends in fail_closed.
UndoCredential ==
    /\ oaCmd.at = "undoCredential"
    /\ \/ oaCred' = [oaCred EXCEPT ![oaCmd.acct] = oaCmd.prev] /\ UNCHANGED <<oaCount, oaGhost>>
       \/ /\ MayFault(1) /\ oaCount' = Charged(1)
          /\ oaGhost' = [oaGhost EXCEPT !.recovery = TRUE]
          /\ UNCHANGED oaCred
    /\ CompleteGoes("undoRecords")
    /\ UNCHANGED <<oaFlowVars, oaAcct, oaSlot>>

UndoRecords ==
    /\ oaCmd.at = "undoRecords"
    /\ \/ oaAcct' = oaCmd.old /\ UNCHANGED <<oaCount, oaGhost>>
       \/ /\ MayFault(1) /\ oaCount' = Charged(1)
          /\ oaGhost' = [oaGhost EXCEPT !.recovery = TRUE]
          /\ UNCHANGED oaAcct
    /\ oaSlot' = [oaSlot EXCEPT ![oaCmd.acct] =
                    IF oaCmd.prev.tok # 0 /\ oaCmd.old[oaCmd.acct] # NoIdent THEN oaCmd.prev.tok ELSE 0]
    /\ Fail
    /\ UNCHANGED <<oaFlowVars, oaCred>>

----------------------------------------------------------------------------
(* The rest of the program                                                  *)

\* A quota refresh or a request rotates an account's tokens.  Those just installed are not due yet.
Installed == oaCmd.at \in {"upsert", "register", "sync", "finishStop", "finish", "restore", "undoCredential"}
HeldElsewhere(a) ==
    \/ oaCmd.at # "idle" /\ oaCmd.acct = a
    \/ \E f \in OaFlows : oaSecret[f].tok = oaCred[a].tok
RotateTokens(a) ==
    /\ oaAcct[a] # NoIdent /\ oaCred[a].tok # 0
    /\ oaCount.toks < OaMaxToks
    /\ ~(Installed /\ oaCmd.acct = a)
    /\ LET n == oaCount.toks + 1 IN
       /\ oaCred' = [oaCred EXCEPT ![a].tok = n]
       /\ oaSlot' = [oaSlot EXCEPT ![a] = n]
       /\ oaGhost' = [oaGhost EXCEPT !.live = (@ \ {oaCred[a].tok}) \cup {n},
                        !.kept = {k \in @ : k[2] # oaCred[a].tok},
                        !.overtaken = IF HeldElsewhere(a) THEN @ \cup {a} ELSE @]
       /\ oaCount' = [oaCount EXCEPT !.toks = n]
    /\ UNCHANGED <<oaFlowVars, oaAcct, oaCmd>>

\* The process ends anywhere; at the next start the authority is filled from the credentials.
OaCrash ==
    /\ MayFault(1) /\ oaCount' = Charged(1)
    /\ oaTask' = [f \in OaFlows |-> "none"]
    /\ oaCmd' = OaIdle
    /\ oaSlot' = [a \in OaAccts |-> IF oaAcct[a] # NoIdent THEN oaCred[a].tok ELSE 0]
    /\ oaGhost' = [oaGhost EXCEPT !.recovery = @ \/ oaCmd.at = "undoRecords"]
    /\ UNCHANGED <<oaSnap, oaSecret, oaExpired, oaWeb, oaAcct, oaCred>>

OaNext ==
    \/ \E t \in ValidTargets : ReuseLogin(t) \/ StartLogin(t)
    \/ \E f \in OaFlows :
        \/ ResumeLogin(f) \/ SubmitManualCallback(f) \/ CancelLogin(f) \/ BeginCompletion(f)
        \/ ListenerExpires(f) \/ ListenerAccepts(f) \/ ListenerRemoved(f) \/ LoginExpires(f)
        \/ \E i \in OaIdents : Authorize(f, i)
    \/ ListenerStops \/ StopListener \/ CancelCleanup
    \/ ExchangeCode \/ StoreCheckpoint \/ LookupAccount \/ SaveCredential \/ UpsertAccount
    \/ RegisterTokens \/ SyncRuntime \/ FinishFlow \/ RestoreCheckpoint \/ UndoCredential \/ UndoRecords
    \/ \E a \in OaAccts : RotateTokens(a)
    \/ OaCrash

OaSpec == OaInit /\ [][OaNext]_oaVars

----------------------------------------------------------------------------
(* Tokens that a login was exchanged for, and that were checkpointed, are   *)
(* in the checkpoint or in an account's credential until the login is       *)
(* cancelled, expires or is completed: a failed completion can be tried     *)
(* again although its code is spent.  Where the code reports                *)
(* RecoveryRequired because the checkpoint could not be put back, they may  *)
(* be gone.                                                                 *)
SignInIsKept ==
    \A k \in oaGhost.kept :
        \/ oaSecret[k[1]] = Checkpoint(k[2])
        \/ \E a \in OaAccts : oaCred[a].tok = k[2]

(* Whatever a completion does and wherever it fails, an account that is in  *)
(* the list afterwards has a login that the provider accepts, and the token *)
(* authority holds that one.  Left out: an account whose tokens were        *)
(* rotated while a completion held the credential to roll back to, or while *)
(* the checkpoint of a completion that was cut short had them too, and a    *)
(* rollback that failed itself, which closes the gateway.                   *)
AccountKeepsLogin ==
    oaCmd.at = "idle" /\ ~oaGhost.recovery =>
        \A a \in OaAccts \ oaGhost.overtaken :
            oaAcct[a] # NoIdent => oaCred[a].tok \in oaGhost.live /\ oaSlot[a] = oaCred[a].tok

(* Two records never carry the same identity: find_existing_account treats  *)
(* such a pair as damage.                                                   *)
OneAccountPerIdentity ==
    \A a, b \in OaAccts : a # b /\ oaAcct[a] # NoIdent => oaAcct[a] # oaAcct[b]

OaTypeOK ==
    /\ oaSnap \in [OaFlows -> [st : {"none", "pending", "callback"}, target : OaAccts \cup {NoTarget}, port : OaPorts]]
    /\ oaSecret \in [OaFlows -> [kind : {"none", "code", "tokens"}, tok : OaToks]]
    /\ oaTask \in [OaFlows -> {"none", "run", "ended"}]
    /\ oaExpired \subseteq OaFlows
    /\ oaWeb \in [OaFlows -> [who : OaIdents \cup {NoIdent}, code : {"none", "fresh", "spent"}]]
    /\ oaCred \in [OaAccts -> [tok : OaToks, ident : OaIdents \cup {NoIdent}]]
    /\ oaAcct \in [OaAccts -> OaIdents \cup {NoIdent}]
    /\ oaSlot \in [OaAccts -> OaToks]
    /\ oaGhost.kept \subseteq OaFlows \X OaToks
=============================================================================
