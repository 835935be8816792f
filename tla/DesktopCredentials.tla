------------------------- MODULE DesktopCredentials -------------------------
(***************************************************************************)
(* The sign-in of one account of the desktop, which four places hold: the  *)
(* keychain, the slot of the token authority, the auth.json of a ChatGPT   *)
(* profile the account is attached to, and whoever is rotating it.  Two    *)
(* callers prepare tokens: the gateway, and quota refreshes, which first   *)
(* adopt what they find in the profile and write the result back to it     *)
(* (accounts/authority.rs, accounts/quota_refresh.rs, usage_writer.rs,     *)
(* profiles/codex.rs).                                                     *)
(*                                                                         *)
(* A token pair is a number and the provider honours the newest refresh    *)
(* token only.  ChatGPT refreshes the profile's tokens on its own.  One    *)
(* step runs between two awaits, or between two accesses to the keychain.  *)
(***************************************************************************)
EXTENDS Integers, FiniteSets

CONSTANTS
    DcTasks,      \* requests and quota refreshes that prepare tokens
    DcMaxToks,    \* bound: token pairs issued
    DcMaxNow,     \* bound: readings of the clock
    DcMaxFaults   \* bound: failed saves, lost answers and crashes

ASSUME DcAssumption ==
    DcMaxToks \in Nat /\ DcMaxNow \in Nat /\ DcMaxFaults \in Nat

VARIABLES
    dcKey,      \* StoredCodexCredentials in the keychain
    dcSlot,     \* the token authority's slot, and the task that has locked it
    dcAuthFile, \* the token pair in the profile's auth.json, and the one its backup
                \* expects; NoTok without a profile
    dcLock,     \* the account's refresh lock file
    dcTask,     \* task -> where it is
    dcWriter,   \* the usage writer's callback after a 401
    dcNow,      \* the clock, which issue times are taken from
    dcLive,     \* the pair whose refresh token the provider honours
    dcFaults,   \* faults so far
    dcLost      \* why the newest pair may be in no place that is read again

dcVars == <<dcKey, dcSlot, dcAuthFile, dcLock, dcTask, dcWriter, dcNow, dcLive, dcFaults, dcLost>>
dcStores == <<dcKey, dcSlot, dcAuthFile, dcLock>>
dcProvider == <<dcLive, dcLost, dcFaults>>

-----------------------------------------------------------------------------
Toks == 1..DcMaxToks
NoTask == "none"
NoTok == 0

\* The account is attached to a ChatGPT profile.
Bound == dcAuthFile.tok # NoTok

\* The tokens of a StoredCodexCredentials or TokenSet: the pair, the generation,
\* issued_at_ms, and whether the access token is neither expired nor close to it.
TokenRec == [tok : Toks, gen : Nat, at : Nat, fresh : BOOLEAN]

IdleTask == [pc |-> "Idle", quota |-> FALSE, retried |-> FALSE, now |-> 0,
             has |-> [tok |-> 1, gen |-> 0, at |-> 0, fresh |-> FALSE]]

\* has: the tokens the task read or received last.  now: the time it reads when it
\* begins to prepare.
DcTask == [pc : {"Idle", "Adopt", "AdoptRegister", "Load", "Register", "Wait", "Settle",
                 "Acquire", "Stamp", "Reread", "Present", "Save", "Persist", "Push",
                 "Sent", "Invalidate", "Again"},
           quota : BOOLEAN, retried : BOOLEAN, now : Nat, has : TokenRec]

\* Where the newest pair can go missing: a rotation whose answer did not arrive or
\* was not saved; the usage writer's write of an older credential; the adoption of
\* an older pair from the profile; the invalidation of a slot that was registered
\* from a credential loaded before the rotation.
Losses == {"answer", "writer", "adopted", "registered"}

DcGo(t, pc) == dcTask' = [dcTask EXCEPT ![t].pc = pc]
DcTake(t, pc, tokens) == dcTask' = [dcTask EXCEPT ![t].pc = pc, ![t].has = tokens]
DcClock == dcNow < DcMaxNow /\ dcNow' = dcNow + 1
DcFault == dcFaults < DcMaxFaults /\ dcFaults' = dcFaults + 1

\* The task drops the slot's mutex, and the slot is as x.
Unlock(x) == dcSlot' = [tokens |-> x, pending |-> FALSE, by |-> NoTask]

\* The lock file is removed by the guard that created it.
Guarded(t) == dcLock = [owner |-> t, stale |-> FALSE]
NoLock == [owner |-> "absent", stale |-> FALSE]
DropGuard(t) == dcLock' = IF Guarded(t) THEN NoLock ELSE dcLock

-----------------------------------------------------------------------------
\* A request of the gateway prepares tokens.
GatewayPrepare(t) ==
    /\ dcTask[t].pc = "Idle" /\ DcClock
    /\ dcTask' = [dcTask EXCEPT ![t] = [IdleTask EXCEPT !.pc = "Wait", !.now = dcNow']]
    /\ UNCHANGED <<dcStores, dcWriter, dcProvider>>

\* read_managed_account_token_update(): an access token in the profile that is not
\* the stored one is an update.
TokenUpdate == Bound /\ dcAuthFile.tok # dcKey.tok

\* A quota refresh first looks for tokens that ChatGPT has refreshed in the profile.
SyncManagedProfile(t) ==
    /\ dcTask[t].pc \in {"Idle", "Again"} /\ DcClock
    /\ dcTask' = [dcTask EXCEPT ![t] =
           [pc |-> IF TokenUpdate THEN "Adopt" ELSE "Load",
            quota |-> TRUE, retried |-> dcTask[t].pc = "Again", now |-> dcNow',
            has |-> IF TokenUpdate
                    THEN [tok |-> dcAuthFile.tok, gen |-> dcKey.gen + 1, at |-> dcNow',
                          fresh |-> TRUE]
                    ELSE IdleTask.has]]
    /\ UNCHANGED <<dcStores, dcWriter, dcProvider>>

\* CredentialPersistence.persist() keeps a stored credential of a later generation,
\* or of the same one if it was not issued earlier.
Newer(tokens) ==
    IF dcKey.gen > tokens.gen \/ (dcKey.gen = tokens.gen /\ dcKey.at >= tokens.at)
    THEN dcKey ELSE tokens

\* Note it when the write of x replaces a newer pair in the keychain.
Cost(x, why) == dcLost' = IF x.tok < dcKey.tok THEN dcLost \cup {why} ELSE dcLost

AdoptTokens(t) ==
    LET x == Newer(dcTask[t].has)
    IN  /\ dcTask[t].pc = "Adopt"
        /\ dcKey' = x /\ Cost(x, "adopted")
        /\ DcGo(t, "AdoptRegister")
        /\ UNCHANGED <<dcNow, dcSlot, dcAuthFile, dcLock, dcWriter, dcLive, dcFaults>>

AdoptFails(t) ==
    /\ dcTask[t].pc = "Adopt" /\ DcFault
    /\ DcGo(t, "Idle")
    /\ UNCHANGED <<dcNow, dcStores, dcWriter, dcLive, dcLost>>

\* sync_account_bindings(): the profile gets tok, unless somebody else has changed it.
DcSyncBindings(tok) ==
    IF Bound /\ dcAuthFile.tok \in {dcAuthFile.managed, tok}
    THEN /\ dcAuthFile' = [tok |-> tok, managed |-> tok]
         /\ dcLost' = IF tok < dcAuthFile.tok THEN dcLost \cup {"adopted"} ELSE dcLost
    ELSE UNCHANGED <<dcAuthFile, dcLost>>

\* register() waits for the slot's mutex and replaces what the slot holds.
RegisterAdopted(t) ==
    /\ dcTask[t].pc = "AdoptRegister" /\ dcSlot.by = NoTask
    /\ Unlock(dcTask[t].has) /\ DcSyncBindings(dcTask[t].has.tok)
    /\ DcGo(t, "Load")
    /\ UNCHANGED <<dcNow, dcKey, dcLock, dcWriter, dcLive, dcFaults>>

LoadStored(t) ==
    /\ dcTask[t].pc = "Load"
    /\ DcTake(t, "Register", dcKey)
    /\ UNCHANGED <<dcNow, dcStores, dcWriter, dcProvider>>

RegisterStored(t) ==
    /\ dcTask[t].pc = "Register" /\ dcSlot.by = NoTask
    /\ Unlock(dcTask[t].has)
    /\ DcGo(t, "Wait")
    /\ UNCHANGED <<dcNow, dcKey, dcAuthFile, dcLock, dcWriter, dcProvider>>

-----------------------------------------------------------------------------
\* prepare_inner(): tokens owed to the keychain are saved first; fresh ones are
\* returned; otherwise the adapter refreshes.
LockSlot(t) ==
    /\ dcTask[t].pc = "Wait" /\ dcSlot.by = NoTask
    /\ dcSlot' = [dcSlot EXCEPT !.by = t]
    /\ DcGo(t, IF dcSlot.pending THEN "Settle"
               ELSE IF dcSlot.tokens.fresh THEN "Push" ELSE "Acquire")
    /\ UNCHANGED <<dcNow, dcKey, dcAuthFile, dcLock, dcWriter, dcProvider>>

SettleOwed(t) ==
    /\ dcTask[t].pc = "Settle"
    /\ dcKey' = Newer(dcSlot.tokens) /\ Cost(Newer(dcSlot.tokens), "registered")
    /\ dcSlot' = [dcSlot EXCEPT !.pending = FALSE]
    /\ DcGo(t, IF dcSlot.tokens.fresh THEN "Push" ELSE "Acquire")
    /\ UNCHANGED <<dcNow, dcAuthFile, dcLock, dcWriter, dcLive, dcFaults>>

\* create_lock() creates the file and then writes its owner.
CreateLock(t) ==
    /\ dcTask[t].pc = "Acquire" /\ dcLock = NoLock
    /\ dcLock' = [owner |-> "empty", stale |-> FALSE]
    /\ DcGo(t, "Stamp")
    /\ UNCHANGED <<dcNow, dcKey, dcSlot, dcAuthFile, dcWriter, dcProvider>>

StampLock(t) ==
    /\ dcTask[t].pc = "Stamp"
    /\ dcLock' = [owner |-> t, stale |-> FALSE]
    /\ DcGo(t, "Reread")
    /\ UNCHANGED <<dcNow, dcKey, dcSlot, dcAuthFile, dcWriter, dcProvider>>

\* recover_stale_lock(): a file that names an owner and is old enough is removed; one
\* that cannot be parsed is not.
RecoverLock(t) ==
    /\ dcTask[t].pc = "Acquire" /\ dcLock.stale /\ dcLock.owner \in DcTasks
    /\ dcLock' = NoLock
    /\ UNCHANGED <<dcNow, dcKey, dcSlot, dcAuthFile, dcTask, dcWriter, dcProvider>>

\* After five seconds the refresh gives up, and the slot is as before.
LockTimeout(t) ==
    /\ dcTask[t].pc = "Acquire" /\ dcLock # NoLock
    /\ DcGo(t, "Idle") /\ Unlock(dcSlot.tokens)
    /\ UNCHANGED <<dcNow, dcKey, dcAuthFile, dcLock, dcWriter, dcProvider>>

RereadNothing(t) ==
    /\ dcTask[t].pc = "Reread"
    /\ DcTake(t, "Present", dcSlot.tokens)
    /\ UNCHANGED <<dcNow, dcStores, dcWriter, dcProvider>>

\* The adapter rereads the keychain under the lock, and uses what it finds there.
RereadStored(t) ==
    /\ dcTask[t].pc = "Reread"
    /\ DcTake(t, IF dcKey.fresh THEN "Persist" ELSE "Present", dcKey)
    /\ dcLock' = IF dcKey.fresh /\ Guarded(t) THEN NoLock ELSE dcLock
    /\ UNCHANGED <<dcNow, dcKey, dcSlot, dcAuthFile, dcWriter, dcProvider>>

\* The provider's token endpoint: the newest refresh token is rotated, any other is
\* refused, and an answer may be lost.
ExchangeRefreshToken(t) ==
    /\ dcTask[t].pc = "Present" /\ dcTask[t].has.tok = dcLive /\ dcLive < DcMaxToks
    /\ dcLive' = dcLive + 1
    /\ DcTake(t, "Save", [dcTask[t].has EXCEPT !.tok = dcLive + 1, !.gen = @ + 1,
                                      !.at = dcTask[t].now, !.fresh = TRUE])
    /\ UNCHANGED <<dcNow, dcStores, dcWriter, dcLost, dcFaults>>

ExchangeRefused(t) ==
    /\ dcTask[t].pc = "Present" /\ dcTask[t].has.tok # dcLive
    /\ DcGo(t, "Idle") /\ Unlock(dcSlot.tokens) /\ DropGuard(t)
    /\ UNCHANGED <<dcNow, dcKey, dcAuthFile, dcWriter, dcProvider>>

\* The connection fails, or the request that asked for the tokens is dropped, before
\* or after the rotation.
ExchangeFails(t) ==
    /\ dcTask[t].pc = "Present" /\ DcFault
    /\ \/ UNCHANGED <<dcLive, dcLost>>
       \/ /\ dcTask[t].has.tok = dcLive /\ dcLive < DcMaxToks
          /\ dcLive' = dcLive + 1 /\ dcLost' = dcLost \cup {"answer"}
    /\ DcGo(t, "Idle") /\ Unlock(dcSlot.tokens) /\ DropGuard(t)
    /\ UNCHANGED <<dcNow, dcKey, dcAuthFile, dcWriter>>

SaveLater(t) ==
    /\ dcTask[t].pc = "Save"
    /\ DcGo(t, "Persist") /\ DropGuard(t)
    /\ UNCHANGED <<dcNow, dcKey, dcSlot, dcAuthFile, dcWriter, dcProvider>>

SaveRotated(t) ==
    /\ dcTask[t].pc = "Save"
    /\ dcKey' = dcTask[t].has
    /\ DcGo(t, "Persist") /\ DropGuard(t)
    /\ UNCHANGED <<dcNow, dcSlot, dcAuthFile, dcWriter, dcProvider>>

SaveRotatedFails(t) ==
    /\ dcTask[t].pc = "Save" /\ DcFault
    /\ dcLost' = dcLost \cup {"answer"}
    /\ DcGo(t, "Idle") /\ Unlock(dcSlot.tokens) /\ DropGuard(t)
    /\ UNCHANGED <<dcNow, dcKey, dcAuthFile, dcWriter, dcLive>>

\* The authority counts the refresh as the slot's next generation and persists it;
\* when that fails the slot owes it.
PersistRefreshed(t) ==
    LET x == [dcTask[t].has EXCEPT !.gen = dcSlot.tokens.gen + 1, !.at = dcTask[t].now]
    IN  /\ dcTask[t].pc = "Persist"
        /\ \/ /\ dcKey' = Newer(x)
              /\ dcSlot' = [dcSlot EXCEPT !.tokens = x]
              /\ DcTake(t, "Push", x) /\ UNCHANGED dcFaults
           \/ /\ DcFault
              /\ dcSlot' = [tokens |-> x, pending |-> TRUE, by |-> NoTask]
              /\ DcGo(t, "Idle") /\ UNCHANGED dcKey
        /\ UNCHANGED <<dcNow, dcAuthFile, dcLock, dcWriter, dcLive, dcLost>>

\* prepare_and_persist() returns the slot's tokens.  A quota refresh writes them to
\* the profile; a request of the gateway is sent with them.
PushProfile(t) ==
    /\ dcTask[t].pc = "Push"
    /\ Unlock(dcSlot.tokens)
    /\ DcTake(t, "Sent", dcSlot.tokens)
    /\ IF dcTask[t].quota THEN DcSyncBindings(dcSlot.tokens.tok) ELSE UNCHANGED <<dcAuthFile, dcLost>>
    /\ UNCHANGED <<dcNow, dcKey, dcLock, dcWriter, dcLive, dcFaults>>

-----------------------------------------------------------------------------
\* The upstream answers, or refuses the access token with a 401: then the caller
\* expires the slot's tokens, the gateway only the generation it has sent.
Answered(t) ==
    /\ dcTask[t].pc = "Sent"
    /\ \/ DcGo(t, "Idle") /\ UNCHANGED dcWriter
       \/ /\ ~dcTask[t].retried /\ DcGo(t, "Invalidate")
          /\ dcWriter' = IF dcTask[t].quota \/ dcWriter.pc # "Idle" THEN dcWriter
                         ELSE [dcWriter EXCEPT !.pc = "Load"]
    /\ UNCHANGED <<dcNow, dcStores, dcProvider>>

InvalidateAccess(t) ==
    LET x == [dcSlot.tokens EXCEPT !.gen = @ + 1, !.at = dcNow + 1, !.fresh = FALSE]
        hit == dcTask[t].quota \/ dcSlot.tokens.gen = dcTask[t].has.gen
        again == [dcTask[t] EXCEPT !.pc = IF dcTask[t].quota THEN "Again" ELSE "Wait",
                                   !.retried = TRUE, !.now = dcNow + 1]
    IN  /\ dcTask[t].pc = "Invalidate" /\ dcSlot.by = NoTask /\ DcClock
        /\ \/ ~hit /\ dcTask' = [dcTask EXCEPT ![t] = again]
              /\ UNCHANGED <<dcKey, dcSlot, dcFaults, dcLost>>
           \/ /\ hit /\ dcTask' = [dcTask EXCEPT ![t] = again]
              /\ dcKey' = Newer(x) /\ Cost(Newer(x), "registered") /\ Unlock(x)
              /\ UNCHANGED dcFaults
           \/ /\ hit /\ DcGo(t, "Idle") /\ DcFault
              /\ dcSlot' = [tokens |-> x, pending |-> TRUE, by |-> NoTask]
              /\ UNCHANGED <<dcKey, dcLost>>
        /\ UNCHANGED <<dcAuthFile, dcLock, dcWriter, dcLive>>

\* The usage writer's callback after a 401 of the gateway: expire_account_access()
\* loads the credential, marks it expired and saves it, without the lock file.
WriterLoads ==
    /\ dcWriter.pc = "Load"
    /\ dcWriter' = [pc |-> "Save", has |-> [dcKey EXCEPT !.fresh = FALSE]]
    /\ UNCHANGED <<dcNow, dcStores, dcTask, dcProvider>>

WriterSaves ==
    /\ dcWriter.pc = "Save"
    /\ dcKey' = dcWriter.has /\ Cost(dcWriter.has, "writer")
    /\ dcWriter' = [dcWriter EXCEPT !.pc = "Idle"]
    /\ UNCHANGED <<dcNow, dcSlot, dcAuthFile, dcLock, dcTask, dcLive, dcFaults>>

-----------------------------------------------------------------------------
\* Time: the stored access token expires for everyone; a lock file whose owner is
\* gone becomes stale after two minutes.
TokensExpire ==
    LET old(x) == [x EXCEPT !.fresh = @ /\ x.tok > dcKey.tok]
    IN  /\ dcKey.fresh /\ dcLive < DcMaxToks
        /\ dcKey' = old(dcKey)
        /\ dcSlot' = [dcSlot EXCEPT !.tokens = old(@)]
        /\ dcTask' = [t \in DcTasks |-> [dcTask[t] EXCEPT !.has = old(@)]]
        /\ UNCHANGED <<dcNow, dcAuthFile, dcLock, dcWriter, dcProvider>>

LockAges ==
    /\ dcLock # NoLock /\ ~dcLock.stale
    /\ \A t \in DcTasks : dcTask[t].pc \notin {"Stamp", "Reread", "Present", "Save"}
    /\ dcLock' = [dcLock EXCEPT !.stale = TRUE]
    /\ UNCHANGED <<dcNow, dcKey, dcSlot, dcAuthFile, dcTask, dcWriter, dcProvider>>

\* ChatGPT refreshes the tokens of the profile itself.
ChatGptRefreshes ==
    /\ dcAuthFile.tok = dcLive /\ dcLive < DcMaxToks
    /\ dcLive' = dcLive + 1 /\ dcAuthFile' = [dcAuthFile EXCEPT !.tok = dcLive + 1]
    /\ UNCHANGED <<dcNow, dcKey, dcSlot, dcLock, dcTask, dcWriter, dcLost, dcFaults>>

\* The process ends and starts again: the slot is registered from the keychain.
DcCrash ==
    /\ DcFault
    /\ dcTask' = [t \in DcTasks |-> IdleTask]
    /\ dcWriter' = [dcWriter EXCEPT !.pc = "Idle"]
    /\ Unlock(dcKey)
    /\ dcLost' = IF \E t \in DcTasks : dcTask[t].pc = "Save" THEN dcLost \cup {"answer"} ELSE dcLost
    /\ UNCHANGED <<dcNow, dcKey, dcAuthFile, dcLock, dcLive>>

-----------------------------------------------------------------------------
DcInit ==
    /\ dcKey = [tok |-> 1, gen |-> 1, at |-> 0, fresh |-> TRUE]
    /\ dcSlot = [tokens |-> dcKey, pending |-> FALSE, by |-> NoTask]
    /\ dcAuthFile \in {[tok |-> 1, managed |-> 1], [tok |-> NoTok, managed |-> NoTok]}
    /\ dcLock = NoLock
    /\ dcTask = [t \in DcTasks |-> IdleTask]
    /\ dcWriter = [pc |-> "Idle", has |-> dcKey]
    /\ dcNow = 0 /\ dcLive = 1 /\ dcFaults = 0 /\ dcLost = {}

DcStep(t) ==
    \/ GatewayPrepare(t) \/ SyncManagedProfile(t)
    \/ AdoptTokens(t) \/ AdoptFails(t) \/ RegisterAdopted(t) \/ LoadStored(t) \/ RegisterStored(t)
    \/ LockSlot(t) \/ SettleOwed(t) \/ CreateLock(t) \/ StampLock(t) \/ RecoverLock(t)
    \/ LockTimeout(t) \/ RereadStored(t)
    \/ ExchangeRefreshToken(t) \/ ExchangeRefused(t) \/ ExchangeFails(t)
    \/ SaveRotated(t) \/ SaveRotatedFails(t) \/ PersistRefreshed(t) \/ PushProfile(t)
    \/ Answered(t) \/ InvalidateAccess(t)

DcNext ==
    \/ \E t \in DcTasks : DcStep(t)
    \/ WriterLoads \/ WriterSaves
    \/ TokensExpire \/ LockAges \/ ChatGptRefreshes \/ DcCrash

DcSpec == DcInit /\ [][DcNext]_dcVars

-----------------------------------------------------------------------------
DcTypeOK ==
    /\ dcKey \in TokenRec
    /\ dcSlot \in [tokens : TokenRec, pending : BOOLEAN, by : DcTasks \cup {NoTask}]
    /\ dcAuthFile \in [tok : Toks \cup {NoTok}, managed : Toks \cup {NoTok}] /\ dcLive \in Toks
    /\ dcLock \in [owner : DcTasks \cup {"absent", "empty"}, stale : BOOLEAN]
    /\ dcTask \in [DcTasks -> DcTask]
    /\ dcWriter \in [pc : {"Idle", "Load", "Save"}, has : TokenRec]
    /\ dcNow \in 0..DcMaxNow /\ dcFaults \in 0..DcMaxFaults /\ dcLost \subseteq Losses

\* However registrations, refreshes, invalidations and failed saves interleave, the
\* newest pair is in the keychain, in the profile, or with the task about to save
\* it: the comparison of generations in persist() and the adapter's reread under the
\* lock never let an older pair replace it.  The exceptions are the ones named by
\* Losses.
NewestPairIsHeld ==
    \/ dcLost # {}
    \/ dcKey.tok = dcLive
    \/ dcAuthFile.tok = dcLive
    \/ \E t \in DcTasks : dcTask[t].pc = "Save" /\ dcTask[t].has.tok = dcLive

\* A spent refresh token is presented only after the newest pair was lost, or after
\* ChatGPT rotated it in the profile: a slot that was registered from a credential
\* loaded before a rotation does no harm, since the adapter presents what the
\* keychain has (compare NoSpentTokenPresented of TokenAuthority).
PresentsNewest ==
    \A t \in DcTasks : dcTask[t].pc = "Present" /\ dcLost = {} =>
        dcTask[t].has.tok = dcLive \/ (dcAuthFile.tok = dcLive)

=============================================================================
