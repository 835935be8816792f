--------------------------- MODULE TokenAuthority ---------------------------
(***************************************************************************)
(* The token authority of one account (crates/relay-core/src/accounts/     *)
(* token_authority.rs) with the adapters of the server: the provider's     *)
(* token endpoint, the secret vault and the account record.  Requests      *)
(* prepare an access token, send it upstream, and after a 401 expire it    *)
(* and prepare another, once.                                              *)
(*                                                                         *)
(* A slot is guarded by an async mutex held across awaits.  Every await is *)
(* a point where other tasks run, where the awaited call may fail, and     *)
(* where the request's future may be dropped; what runs between two awaits *)
(* is one step.                                                            *)
(*                                                                         *)
(* A token pair is a number, and the provider honours only the newest      *)
(* refresh token: it rotates on use.                                       *)
(***************************************************************************)
EXTENDS Integers

CONSTANTS
    Tasks,      \* the requests that use the account
    MaxToken,   \* bound: the last token pair the provider issues
    MaxGen,     \* bound: generations at which expiry is still explored
    MaxSlots    \* bound: how often the account's slot is created

ASSUME AuthorityAssumption ==
    MaxToken \in Nat \ {0} /\ MaxGen \in Nat \ {0} /\ MaxSlots \in Nat \ {0}

VARIABLES
    slots,     \* slot handle -> its TokenSlot
    current,   \* the handle in the authority's map, or NoSlot
    created,   \* how many slots were created so far
    task,      \* task -> where it is
    vault,     \* the stored credential
    record,    \* the account record: does it exist, and its auth_state
    live,      \* the refresh token the provider honours
    lost,      \* a rotation's answer was lost, or died with the process
    replayed   \* a spent refresh token was presented

slotVars == <<slots, current, created>>
storeVars == <<vault, record>>
providerVars == <<live, lost, replayed>>
authVars == <<slots, current, created, task, vault, record, live, lost, replayed>>

-----------------------------------------------------------------------------
NoSlot == 0
Handles == 1..MaxSlots
Tokens == 1..MaxToken

AuthState == {"Unknown", "Active", "DegradedAccessOnly", "Refreshing",
              "RequiresReauth", "ReauthReusedToken"}

\* A TokenSet: the pair's number, whether it has a refresh token, whether the
\* access token is past its expiry, and the generation.
TokenSet == [tok : Tokens, refresh : BOOLEAN, usable : BOOLEAN, gen : Nat]

TokenSlot == [tokens : TokenSet, auth : AuthState,
              persistence_pending : BOOLEAN, auth_pending : BOOLEAN]

NewSlot(tokens, auth) ==
    [tokens |-> tokens, auth |-> auth,
     persistence_pending |-> FALSE, auth_pending |-> FALSE]

\* Where a task is.  "Wait" and "WaitInvalidate" queue for the slot's lock; from
\* "PersistTokens" to "PersistInvalidated" it holds the lock and awaits a call;
\* "Sent" awaits the upstream's answer.
Waiting == {"Wait", "WaitInvalidate"}
Holding == {"PersistTokens", "PersistAuth", "Refresh", "PersistRefreshed",
            "PersistRefreshedAuth", "PersistVerdict", "PersistInvalidated"}

Idle == [pc |-> "Idle", slot |-> NoSlot, previous |-> "Active", tok |-> 0,
         gen |-> 0, retried |-> FALSE]

TaskState == [pc : {"Idle", "Sent"} \cup Waiting \cup Holding,
              slot : Handles \cup {NoSlot}, previous : AuthState,
              tok : Tokens \cup {0}, gen : Nat, retried : BOOLEAN]

Locked(s) == \E t \in Tasks : task[t].slot = s /\ task[t].pc \in Holding

\* Move task t to pc with its slot set to x.
Hold(t, pc, x) ==
    /\ slots' = [slots EXCEPT ![task[t].slot] = x]
    /\ task' = [task EXCEPT ![t].pc = pc]
    /\ UNCHANGED <<current, created>>

\* The same, on the way into the refresh: the token it presents and the previous
\* state are kept aside.
HoldRefresh(t, x) ==
    /\ slots' = [slots EXCEPT ![task[t].slot] = [x EXCEPT !.auth = "Refreshing"]]
    /\ task' = [task EXCEPT ![t].pc = "Refresh", ![t].previous = x.auth,
                            ![t].tok = x.tokens.tok]
    /\ UNCHANGED <<current, created>>

\* prepare_inner returns an error: the request is over.
Fail(t, x) ==
    /\ slots' = [slots EXCEPT ![task[t].slot] = x]
    /\ task' = [task EXCEPT ![t] = Idle]
    /\ UNCHANGED <<current, created>>

\* prepare_inner returns tokens: the request is sent with them.
Return(t, x) ==
    /\ slots' = [slots EXCEPT ![task[t].slot] = x]
    /\ task' = [task EXCEPT ![t].pc = "Sent", ![t].slot = NoSlot,
                            ![t].tok = x.tokens.tok, ![t].gen = x.tokens.gen]
    /\ UNCHANGED <<current, created>>

-----------------------------------------------------------------------------
\* Proceed without the settling of an unpersisted rotation.
ProceedOwingTokens(t, x) ==
    \/ x.auth = "RequiresReauth" /\ Fail(t, x)
    \/ x.auth # "RequiresReauth" /\ x.tokens.usable /\ Return(t, x)
    \/ x.auth # "RequiresReauth" /\ ~x.tokens.usable /\ x.tokens.refresh /\ HoldRefresh(t, x)

\* What prepare_inner does with the slot x up to its next await: settle what is
\* owed to the store, heal a legacy state, and only then look at the tokens.
Proceed(t, x) ==
    LET owes_nothing == ~x.persistence_pending /\ ~x.auth_pending
        open == owes_nothing /\ x.auth \notin {"ReauthReusedToken", "RequiresReauth"}
    IN  \/ x.persistence_pending /\ Hold(t, "PersistTokens", x)
        \/ ~x.persistence_pending /\ x.auth_pending /\ Hold(t, "PersistAuth", x)
        \/ /\ owes_nothing /\ x.auth = "ReauthReusedToken"
           /\ Hold(t, "PersistAuth", [x EXCEPT !.auth = "Active", !.auth_pending = TRUE])
        \/ owes_nothing /\ x.auth = "RequiresReauth" /\ Fail(t, x)
        \/ open /\ x.tokens.usable /\ Return(t, x)
        \/ /\ open /\ ~x.tokens.usable /\ ~x.tokens.refresh
           /\ Hold(t, "PersistVerdict",
                   [x EXCEPT !.auth = "DegradedAccessOnly", !.auth_pending = TRUE])
        \/ open /\ ~x.tokens.usable /\ x.tokens.refresh /\ HoldRefresh(t, x)

\* prepare_and_persist() looks the slot up; without one it fails at once.
Prepare(t) ==
    /\ task[t].pc = "Idle" /\ current # NoSlot
    /\ task' = [task EXCEPT ![t].pc = "Wait", ![t].slot = current]
    /\ UNCHANGED <<slotVars, storeVars, providerVars>>

LockWithoutMutex(t) ==
    /\ task[t].pc = "Wait"
    /\ Proceed(t, slots[task[t].slot])
    /\ UNCHANGED <<storeVars, providerVars>>

Lock(t) ==
    /\ task[t].pc = "Wait" /\ ~Locked(task[t].slot)
    /\ Proceed(t, slots[task[t].slot])
    /\ UNCHANGED <<storeVars, providerVars>>

\* ServerTokenPersistence: persist() and persist_auth_state() fail when the
\* account is gone, and may fail otherwise.
SaveTokens(x) == record.exists /\ vault' = x.tokens /\ UNCHANGED record

SaveAuth(x) == record.exists /\ record' = [record EXCEPT !.auth = x.auth] /\ UNCHANGED vault

\* The calls that settle a debt: tokens first, then the auth state.
PersistTokens(t) ==
    LET x == slots[task[t].slot]
    IN  /\ task[t].pc = "PersistTokens"
        /\ \/ /\ SaveTokens(x)
              /\ Proceed(t, [x EXCEPT !.persistence_pending = FALSE, !.auth_pending = TRUE])
           \/ Fail(t, x) /\ UNCHANGED storeVars
        /\ UNCHANGED providerVars

PersistAuth(t) ==
    LET x == slots[task[t].slot]
    IN  /\ task[t].pc = "PersistAuth"
        /\ \/ SaveAuth(x) /\ Proceed(t, [x EXCEPT !.auth_pending = FALSE])
           \/ Fail(t, x) /\ UNCHANGED storeVars
        /\ UNCHANGED providerVars

\* After a verdict on the account the caller gets an error either way.
PersistVerdict(t) ==
    LET x == slots[task[t].slot]
    IN  /\ task[t].pc = "PersistVerdict"
        /\ \/ SaveAuth(x) /\ Fail(t, [x EXCEPT !.auth_pending = FALSE])
           \/ Fail(t, x) /\ UNCHANGED storeVars
        /\ UNCHANGED providerVars

RefreshSucceedsWithoutDebt(t) ==
    LET x == slots[task[t].slot]
    IN  /\ task[t].pc = "Refresh" /\ task[t].tok = live /\ live < MaxToken
        /\ live' = live + 1
        /\ Hold(t, "PersistRefreshed",
                [x EXCEPT !.tokens = [tok |-> live + 1, refresh |-> TRUE, usable |-> TRUE,
                                      gen |-> x.tokens.gen + 1],
                          !.auth = "Active"])
        /\ UNCHANGED <<storeVars, lost, replayed>>

RefreshRejectedWithoutDebt(t) ==
    LET x == slots[task[t].slot]
    IN  /\ task[t].pc = "Refresh" /\ task[t].tok = live
        /\ Hold(t, "PersistVerdict", [x EXCEPT !.auth = "RequiresReauth"])
        /\ UNCHANGED <<storeVars, providerVars>>

\* The provider answers the refresh: with the next pair, with a terminal verdict,
\* or not at all (a failure before or after it rotated).  A spent refresh token
\* is answered by the reuse error, which like a transport failure restores the
\* previous state.
RefreshSucceeds(t) ==
    LET x == slots[task[t].slot]
    IN  /\ task[t].pc = "Refresh" /\ task[t].tok = live /\ live < MaxToken
        /\ live' = live + 1
        /\ Hold(t, "PersistRefreshed",
                [x EXCEPT !.tokens = [tok |-> live + 1, refresh |-> TRUE, usable |-> TRUE,
                                      gen |-> x.tokens.gen + 1],
                          !.auth = "Active", !.persistence_pending = TRUE])
        /\ UNCHANGED <<storeVars, lost, replayed>>

RefreshRejected(t) ==
    LET x == slots[task[t].slot]
    IN  /\ task[t].pc = "Refresh" /\ task[t].tok = live
        /\ Hold(t, "PersistVerdict",
                [x EXCEPT !.auth = "RequiresReauth", !.auth_pending = TRUE])
        /\ UNCHANGED <<storeVars, providerVars>>

RefreshFails(t) ==
    LET x == slots[task[t].slot]
    IN  /\ task[t].pc = "Refresh"
        /\ Fail(t, [x EXCEPT !.auth = task[t].previous])
        /\ \/ UNCHANGED <<live, lost>>
           \/ /\ task[t].tok = live /\ live < MaxToken
              /\ live' = live + 1 /\ lost' = TRUE
        /\ replayed' = (replayed \/ task[t].tok # live)
        /\ UNCHANGED storeVars

PersistRefreshed(t) ==
    LET x == slots[task[t].slot]
    IN  /\ task[t].pc = "PersistRefreshed"
        /\ \/ /\ SaveTokens(x)
              /\ Hold(t, "PersistRefreshedAuth",
                      [x EXCEPT !.persistence_pending = FALSE, !.auth_pending = TRUE])
           \/ Fail(t, x) /\ UNCHANGED storeVars
        /\ UNCHANGED providerVars

PersistRefreshedAuth(t) ==
    LET x == slots[task[t].slot]
    IN  /\ task[t].pc = "PersistRefreshedAuth"
        /\ \/ SaveAuth(x) /\ Return(t, [x EXCEPT !.auth_pending = FALSE])
           \/ Fail(t, x) /\ UNCHANGED storeVars
        /\ UNCHANGED providerVars

-----------------------------------------------------------------------------
\* The upstream accepts the request, or answers 401.  The first 401 expires the
\* token and prepares again; the second is passed on.
Accepted(t) ==
    /\ task[t].pc = "Sent"
    /\ task' = [task EXCEPT ![t] = Idle]
    /\ UNCHANGED <<slotVars, storeVars, providerVars>>

Unauthorized(t) ==
    /\ task[t].pc = "Sent"
    /\ IF task[t].retried \/ current = NoSlot
       THEN task' = [task EXCEPT ![t] = Idle]
       ELSE task' = [task EXCEPT ![t].pc = "WaitInvalidate", ![t].slot = current,
                                 ![t].retried = TRUE]
    /\ UNCHANGED <<slotVars, storeVars, providerVars>>

\* After the invalidation the request looks its slot up again.
PrepareAgain(t) ==
    task' = [task EXCEPT ![t] =
               IF current = NoSlot THEN Idle
               ELSE [task[t] EXCEPT !.pc = "Wait", !.slot = current]]

InvalidateCountingDown(t, any_generation) ==
    LET x == slots[task[t].slot]
    IN  /\ task[t].pc = "WaitInvalidate" /\ ~Locked(task[t].slot)
        /\ Hold(t, "PersistInvalidated",
                [x EXCEPT !.tokens.usable = FALSE, !.tokens.gen = x.tokens.gen - 1,
                          !.persistence_pending = TRUE])
        /\ UNCHANGED <<storeVars, providerVars>>

\* invalidate_access_generation_and_persist(): the gateway names the generation
\* that failed, the quota job none.
Invalidate(t, any_generation) ==
    LET x == slots[task[t].slot]
    IN  /\ task[t].pc = "WaitInvalidate" /\ ~Locked(task[t].slot)
        /\ x.tokens.gen < MaxGen
        /\ IF ~any_generation /\ x.tokens.gen # task[t].gen
           THEN PrepareAgain(t) /\ UNCHANGED slotVars
           ELSE Hold(t, "PersistInvalidated",
                     [x EXCEPT !.tokens.usable = FALSE, !.tokens.gen = x.tokens.gen + 1,
                               !.persistence_pending = TRUE])
        /\ UNCHANGED <<storeVars, providerVars>>

PersistInvalidated(t) ==
    LET x == slots[task[t].slot]
    IN  /\ task[t].pc = "PersistInvalidated"
        /\ \/ /\ SaveTokens(x)
              /\ slots' = [slots EXCEPT ![task[t].slot].persistence_pending = FALSE]
              /\ PrepareAgain(t)
              /\ UNCHANGED <<current, created>>
           \/ Fail(t, x) /\ UNCHANGED storeVars
        /\ UNCHANGED providerVars

\* The client disconnects and the request's future is dropped: the lock is
\* released and the slot stays as it was at the await.  The provider may have
\* rotated already.
Cancel(t) ==
    /\ task[t].pc # "Idle"
    /\ task' = [task EXCEPT ![t] = Idle]
    /\ \/ UNCHANGED <<live, lost>>
       \/ /\ task[t].pc = "Refresh" /\ live < MaxToken
          /\ task[t].tok = live
          /\ live' = live + 1 /\ lost' = TRUE
    /\ UNCHANGED <<slotVars, storeVars, replayed>>

-----------------------------------------------------------------------------
\* Time passes: the access token of pair k expires wherever it is kept.
Expire(k) ==
    /\ \/ vault.tok = k /\ vault.usable
       \/ current # NoSlot /\ slots[current].tokens.tok = k /\ slots[current].tokens.usable
    /\ vault' = IF vault.tok = k THEN [vault EXCEPT !.usable = FALSE] ELSE vault
    /\ slots' = [s \in Handles |-> IF slots[s].tokens.tok = k
                                   THEN [slots[s] EXCEPT !.tokens.usable = FALSE]
                                   ELSE slots[s]]
    /\ UNCHANGED <<current, created, task, record, providerVars>>

\* register_if_absent() from the stored credential.
RegisterIfAbsent ==
    /\ current = NoSlot /\ record.exists /\ created < MaxSlots
    /\ created' = created + 1
    /\ current' = created + 1
    /\ slots' = [slots EXCEPT ![created + 1] = NewSlot(vault, record.auth)]
    /\ UNCHANGED <<task, storeVars, providerVars>>

\* delete_account(): the record, the secret and the slot go; tasks that hold the
\* slot keep it.
Delete ==
    /\ record.exists
    /\ record' = [record EXCEPT !.exists = FALSE]
    /\ current' = NoSlot
    /\ UNCHANGED <<slots, created, task, vault, providerVars>>

\* The server stops at any point; only the vault and the record survive.
AuthRestart ==
    /\ current # NoSlot
    /\ slots' = [s \in Handles |-> NewSlot(vault, record.auth)]
    /\ current' = NoSlot /\ created' = 0
    /\ task' = [t \in Tasks |-> Idle]
    /\ lost' = (lost \/ vault.tok # live)
    /\ UNCHANGED <<storeVars, live, replayed>>

AuthInit ==
    /\ \E refresh \in BOOLEAN, auth \in {"Unknown", "ReauthReusedToken"} :
          /\ vault = [tok |-> 1, refresh |-> refresh, usable |-> TRUE, gen |-> 0]
          /\ record = [exists |-> TRUE, auth |-> auth]
    /\ slots = [s \in Handles |-> NewSlot(vault, record.auth)]
    /\ current = NoSlot /\ created = 0
    /\ task = [t \in Tasks |-> Idle]
    /\ live = 1 /\ lost = FALSE /\ replayed = FALSE

TaskStep(t) ==
    \/ Prepare(t) \/ Lock(t) \/ PersistTokens(t) \/ PersistAuth(t) \/ PersistVerdict(t)
    \/ RefreshSucceeds(t) \/ RefreshRejected(t) \/ RefreshFails(t)
    \/ PersistRefreshed(t) \/ PersistRefreshedAuth(t)
    \/ Accepted(t) \/ Unauthorized(t)
    \/ \E any_generation \in BOOLEAN : Invalidate(t, any_generation)
    \/ PersistInvalidated(t)
    \/ Cancel(t)

AuthNext ==
    \/ \E t \in Tasks : TaskStep(t)
    \/ \E k \in Tokens : Expire(k)
    \/ RegisterIfAbsent
    \/ Delete
    \/ AuthRestart

AuthSpec == AuthInit /\ [][AuthNext]_authVars

-----------------------------------------------------------------------------
\* One type invariant: slots, tasks and stores hold what their types allow
\* (token_authority.rs:9-17, 284-294).
AuthorityTypeOK ==
    /\ slots \in [Handles -> TokenSlot]
    /\ current \in Handles \cup {NoSlot} /\ created \in 0..MaxSlots
    /\ task \in [Tasks -> TaskState]
    /\ vault \in TokenSet
    /\ record \in [exists : BOOLEAN, auth : AuthState]
    /\ live \in Tokens /\ lost \in BOOLEAN /\ replayed \in BOOLEAN

\* Tasks that need a refresh at the same time rotate the token once: unless an
\* answer of the provider was lost, no task ever presents a refresh token that
\* an earlier refresh has spent (token_authority.rs:481, 521-535).
NoSpentTokenPresented == lost \/ ~replayed

\* The newest refresh token is never dropped: as long as the account exists and
\* no answer was lost, the vault holds it or the slot owes it to the vault,
\* whatever persistence calls fail and whoever is cancelled
\* (token_authority.rs:482-490, 537-543).
LiveTokenIsKept ==
    ~lost /\ record.exists =>
        \/ vault.tok = live
        \/ /\ current # NoSlot
           /\ slots[current].tokens.tok = live /\ slots[current].persistence_pending

\* A request is only ever sent with tokens the vault has, so a restart cannot
\* find an older pair than one already in use (token_authority.rs:482-500,
\* 537-545).
SentTokenIsDurable ==
    \A t \in Tasks : task[t].pc = "Sent" /\ record.exists => vault.tok >= task[t].tok

\* The verdict that the account needs a new login is in the record or owed to it,
\* whatever writes fail and whoever is cancelled (token_authority.rs:491-498,
\* 551-554, 567-582).
VerdictIsKept ==
    record.exists /\ current # NoSlot /\ ~Locked(current)
    /\ slots[current].auth = "RequiresReauth" =>
        record.auth = "RequiresReauth" \/ slots[current].auth_pending

\* What the token authority keeps whatever persistence calls fail, whoever is
\* cancelled and however refreshes overlap (token_authority.rs:482-582).
AuthoritySafe ==
    /\ AuthorityTypeOK /\ NoSpentTokenPresented /\ LiveTokenIsKept
    /\ SentTokenIsDurable /\ VerdictIsKept

-----------------------------------------------------------------------------
(***************************************************************************)
(* TokenAuthority with the server's runtime rebuild (relay-server/src/app/ *)
(* runtime_build.rs), which registers every account again, and with an     *)
(* account deletion whose rebuild fails and is rolled back                 *)
(* (http/management/accounts.rs).  Both act on a credential they loaded    *)
(* earlier.                                                                *)
(***************************************************************************)

VARIABLE admin   \* the management operation under way and what it loaded

allVars == <<authVars, admin>>

NoOperation == [op |-> "None", tokens |-> [tok |-> 1, refresh |-> TRUE, usable |-> TRUE, gen |-> 0],
                auth |-> "Active", slot |-> NoSlot]

\* build_accounts() loads the account's secret and record ...
RebuildLoad ==
    /\ admin.op \in {"None", "Restored"} /\ record.exists
    /\ admin' = [op |-> "Loaded", tokens |-> vault, auth |-> record.auth, slot |-> NoSlot]
    /\ UNCHANGED authVars

\* ... register() inserts a slot, or finds one and waits for its lock ...
RebuildRegister ==
    /\ admin.op = "Loaded"
    /\ IF current # NoSlot
       THEN /\ admin' = [admin EXCEPT !.op = "Found", !.slot = current]
            /\ UNCHANGED slotVars
       ELSE /\ created < MaxSlots
            /\ created' = created + 1
            /\ current' = created + 1
            /\ slots' = [slots EXCEPT ![created + 1] = NewSlot(admin.tokens, admin.auth)]
            /\ admin' = NoOperation
    /\ UNCHANGED <<task, storeVars, providerVars>>

\* ... and overwrites it, debts included, whatever generation it has by then.
RebuildOverwrite ==
    /\ admin.op = "Found" /\ ~Locked(admin.slot)
    /\ slots' = [slots EXCEPT ![admin.slot] = NewSlot(admin.tokens, admin.auth)]
    /\ admin' = NoOperation
    /\ UNCHANGED <<current, created, task, storeVars, providerVars>>

\* delete_account() up to its rebuild, and the rollback when that fails: the
\* secret and the record come back as they were loaded, and another rebuild
\* registers them.
DeleteStart ==
    /\ admin.op = "None"
    /\ admin' = [op |-> "Deleted", tokens |-> vault, auth |-> record.auth, slot |-> NoSlot]
    /\ Delete

DeleteEnd ==
    /\ admin.op = "Deleted"
    /\ \/ UNCHANGED storeVars /\ admin' = NoOperation
       \/ /\ vault' = admin.tokens /\ record' = [exists |-> TRUE, auth |-> admin.auth]
          /\ admin' = [admin EXCEPT !.op = "Restored"]
    /\ UNCHANGED <<slotVars, task, providerVars>>

RebuildInit == AuthInit /\ admin = NoOperation

RebuildNext ==
    \/ (AuthNext /\ UNCHANGED admin)
    \/ RebuildLoad \/ RebuildRegister \/ RebuildOverwrite
    \/ DeleteStart \/ DeleteEnd

RebuildSpec == RebuildInit /\ [][RebuildNext]_allVars
=============================================================================
