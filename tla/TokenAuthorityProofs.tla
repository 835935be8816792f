------------------------ MODULE TokenAuthorityProofs ------------------------
(***************************************************************************)
(* AuthoritySafe for any set of tasks and any bounds.  It becomes          *)
(* inductive once three things are known of the slot that tasks share:     *)
(* there is one of it while the account lasts, the lock admits one task,   *)
(* and what the slot holds, the stores hold or are owed.                   *)
(***************************************************************************)
EXTENDS TokenAuthority, TLAPS

\* Without a rebuild the account has at most one slot in the life of the
\* process: register_if_absent() makes it, and a deletion is final.
OneSlot ==
    /\ created \in {0, 1} /\ current \in {NoSlot, created}
    /\ created = 1 /\ record.exists => current = 1
    /\ \A t \in Tasks : task[t].pc \in Waiting \cup Holding =>
          created = 1 /\ task[t].slot = 1

\* The lock admits one task.
Mutex ==
    \A t, u \in Tasks : task[t].pc \in Holding /\ task[u].pc \in Holding => t = u

\* A slot x against the record r, the vault v and the provider: its pair is not
\* older than the vault's and is the live one unless an answer was lost, and
\* both the pair and a verdict are stored or owed.
Consistent(x, r, v) ==
    /\ v.tok <= x.tokens.tok /\ x.tokens.tok <= live
    /\ lost \/ x.tokens.tok = live
    /\ r.exists /\ ~x.persistence_pending => v.tok = x.tokens.tok
    /\ r.exists /\ x.auth = "RequiresReauth" =>
          r.auth = "RequiresReauth" \/ x.auth_pending

\* A task k against the slot x: a refresh presents the slot's pair, which the
\* vault has, and can only restore a state in which the account was usable; a
\* request is sent with a pair the vault has.
Fits(k, x, r, v) ==
    /\ k.pc = "Refresh" => /\ k.tok = x.tokens.tok /\ ~x.persistence_pending
                           /\ k.previous # "RequiresReauth"
    /\ k.pc = "PersistRefreshedAuth" => ~x.persistence_pending
    /\ k.pc = "Sent" /\ r.exists => k.tok <= v.tok

AuthorityInv ==
    /\ AuthorityTypeOK /\ OneSlot /\ Mutex /\ NoSpentTokenPresented
    /\ created = 1 => Consistent(slots[1], record, vault)
    /\ created = 0 => vault.tok <= live /\ (lost \/ vault.tok = live)
    /\ \A t \in Tasks : Fits(task[t], slots[1], record, vault)

-----------------------------------------------------------------------------
\* Task t is at the slot, and no other task holds its lock.
Turn(t) ==
    /\ created = 1 /\ task[t].slot = 1
    /\ \A u \in Tasks \ {t} : task[u].pc \notin Holding

\* What any such step does to the stores and the provider.
WorldStep ==
    /\ vault' \in TokenSet /\ vault.tok <= vault'.tok
    /\ record' \in [exists : BOOLEAN, auth : AuthState]
    /\ record'.exists = record.exists
    /\ live' \in Tokens /\ lost' \in BOOLEAN /\ replayed' \in BOOLEAN
    /\ NoSpentTokenPresented'

\* A step of a task at the slot that leaves the slot as y and itself as k keeps
\* the invariant if they fit each other and what is stored.
LEMMA SlotStep ==
    ASSUME AuthorityInv, NEW t \in Tasks, Turn(t), WorldStep,
           NEW y \in TokenSlot, NEW k \in TaskState,
           slots' = [slots EXCEPT ![1] = y], task' = [task EXCEPT ![t] = k],
           UNCHANGED <<current, created>>,
           k.pc \in Waiting \cup Holding => k.slot = 1,
           Consistent(y, record, vault)',
           Fits(k, y, record', vault')
    PROVE  AuthorityInv'
<1> USE DEF Turn, WorldStep
<1>1. /\ AuthorityTypeOK /\ OneSlot /\ Mutex
      /\ \A u \in Tasks : Fits(task[u], slots[1], record, vault)
  BY DEF AuthorityInv
<1>2. 1 \in Handles
  BY AuthorityAssumption DEF Handles
<1>3. /\ slots' \in [Handles -> TokenSlot] /\ slots'[1] = y
      /\ task' \in [Tasks -> TaskState] /\ task'[t] = k
      /\ \A u \in Tasks \ {t} : task'[u] = task[u]
  BY <1>1, <1>2 DEF AuthorityTypeOK
<1>4. AuthorityTypeOK'
  BY <1>1, <1>3 DEF AuthorityTypeOK
<1>5. OneSlot'
  BY <1>1, <1>3 DEF OneSlot
<1>6. Mutex'
  BY <1>3 DEF Mutex
<1>7. \A u \in Tasks : Fits(task[u], slots[1], record, vault)'
  <2>1. SUFFICES ASSUME NEW u \in Tasks, u # t
                 PROVE  Fits(task[u], y, record', vault')
    BY <1>3
  <2>2. /\ task[u].pc # "Refresh" /\ task[u].pc # "PersistRefreshedAuth"
        /\ task[u].pc = "Sent" /\ record.exists => task[u].tok <= vault.tok
    BY <1>1, <2>1 DEF Fits, Holding
  <2>3. task[u].tok \in Int /\ vault.tok \in Int /\ vault'.tok \in Int
    BY <1>1, AuthorityAssumption DEF AuthorityTypeOK, TaskState, TokenSet, Tokens
  <2>4. QED
    BY <2>2, <2>3 DEF Fits
<1>8. QED
  BY <1>3, <1>4, <1>5, <1>6, <1>7 DEF AuthorityInv

\* The four ways out of the code between two awaits, each of them such a step.
LEMMA HoldStep ==
    ASSUME AuthorityInv, NEW t \in Tasks, Turn(t), WorldStep,
           NEW y \in TokenSlot, Consistent(y, record, vault)',
           NEW pc \in Holding \ {"Refresh"}, Hold(t, pc, y),
           pc = "PersistRefreshedAuth" => ~y.persistence_pending
    PROVE  AuthorityInv'
<1> DEFINE k == [task[t] EXCEPT !.pc = pc]
<1>1. task \in [Tasks -> TaskState]
  BY DEF AuthorityInv, AuthorityTypeOK
<1>2. k \in TaskState /\ k.pc = pc /\ k.slot = 1
  BY <1>1 DEF TaskState, Turn
<1>3. /\ slots' = [slots EXCEPT ![1] = y] /\ task' = [task EXCEPT ![t] = k]
      /\ UNCHANGED <<current, created>>
  BY DEF Hold, Turn
<1>4. Fits(k, y, record', vault')
  BY <1>2 DEF Fits, Holding
<1> HIDE DEF k
<1>5. QED
  BY <1>2, <1>3, <1>4, SlotStep, Zenon

\* It goes on to the refresh: only with nothing owed and an account in use.
LEMMA HoldRefreshStep ==
    ASSUME AuthorityInv, NEW t \in Tasks, Turn(t), WorldStep,
           NEW y \in TokenSlot, Consistent(y, record, vault)', HoldRefresh(t, y),
           ~y.persistence_pending, y.auth # "RequiresReauth"
    PROVE  AuthorityInv'
<1> DEFINE k == [task[t] EXCEPT !.pc = "Refresh", !.previous = y.auth,
                                !.tok = y.tokens.tok]
           z == [y EXCEPT !.auth = "Refreshing"]
<1>1. task \in [Tasks -> TaskState]
  BY DEF AuthorityInv, AuthorityTypeOK
<1>2. /\ k \in TaskState /\ k.pc = "Refresh" /\ k.slot = 1
      /\ k.previous = y.auth /\ k.tok = y.tokens.tok
  <2>1. "Refresh" \in Holding /\ y.auth \in AuthState /\ y.tokens.tok \in Tokens
    BY DEF Holding, TokenSlot, TokenSet
  <2>2. task[t] \in TaskState
    BY <1>1
  <2>3. QED
    BY <2>1, <2>2, Zenon DEF TaskState, Turn
<1>3. /\ z \in TokenSlot /\ z.auth = "Refreshing" /\ z.tokens = y.tokens
      /\ z.persistence_pending = y.persistence_pending
      /\ z.auth_pending = y.auth_pending
  BY DEF TokenSlot, AuthState
<1>4. /\ slots' = [slots EXCEPT ![1] = z] /\ task' = [task EXCEPT ![t] = k]
      /\ UNCHANGED <<current, created>>
  BY Zenon DEF HoldRefresh, Turn
<1>5. Fits(k, z, record', vault')
  BY <1>2, <1>3 DEF Fits
<1>6. Consistent(z, record, vault)'
  BY <1>3 DEF Consistent
<1> HIDE DEF k, z
<1>7. QED
  BY <1>2, <1>3, <1>4, <1>5, <1>6, SlotStep, Zenon

\* It returns an error.
LEMMA FailStep ==
    ASSUME AuthorityInv, NEW t \in Tasks, Turn(t), WorldStep,
           NEW y \in TokenSlot, Consistent(y, record, vault)', Fail(t, y)
    PROVE  AuthorityInv'
<1>1. Idle \in TaskState /\ Idle.pc = "Idle"
  BY DEF Idle, TaskState, AuthState, NoSlot
<1>2. /\ slots' = [slots EXCEPT ![1] = y] /\ task' = [task EXCEPT ![t] = Idle]
      /\ UNCHANGED <<current, created>>
  BY DEF Fail, Turn
<1>3. Fits(Idle, y, record', vault') /\ Idle.pc \notin Waiting \cup Holding
  BY <1>1 DEF Fits, Waiting, Holding
<1>4. QED
  BY <1>1, <1>2, <1>3, SlotStep, Zenon

\* It returns tokens: only when the slot owes none to the vault.
LEMMA ReturnStep ==
    ASSUME AuthorityInv, NEW t \in Tasks, Turn(t), WorldStep,
           NEW y \in TokenSlot, Consistent(y, record, vault)', Return(t, y),
           ~y.persistence_pending
    PROVE  AuthorityInv'
<1> DEFINE k == [task[t] EXCEPT !.pc = "Sent", !.slot = NoSlot,
                                !.tok = y.tokens.tok, !.gen = y.tokens.gen]
<1>1. task \in [Tasks -> TaskState]
  BY DEF AuthorityInv, AuthorityTypeOK
<1>2. k \in TaskState /\ k.pc = "Sent" /\ k.tok = y.tokens.tok
  BY <1>1, ZenonT(40) DEF TaskState, TokenSlot, TokenSet
<1>3. /\ slots' = [slots EXCEPT ![1] = y] /\ task' = [task EXCEPT ![t] = k]
      /\ UNCHANGED <<current, created>>
  BY Zenon DEF Return, Turn
<1>4. y.tokens.tok \in Int
  BY AuthorityAssumption DEF TokenSlot, TokenSet, Tokens
<1>5. Fits(k, y, record', vault') /\ k.pc \notin Waiting \cup Holding
  BY <1>2, <1>4 DEF Fits, Consistent, Waiting, Holding
<1> HIDE DEF k
<1>6. QED
  BY <1>2, <1>3, <1>5, SlotStep, Zenon

\* The code that a task runs once nothing more is awaited keeps the invariant,
\* from whatever slot x it starts (token_authority.rs:467-535).
LEMMA ProceedStep ==
    ASSUME AuthorityInv, NEW t \in Tasks, Turn(t), WorldStep,
           NEW x \in TokenSlot, Consistent(x, record, vault)', Proceed(t, x)
    PROVE  AuthorityInv'
<1> DEFINE open == /\ ~x.persistence_pending /\ ~x.auth_pending
                   /\ x.auth \notin {"ReauthReusedToken", "RequiresReauth"}
<1>1. {"PersistTokens", "PersistAuth", "PersistVerdict"} \subseteq Holding \ {"Refresh"}
  BY DEF Holding
<1>2. CASE Hold(t, "PersistTokens", x) \/ Hold(t, "PersistAuth", x)
  BY <1>1, <1>2, HoldStep
<1>3. ASSUME NEW pc \in {"PersistAuth", "PersistVerdict"},
             NEW auth \in {"Active", "DegradedAccessOnly"},
             Hold(t, pc, [x EXCEPT !.auth = auth, !.auth_pending = TRUE])
      PROVE  AuthorityInv'
  <2> DEFINE y == [x EXCEPT !.auth = auth, !.auth_pending = TRUE]
  <2>1. /\ y \in TokenSlot /\ y.tokens = x.tokens /\ y.auth # "RequiresReauth"
        /\ y.persistence_pending = x.persistence_pending
    BY Zenon DEF TokenSlot, AuthState
  <2>2. Consistent(y, record, vault)'
    BY <2>1 DEF Consistent
  <2>3. Hold(t, pc, y)
    BY <1>3
  <2> HIDE DEF y
  <2>4. QED
    BY <1>1, <2>1, <2>2, <2>3, HoldStep
<1>4. CASE Fail(t, x)
  BY <1>4, FailStep
<1>5. CASE open /\ Return(t, x)
  BY <1>5, ReturnStep
<1>6. CASE open /\ HoldRefresh(t, x)
  BY <1>6, HoldRefreshStep
<1>7. QED
  BY <1>2, <1>3, <1>4, <1>5, <1>6 DEF Proceed

-----------------------------------------------------------------------------
\* A task that holds the lock has the slot to itself ...
LEMMA HolderTurn ==
    ASSUME AuthorityInv, NEW t \in Tasks, task[t].pc \in Holding
    PROVE  /\ Turn(t) /\ slots[task[t].slot] = slots[1]
           /\ slots[1] \in TokenSlot /\ Consistent(slots[1], record, vault)
<1>1. 1 \in Handles
  BY AuthorityAssumption DEF Handles
<1>2. QED
  BY <1>1 DEF AuthorityInv, OneSlot, Mutex, Turn, AuthorityTypeOK

\* ... and so has one that waits and finds the lock free.
LEMMA WaiterTurn ==
    ASSUME AuthorityInv, NEW t \in Tasks, task[t].pc \in Waiting, ~Locked(task[t].slot)
    PROVE  /\ Turn(t) /\ slots[task[t].slot] = slots[1]
           /\ slots[1] \in TokenSlot /\ Consistent(slots[1], record, vault)
<1>1. 1 \in Handles
  BY AuthorityAssumption DEF Handles
<1>2. QED
  BY <1>1 DEF AuthorityInv, OneSlot, Turn, AuthorityTypeOK, Locked

\* Steps that leave the stores, or save the slot's pair or its state.
LEMMA WorldUnchanged ==
    ASSUME AuthorityInv, UNCHANGED <<storeVars, providerVars>>
    PROVE  WorldStep /\ \A x : Consistent(x, record, vault)' <=> Consistent(x, record, vault)
<1>1. vault.tok \in Int
  BY AuthorityAssumption DEF AuthorityInv, AuthorityTypeOK, TokenSet, Tokens
<1>2. QED
  BY <1>1 DEF AuthorityInv, AuthorityTypeOK, storeVars, providerVars, WorldStep,
              NoSpentTokenPresented, Consistent

\* A saved pair is no longer owed ...
LEMMA WorldSavesTokens ==
    ASSUME AuthorityInv, NEW x \in TokenSlot, Consistent(x, record, vault),
           SaveTokens(x), UNCHANGED providerVars,
           NEW y \in TokenSlot, y.tokens = x.tokens, y.auth = x.auth,
           x.auth_pending => y.auth_pending
    PROVE  WorldStep /\ Consistent(y, record, vault)'
<1>1. /\ vault' = x.tokens /\ record' = record /\ x.tokens \in TokenSet
      /\ live' = live /\ lost' = lost /\ replayed' = replayed
  BY DEF SaveTokens, providerVars, TokenSlot
<1>2. WorldStep
  BY <1>1 DEF AuthorityInv, AuthorityTypeOK, WorldStep, NoSpentTokenPresented, Consistent
<1>3. x.tokens.tok \in Int
  BY <1>1, AuthorityAssumption DEF TokenSet, Tokens
<1>4. QED
  BY <1>1, <1>2, <1>3 DEF Consistent

\* ... and neither is a saved state.
LEMMA WorldSavesAuth ==
    ASSUME AuthorityInv, NEW x \in TokenSlot, Consistent(x, record, vault),
           SaveAuth(x), UNCHANGED providerVars,
           NEW y \in TokenSlot, y.tokens = x.tokens, y.auth = x.auth,
           y.persistence_pending = x.persistence_pending
    PROVE  WorldStep /\ Consistent(y, record, vault)'
<1>1. record \in [exists : BOOLEAN, auth : AuthState] /\ x.auth \in AuthState
  BY DEF AuthorityInv, AuthorityTypeOK, TokenSlot
<1>2. /\ vault' = vault /\ record'.exists = record.exists /\ record'.auth = x.auth
      /\ record' \in [exists : BOOLEAN, auth : AuthState]
      /\ live' = live /\ lost' = lost /\ replayed' = replayed
  BY <1>1, Zenon DEF SaveAuth, providerVars
<1>3. vault.tok \in Int
  BY AuthorityAssumption DEF AuthorityInv, AuthorityTypeOK, TokenSet, Tokens
<1>4. WorldStep
  BY <1>2, <1>3 DEF AuthorityInv, AuthorityTypeOK, WorldStep, NoSpentTokenPresented
<1>5. QED
  BY <1>2, <1>4 DEF Consistent

\* A task that does not touch the slot, and does not take its lock, may do so at
\* any time; the provider may have rotated meanwhile, with the answer lost.
LEMMA TaskOnlyStep ==
    ASSUME AuthorityInv, NEW t \in Tasks, NEW k \in TaskState,
           task' = [task EXCEPT ![t] = k], UNCHANGED <<slotVars, storeVars, replayed>>,
           k.pc \notin Holding, k.pc \in Waiting => created = 1 /\ k.slot = 1,
           Fits(k, slots[1], record, vault),
           \/ UNCHANGED <<live, lost>>
           \/ live < MaxToken /\ live' = live + 1 /\ lost' = TRUE
    PROVE  AuthorityInv'
<1>1. UNCHANGED <<slots, current, created, vault, record, replayed>>
  BY DEF slotVars, storeVars
<1>2. live \in Int /\ vault.tok \in Int /\ 1 \in Handles
  BY AuthorityAssumption
     DEF AuthorityInv, AuthorityTypeOK, TokenSet, Tokens, Handles
<1>3. slots[1].tokens.tok \in Int
  BY <1>2, AuthorityAssumption DEF AuthorityInv, AuthorityTypeOK, TokenSlot, TokenSet, Tokens
<1>4. /\ live' \in Tokens /\ lost' \in BOOLEAN /\ live <= live'
      /\ (lost' \/ live' = live) /\ (lost => lost')
  <2>1. live \in Tokens /\ lost \in BOOLEAN
    BY DEF AuthorityInv, AuthorityTypeOK
  <2>2. CASE UNCHANGED <<live, lost>>
    BY <1>2, <2>1, <2>2
  <2>3. CASE live < MaxToken /\ live' = live + 1 /\ lost' = TRUE
    <3>1. live' \in Tokens /\ live <= live'
      BY <2>1, <2>3, AuthorityAssumption DEF Tokens
    <3>2. QED
      BY <2>3, <3>1
  <2>4. QED
    BY <2>2, <2>3, Zenon
<1>5. /\ task' \in [Tasks -> TaskState] /\ task'[t] = k
      /\ \A u \in Tasks \ {t} : task'[u] = task[u]
  BY DEF AuthorityInv, AuthorityTypeOK
<1>6. AuthorityTypeOK'
  BY <1>1, <1>4, <1>5 DEF AuthorityInv, AuthorityTypeOK
<1>7. OneSlot'
  BY <1>1, <1>5 DEF AuthorityInv, OneSlot
<1>8. Mutex'
  BY <1>5 DEF AuthorityInv, Mutex
<1>9. NoSpentTokenPresented'
  BY <1>1, <1>4 DEF AuthorityInv, NoSpentTokenPresented
<1>10. /\ created' = 1 => Consistent(slots[1], record, vault)'
       /\ created' = 0 => vault'.tok <= live' /\ (lost' \/ vault'.tok = live')
  BY <1>1, <1>2, <1>3, <1>4 DEF AuthorityInv, Consistent
<1>11. \A u \in Tasks : Fits(task[u], slots[1], record, vault)'
  BY <1>1, <1>5 DEF AuthorityInv, Fits
<1>12. QED
  BY <1>6, <1>7, <1>8, <1>9, <1>10, <1>11 DEF AuthorityInv

-----------------------------------------------------------------------------
\* A task that looks up its slot, waits for it, or is done with it.
LEMMA TaskMovesOnly ==
    ASSUME AuthorityInv, NEW t \in Tasks,
           Prepare(t) \/ Accepted(t) \/ Unauthorized(t) \/ Cancel(t)
    PROVE  AuthorityInv'
<1>1. task[t] \in TaskState /\ Fits(task[t], slots[1], record, vault)
  BY DEF AuthorityInv, AuthorityTypeOK
<1>2. Idle \in TaskState /\ Idle.pc = "Idle"
  BY DEF Idle, TaskState, AuthState, NoSlot
<1>3. /\ Idle.pc \notin Waiting \cup Holding /\ Fits(Idle, slots[1], record, vault)
  BY <1>2 DEF Waiting, Holding, Fits
<1>4. current # NoSlot => current = 1 /\ created = 1 /\ 1 \in Handles
  BY AuthorityAssumption DEF AuthorityInv, OneSlot, NoSlot, Handles
<1>5. \A pc \in Waiting : pc \notin {"Refresh", "PersistRefreshedAuth", "Sent"} \cup Holding
  BY DEF Waiting, Holding
<1>6. CASE Prepare(t)
  <2> DEFINE k == [task[t] EXCEPT !.pc = "Wait", !.slot = current]
  <2>1. k \in TaskState /\ k.pc = "Wait" /\ k.slot = 1 /\ "Wait" \in Waiting
    BY <1>1, <1>4, <1>6, Zenon DEF Prepare, TaskState, Waiting
  <2>2. task' = [task EXCEPT ![t] = k]
    BY <1>6, Zenon DEF Prepare
  <2>3. Fits(k, slots[1], record, vault)
    BY <1>5, <2>1 DEF Fits
  <2> HIDE DEF k
  <2>4. UNCHANGED <<slotVars, storeVars, replayed>> /\ UNCHANGED <<live, lost>>
    BY <1>6 DEF Prepare, providerVars
  <2>5. created = 1
    BY <1>4, <1>6 DEF Prepare
  <2>6. QED
    BY <1>5, <2>1, <2>2, <2>3, <2>4, <2>5, TaskOnlyStep, Zenon
<1>7. CASE Unauthorized(t) /\ ~(task[t].retried \/ current = NoSlot)
  <2> DEFINE k == [task[t] EXCEPT !.pc = "WaitInvalidate", !.slot = current,
                                  !.retried = TRUE]
  <2>1. /\ k \in TaskState /\ k.pc = "WaitInvalidate" /\ k.slot = 1
        /\ "WaitInvalidate" \in Waiting
    BY <1>1, <1>4, <1>7, Zenon DEF TaskState, Waiting
  <2>2. task' = [task EXCEPT ![t] = k]
    BY <1>7, Zenon DEF Unauthorized
  <2>3. Fits(k, slots[1], record, vault)
    BY <1>5, <2>1 DEF Fits
  <2> HIDE DEF k
  <2>4. UNCHANGED <<slotVars, storeVars, replayed>> /\ UNCHANGED <<live, lost>>
    BY <1>7 DEF Unauthorized, providerVars
  <2>5. created = 1
    BY <1>4, <1>7
  <2>6. QED
    BY <1>5, <2>1, <2>2, <2>3, <2>4, <2>5, TaskOnlyStep, Zenon
<1>8. CASE \/ Accepted(t)
           \/ Unauthorized(t) /\ (task[t].retried \/ current = NoSlot)
           \/ Cancel(t)
  <2>1. /\ task' = [task EXCEPT ![t] = Idle] /\ UNCHANGED <<slotVars, storeVars, replayed>>
        /\ \/ UNCHANGED <<live, lost>>
           \/ live < MaxToken /\ live' = live + 1 /\ lost' = TRUE
    BY <1>8 DEF Accepted, Unauthorized, Cancel, providerVars
  <2>2. QED
    BY <1>2, <1>3, <2>1, TaskOnlyStep, Zenon
<1>9. QED
  BY <1>6, <1>7, <1>8

\* The request looks its slot up again after an invalidation.
LEMMA PrepareAgainTask ==
    ASSUME AuthorityInv, NEW t \in Tasks, PrepareAgain(t)
    PROVE  \E k \in TaskState :
              /\ task' = [task EXCEPT ![t] = k]
              /\ k.pc \in {"Idle", "Wait"}
              /\ k.pc = "Wait" => created = 1 /\ k.slot = 1
<1>1. task[t] \in TaskState
  BY DEF AuthorityInv, AuthorityTypeOK
<1>2. CASE current = NoSlot
  <2>1. Idle \in TaskState /\ Idle.pc = "Idle"
    BY DEF Idle, TaskState, AuthState, NoSlot
  <2>2. QED
    BY <1>2, <2>1, Zenon DEF PrepareAgain
<1>3. CASE current # NoSlot
  <2> DEFINE k == [task[t] EXCEPT !.pc = "Wait", !.slot = current]
  <2>1. current = 1 /\ created = 1 /\ 1 \in Handles
    BY <1>3, AuthorityAssumption DEF AuthorityInv, OneSlot, NoSlot, Handles
  <2>2. k \in TaskState /\ k.pc = "Wait" /\ k.slot = 1
    BY <1>1, <2>1, Zenon DEF TaskState, Waiting
  <2>3. task' = [task EXCEPT ![t] = k]
    BY <1>3 DEF PrepareAgain
  <2> HIDE DEF k
  <2>4. QED
    BY <2>1, <2>2, <2>3, Zenon
<1>4. QED
  BY <1>2, <1>3

\* Expiring the pair that a 401 was about (token_authority.rs:399-435).
LEMMA InvalidateStep ==
    ASSUME AuthorityInv, NEW t \in Tasks, NEW any_generation \in BOOLEAN,
           Invalidate(t, any_generation)
    PROVE  AuthorityInv'
<1>1. PICK x : x = slots[1]
  OBVIOUS
<1>2. PICK y : y = [x EXCEPT !.tokens.usable = FALSE, !.tokens.gen = x.tokens.gen + 1,
                             !.persistence_pending = TRUE]
  OBVIOUS
<1>3. /\ Turn(t) /\ slots[task[t].slot] = x
      /\ x \in TokenSlot /\ Consistent(x, record, vault)
  BY <1>1, WaiterTurn DEF Invalidate, Waiting
<1>4. UNCHANGED <<storeVars, providerVars>>
  BY DEF Invalidate
<1>5. CASE PrepareAgain(t) /\ UNCHANGED slotVars
  <2>1. PICK k \in TaskState :
              /\ task' = [task EXCEPT ![t] = k]
              /\ k.pc \in {"Idle", "Wait"}
              /\ k.pc = "Wait" => created = 1 /\ k.slot = 1
    BY <1>5, PrepareAgainTask
  <2>2. k.pc \notin Holding /\ Fits(k, slots[1], record, vault)
    BY <2>1 DEF Holding, Fits
  <2>3. UNCHANGED <<slotVars, storeVars, replayed>> /\ UNCHANGED <<live, lost>>
    BY <1>4, <1>5 DEF providerVars
  <2>4. k.pc \in Waiting => created = 1 /\ k.slot = 1
    BY <2>1 DEF Waiting
  <2>5. QED
    BY <2>1, <2>2, <2>3, <2>4, TaskOnlyStep, Zenon
<1>6. CASE Hold(t, "PersistInvalidated", y)
  <2>1. x.tokens \in TokenSet
    BY <1>3 DEF TokenSlot
  <2>2. x.tokens.gen + 1 \in Nat
    BY <2>1 DEF TokenSet
  <2>3. /\ y \in TokenSlot /\ y.tokens.tok = x.tokens.tok /\ y.auth = x.auth
        /\ y.persistence_pending = TRUE /\ y.auth_pending = x.auth_pending
    BY <1>2, <1>3, <2>1, <2>2, Zenon DEF TokenSlot, TokenSet
  <2>4. Consistent(y, record, vault)
    BY <1>3, <2>3 DEF Consistent
  <2>5. WorldStep /\ Consistent(y, record, vault)'
    BY <1>4, <2>4, WorldUnchanged
  <2>6. "PersistInvalidated" \in Holding \ {"Refresh"}
    BY DEF Holding
  <2>7. QED
    BY <1>3, <1>6, <2>3, <2>5, <2>6, HoldStep
<1>7. QED
  BY <1>1, <1>2, <1>3, <1>5, <1>6 DEF Invalidate

\* Taking the free lock.
LEMMA LockStep ==
    ASSUME AuthorityInv, NEW t \in Tasks, Lock(t)
    PROVE  AuthorityInv'
<1>1. PICK x : x = slots[1]
  OBVIOUS
<1>2. /\ Turn(t) /\ slots[task[t].slot] = x
      /\ x \in TokenSlot /\ Consistent(x, record, vault)
  BY <1>1, WaiterTurn DEF Lock, Waiting
<1>3. WorldStep /\ Consistent(x, record, vault)'
  BY <1>2, WorldUnchanged DEF Lock
<1>4. QED
  BY <1>2, <1>3, ProceedStep DEF Lock

\* A call to the store that fails, at whichever await, leaves the slot as it is.
LEMMA StoreFailsStep ==
    ASSUME AuthorityInv, NEW t \in Tasks, task[t].pc \in Holding,
           Fail(t, slots[task[t].slot]), UNCHANGED <<storeVars, providerVars>>
    PROVE  AuthorityInv'
<1>1. PICK x : x = slots[1]
  OBVIOUS
<1>2. /\ Turn(t) /\ slots[task[t].slot] = x
      /\ x \in TokenSlot /\ Consistent(x, record, vault)
  BY <1>1, HolderTurn
<1>3. WorldStep /\ Consistent(x, record, vault)'
  BY <1>2, WorldUnchanged
<1>4. QED
  BY <1>2, <1>3, FailStep

\* The calls that save the slot's pair (token_authority.rs:482-490, 537-543).
LEMMA SaveTokensSteps ==
    ASSUME AuthorityInv, NEW t \in Tasks,
           PersistTokens(t) \/ PersistRefreshed(t) \/ PersistInvalidated(t)
    PROVE  AuthorityInv'
<1>1. PICK x : x = slots[1]
  OBVIOUS
<1>2. PICK y : y = [x EXCEPT !.persistence_pending = FALSE, !.auth_pending = TRUE]
  OBVIOUS
<1>3. PICK z : z = [x EXCEPT !.persistence_pending = FALSE]
  BY Zenon
<1>4. task[t].pc \in Holding
  BY DEF PersistTokens, PersistRefreshed, PersistInvalidated, Holding
<1>5. /\ Turn(t) /\ slots[task[t].slot] = x
      /\ x \in TokenSlot /\ Consistent(x, record, vault)
  BY <1>1, <1>4, HolderTurn
<1>6. /\ y \in TokenSlot /\ y.tokens = x.tokens /\ y.auth = x.auth
      /\ y.auth_pending /\ ~y.persistence_pending
  BY <1>2, <1>5, Zenon DEF TokenSlot
<1>7. /\ z \in TokenSlot /\ z.tokens = x.tokens /\ z.auth = x.auth
      /\ z.auth_pending = x.auth_pending
  BY <1>3, <1>5, Zenon DEF TokenSlot
<1>8. UNCHANGED providerVars
  BY DEF PersistTokens, PersistRefreshed, PersistInvalidated
<1>9. CASE Fail(t, x) /\ UNCHANGED storeVars
  BY <1>4, <1>5, <1>8, <1>9, StoreFailsStep
<1>10. CASE SaveTokens(x) /\ (Proceed(t, y) \/ Hold(t, "PersistRefreshedAuth", y))
  <2>1. WorldStep /\ Consistent(y, record, vault)'
    BY <1>5, <1>6, <1>8, <1>10, WorldSavesTokens
  <2>2. "PersistRefreshedAuth" \in Holding \ {"Refresh"}
    BY DEF Holding
  <2>3. CASE Proceed(t, y)
    BY <1>5, <1>6, <2>1, <2>3, ProceedStep
  <2>4. CASE Hold(t, "PersistRefreshedAuth", y)
    BY <1>5, <1>6, <2>1, <2>2, <2>4, HoldStep
  <2>5. QED
    BY <1>10, <2>3, <2>4
<1>11. CASE /\ PersistInvalidated(t) /\ SaveTokens(x) /\ PrepareAgain(t)
            /\ slots' = [slots EXCEPT ![task[t].slot].persistence_pending = FALSE]
            /\ UNCHANGED <<current, created>>
  <2>1. WorldStep /\ Consistent(z, record, vault)'
    BY <1>5, <1>7, <1>8, <1>11, WorldSavesTokens
  <2>2. PICK k \in TaskState :
              /\ task' = [task EXCEPT ![t] = k]
              /\ k.pc \in {"Idle", "Wait"}
              /\ k.pc = "Wait" => created = 1 /\ k.slot = 1
    BY <1>11, PrepareAgainTask
  <2>3. Fits(k, z, record', vault') /\ (k.pc \in Waiting \cup Holding => k.slot = 1)
    BY <2>2 DEF Holding, Waiting, Fits
  <2>4. slots' = [slots EXCEPT ![1] = z]
    BY <1>1, <1>3, <1>5, <1>11 DEF Turn
  <2>5. QED
    BY <1>5, <1>7, <1>11, <2>1, <2>2, <2>3, <2>4, SlotStep, Zenon
<1>12. QED
  BY <1>2, <1>5, <1>9, <1>10, <1>11
     DEF PersistTokens, PersistRefreshed, PersistInvalidated

\* The calls that save the account's state (token_authority.rs:491-498, 544-554).
LEMMA SaveAuthSteps ==
    ASSUME AuthorityInv, NEW t \in Tasks,
           PersistAuth(t) \/ PersistVerdict(t) \/ PersistRefreshedAuth(t)
    PROVE  AuthorityInv'
<1>1. PICK x : x = slots[1]
  OBVIOUS
<1>2. PICK y : y = [x EXCEPT !.auth_pending = FALSE]
  BY Zenon
<1>3. task[t].pc \in Holding
  BY DEF PersistAuth, PersistVerdict, PersistRefreshedAuth, Holding
<1>4. /\ Turn(t) /\ slots[task[t].slot] = x
      /\ x \in TokenSlot /\ Consistent(x, record, vault)
  BY <1>1, <1>3, HolderTurn
<1>5. /\ y \in TokenSlot /\ y.tokens = x.tokens /\ y.auth = x.auth
      /\ y.persistence_pending = x.persistence_pending
  BY <1>2, <1>4, Zenon DEF TokenSlot
<1>6. UNCHANGED providerVars
  BY DEF PersistAuth, PersistVerdict, PersistRefreshedAuth
<1>7. CASE Fail(t, x) /\ UNCHANGED storeVars
  BY <1>3, <1>4, <1>6, <1>7, StoreFailsStep
<1>8. ASSUME SaveAuth(x)
      PROVE  WorldStep /\ Consistent(y, record, vault)'
  BY <1>4, <1>5, <1>6, <1>8, WorldSavesAuth
<1>9. CASE SaveAuth(x) /\ Proceed(t, y)
  BY <1>4, <1>5, <1>8, <1>9, ProceedStep
<1>10. CASE SaveAuth(x) /\ Fail(t, y)
  BY <1>4, <1>5, <1>8, <1>10, FailStep
<1>11. CASE PersistRefreshedAuth(t) /\ SaveAuth(x) /\ Return(t, y)
  <2>1. ~y.persistence_pending
    BY <1>1, <1>5, <1>11 DEF AuthorityInv, Fits, PersistRefreshedAuth
  <2>2. QED
    BY <1>4, <1>5, <1>8, <1>11, <2>1, ReturnStep
<1>12. QED
  BY <1>2, <1>4, <1>7, <1>9, <1>10, <1>11
     DEF PersistAuth, PersistVerdict, PersistRefreshedAuth

\* The answers of the provider (token_authority.rs:521-582).
LEMMA RefreshSteps ==
    ASSUME AuthorityInv, NEW t \in Tasks,
           RefreshSucceeds(t) \/ RefreshRejected(t) \/ RefreshFails(t)
    PROVE  AuthorityInv'
<1>1. PICK x : x = slots[1]
  OBVIOUS
<1>2. task[t].pc = "Refresh" /\ task[t].pc \in Holding
  BY DEF RefreshSucceeds, RefreshRejected, RefreshFails, Holding
<1>3. /\ Turn(t) /\ slots[task[t].slot] = x
      /\ x \in TokenSlot /\ Consistent(x, record, vault)
  BY <1>1, <1>2, HolderTurn
<1>4. /\ task[t].tok = x.tokens.tok /\ ~x.persistence_pending
      /\ task[t].previous \in AuthState /\ task[t].previous # "RequiresReauth"
  BY <1>1, <1>2 DEF AuthorityInv, AuthorityTypeOK, TaskState, Fits
<1>5. /\ x.tokens \in TokenSet /\ x.tokens.tok \in Int /\ x.tokens.gen \in Nat
      /\ live \in Int /\ vault.tok \in Int
  BY <1>3, AuthorityAssumption
     DEF TokenSlot, TokenSet, Tokens, AuthorityInv, AuthorityTypeOK
<1>6. {"PersistRefreshed", "PersistVerdict"} \subseteq Holding \ {"Refresh"}
  BY DEF Holding
<1>7. CASE RefreshSucceeds(t)
  <2>1. PICK p : p = [tok |-> live + 1, refresh |-> TRUE, usable |-> TRUE,
                      gen |-> x.tokens.gen + 1]
    BY Zenon
  <2>2. PICK y : y = [x EXCEPT !.tokens = p, !.auth = "Active",
                               !.persistence_pending = TRUE]
    OBVIOUS
  <2>3. /\ live' = live + 1 /\ live' \in Tokens
        /\ lost' = lost /\ replayed' = replayed /\ vault' = vault /\ record' = record
    BY <1>5, <1>7, AuthorityAssumption
       DEF RefreshSucceeds, storeVars, Tokens, AuthorityInv, AuthorityTypeOK
  <2>4. p \in TokenSet /\ p.tok = live + 1
    BY <1>5, <2>1, <2>3 DEF TokenSet
  <2>5. /\ y \in TokenSlot /\ y.tokens = p /\ y.auth = "Active"
        /\ y.persistence_pending
    BY <1>3, <2>2, <2>4, Zenon DEF TokenSlot, AuthState
  <2>6. WorldStep
    BY <1>5, <2>3 DEF AuthorityInv, AuthorityTypeOK, WorldStep, NoSpentTokenPresented
  <2>7. Consistent(y, record, vault)'
    BY <1>3, <1>5, <2>3, <2>4, <2>5 DEF Consistent
  <2>8. Hold(t, "PersistRefreshed", y)
    BY <1>3, <1>7, <2>1, <2>2 DEF RefreshSucceeds
  <2>9. QED
    BY <1>3, <1>6, <2>5, <2>6, <2>7, <2>8, HoldStep
<1>8. CASE RefreshRejected(t)
  <2>1. PICK y : y = [x EXCEPT !.auth = "RequiresReauth", !.auth_pending = TRUE]
    OBVIOUS
  <2>2. /\ y \in TokenSlot /\ y.tokens = x.tokens /\ y.auth_pending
        /\ y.persistence_pending = x.persistence_pending
    BY <1>3, <2>1, Zenon DEF TokenSlot, AuthState
  <2>3. Consistent(y, record, vault)
    BY <1>3, <2>2 DEF Consistent
  <2>4. WorldStep /\ Consistent(y, record, vault)'
    BY <1>8, <2>3, WorldUnchanged DEF RefreshRejected
  <2>5. Hold(t, "PersistVerdict", y)
    BY <1>3, <1>8, <2>1 DEF RefreshRejected
  <2>6. QED
    BY <1>3, <1>6, <2>2, <2>4, <2>5, HoldStep
<1>9. CASE RefreshFails(t)
  <2>1. PICK y : y = [x EXCEPT !.auth = task[t].previous]
    BY Zenon
  <2>2. /\ y \in TokenSlot /\ y.tokens = x.tokens /\ y.auth # "RequiresReauth"
        /\ y.persistence_pending = x.persistence_pending
    BY <1>3, <1>4, <2>1 DEF TokenSlot
  <2>3. vault' = vault /\ record' = record /\ live \in Tokens /\ lost \in BOOLEAN
    BY <1>9 DEF RefreshFails, storeVars, AuthorityInv, AuthorityTypeOK
  <2>4. /\ live' \in Tokens /\ lost' \in BOOLEAN /\ live <= live'
        /\ (lost' \/ live' = live) /\ (lost => lost')
    <3>1. CASE UNCHANGED <<live, lost>>
      BY <1>5, <2>3, <3>1
    <3>2. CASE live < MaxToken /\ live' = live + 1 /\ lost' = TRUE
      <4>1. live' \in Tokens /\ live <= live'
        BY <2>3, <3>2, AuthorityAssumption DEF Tokens
      <4>2. QED
        BY <3>2, <4>1
    <3>3. QED
      BY <1>9, <3>1, <3>2, Zenon DEF RefreshFails
  <2>5. replayed' \in BOOLEAN /\ NoSpentTokenPresented'
    <3>1. replayed' = (replayed \/ task[t].tok # live) /\ replayed \in BOOLEAN
      BY <1>9 DEF RefreshFails, AuthorityInv, AuthorityTypeOK
    <3>2. ~lost => task[t].tok = live /\ ~replayed
      BY <1>3, <1>4 DEF Consistent, AuthorityInv, NoSpentTokenPresented
    <3>3. QED
      BY <2>4, <3>1, <3>2 DEF NoSpentTokenPresented
  <2>6. WorldStep
    BY <1>5, <2>3, <2>4, <2>5 DEF WorldStep, AuthorityInv, AuthorityTypeOK
  <2>7. Consistent(y, record, vault)'
    <3>1. vault'.tok <= y.tokens.tok /\ y.tokens.tok <= live'
      <4>1. vault.tok <= x.tokens.tok /\ x.tokens.tok <= live
        BY <1>3, Zenon DEF Consistent
      <4>2. x.tokens.tok \in Nat /\ live \in Nat /\ live' \in Nat
        BY <1>3, <2>3, <2>4, AuthorityAssumption DEF TokenSlot, TokenSet, Tokens
      <4>3. y.tokens.tok <= live'
        BY <2>2, <2>4, <4>1, <4>2
      <4>4. QED
        BY <2>2, <2>3, <4>1, <4>3, Zenon
    <3>2. lost' \/ y.tokens.tok = live'
      BY <1>3, <2>2, <2>4 DEF Consistent
    <3>3. record'.exists /\ ~y.persistence_pending => vault'.tok = y.tokens.tok
      BY <1>3, <2>2, <2>3 DEF Consistent
    <3>4. QED
      BY <2>2, <3>1, <3>2, <3>3 DEF Consistent
  <2>8. Fail(t, y)
    BY <1>3, <1>9, <2>1 DEF RefreshFails
  <2>9. QED
    BY <1>3, <2>2, <2>6, <2>7, <2>8, FailStep
<1>10. QED
  BY <1>7, <1>8, <1>9

-----------------------------------------------------------------------------
\* Time passes: no pair changes its number.
LEMMA ExpireStep ==
    ASSUME AuthorityInv, NEW n \in Tokens, Expire(n)
    PROVE  AuthorityInv'
<1>1. UNCHANGED <<current, created, task, record, live, lost, replayed>>
  BY DEF Expire, providerVars
<1>2. vault' \in TokenSet /\ vault'.tok = vault.tok
  <2>1. vault \in TokenSet
    BY DEF AuthorityInv, AuthorityTypeOK
  <2>2. QED
    BY <2>1, Zenon DEF Expire, TokenSet
<1>3. \A h \in Handles : /\ slots'[h] \in TokenSlot
                         /\ slots'[h].tokens.tok = slots[h].tokens.tok
                         /\ slots'[h].auth = slots[h].auth
                         /\ slots'[h].persistence_pending = slots[h].persistence_pending
                         /\ slots'[h].auth_pending = slots[h].auth_pending
  <2>1. SUFFICES ASSUME NEW h \in Handles
                 PROVE  /\ slots'[h] \in TokenSlot
                        /\ slots'[h].tokens.tok = slots[h].tokens.tok
                        /\ slots'[h].auth = slots[h].auth
                        /\ slots'[h].persistence_pending = slots[h].persistence_pending
                        /\ slots'[h].auth_pending = slots[h].auth_pending
    OBVIOUS
  <2>2. slots[h] \in TokenSlot
    BY DEF AuthorityInv, AuthorityTypeOK
  <2>3. \/ slots'[h] = slots[h]
        \/ slots'[h] = [slots[h] EXCEPT !.tokens.usable = FALSE]
    BY DEF Expire
  <2>4. QED
    BY <2>2, <2>3, ZenonT(40) DEF TokenSlot, TokenSet
<1>4. slots' \in [Handles -> TokenSlot]
  <2>1. slots' = [h \in Handles |-> slots'[h]]
    BY DEF Expire
  <2>2. QED
    BY <1>3, <2>1
<1>5. AuthorityTypeOK'
  BY <1>1, <1>2, <1>4 DEF AuthorityInv, AuthorityTypeOK
<1>6. OneSlot' /\ Mutex' /\ NoSpentTokenPresented'
  BY <1>1 DEF AuthorityInv, OneSlot, Mutex, NoSpentTokenPresented
<1>7. 1 \in Handles
  BY AuthorityAssumption DEF Handles
<1>8. created' = 1 => Consistent(slots[1], record, vault)'
  BY <1>1, <1>2, <1>3, <1>7 DEF AuthorityInv, Consistent
<1>9. created' = 0 => vault'.tok <= live' /\ (lost' \/ vault'.tok = live')
  BY <1>1, <1>2 DEF AuthorityInv
<1>10. \A t \in Tasks : Fits(task[t], slots[1], record, vault)'
  BY <1>1, <1>2, <1>3, <1>7 DEF AuthorityInv, Fits
<1>11. QED
  BY <1>5, <1>6, <1>8, <1>9, <1>10 DEF AuthorityInv

\* A new slot holds what the vault and the record hold, and owes nothing.
LEMMA NewSlotFields ==
    ASSUME AuthorityTypeOK
    PROVE  /\ NewSlot(vault, record.auth) \in TokenSlot
           /\ NewSlot(vault, record.auth).tokens = vault
           /\ NewSlot(vault, record.auth).auth = record.auth
BY DEF AuthorityTypeOK, NewSlot, TokenSlot

\* The first slot takes over what is stored.
LEMMA RegisterStep ==
    ASSUME AuthorityInv, RegisterIfAbsent
    PROVE  AuthorityInv'
<1>1. PICK y : y = NewSlot(vault, record.auth)
  OBVIOUS
<1>2. /\ y \in TokenSlot /\ y.tokens = vault /\ y.auth = record.auth
  BY <1>1, NewSlotFields DEF AuthorityInv
<1>3. UNCHANGED <<task, vault, record, live, lost, replayed>>
  BY DEF RegisterIfAbsent, storeVars, providerVars
<1>4. 1 \in Handles /\ 1 \in 0..MaxSlots
  BY AuthorityAssumption DEF Handles
<1>5. created = 0 /\ created' = 1 /\ current' = 1 /\ slots' = [slots EXCEPT ![1] = y]
  <2>1. created = 0
    <3>1. current = NoSlot /\ record.exists
      BY DEF RegisterIfAbsent
    <3>2. created \in {0, 1} /\ (created = 1 /\ record.exists => current = 1)
      BY DEF AuthorityInv, OneSlot
    <3>3. QED
      BY <3>1, <3>2 DEF NoSlot
  <2>2. created + 1 = 1
    BY <2>1
  <2>3. QED
    BY <1>1, <2>1, <2>2 DEF RegisterIfAbsent
<1>6. slots' \in [Handles -> TokenSlot] /\ slots'[1] = y
  BY <1>2, <1>4, <1>5 DEF AuthorityInv, AuthorityTypeOK
<1>7. AuthorityTypeOK'
  BY <1>3, <1>4, <1>5, <1>6, SMTT(30) DEF AuthorityInv, AuthorityTypeOK
<1>8. OneSlot' /\ Mutex' /\ NoSpentTokenPresented'
  BY <1>3, <1>5 DEF AuthorityInv, OneSlot, Mutex, NoSpentTokenPresented
<1>9. Consistent(slots[1], record, vault)'
  <2>1. vault.tok \in Int
    BY AuthorityAssumption DEF AuthorityInv, AuthorityTypeOK, TokenSet, Tokens
  <2>2. QED
    BY <1>2, <1>3, <1>5, <1>6, <2>1 DEF AuthorityInv, Consistent
<1>10. \A t \in Tasks : Fits(task[t], slots[1], record, vault)'
  <2>1. \A t \in Tasks : task[t].pc \notin Holding
    BY <1>5 DEF AuthorityInv, OneSlot
  <2>2. QED
    BY <1>3, <2>1 DEF AuthorityInv, Fits, Holding
<1>11. QED
  BY <1>5, <1>7, <1>8, <1>9, <1>10 DEF AuthorityInv

\* A deletion leaves the tasks their slot.
LEMMA DeleteStep ==
    ASSUME AuthorityInv, Delete
    PROVE  AuthorityInv'
<1>1. UNCHANGED <<slots, created, task, vault, live, lost, replayed>>
  BY DEF Delete, providerVars
<1>2. /\ current' = NoSlot /\ ~record'.exists
      /\ record' \in [exists : BOOLEAN, auth : AuthState]
  BY Zenon DEF Delete, AuthorityInv, AuthorityTypeOK
<1>3. AuthorityTypeOK'
  BY <1>1, <1>2 DEF AuthorityInv, AuthorityTypeOK
<1>4. OneSlot' /\ Mutex' /\ NoSpentTokenPresented'
  BY <1>1, <1>2 DEF AuthorityInv, OneSlot, Mutex, NoSpentTokenPresented
<1>5. /\ created' = 1 => Consistent(slots[1], record, vault)'
      /\ created' = 0 => vault'.tok <= live' /\ (lost' \/ vault'.tok = live')
  BY <1>1, <1>2 DEF AuthorityInv, Consistent
<1>6. \A t \in Tasks : Fits(task[t], slots[1], record, vault)'
  BY <1>1, <1>2 DEF AuthorityInv, Fits
<1>7. QED
  BY <1>3, <1>4, <1>5, <1>6 DEF AuthorityInv

\* A restart loses the slot: an unsaved pair is then an answer that was lost.
LEMMA RestartStep ==
    ASSUME AuthorityInv, AuthRestart
    PROVE  AuthorityInv'
<1>1. UNCHANGED <<vault, record, live, replayed>> /\ current' = NoSlot /\ created' = 0
  BY DEF AuthRestart, storeVars
<1>2. PICK y \in TokenSlot : slots' = [h \in Handles |-> y]
  BY NewSlotFields DEF AuthRestart, AuthorityInv
<1>3. Idle \in TaskState /\ Idle.pc = "Idle"
  BY DEF Idle, TaskState, AuthState, NoSlot
<1>4. \A t \in Tasks : task'[t].pc = "Idle"
  BY <1>3 DEF AuthRestart
<1>5. slots' \in [Handles -> TokenSlot] /\ task' \in [Tasks -> TaskState]
  BY <1>2, <1>3 DEF AuthRestart
<1>6. lost' \in BOOLEAN /\ (lost => lost') /\ (lost' \/ vault.tok = live)
  BY Zenon DEF AuthRestart, AuthorityInv, AuthorityTypeOK
<1>7. 0 \in 0..MaxSlots
  BY AuthorityAssumption
<1>8. AuthorityTypeOK'
  BY <1>1, <1>5, <1>6, <1>7 DEF AuthorityInv, AuthorityTypeOK
<1>9. OneSlot' /\ Mutex' /\ NoSpentTokenPresented'
  BY <1>1, <1>4, <1>6
     DEF AuthorityInv, OneSlot, Mutex, NoSpentTokenPresented, NoSlot, Waiting, Holding
<1>10. vault'.tok <= live' /\ (lost' \/ vault'.tok = live')
  <2>1. vault.tok <= live
    <3>1. slots[1].tokens.tok \in Int /\ vault.tok \in Int /\ live \in Int
      BY AuthorityAssumption
         DEF AuthorityInv, AuthorityTypeOK, TokenSlot, TokenSet, Tokens, Handles
    <3>2. QED
      BY <3>1 DEF AuthorityInv, Consistent, OneSlot
  <2>2. QED
    BY <1>1, <1>6, <2>1
<1>11. \A t \in Tasks : Fits(task[t], slots[1], record, vault)'
  BY <1>4 DEF Fits
<1>12. QED
  BY <1>1, <1>8, <1>9, <1>10, <1>11 DEF AuthorityInv

-----------------------------------------------------------------------------
\* The authority starts without a slot, with the stored pair the live one.
LEMMA InitAuthorityInv == AuthInit => AuthorityInv
<1> SUFFICES ASSUME AuthInit PROVE AuthorityInv
  OBVIOUS
<1>1. /\ vault \in TokenSet /\ vault.tok = 1
      /\ record \in [exists : BOOLEAN, auth : AuthState]
  <2>1. PICK refresh \in BOOLEAN, auth \in {"Unknown", "ReauthReusedToken"} :
          /\ vault = [tok |-> 1, refresh |-> refresh, usable |-> TRUE, gen |-> 0]
          /\ record = [exists |-> TRUE, auth |-> auth]
    BY Zenon DEF AuthInit
  <2>2. 1 \in Tokens
    BY AuthorityAssumption DEF Tokens
  <2>3. QED
    BY <2>1, <2>2 DEF TokenSet, AuthState
<1>2. slots \in [Handles -> TokenSlot]
  BY <1>1 DEF AuthInit, NewSlot, TokenSlot
<1>3. Idle \in TaskState /\ Idle.pc = "Idle"
  BY DEF Idle, TaskState, AuthState, NoSlot
<1>4. task \in [Tasks -> TaskState] /\ \A t \in Tasks : task[t].pc = "Idle"
  BY <1>3 DEF AuthInit
<1>5. /\ current = NoSlot /\ created = 0 /\ created \in 0..MaxSlots
      /\ live = 1 /\ live \in Tokens /\ lost = FALSE /\ replayed = FALSE
  BY AuthorityAssumption DEF AuthInit, Tokens
<1>6. AuthorityTypeOK
  BY <1>1, <1>2, <1>4, <1>5, Zenon DEF AuthorityTypeOK
<1>7. OneSlot /\ Mutex /\ NoSpentTokenPresented
  BY <1>4, <1>5 DEF OneSlot, Mutex, NoSpentTokenPresented, Waiting, Holding
<1>8. \A t \in Tasks : Fits(task[t], slots[1], record, vault)
  BY <1>4, Zenon DEF Fits
<1>9. QED
  BY <1>1, <1>5, <1>6, <1>7, <1>8 DEF AuthorityInv

\* Every step keeps the inductive invariant, one case per action.
LEMMA NextAuthorityInv == AuthorityInv /\ [AuthNext]_authVars => AuthorityInv'
<1> SUFFICES ASSUME AuthorityInv, [AuthNext]_authVars PROVE AuthorityInv'
  OBVIOUS
<1>1. ASSUME NEW t \in Tasks, TaskStep(t)
      PROVE  AuthorityInv'
  <2>1. CASE Prepare(t) \/ Accepted(t) \/ Unauthorized(t) \/ Cancel(t)
    BY <2>1, TaskMovesOnly
  <2>2. CASE Lock(t)
    BY <2>2, LockStep
  <2>3. CASE PersistTokens(t) \/ PersistRefreshed(t) \/ PersistInvalidated(t)
    BY <2>3, SaveTokensSteps
  <2>4. CASE PersistAuth(t) \/ PersistVerdict(t) \/ PersistRefreshedAuth(t)
    BY <2>4, SaveAuthSteps
  <2>5. CASE RefreshSucceeds(t) \/ RefreshRejected(t) \/ RefreshFails(t)
    BY <2>5, RefreshSteps
  <2>6. CASE \E any_generation \in BOOLEAN : Invalidate(t, any_generation)
    BY <2>6, InvalidateStep
  <2>7. QED
    BY <1>1, <2>1, <2>2, <2>3, <2>4, <2>5, <2>6 DEF TaskStep
<1>2. CASE \E n \in Tokens : Expire(n)
  BY <1>2, ExpireStep
<1>3. CASE RegisterIfAbsent \/ Delete \/ AuthRestart
  BY <1>3, RegisterStep, DeleteStep, RestartStep, SMTT(30)
<1>4. CASE UNCHANGED authVars
  <2>1. UNCHANGED <<slots, current, created, task, vault, record, live, lost, replayed>>
    BY <1>4 DEF authVars
  <2>2. AuthorityTypeOK' /\ OneSlot' /\ Mutex' /\ NoSpentTokenPresented'
    BY <2>1, SMTT(30) DEF AuthorityInv, AuthorityTypeOK, OneSlot, Mutex, NoSpentTokenPresented
  <2>3. /\ created' = 1 => Consistent(slots[1], record, vault)'
        /\ created' = 0 => vault'.tok <= live' /\ (lost' \/ vault'.tok = live')
    BY <2>1 DEF AuthorityInv, Consistent
  <2>4. \A t \in Tasks : Fits(task[t], slots[1], record, vault)'
    BY <2>1 DEF AuthorityInv, Fits
  <2>5. QED
    BY <2>2, <2>3, <2>4 DEF AuthorityInv
<1>5. QED
  BY <1>1, <1>2, <1>3, <1>4 DEF AuthNext

\* The inductive invariant holds the promises.
LEMMA AuthorityInvIsSafe == AuthorityInv => AuthoritySafe
<1> SUFFICES ASSUME AuthorityInv PROVE AuthoritySafe
  OBVIOUS
<1>1. AuthorityTypeOK /\ NoSpentTokenPresented
  BY DEF AuthorityInv
<1>2. LiveTokenIsKept
  <2>1. SUFFICES ASSUME ~lost, record.exists, vault.tok # live
                 PROVE  /\ current # NoSlot /\ slots[current].tokens.tok = live
                        /\ slots[current].persistence_pending
    BY DEF LiveTokenIsKept
  <2>2. created = 1 /\ current = 1
    BY <2>1 DEF AuthorityInv, OneSlot
  <2>3. slots[1].tokens.tok = live /\ slots[1].persistence_pending
    BY <2>1, <2>2 DEF AuthorityInv, Consistent
  <2>4. QED
    BY <2>2, <2>3 DEF NoSlot
<1>3. SentTokenIsDurable
  <2>1. vault.tok \in Int /\ \A t \in Tasks : task[t].tok \in Int
    BY <1>1, AuthorityAssumption DEF AuthorityTypeOK, TaskState, TokenSet, Tokens
  <2>2. QED
    BY <2>1 DEF AuthorityInv, Fits, SentTokenIsDurable
<1>4. VerdictIsKept
  <2>1. current # NoSlot => current = 1 /\ created = 1
    BY DEF AuthorityInv, OneSlot, NoSlot
  <2>2. QED
    BY <2>1 DEF AuthorityInv, Consistent, VerdictIsKept
<1>5. QED
  BY <1>1, <1>2, <1>3, <1>4 DEF AuthoritySafe

\* Whatever persistence calls fail, whoever is cancelled and however many tasks
\* refresh at once: no spent token is presented, the newest is stored or owed,
\* what is sent is durable and a verdict is kept (token_authority.rs:482-582).
THEOREM SpecAuthoritySafe == AuthSpec => []AuthoritySafe
BY InitAuthorityInv, NextAuthorityInv, AuthorityInvIsSafe, PTL DEF AuthSpec
=============================================================================
