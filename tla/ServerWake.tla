------------------------------ MODULE ServerWake -----------------------------
(***************************************************************************)
(* The wake coordinator on the server (relay-server/src/jobs/              *)
(* wake_automation.rs).  The server keeps no coordinator: under wake_lock, *)
(* every operation loads the saved state through from_state, changes it    *)
(* and saves it.  run_due claims up to two permits in one such step and    *)
(* then, one permit after the other, executes without the lock and         *)
(* completes under it.                                                     *)
(*                                                                         *)
(* The steps of execute_inner before the request can only fail it.  They   *)
(* ask whether the account has been used since the baseline, and never     *)
(* whether the permit is still in flight.                                  *)
(***************************************************************************)
EXTENDS QuotaWake, TLAPS

CONSTANTS
    SwBatchSize,    \* run_due's limit on claims
    MaxCrashes    \* bound: how often run_due is cut short

ASSUME ServerWakeAssumption == SwBatchSize \in Nat \ {0}

VARIABLES
    swDisk,        \* the wake_state row
    swDelivered,   \* transitions already evaluated: each is observed once
    swBatch,       \* the permits run_due has claimed and not yet completed
    swResult,      \* the outcome of the first of them once it was executed
    swUsed,        \* transitions whose account has been used since
    swCrashes,
    swSent,        \* history: attempts sent for each transition; the second post after
                 \* an answer that the agent's task is invalid belongs to the first
    swConfirmed    \* history: transitions completed as Confirmed

swVars == <<swDisk, swDelivered, swBatch, swResult, swUsed, swCrashes, swSent, swConfirmed>>

-----------------------------------------------------------------------------
NoResult == "none"

\* Every operation starts from the recovered state.
coordinator == FromState(swDisk)

SwScheduleTransition(t, task, max, confirm, late) ==
    /\ t \notin swDelivered
    /\ swDelivered' = swDelivered \cup {t}
    /\ swUsed' = swUsed \cup {k \in {t} : late}
    /\ swDisk' = Evaluate(coordinator, t, task, max, confirm, late)
    /\ UNCHANGED <<swBatch, swResult, swCrashes, swSent, swConfirmed>>

\* The usage writer: the account record first, then the coordinator, which is
\* saved only when it changed.
SwNaturalUse(a) ==
    /\ swUsed' = swUsed \cup {t \in swDelivered : AccountOf(t) = a}
    /\ swDisk' = IF \E i \in DOMAIN swDisk : /\ coordinator[i].status # "Completed"
                                         /\ AccountOf(swDisk[i].key) = a
               THEN MarkNaturalUse(coordinator, a) ELSE swDisk
    /\ UNCHANGED <<swDelivered, swBatch, swResult, swCrashes, swSent, swConfirmed>>

\* Updating or deleting a task, and deleting an account.
SwCancel(next) ==
    /\ swDisk' = next
    /\ UNCHANGED <<swDelivered, swBatch, swResult, swUsed, swCrashes, swSent, swConfirmed>>

SwCancelTask(task) == SwCancel(RemovePendingForTask(coordinator, task))

SwCancelAccount(a) == SwCancel(RemovePendingForAccount(coordinator, a))

-----------------------------------------------------------------------------
SwClaimSet(S) ==
    [i \in DOMAIN swDisk |-> IF i \in S THEN ClaimCycle(coordinator, i)[i] ELSE coordinator[i]]

\* Some of the automatic cycles are due: they are claimed in queue order.
SwClaimDue ==
    /\ swBatch = <<>>
    /\ \E n \in 0..SwBatchSize :
       \E due \in [1..n -> {i \in DOMAIN swDisk : Claimable(coordinator[i], FALSE)}] :
          /\ \A j, k \in 1..n : j < k => due[j] < due[k]
          /\ swDisk' = SwClaimSet({due[k] : k \in 1..n})
          /\ swBatch' = [k \in 1..n |-> WakePermitOf(swDisk'[due[k]])]
    /\ UNCHANGED <<swDelivered, swResult, swUsed, swCrashes, swSent, swConfirmed>>

\* Natural use observed, or anything else that stops it before the request.
SwExecuteFails ==
    /\ swBatch # <<>> /\ swResult = NoResult
    /\ swResult' = "Failed"
    /\ UNCHANGED <<swDisk, swDelivered, swBatch, swUsed, swCrashes, swSent, swConfirmed>>

SwExecuteResending ==
    /\ swBatch # <<>> /\ swResult = NoResult
    /\ Head(swBatch).key \notin swUsed
    /\ swSent' = [swSent EXCEPT ![Head(swBatch).key] = @ + 2]
    /\ swResult' \in Outcomes
    /\ UNCHANGED <<swDisk, swDelivered, swBatch, swUsed, swCrashes, swConfirmed>>

SwExecute ==
    /\ swBatch # <<>> /\ swResult = NoResult
    /\ Head(swBatch).key \notin swUsed
    /\ swSent' = [swSent EXCEPT ![Head(swBatch).key] = @ + 1]
    /\ swResult' \in Outcomes
    /\ UNCHANGED <<swDisk, swDelivered, swBatch, swUsed, swCrashes, swConfirmed>>

SwCompletePermit ==
    /\ swBatch # <<>> /\ swResult # NoResult
    /\ swDisk' = CompleteCycle(coordinator, Head(swBatch), swResult)
    /\ swConfirmed' = swConfirmed \cup {k \in {Head(swBatch).key} : swResult = "Confirmed"}
    /\ swBatch' = Tail(swBatch)
    /\ swResult' = NoResult
    /\ UNCHANGED <<swDelivered, swUsed, swCrashes, swSent>>

\* The process dies, or a failing store ends run_due: its permits are dropped.
SwCrash ==
    /\ swCrashes < MaxCrashes
    /\ swCrashes' = swCrashes + 1
    /\ swBatch' = <<>> /\ swResult' = NoResult
    /\ UNCHANGED <<swDisk, swDelivered, swUsed, swSent, swConfirmed>>

-----------------------------------------------------------------------------
SwInit ==
    /\ swDisk = <<>> /\ swDelivered = {}
    /\ swBatch = <<>> /\ swResult = NoResult
    /\ swUsed = {} /\ swCrashes = 0
    /\ swSent = [t \in Transitions |-> 0] /\ swConfirmed = {}

SwNext ==
    \/ \E t \in Transitions, task \in Tasks, max \in Limits,
          confirm, late \in BOOLEAN : SwScheduleTransition(t, task, max, confirm, late)
    \/ \E a \in WakeAccounts : SwNaturalUse(a) \/ SwCancelAccount(a)
    \/ \E task \in Tasks : SwCancelTask(task)
    \/ SwClaimDue \/ SwExecuteFails \/ SwExecute \/ SwCompletePermit
    \/ SwCrash

SwSpec == SwInit /\ [][SwNext]_swVars

\* The job runs every 30 seconds and carries each batch to its end.
SwFairSpec ==
    /\ SwSpec
    /\ WF_swVars(SwClaimDue)
    /\ WF_swVars(SwExecute \/ SwExecuteFails)
    /\ WF_swVars(SwCompletePermit)

-----------------------------------------------------------------------------
\* One type invariant: the saved row is always one that from_state accepts, or
\* every later wake operation would fail (quota_wake.rs:194-202, 676-686).
ServerWakeTypeOK ==
    /\ swDisk \in Seq(WakeCycle)
    /\ Len(swDisk) <= MaxCycles
    /\ \A i \in DOMAIN swDisk : swDisk[i].attempts_started <= swDisk[i].max_attempts
    /\ swBatch \in Seq(WakePermit) /\ Len(swBatch) <= SwBatchSize
    /\ swResult \in Outcomes \cup {NoResult}
    /\ swDelivered \subseteq Transitions /\ swUsed \subseteq swDelivered

\* The retry cap survives the repeated recovery: although every operation
\* returns what is in flight to the queue, an attempt stays counted
\* (wake_automation.rs:63-81, quota_wake.rs:203-215).
ServerRetryCap ==
    \A i \in DOMAIN swDisk : swSent[swDisk[i].key] <= swDisk[i].max_attempts

\* A wake that came back Confirmed is not sent again: what the unit test
\* confirmed_attempt_permanently_completes_cycle says of the coordinator
\* (quota_wake.rs:942, wake_automation.rs:73-79).
ServerConfirmedIsFinal ==
    [][\A t \in swConfirmed : swSent'[t] = swSent[t]]_swVars

\* An automatic cycle that is not completed yet.
CycleIsOpen(t) ==
    \E i \in DOMAIN swDisk : /\ swDisk[i].key = t
                            /\ ~swDisk[i].requires_confirmation
                            /\ swDisk[i].status # "Completed"

\* What the saved row keeps although every operation recovers it first
\* (wake_automation.rs:63-81): it stays loadable and the retry cap holds.
ServerWakeSafe == ServerWakeTypeOK /\ ServerRetryCap
-----------------------------------------------------------------------------
(***************************************************************************)
(* ServerWakeSafe for any accounts, tasks, batch size and number of        *)
(* crashes.  The cap is inductive once the requests that may still leave   *)
(* are counted too: the attempts of a cycle cover what was sent for its    *)
(* transition and the permit of the batch that is still to be executed.    *)
(***************************************************************************)
\* Permits of the batch whose request may still be sent.
SwPending(t) ==
    \E n \in 1..Len(swBatch) : swBatch[n].key = t /\ (n > 1 \/ swResult = NoResult)

\* Every request that was sent, and every one that may still be, is counted in
\* the attempts of its cycle, and no transition has two cycles.
SwRowOK ==
    /\ swDisk \in Seq(WakeCycle) /\ Len(swDisk) <= MaxCycles
    /\ \A i \in 1..Len(swDisk) :
          /\ swDisk[i].attempts_started <= swDisk[i].max_attempts
          /\ swDisk[i].key \in swDelivered
          /\ swSent[swDisk[i].key] <= swDisk[i].attempts_started
          /\ SwPending(swDisk[i].key) => swSent[swDisk[i].key] < swDisk[i].attempts_started
    /\ \A i, j \in 1..Len(swDisk) : swDisk[i].key = swDisk[j].key => i = j

\* The permits of a batch are for different transitions.
SwBatchOK ==
    /\ swBatch \in Seq(WakePermit) /\ Len(swBatch) <= SwBatchSize
    /\ \A n \in 1..Len(swBatch) : swBatch[n].key \in swDelivered
    /\ \A m, n \in 1..Len(swBatch) : swBatch[m].key = swBatch[n].key => m = n
    /\ swResult \in Outcomes \cup {NoResult}

\* Nothing is sent for a transition that was never evaluated.
SwSentOK ==
    /\ swSent \in [Transitions -> Nat]
    /\ swDelivered \subseteq Transitions /\ swUsed \subseteq swDelivered
    /\ \A t \in Transitions \ swDelivered : swSent[t] = 0

SwInv == SwRowOK /\ SwBatchOK /\ SwSentOK

\* r is the queue q with some statuses changed.
SwRestated(q, r) ==
    /\ r \in Seq(WakeCycle) /\ Len(r) = Len(q)
    /\ \A i \in 1..Len(q) : /\ r[i].key = q[i].key
                            /\ r[i].max_attempts = q[i].max_attempts
                            /\ r[i].attempts_started = q[i].attempts_started

-----------------------------------------------------------------------------
\* The invariant bounds what ServerWakeSafe bounds.
LEMMA SwInvIsSafe == SwInv => ServerWakeSafe
<1> SUFFICES ASSUME SwInv PROVE ServerWakeSafe
  OBVIOUS
<1>1. DOMAIN swDisk = 1..Len(swDisk)
  BY DEF SwInv, SwRowOK
<1>2. ServerWakeTypeOK
  BY <1>1 DEF SwInv, SwRowOK, SwBatchOK, SwSentOK, ServerWakeTypeOK
<1>3. ASSUME NEW i \in DOMAIN swDisk PROVE swSent[swDisk[i].key] <= swDisk[i].max_attempts
  <2>1. /\ swSent[swDisk[i].key] <= swDisk[i].attempts_started
        /\ swDisk[i].attempts_started <= swDisk[i].max_attempts
        /\ swDisk[i].key \in Transitions
    BY <1>1 DEF SwInv, SwRowOK, SwSentOK
  <2>2. swDisk[i] \in WakeCycle
    BY <1>1 DEF SwInv, SwRowOK
  <2>3. swDisk[i].attempts_started \in Int /\ swDisk[i].max_attempts \in Int
    BY <2>2, WakeAssumption DEF WakeCycle
  <2>4. swSent[swDisk[i].key] \in Int
    BY <2>1 DEF SwInv, SwSentOK
  <2> QED BY <2>1, <2>3, <2>4
<1> QED BY <1>2, <1>3 DEF ServerWakeSafe, ServerRetryCap

\* The counters of a cycle are natural numbers.
LEMMA SwCounters ==
    ASSUME NEW q \in Seq(WakeCycle), NEW i \in 1..Len(q)
    PROVE  q[i].attempts_started \in Nat /\ q[i].max_attempts \in Nat
<1>1. q[i] \in WakeCycle
  OBVIOUS
<1> QED BY <1>1, WakeAssumption DEF WakeCycle

\* A change of one cycle's status.
LEMMA SwStatusChange ==
    ASSUME NEW c \in WakeCycle, NEW s \in {"Pending", "Completed"}
    PROVE  /\ [c EXCEPT !.status = s] \in WakeCycle
           /\ [c EXCEPT !.status = s].key = c.key
           /\ [c EXCEPT !.status = s].max_attempts = c.max_attempts
           /\ [c EXCEPT !.status = s].attempts_started = c.attempts_started
  BY DEF WakeCycle

\* A sequence that is built position by position from another one.
LEMMA SwPointwise ==
    ASSUME NEW q \in Seq(WakeCycle), NEW r, r = [i \in DOMAIN q |-> r[i]],
           \A i \in 1..Len(q) : /\ r[i] \in WakeCycle
                                /\ r[i].key = q[i].key
                                /\ r[i].max_attempts = q[i].max_attempts
                                /\ r[i].attempts_started = q[i].attempts_started
    PROVE  SwRestated(q, r)
<1>1. DOMAIN q = 1..Len(q) /\ Len(q) \in Nat
  OBVIOUS
<1>2. r \in Seq(WakeCycle) /\ Len(r) = Len(q)
  BY <1>1
<1> QED BY <1>2, Zenon DEF SwRestated

\* from_state() changes nothing but statuses.
LEMMA SwFromState ==
    ASSUME NEW q \in Seq(WakeCycle)
    PROVE  SwRestated(q, FromState(q))
<1>1. DOMAIN q = 1..Len(q)
  OBVIOUS
<1>2. FromState(q) = [i \in DOMAIN q |-> FromState(q)[i]]
  BY DEF FromState
<1>3. ASSUME NEW i \in 1..Len(q)
      PROVE  /\ FromState(q)[i] \in WakeCycle
             /\ FromState(q)[i].key = q[i].key
             /\ FromState(q)[i].max_attempts = q[i].max_attempts
             /\ FromState(q)[i].attempts_started = q[i].attempts_started
  <2>1. q[i] \in WakeCycle
    OBVIOUS
  <2>2. FromState(q)[i] \in {q[i], [q[i] EXCEPT !.status = "Pending"], [q[i] EXCEPT !.status = "Completed"]}
    BY <1>1 DEF FromState, FinishCycle
  <2> QED BY <2>1, <2>2, SwStatusChange, Zenon
<1> QED BY <1>2, <1>3, SwPointwise, Zenon

\* Finishing some cycles changes nothing but statuses (mark_natural_use,
\* remove_pending_for_task, remove_pending_for_account).
LEMMA SwFinishThose ==
    ASSUME NEW q \in Seq(WakeCycle), NEW S
    PROVE  SwRestated(q, FinishThose(q, S))
<1>1. DOMAIN q = 1..Len(q)
  OBVIOUS
<1>2. FinishThose(q, S) = [i \in DOMAIN q |-> FinishThose(q, S)[i]]
  BY DEF FinishThose
<1>3. ASSUME NEW i \in 1..Len(q)
      PROVE  /\ FinishThose(q, S)[i] \in WakeCycle
             /\ FinishThose(q, S)[i].key = q[i].key
             /\ FinishThose(q, S)[i].max_attempts = q[i].max_attempts
             /\ FinishThose(q, S)[i].attempts_started = q[i].attempts_started
  <2>1. q[i] \in WakeCycle
    OBVIOUS
  <2>2. FinishThose(q, S)[i] \in {q[i], [q[i] EXCEPT !.status = "Completed"]}
    BY <1>1 DEF FinishThose, FinishCycle
  <2> QED BY <2>1, <2>2, SwStatusChange, Zenon
<1> QED BY <1>2, <1>3, SwPointwise, Zenon

\* complete() changes nothing but a status, whatever the permit and outcome.
LEMMA SwComplete ==
    ASSUME NEW q \in Seq(WakeCycle), NEW p, NEW outcome
    PROVE  SwRestated(q, CompleteCycle(q, p, outcome))
<1> DEFINE held == {i \in InFlightOf(q, p) : q[i].attempts_started = p.attempt}
           k == FirstOf(held)
           r == CompleteCycle(q, p, outcome)
<1>1. DOMAIN q = 1..Len(q)
  OBVIOUS
<1>2. \/ r = q
      \/ r = [q EXCEPT ![k] = FinishCycle(@)]
      \/ r = [q EXCEPT ![k].status = "Pending"]
  BY DEF CompleteCycle
<1>3. r = [i \in DOMAIN q |-> r[i]]
  <2> HIDE DEF r, k
  <2> QED BY <1>2
<1>4. ASSUME NEW i \in 1..Len(q)
      PROVE  /\ r[i] \in WakeCycle
             /\ r[i].key = q[i].key
             /\ r[i].max_attempts = q[i].max_attempts
             /\ r[i].attempts_started = q[i].attempts_started
  <2> HIDE DEF r, k
  <2>1. q[i] \in WakeCycle
    OBVIOUS
  <2>2. r[i] \in {q[i], [q[i] EXCEPT !.status = "Pending"], [q[i] EXCEPT !.status = "Completed"]}
    BY <1>1, <1>2 DEF FinishCycle
  <2> QED BY <2>1, <2>2, SwStatusChange, Zenon
<1> HIDE DEF r
<1>5. SwRestated(q, r)
  BY <1>3, <1>4, SwPointwise, Zenon
<1> QED BY <1>5 DEF r

\* Restating twice is restating.
LEMMA SwRestatedTwice ==
    ASSUME NEW q \in Seq(WakeCycle), NEW r, NEW s, SwRestated(q, r), SwRestated(r, s)
    PROVE  SwRestated(q, s)
  BY DEF SwRestated

\* A row whose statuses alone change still counts every request.
LEMMA SwRowKept ==
    ASSUME SwRowOK, SwRestated(swDisk, swDisk'), UNCHANGED swSent,
           swDelivered \subseteq swDelivered',
           \A t \in Transitions : SwPending(t)' => SwPending(t)
    PROVE  SwRowOK'
<1>1. /\ swDisk' \in Seq(WakeCycle) /\ Len(swDisk') <= MaxCycles
      /\ Len(swDisk') = Len(swDisk)
  BY DEF SwRestated, SwRowOK
<1>2. ASSUME NEW i \in 1..Len(swDisk')
      PROVE  /\ swDisk'[i].attempts_started <= swDisk'[i].max_attempts
             /\ swDisk'[i].key \in swDelivered'
             /\ swSent'[swDisk'[i].key] <= swDisk'[i].attempts_started
             /\ SwPending(swDisk[i].key)' => swSent'[swDisk'[i].key] < swDisk'[i].attempts_started
             /\ swDisk'[i].key = swDisk[i].key
  <2>1. swDisk[i] \in WakeCycle /\ i \in 1..Len(swDisk)
    BY <1>1 DEF SwRowOK
  <2>2. swDisk[i].key \in Transitions
    BY <2>1 DEF WakeCycle
  <2>3. /\ swDisk'[i].key = swDisk[i].key
        /\ swDisk'[i].max_attempts = swDisk[i].max_attempts
        /\ swDisk'[i].attempts_started = swDisk[i].attempts_started
    BY <2>1 DEF SwRestated
  <2>4. SwPending(swDisk[i].key)' => SwPending(swDisk[i].key)
    BY <2>2, <2>3
  <2> QED BY <2>1, <2>3, <2>4 DEF SwRowOK
<1>3. \A i, j \in 1..Len(swDisk') : swDisk'[i].key = swDisk'[j].key => i = j
  BY <1>1, <1>2 DEF SwRowOK
<1> QED BY <1>1, <1>2, <1>3 DEF SwRowOK

\* reserve_cycle(): the queue stays within its capacity, and a cycle for a new
\* transition is the only one of it.
LEMMA SwReserve ==
    ASSUME NEW q \in Seq(WakeCycle), NEW c \in WakeCycle, Len(q) <= MaxCycles,
           \A i, j \in 1..Len(q) : q[i].key = q[j].key => i = j,
           \A i \in 1..Len(q) : q[i].key # c.key
    PROVE  LET r == ReserveCycle(q, c)
           IN  /\ r \in Seq(WakeCycle) /\ Len(r) <= MaxCycles
               /\ \A i \in 1..Len(r) : r[i] = c \/ \E j \in 1..Len(q) : r[i] = q[j]
               /\ \A i, j \in 1..Len(r) : r[i].key = r[j].key => i = j
<1> DEFINE done == {i \in DOMAIN q : q[i].status = "Completed"}
           k == FirstOf(done)
           w == Without(q, k)
<1>0. DOMAIN q = 1..Len(q) /\ Len(q) \in Nat
  OBVIOUS
<1>1. ASSUME NEW s \in Seq(WakeCycle), Len(s) < MaxCycles,
             \A i \in 1..Len(s) : \E j \in 1..Len(q) : s[i] = q[j],
             \A i, j \in 1..Len(s) : s[i].key = s[j].key => i = j
      PROVE  LET r == Append(s, c)
             IN  /\ r \in Seq(WakeCycle) /\ Len(r) <= MaxCycles
                 /\ \A i \in 1..Len(r) : r[i] = c \/ \E j \in 1..Len(q) : r[i] = q[j]
                 /\ \A i, j \in 1..Len(r) : r[i].key = r[j].key => i = j
  <2> DEFINE r == Append(s, c)
  <2>1. r \in Seq(WakeCycle) /\ Len(r) = Len(s) + 1 /\ Len(s) \in Nat
    OBVIOUS
  <2>2. /\ \A i \in 1..Len(s) : r[i] = s[i]
        /\ r[Len(s) + 1] = c
    OBVIOUS
  <2>3. \A i \in 1..Len(s) : s[i].key # c.key
    BY <1>1
  <2> HIDE DEF r
  <2>4. Len(r) <= MaxCycles
    BY <1>1, <2>1, WakeAssumption
  <2>5. ASSUME NEW i \in 1..Len(r) PROVE r[i] = c \/ \E j \in 1..Len(q) : r[i] = q[j]
    <3>1. i \in 1..Len(s) \/ i = Len(s) + 1
      BY <2>1
    <3> QED BY <1>1, <2>2, <3>1
  <2>6. ASSUME NEW i \in 1..Len(r), NEW j \in 1..Len(r), r[i].key = r[j].key PROVE i = j
    <3>1. (i \in 1..Len(s) \/ i = Len(s) + 1) /\ (j \in 1..Len(s) \/ j = Len(s) + 1)
      BY <2>1
    <3> QED BY <1>1, <2>2, <2>3, <2>6, <3>1, SMTT(30)
  <2> QED BY <2>1, <2>4, <2>5, <2>6, SMTT(30) DEF r
<1>2. CASE Len(q) < MaxCycles
  <2>1. ReserveCycle(q, c) = Append(q, c)
    BY <1>2 DEF ReserveCycle
  <2> QED BY <1>1, <1>2, <2>1
<1>3. CASE ~(Len(q) < MaxCycles) /\ done = {}
  <2>1. ReserveCycle(q, c) = q
    BY <1>3 DEF ReserveCycle
  <2> QED BY <2>1
<1>4. CASE ~(Len(q) < MaxCycles) /\ done # {}
  <2>1. ReserveCycle(q, c) = Append(w, c)
    BY <1>4 DEF ReserveCycle
  <2>2. Len(q) = MaxCycles /\ Len(q) - 1 \in Nat
    <3>1. MaxCycles \in Nat \ {0}
      BY WakeAssumption
    <3>2. Len(q) \in Nat /\ ~(Len(q) < MaxCycles)
      BY <1>0, <1>4
    <3> HIDE DEF done
    <3> QED BY <3>1, <3>2
  <2>3. w = [j \in 1..(Len(q) - 1) |-> IF k \in 1..j THEN q[j + 1] ELSE q[j]]
    BY DEF Without
  <2> HIDE DEF k
  <2>4. \A j \in 1..(Len(q) - 1) : w[j] \in WakeCycle
    BY <1>0, <2>3
  <2>5. w \in Seq(WakeCycle) /\ Len(w) = Len(q) - 1
    BY <2>2, <2>3, <2>4
  <2>6. ASSUME NEW i \in 1..Len(w) PROVE \E j \in 1..Len(q) : w[i] = q[j]
    <3>1. i \in 1..Len(q) /\ i + 1 \in 1..Len(q)
      BY <1>0, <2>5
    <3>2. w[i] = q[i] \/ w[i] = q[i + 1]
      BY <2>3, <2>5
    <3> QED BY <3>1, <3>2
  <2>7. ASSUME NEW i \in 1..Len(w), NEW j \in 1..Len(w), w[i].key = w[j].key PROVE i = j
    <3> DEFINE at(n) == IF k \in 1..n THEN n + 1 ELSE n
    <3>1. w[i] = q[at(i)] /\ w[j] = q[at(j)]
      BY <2>3, <2>5, Zenon
    <3>2. at(i) \in 1..Len(q) /\ at(j) \in 1..Len(q)
      BY <1>0, <2>5
    <3>3. at(i) = at(j)
      <4> HIDE DEF at
      <4> QED BY <2>7, <3>1, <3>2
    <3> QED BY <3>3
  <2>8. Len(w) < MaxCycles
    BY <2>2, <2>5
  <2> HIDE DEF w
  <2>9. LET r == Append(w, c)
        IN  /\ r \in Seq(WakeCycle) /\ Len(r) <= MaxCycles
            /\ \A i \in 1..Len(r) : r[i] = c \/ \E j \in 1..Len(q) : r[i] = q[j]
            /\ \A i, j \in 1..Len(r) : r[i].key = r[j].key => i = j
    BY <1>1, <2>5, <2>6, <2>7, <2>8, Zenon
  <2> QED BY <2>1, <2>9
<1> QED BY <1>2, <1>3, <1>4, Zenon

-----------------------------------------------------------------------------
\* Nothing is scheduled and nothing sent.
LEMMA SwInitInv == SwInit => SwInv
<1> SUFFICES ASSUME SwInit PROVE SwInv
  OBVIOUS
<1>1. SwRowOK
  BY WakeAssumption DEF SwInit, SwRowOK
<1>2. SwBatchOK
  BY ServerWakeAssumption DEF SwInit, SwBatchOK
<1>3. SwSentOK
  BY DEF SwInit, SwSentOK
<1> QED BY <1>1, <1>2, <1>3 DEF SwInv

\* What every operation starts from (wake_automation.rs:63-81).
LEMMA SwCoordinator ==
    ASSUME SwInv
    PROVE  /\ SwRestated(swDisk, coordinator)
           /\ coordinator \in Seq(WakeCycle)
  BY SwFromState DEF SwInv, SwRowOK, SwRestated, coordinator

\* A transition is evaluated once, so its cycle begins with nothing sent and
\* nothing about to be sent.
LEMMA SwScheduleKeeps ==
    ASSUME SwInv, NEW t \in Transitions, NEW task \in Tasks, NEW max \in Limits,
           NEW confirm \in BOOLEAN, NEW late \in BOOLEAN,
           SwScheduleTransition(t, task, max, confirm, late)
    PROVE  SwInv'
<1> DEFINE q == coordinator
<1>1. q \in Seq(WakeCycle) /\ SwRestated(swDisk, q)
  BY SwCoordinator
<1>2. /\ swDelivered' = swDelivered \cup {t} /\ t \notin swDelivered
      /\ UNCHANGED <<swBatch, swResult, swSent>>
      /\ swUsed' \subseteq swDelivered'
  BY DEF SwScheduleTransition, SwInv, SwSentOK
<1>3. \A i \in 1..Len(q) : q[i].key # t
  BY <1>1, <1>2 DEF SwRestated, SwInv, SwRowOK
<1>4. PICK c \in WakeCycle : c.key = t /\ c.attempts_started = 0 /\ swDisk' = ReserveCycle(q, c)
  <2>1. {i \in DOMAIN q : q[i].key = t} = {}
    BY <1>1, <1>3
  <2>2. /\ NewCycle(t, task, max, confirm) \in WakeCycle
        /\ NewCycle(t, task, max, FALSE) \in WakeCycle
    BY WakeAssumption DEF NewCycle, WakeCycle
  <2>3. /\ FinishCycle(NewCycle(t, task, max, FALSE)) \in WakeCycle
        /\ FinishCycle(NewCycle(t, task, max, FALSE)).key = t
        /\ FinishCycle(NewCycle(t, task, max, FALSE)).attempts_started = 0
    BY <2>2, SwStatusChange, Zenon DEF FinishCycle, NewCycle
  <2>4. \/ swDisk' = ReserveCycle(q, FinishCycle(NewCycle(t, task, max, FALSE)))
        \/ swDisk' = ReserveCycle(q, NewCycle(t, task, max, confirm))
    BY <2>1, Zenon DEF SwScheduleTransition, Evaluate, CompleteByNaturalUse
  <2>5. NewCycle(t, task, max, confirm).key = t /\ NewCycle(t, task, max, confirm).attempts_started = 0
    BY DEF NewCycle
  <2> QED BY <2>2, <2>3, <2>4, <2>5, Zenon
<1>5. /\ \A i, j \in 1..Len(q) : q[i].key = q[j].key => i = j
      /\ Len(q) <= MaxCycles
  BY <1>1 DEF SwRestated, SwInv, SwRowOK
<1> HIDE DEF q
<1>6. /\ swDisk' \in Seq(WakeCycle) /\ Len(swDisk') <= MaxCycles
      /\ \A i \in 1..Len(swDisk') : swDisk'[i] = c \/ \E j \in 1..Len(q) : swDisk'[i] = q[j]
      /\ \A i, j \in 1..Len(swDisk') : swDisk'[i].key = swDisk'[j].key => i = j
  <2>1. \A i \in 1..Len(q) : q[i].key # c.key
    BY <1>3, <1>4
  <2>2. LET r == ReserveCycle(q, c)
        IN  /\ r \in Seq(WakeCycle) /\ Len(r) <= MaxCycles
            /\ \A i \in 1..Len(r) : r[i] = c \/ \E j \in 1..Len(q) : r[i] = q[j]
            /\ \A i, j \in 1..Len(r) : r[i].key = r[j].key => i = j
    BY <1>1, <1>5, <2>1, SwReserve
  <2> QED BY <1>4, <2>2
<1>7. ASSUME NEW u \in Transitions PROVE SwPending(u)' = SwPending(u)
  BY <1>2 DEF SwPending
<1>8. ~SwPending(t) /\ swSent[t] = 0
  BY <1>2 DEF SwPending, SwInv, SwBatchOK, SwSentOK
<1>9. ASSUME NEW i \in 1..Len(swDisk')
      PROVE  /\ swDisk'[i].attempts_started <= swDisk'[i].max_attempts
             /\ swDisk'[i].key \in swDelivered'
             /\ swSent'[swDisk'[i].key] <= swDisk'[i].attempts_started
             /\ SwPending(swDisk[i].key)' => swSent'[swDisk'[i].key] < swDisk'[i].attempts_started
  <2>1. CASE swDisk'[i] = c
    <3>1. c.max_attempts \in Nat
      BY WakeAssumption DEF WakeCycle
    <3> QED BY <1>2, <1>4, <1>7, <1>8, <2>1, <3>1
  <2>2. CASE \E j \in 1..Len(q) : swDisk'[i] = q[j]
    <3>1. PICK j \in 1..Len(q) : swDisk'[i] = q[j]
      BY <2>2
    <3>2. /\ j \in 1..Len(swDisk) /\ swDisk'[i].key = swDisk[j].key
          /\ swDisk'[i].max_attempts = swDisk[j].max_attempts
          /\ swDisk'[i].attempts_started = swDisk[j].attempts_started
      BY <1>1, <3>1 DEF SwRestated
    <3>3. swDisk[j].key \in Transitions
      BY <3>2 DEF SwInv, SwRowOK, SwSentOK
    <3> QED BY <1>2, <1>7, <3>2, <3>3 DEF SwInv, SwRowOK
  <2> QED BY <1>6, <2>1, <2>2
<1>10. SwRowOK'
  BY <1>6, <1>9 DEF SwRowOK
<1>11. SwBatchOK'
  BY <1>2 DEF SwInv, SwBatchOK
<1>12. SwSentOK'
  BY <1>2 DEF SwInv, SwSentOK
<1> QED BY <1>10, <1>11, <1>12 DEF SwInv

\* Use of the account, and the cancelling of what a task or an account is owed.
LEMMA SwCancelKeeps ==
    ASSUME SwInv,
           \/ \E a \in WakeAccounts : SwNaturalUse(a) \/ SwCancelAccount(a)
           \/ \E task \in Tasks : SwCancelTask(task)
    PROVE  SwInv'
<1>1. /\ UNCHANGED <<swDelivered, swBatch, swResult, swSent>>
      /\ swUsed' \subseteq swDelivered
      /\ swDisk' = swDisk \/ \E S : swDisk' = FinishThose(coordinator, S)
  BY Zenon DEF SwNaturalUse, SwCancelAccount, SwCancelTask, SwCancel, MarkNaturalUse,
         RemovePendingForAccount, RemovePendingForTask, SwInv, SwSentOK
<1>2. SwRestated(swDisk, swDisk')
  <2>1. CASE swDisk' = swDisk
    BY <2>1 DEF SwRestated, SwInv, SwRowOK
  <2>2. ASSUME NEW S, swDisk' = FinishThose(coordinator, S) PROVE SwRestated(swDisk, swDisk')
    <3>1. SwRestated(coordinator, swDisk')
      BY <2>2, SwCoordinator, SwFinishThose
    <3> QED BY <3>1, SwCoordinator, SwRestatedTwice DEF SwInv, SwRowOK
  <2> QED BY <1>1, <2>1, <2>2
<1>3. \A u \in Transitions : SwPending(u)' => SwPending(u)
  BY <1>1 DEF SwPending
<1>4. SwRowOK'
  BY <1>1, <1>2, <1>3, SwRowKept DEF SwInv
<1> QED BY <1>1, <1>4 DEF SwInv, SwBatchOK, SwSentOK

\* A claim counts the attempt in the row that is saved, before anything is sent.
LEMMA SwClaimKeeps ==
    ASSUME SwInv, SwClaimDue
    PROVE  SwInv'
<1> DEFINE q == coordinator
<1>1. q \in Seq(WakeCycle) /\ SwRestated(swDisk, q) /\ DOMAIN swDisk = 1..Len(swDisk)
  BY SwCoordinator DEF SwInv, SwRowOK
<1>a. PICK n \in 0..SwBatchSize :
        \E due \in [1..n -> {i \in DOMAIN swDisk : Claimable(q[i], FALSE)}] :
             /\ \A j, k \in 1..n : j < k => due[j] < due[k]
             /\ swDisk' = SwClaimSet({due[k] : k \in 1..n})
             /\ swBatch' = [k \in 1..n |-> WakePermitOf(swDisk'[due[k]])]
  BY Zenon DEF SwClaimDue
<1>2. PICK due \in [1..n -> {i \in DOMAIN swDisk : Claimable(q[i], FALSE)}] :
             /\ \A j, k \in 1..n : j < k => due[j] < due[k]
             /\ swDisk' = SwClaimSet({due[k] : k \in 1..n})
             /\ swBatch' = [k \in 1..n |-> WakePermitOf(swDisk'[due[k]])]
  BY <1>a, Zenon
<1>3. swBatch = <<>> /\ UNCHANGED <<swDelivered, swResult, swUsed, swSent>>
  BY DEF SwClaimDue
<1> DEFINE S == {due[k] : k \in 1..n}
<1>4. \A i \in S : i \in 1..Len(swDisk) /\ Claimable(q[i], FALSE)
  BY <1>1, Zenon
<1>5. swDisk' = [i \in DOMAIN swDisk |-> IF i \in S THEN ClaimCycle(q, i)[i] ELSE q[i]]
  BY <1>2 DEF SwClaimSet
<1> HIDE DEF S, q
<1>6. ASSUME NEW i \in 1..Len(swDisk)
      PROVE  /\ swDisk'[i] \in WakeCycle
             /\ swDisk'[i].key = swDisk[i].key
             /\ swDisk'[i].max_attempts = swDisk[i].max_attempts
             /\ i \in S => /\ swDisk'[i].attempts_started = swDisk[i].attempts_started + 1
                           /\ swDisk[i].attempts_started < swDisk[i].max_attempts
             /\ i \notin S => swDisk'[i].attempts_started = swDisk[i].attempts_started
  <2>1. /\ q[i] \in WakeCycle /\ i \in DOMAIN q
        /\ q[i].key = swDisk[i].key /\ q[i].max_attempts = swDisk[i].max_attempts
        /\ q[i].attempts_started = swDisk[i].attempts_started
    BY <1>1 DEF SwRestated
  <2>2. CASE i \notin S
    BY <1>1, <1>5, <2>1, <2>2
  <2>3. CASE i \in S
    <3>1. q[i].attempts_started < q[i].max_attempts
      BY <1>4, <2>3 DEF Claimable
    <3>2. /\ q[i].attempts_started \in 0..MaxAttempts /\ q[i].max_attempts \in 1..MaxAttempts
          /\ MaxAttempts \in Nat
      BY <2>1, WakeAssumption DEF WakeCycle
    <3>3. q[i].attempts_started + 1 \in 0..MaxAttempts
      BY <3>1, <3>2, SMTT(30)
    <3>4. swDisk'[i] = [q[i] EXCEPT !.status = "InFlight", !.attempts_started = q[i].attempts_started + 1]
      BY <1>1, <1>5, <2>1, <2>3, Zenon DEF ClaimCycle, WakeCycle
    <3>5. /\ swDisk'[i] \in WakeCycle /\ swDisk'[i].key = q[i].key
          /\ swDisk'[i].max_attempts = q[i].max_attempts
          /\ swDisk'[i].attempts_started = q[i].attempts_started + 1
      BY <2>1, <3>3, <3>4, Zenon DEF WakeCycle
    <3> QED BY <2>1, <2>3, <3>1, <3>5
  <2> QED BY <2>2, <2>3
<1>7. swDisk' \in Seq(WakeCycle) /\ Len(swDisk') = Len(swDisk)
  <2>1. Len(swDisk) \in Nat
    BY DEF SwInv, SwRowOK
  <2> QED BY <1>1, <1>5, <1>6, <2>1
<1>8. ASSUME NEW k \in 1..n
      PROVE  /\ due[k] \in S /\ due[k] \in 1..Len(swDisk)
             /\ swBatch'[k] \in WakePermit
             /\ swBatch'[k].key = swDisk[due[k]].key
  <2>1. due[k] \in S /\ due[k] \in 1..Len(swDisk)
    BY <1>4, Zenon DEF S
  <2>2. /\ swDisk'[due[k]] \in WakeCycle /\ swDisk'[due[k]].key = swDisk[due[k]].key
        /\ swDisk'[due[k]].attempts_started = swDisk[due[k]].attempts_started + 1
    BY <1>6, <2>1
  <2>3. swBatch'[k] = WakePermitOf(swDisk'[due[k]])
    BY <1>2
  <2>4. swDisk[due[k]].attempts_started \in Nat
    BY <2>1, SwCounters DEF SwInv, SwRowOK
  <2>5. swDisk'[due[k]].attempts_started \in 1..MaxAttempts
    BY <2>2, <2>4, WakeAssumption DEF WakeCycle
  <2> QED BY <2>1, <2>2, <2>3, <2>5 DEF WakePermitOf, WakePermit, WakeCycle
<1>9. swBatch' \in Seq(WakePermit) /\ Len(swBatch') = n /\ n <= SwBatchSize
  BY <1>2, <1>8, ServerWakeAssumption
<1>10. ASSUME NEW j \in 1..n, NEW k \in 1..n, swBatch'[j].key = swBatch'[k].key PROVE j = k
  <2>1. due[j] = due[k]
    BY <1>8, <1>10 DEF SwInv, SwRowOK
  <2>2. due[j] \in Int /\ due[k] \in Int
    BY <1>8
  <2> QED BY <1>2, <2>1, <2>2
<1>11. SwBatchOK'
  <2>1. \A k \in 1..n : swBatch'[k].key \in swDelivered'
    BY <1>3, <1>8 DEF SwInv, SwRowOK
  <2>2. swResult' \in Outcomes \cup {NoResult}
    BY <1>3 DEF SwInv, SwBatchOK
  <2> QED BY <1>9, <1>10, <2>1, <2>2 DEF SwBatchOK
<1>12. ASSUME NEW i \in 1..Len(swDisk')
       PROVE  /\ swDisk'[i].attempts_started <= swDisk'[i].max_attempts
              /\ swDisk'[i].key \in swDelivered'
              /\ swSent'[swDisk'[i].key] <= swDisk'[i].attempts_started
              /\ SwPending(swDisk[i].key)' => swSent'[swDisk'[i].key] < swDisk'[i].attempts_started
  <2>1. /\ i \in 1..Len(swDisk) /\ swDisk[i].attempts_started <= swDisk[i].max_attempts
        /\ swSent[swDisk[i].key] <= swDisk[i].attempts_started
        /\ swDisk[i].key \in swDelivered
    BY <1>7 DEF SwInv, SwRowOK
  <2>2. swDisk[i].attempts_started \in Nat /\ swDisk[i].max_attempts \in Nat
    BY <2>1, SwCounters DEF SwInv, SwRowOK
  <2>3. swSent[swDisk[i].key] \in Nat
    BY <2>1 DEF SwInv, SwSentOK
  <2>4. CASE i \in S
    BY <1>3, <1>6, <2>1, <2>2, <2>3, <2>4
  <2>5. CASE i \notin S
    <3>1. ~SwPending(swDisk[i].key)'
      <4> SUFFICES ASSUME NEW k \in 1..n, swBatch'[k].key = swDisk'[i].key PROVE FALSE
        BY <1>9 DEF SwPending
      <4>1. swDisk[due[k]].key = swDisk[i].key
        BY <1>6, <1>8, <2>1
      <4>2. due[k] = i
        BY <1>8, <2>1, <4>1 DEF SwInv, SwRowOK
      <4> QED BY <1>8, <2>5, <4>2
    <3> QED BY <1>3, <1>6, <2>1, <2>5, <3>1
  <2> QED BY <2>4, <2>5
<1>13. \A i, j \in 1..Len(swDisk') : swDisk'[i].key = swDisk'[j].key => i = j
  BY <1>6, <1>7 DEF SwInv, SwRowOK
<1>14. SwRowOK'
  BY <1>7, <1>12, <1>13 DEF SwRowOK, SwInv
<1>15. SwSentOK'
  BY <1>3 DEF SwInv, SwSentOK
<1> QED BY <1>11, <1>14, <1>15 DEF SwInv

\* The request of the first permit leaves, or fails before it does.
LEMMA SwExecuteKeeps ==
    ASSUME SwInv, SwExecute \/ SwExecuteFails
    PROVE  SwInv'
<1> DEFINE t == swBatch[1].key
<1>1. /\ swBatch # <<>> /\ swResult = NoResult
      /\ swResult' \in Outcomes
      /\ UNCHANGED <<swDisk, swDelivered, swBatch, swUsed>>
      /\ swSent' = swSent \/ swSent' = [swSent EXCEPT ![t] = @ + 1]
  BY DEF SwExecute, SwExecuteFails, Outcomes, Head
<1>2. /\ 1 \in 1..Len(swBatch) /\ t \in swDelivered /\ t \in Transitions
      /\ swResult' # NoResult
  BY <1>1 DEF SwInv, SwBatchOK, SwSentOK, Outcomes, NoResult
<1>3. SwPending(t)
  BY <1>1, <1>2 DEF SwPending
<1>4. ASSUME NEW u \in Transitions, SwPending(u)' PROVE SwPending(u) /\ u # t
  <2>1. PICK n \in 1..Len(swBatch) : swBatch[n].key = u /\ n > 1
    BY <1>1, <1>2, <1>4 DEF SwPending
  <2> QED BY <1>2, <2>1 DEF SwPending, SwInv, SwBatchOK
<1> HIDE DEF t
<1>5. /\ swSent \in [Transitions -> Nat] /\ swSent' \in [Transitions -> Nat]
      /\ \A u \in Transitions : u # t => swSent'[u] = swSent[u]
      /\ swSent'[t] \in {swSent[t], swSent[t] + 1}
  BY <1>1, <1>2 DEF SwInv, SwSentOK
<1>6. SwSentOK'
  BY <1>1, <1>2, <1>5 DEF SwInv, SwSentOK
<1>7. SwBatchOK'
  BY <1>1 DEF SwInv, SwBatchOK
<1>8. ASSUME NEW i \in 1..Len(swDisk)
      PROVE  /\ swSent'[swDisk[i].key] <= swDisk[i].attempts_started
             /\ SwPending(swDisk[i].key)' => swSent'[swDisk[i].key] < swDisk[i].attempts_started
  <2>1. /\ swSent[swDisk[i].key] <= swDisk[i].attempts_started
        /\ SwPending(swDisk[i].key) => swSent[swDisk[i].key] < swDisk[i].attempts_started
        /\ swDisk[i].key \in Transitions
    BY DEF SwInv, SwRowOK, SwSentOK
  <2>2. SwPending(swDisk[i].key)' => SwPending(swDisk[i].key) /\ swDisk[i].key # t
    BY <1>1, <1>4, <2>1
  <2>3. swDisk[i].attempts_started \in Nat
    BY SwCounters DEF SwInv, SwRowOK
  <2>4. CASE swDisk[i].key # t
    BY <1>5, <2>1, <2>2, <2>4
  <2>5. CASE swDisk[i].key = t
    BY <1>2, <1>3, <1>5, <2>1, <2>2, <2>3, <2>5
  <2> QED BY <2>4, <2>5
<1>9. SwRowOK'
  BY <1>1, <1>8 DEF SwInv, SwRowOK
<1> QED BY <1>6, <1>7, <1>9 DEF SwInv

\* The first permit is completed, or the batch is lost.
LEMMA SwEndKeeps ==
    ASSUME SwInv, SwCompletePermit \/ SwCrash
    PROVE  SwInv'
<1>1. UNCHANGED <<swDelivered, swUsed, swSent>> /\ swResult' = NoResult
  BY DEF SwCompletePermit, SwCrash
<1>2. CASE SwCompletePermit
  <2>1. /\ swBatch # <<>> /\ swBatch' = Tail(swBatch)
        /\ swDisk' = CompleteCycle(coordinator, Head(swBatch), swResult)
    BY <1>2 DEF SwCompletePermit
  <2>2. /\ swBatch' \in Seq(WakePermit) /\ Len(swBatch') = Len(swBatch) - 1
        /\ \A n \in 1..Len(swBatch') : swBatch'[n] = swBatch[n + 1]
        /\ Len(swBatch) \in Nat
    BY <2>1 DEF SwInv, SwBatchOK
  <2>3. \A n \in 1..Len(swBatch') : n + 1 \in 1..Len(swBatch) /\ n + 1 > 1
    BY <2>2
  <2>4. SwBatchOK'
    <3>1. Len(swBatch') <= SwBatchSize
      BY <2>2, ServerWakeAssumption DEF SwInv, SwBatchOK
    <3>2. \A n \in 1..Len(swBatch') : swBatch'[n].key \in swDelivered
      BY <2>2, <2>3 DEF SwInv, SwBatchOK
    <3>3. ASSUME NEW m \in 1..Len(swBatch'), NEW n \in 1..Len(swBatch'),
                 swBatch'[m].key = swBatch'[n].key
          PROVE  m = n
      <4>1. m + 1 = n + 1
        BY <2>2, <2>3, <3>3 DEF SwInv, SwBatchOK
      <4> QED BY <4>1
    <3> QED BY <1>1, <2>2, <3>1, <3>2, <3>3 DEF SwBatchOK
  <2>5. \A u \in Transitions : SwPending(u)' => SwPending(u)
    BY <2>2, <2>3, Zenon DEF SwPending
  <2>6. SwRestated(swDisk, swDisk')
    <3>1. SwRestated(coordinator, swDisk')
      BY <2>1, SwCoordinator, SwComplete
    <3> QED BY <3>1, SwCoordinator, SwRestatedTwice DEF SwInv, SwRowOK
  <2>7. SwRowOK'
    BY <1>1, <2>5, <2>6, SwRowKept DEF SwInv
  <2> QED BY <1>1, <2>4, <2>7 DEF SwInv, SwSentOK
<1>3. CASE SwCrash
  <2>1. swBatch' = <<>> /\ UNCHANGED swDisk
    BY <1>3 DEF SwCrash
  <2>2. SwRestated(swDisk, swDisk')
    BY <2>1 DEF SwRestated, SwInv, SwRowOK
  <2>3. \A u \in Transitions : SwPending(u)' => SwPending(u)
    BY <2>1 DEF SwPending
  <2>4. SwRowOK'
    BY <1>1, <2>2, <2>3, SwRowKept DEF SwInv
  <2>5. SwBatchOK'
    BY <1>1, <2>1, ServerWakeAssumption DEF SwBatchOK
  <2> QED BY <1>1, <2>4, <2>5 DEF SwInv, SwSentOK
<1> QED BY <1>2, <1>3

-----------------------------------------------------------------------------
\* Whatever is claimed, dropped, cancelled and recovered, in any number of
\* rounds: the saved row stays one that from_state accepts, and no transition is
\* woken more often than its cycle allows (wake_automation.rs:63-81,
\* quota_wake.rs:203-215).
THEOREM SpecServerWakeSafe == SwSpec => []ServerWakeSafe
<1>1. SwInv /\ [SwNext]_swVars => SwInv'
  <2> SUFFICES ASSUME SwInv, [SwNext]_swVars PROVE SwInv'
    OBVIOUS
  <2>1. CASE UNCHANGED swVars
    <3>1. \A u : SwPending(u)' = SwPending(u)
      BY <2>1 DEF swVars, SwPending
    <3> QED BY <2>1, <3>1, Zenon DEF swVars, SwInv, SwRowOK, SwBatchOK, SwSentOK
  <2>2. CASE SwNext
    BY <2>2, SwScheduleKeeps, SwCancelKeeps, SwClaimKeeps, SwExecuteKeeps, SwEndKeeps DEF SwNext
  <2> QED BY <2>1, <2>2
<1>2. QED
  BY <1>1, SwInitInv, SwInvIsSafe, PTL DEF SwSpec
=============================================================================
