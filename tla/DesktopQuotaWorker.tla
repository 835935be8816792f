------------------------- MODULE DesktopQuotaWorker --------------------------
(***************************************************************************)
(* The desktop's background quota worker (src-tauri/src/local_pool/        *)
(* background.rs) on top of the shared refresh queue: one loop that sleeps *)
(* until the next due time or a notification, claims a batch, runs one     *)
(* task per permit, settles each as it ends and refills the free slots.    *)
(* Commands and the usage callback mark or remove accounts concurrently    *)
(* and notify the loop (state/coordination.rs, usage_writer.rs).           *)
(*                                                                         *)
(* A failed account deletion or OAuth completion also restores the whole   *)
(* queue from a clone it took earlier (accounts/mutations.rs,              *)
(* commands/oauth.rs).  Those steps are left out: they can return an       *)
(* account to the claims of a task that has already settled.               *)
(***************************************************************************)
EXTENDS QuotaRefreshQueue

CONSTANTS
    BatchSize,   \* QUOTA_BATCH_SIZE
    MaxClock     \* bound: the clock stops here, later due times never come

ASSUME WorkerAssumption == BatchSize \in Nat \ {0} /\ MaxClock \in Times

VARIABLES
    session,      \* background_session_active
    notified,     \* the permit stored in quota_refresh_notify
    pc,           \* where quota_loop is
    wake_at       \* the deadline it sleeps for

workerVars == <<session, notified, pc, wake_at>>
allWorkerVars == <<vars, workerVars>>

-----------------------------------------------------------------------------
\* notify_one(): the changes the queue reports wake the loop.
Notify == notified' = TRUE

MarkSilently(a, d) ==
    /\ MarkDirty(a, d)
    /\ UNCHANGED <<notified, session, pc, wake_at>>

\* mark_quota_refresh, the usage callback and sync_account_quota_refresh.
Mark(a, d) ==
    /\ MarkDirty(a, d)
    /\ Notify
    /\ UNCHANGED <<session, pc, wake_at>>

RemoveAccount(a) ==
    /\ Remove(a)
    /\ Notify
    /\ UNCHANGED <<session, pc, wake_at>>

SetSession ==
    /\ session' = ~session
    /\ UNCHANGED <<vars, notified, pc, wake_at>>

Clock ==
    /\ now < MaxClock
    /\ Tick
    /\ UNCHANGED workerVars

-----------------------------------------------------------------------------
\* wait_for_background_session_active, then next_quota_refresh_due.
LoopStart ==
    /\ pc = "Start"
    /\ session
    /\ pc' = "Check"
    /\ UNCHANGED <<vars, session, notified, wake_at>>

CheckDueStoringDelay ==
    /\ pc = "Check"
    /\ NextDue
    /\ \/ heap' = {} /\ pc' = "Await" /\ UNCHANGED wake_at
       \/ \E e \in heap' :
             /\ \A f \in heap' : f = e \/ Precedes(e, f)
             /\ wake_at' = e.due - now
             /\ pc' = IF e.due <= now THEN "Claim" ELSE "Sleep"
    /\ UNCHANGED <<session, notified>>

\* due_wait: claim at once, await a notification, or sleep.
CheckDue ==
    /\ pc = "Check"
    /\ NextDue
    /\ \/ heap' = {} /\ pc' = "Await" /\ UNCHANGED wake_at
       \/ \E e \in heap' :
             /\ \A f \in heap' : f = e \/ Precedes(e, f)
             /\ wake_at' = e.due
             /\ pc' = IF e.due <= now THEN "Claim" ELSE "Sleep"
    /\ UNCHANGED <<session, notified>>

\* The select of the loop against the session ending: nothing is consumed.
SessionEnds ==
    /\ pc \in {"Await", "Sleep"}
    /\ ~session
    /\ pc' = "Start"
    /\ UNCHANGED <<vars, session, notified, wake_at>>

WakeByNotice ==
    /\ pc \in {"Await", "Sleep"}
    /\ notified
    /\ notified' = FALSE
    /\ pc' = "Claim"
    /\ UNCHANGED <<vars, session, wake_at>>

WakeByTimerLate ==
    /\ pc = "Sleep"
    /\ wake_at < now
    /\ pc' = "Claim"
    /\ UNCHANGED <<vars, session, notified, wake_at>>

WakeByTimer ==
    /\ pc = "Sleep"
    /\ wake_at <= now
    /\ pc' = "Claim"
    /\ UNCHANGED <<vars, session, notified, wake_at>>

\* claim_and_spawn_quota_workers: one task per permit, into the open slots.
Claim ==
    /\ pc = "Claim"
    /\ IF session THEN ClaimDue(BatchSize - Cardinality(permits)) ELSE UNCHANGED vars
    /\ pc' = IF permits' = {} THEN "Start" ELSE "Join"
    /\ UNCHANGED <<session, notified, wake_at>>

SettleThenRestart(p) ==
    /\ pc = "Join"
    /\ \/ Complete(p)
       \/ \E d \in Times : d > now /\ Reschedule(p, d)
    /\ notified' = (notified \/ Honoured(p))
    /\ pc' = "Start"
    /\ UNCHANGED <<session, wake_at>>

\* join_next_with_id and settle_quota_refresh: a refresh that succeeded or can
\* be retried is rescheduled, a terminal one completed.
Settle(p) ==
    /\ pc = "Join"
    /\ \/ Complete(p)
       \/ \E d \in Times : d > now /\ Reschedule(p, d)
    /\ notified' = (notified \/ Honoured(p))
    /\ pc' = "Claim"
    /\ UNCHANGED <<session, wake_at>>

-----------------------------------------------------------------------------
\* DesktopState::open queues every monitored account, due at once.
WorkerInit ==
    /\ \E monitored \in SUBSET Accounts :
          /\ Cardinality(monitored) <= MaxEntries
          /\ \E order \in [monitored -> 1..Cardinality(monitored)] :
                /\ \A a, b \in monitored : order[a] = order[b] => a = b
                /\ entries = [a \in Accounts |->
                                IF a \in monitored
                                THEN [status |-> "Pending", due |-> 0,
                                      generation |-> order[a], dirty |-> None]
                                ELSE NoEntry]
                /\ heap = PendingElements(entries)
                /\ next_generation = Cardinality(monitored) + 1
    /\ now = 0
    /\ permits = {}
    /\ session = FALSE
    /\ notified = FALSE
    /\ pc = "Start"
    /\ wake_at = 0

Loop ==
    \/ LoopStart \/ CheckDue \/ SessionEnds \/ WakeByNotice \/ WakeByTimer
    \/ Claim

Callers ==
    \/ \E a \in Accounts : RemoveAccount(a) \/ \E d \in Times : Mark(a, d)
    \/ SetSession

WorkerNext == Loop \/ Callers \/ Clock \/ \E p \in permits : Settle(p)

\* The loop is a task the runtime always schedules, time passes, and every
\* refresh task ends: its requests have timeouts.
WorkerFairness ==
    /\ WF_allWorkerVars(LoopStart \/ CheckDue \/ Claim)
    /\ WF_allWorkerVars(SessionEnds \/ WakeByNotice \/ WakeByTimer)
    /\ WF_allWorkerVars(Clock)
    /\ WF_allWorkerVars(\E p \in permits : Settle(p))

WorkerSpec == WorkerInit /\ [][WorkerNext]_allWorkerVars /\ WorkerFairness

-----------------------------------------------------------------------------
\* One type invariant: the queue's, and the loop is at one of its awaits with a
\* deadline that is an instant (background.rs:143-162, 284-296).
WorkerTypeOK ==
    /\ TypeOK
    /\ session \in BOOLEAN /\ notified \in BOOLEAN
    /\ pc \in {"Start", "Check", "Await", "Sleep", "Claim", "Join"}
    /\ wake_at \in Times

\* A quota batch never exceeds its slots, and a permit is only ever held by a
\* running task: the loop waits for all of them before it sleeps again
\* (background.rs:312-379).
TasksAreJoined ==
    /\ Cardinality(permits) <= BatchSize
    /\ permits # {} => pc \in {"Join", "Claim"}

\* The loop never sleeps through a change: while it waits, the earliest pending
\* refresh is no earlier than its deadline unless a notification is stored
\* (background.rs:284-296, state/coordination.rs:17-95).
NeverOversleeps ==
    pc \in {"Await", "Sleep"} /\ ~notified =>
        \A a \in Accounts : entries[a].status = "Pending" =>
            pc = "Sleep" /\ wake_at <= entries[a].due

Due(a) == a \notin busy /\ want[a] # None /\ want[a] <= now

\* What the loop keeps between its awaits (background.rs:143-162, 284-379): its
\* state is well formed, its batch is joined before it sleeps, and it never
\* sleeps past a refresh that is due.
WorkerSafe == WorkerTypeOK /\ TasksAreJoined /\ NeverOversleeps
=============================================================================
