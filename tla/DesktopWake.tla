----------------------------- MODULE DesktopWake -----------------------------
(***************************************************************************)
(* The wake coordinator on the desktop (src-tauri/src/local_pool/state/    *)
(* coordination.rs, background.rs).  update_wake changes a clone, saves it *)
(* with the automations and only then replaces the coordinator in memory.  *)
(* wake_loop and the confirmation command claim permits and carry each     *)
(* through its steps, asking again before every one whether the permit is  *)
(* still active.  Each worker here holds one permit: the claims of a batch *)
(* are on different cycles and nothing is sent between them.               *)
(*                                                                         *)
(* Two kinds of command write back state they read earlier: those that     *)
(* change a task replace the automations in the store (commands/           *)
(* automations.rs), and an account deletion that fails restores the        *)
(* coordinator it cloned (accounts/mutations.rs).  setup_guard() admits    *)
(* one of them at a time.  overwritten records the transitions whose cycle *)
(* such a write-back put back to an older value.                           *)
(***************************************************************************)
EXTENDS QuotaWake, SequencesExt

CONSTANTS
    Workers,      \* the tasks that can carry a permit at one time
    MaxFaults     \* bound: crashes, failing saves and commands in one behaviour

VARIABLES
    cycles,      \* the coordinator in memory
    disk,        \* the automation state in the store
    delivered,   \* transitions already evaluated: each is observed once
    job,         \* worker -> the permit it carries and how far it is
    copy,        \* what a running command will write back, if any, and its kind
    faults,      \* crashes, failing saves of an outcome, and commands so far
    sent,        \* history: requests sent for each transition
    lost,        \* history: in flight in memory, but the outcome was not saved
    confirmed,   \* history: transitions with a saved Confirmed completion
    overwritten  \* history: transitions a write-back put back

history == <<sent, lost, confirmed, overwritten>>
vars == <<cycles, disk, delivered, job, copy, faults, history>>

-----------------------------------------------------------------------------
NoCopy == {}

Idle == [stage |-> "Idle"]

Job(p, stage, outcome) == [stage |-> stage, permit |-> p, outcome |-> outcome]

Stages == {"Claimed", "Prepared", "Sending", "Sent", "Done"}

Fault == faults < MaxFaults /\ faults' = faults + 1

\* update_wake: memory follows the store.
Update(next) == cycles' = next /\ disk' = next

Keeps(next) == Update(next) /\ UNCHANGED <<job, copy, faults, history>>

EvaluateTransition(t, task, max, confirm, used) ==
    /\ t \notin delivered
    /\ delivered' = delivered \cup {t}
    /\ Keeps(Evaluate(cycles, t, task, max, confirm, used))

NaturalUse(a) == Keeps(MarkNaturalUse(cycles, a)) /\ UNCHANGED delivered

\* The first step of updating, disabling or deleting a task.
CancelTask(task) == Keeps(RemovePendingForTask(cycles, task)) /\ UNCHANGED delivered

ClaimDue(w, i, confirm) ==
    /\ job[w] = Idle
    /\ Claimable(cycles[i], confirm)
    /\ Update(ClaimCycle(cycles, i))
    /\ job' = [job EXCEPT ![w] = Job(WakePermitOf(cycles'[i]), "Claimed", "Failed")]
    /\ UNCHANGED <<delivered, copy, faults, history>>

-----------------------------------------------------------------------------
Steps(w, stage, outcome) ==
    /\ job' = [job EXCEPT ![w] = Job(@.permit, stage, outcome)]
    /\ UNCHANGED <<cycles, disk, delivered, copy, faults, lost, confirmed, overwritten>>

Holds(w, stage) == job[w].stage = stage

IsActive(w) == IsPermitActive(cycles, job[w].permit)

\* Credentials and client: a failure completes the permit without a request.
Prepare(w) ==
    /\ Holds(w, "Claimed") /\ IsActive(w)
    /\ Steps(w, "Prepared", "Failed") \/ Steps(w, "Done", "Failed")
    /\ UNCHANGED sent

Start(w) ==
    /\ Holds(w, "Prepared") /\ IsActive(w)
    /\ Steps(w, "Sending", "Failed")
    /\ UNCHANGED sent

\* client.execute: a request that is not valid or too large is not sent; any
\* other leaves, whatever becomes of it.
Send(w) ==
    /\ Holds(w, "Sending")
    /\ \/ Steps(w, "Sent", "Failed") /\ UNCHANGED sent
       \/ /\ sent' = [sent EXCEPT ![job[w].permit.key] = @ + 1]
          /\ Steps(w, "Sent", "Failed") \/ Steps(w, "Sent", "Unconfirmed")

\* A failed request is not verified; a good one is, by a quota refresh.
Verify(w) ==
    /\ Holds(w, "Sent") /\ IsActive(w)
    /\ \/ Steps(w, "Done", job[w].outcome)
       \/ job[w].outcome = "Unconfirmed" /\ Steps(w, "Done", "Confirmed")
    /\ UNCHANGED sent

\* is_wake_permit_active says no: the permit is dropped without an outcome.
Abandon(w) ==
    /\ job[w].stage \in {"Claimed", "Prepared", "Sent"}
    /\ ~IsActive(w)
    /\ job' = [job EXCEPT ![w] = Idle]
    /\ UNCHANGED <<cycles, disk, delivered, copy, faults, history>>

CompleteWake(w) ==
    /\ Holds(w, "Done")
    /\ Update(CompleteCycle(cycles, job[w].permit, job[w].outcome))
    /\ confirmed' = confirmed \cup {k \in {job[w].permit.key} : job[w].outcome = "Confirmed"}
    /\ job' = [job EXCEPT ![w] = Idle]
    /\ UNCHANGED <<delivered, copy, faults, sent, lost, overwritten>>

\* The store refuses the save: the permit is gone, the cycle as it was.
CompleteFails(w) ==
    /\ Holds(w, "Done")
    /\ Fault
    /\ lost' = lost \cup {k \in {job[w].permit.key} : IsActive(w)}
    /\ job' = [job EXCEPT ![w] = Idle]
    /\ UNCHANGED <<cycles, disk, delivered, copy, sent, confirmed, overwritten>>

Crash ==
    /\ Fault
    /\ cycles' = FromState(disk)
    /\ job' = [w \in Workers |-> Idle]
    /\ copy' = NoCopy
    /\ lost' = {}
    /\ UNCHANGED <<disk, delivered, sent, confirmed, overwritten>>

-----------------------------------------------------------------------------
Cycle(queue, t) == {c \in Range(queue) : c.key = t}

Overwrites(queue, older) ==
    overwritten' = overwritten \cup {t \in Transitions : Cycle(queue, t) # Cycle(older, t)}

\* A task command reads the automations and releases the store,
EditReads ==
    /\ copy = NoCopy /\ Fault
    /\ copy' = {[by |-> "Edit", cycles |-> disk]}
    /\ UNCHANGED <<cycles, disk, delivered, job, history>>

\* and writes them back with the changed task.
EditWrites ==
    /\ \E clone \in copy :
          /\ clone.by = "Edit"
          /\ disk' = clone.cycles
          /\ Overwrites(disk, clone.cycles)
    /\ copy' = NoCopy
    /\ UNCHANGED <<cycles, delivered, job, faults, sent, lost, confirmed>>

\* A deletion clones the coordinator, then cancels the account's wakes.
DeleteBegins(a) ==
    /\ copy = NoCopy /\ Fault
    /\ copy' = {[by |-> "Delete", cycles |-> cycles]}
    /\ Update(RemovePendingForAccount(cycles, a))
    /\ UNCHANGED <<delivered, job, history>>

\* restore_wake.
DeleteRollsBack ==
    /\ \E clone \in copy :
          /\ clone.by = "Delete"
          /\ Update(clone.cycles)
          /\ Overwrites(cycles, clone.cycles)
    /\ copy' = NoCopy
    /\ UNCHANGED <<delivered, job, faults, sent, lost, confirmed>>

DeleteCommits ==
    /\ \E clone \in copy : clone.by = "Delete"
    /\ copy' = NoCopy
    /\ UNCHANGED <<cycles, disk, delivered, job, faults, history>>

-----------------------------------------------------------------------------
Init ==
    /\ cycles = <<>> /\ disk = <<>>
    /\ delivered = {}
    /\ job = [w \in Workers |-> Idle]
    /\ copy = NoCopy
    /\ faults = 0
    /\ sent = [t \in Transitions |-> 0]
    /\ lost = {} /\ confirmed = {} /\ overwritten = {}

Evaluations ==
    \E t \in Transitions, task \in Tasks, max \in Limits, confirm, used \in BOOLEAN :
        EvaluateTransition(t, task, max, confirm, used)

Claims(confirm) == \E w \in Workers, i \in DOMAIN cycles : ClaimDue(w, i, confirm)

WorkerStep(w) ==
    Prepare(w) \/ Start(w) \/ Send(w) \/ Verify(w) \/ Abandon(w) \/ CompleteWake(w)

Next ==
    \/ Evaluations
    \/ Claims(FALSE) \/ Claims(TRUE)
    \/ \E w \in Workers : WorkerStep(w) \/ CompleteFails(w)
    \/ \E a \in WakeAccounts : NaturalUse(a) \/ DeleteBegins(a)
    \/ \E task \in Tasks : CancelTask(task)
    \/ EditReads \/ EditWrites
    \/ DeleteRollsBack \/ DeleteCommits
    \/ Crash

Spec == Init /\ [][Next]_vars

-----------------------------------------------------------------------------
\* One type invariant: both copies of the queue are valid_cycle states within
\* their capacity, which from_state insists on (quota_wake.rs:194-202,
\* 676-686).
WakeTypeOK ==
    /\ \A q \in {cycles, disk} :
          /\ q \in Seq(WakeCycle)
          /\ Len(q) <= MaxCycles
          /\ \A i \in DOMAIN q : q[i].attempts_started <= q[i].max_attempts
    /\ \A w \in Workers : job[w] # Idle =>
          job[w] \in [stage : Stages, permit : WakePermit, outcome : Outcomes]
    /\ delivered \subseteq Transitions

\* The retry cap holds across crashes: whatever is lost between a claim and its
\* completion, no transition is woken more often than its cycle allows, because
\* the attempt is saved before the request leaves.  Only a stale write-back can
\* break it (quota_wake.rs:404-452, coordination.rs:222-232).
RetryCap ==
    \A c \in Range(cycles) : c.key \notin overwritten => sent[c.key] <= c.max_attempts

\* A cycle in flight is carried by exactly one worker whose permit is still
\* honoured, or waits for a restart because its outcome could not be saved or a
\* stale write-back revived it (background.rs:561-578, quota_wake.rs:392-402).
InFlightCarriedOnce ==
    \A c \in Range(cycles) : c.status = "InFlight" /\ c.key \notin overwritten =>
        LET holders == {w \in Workers : /\ job[w] # Idle
                                        /\ job[w].permit.key = c.key
                                        /\ IsActive(w)}
        IN  IF c.key \in lost THEN holders = {} ELSE \E w \in holders : holders = {w}

\* Once complete() has saved a Confirmed outcome, the transition is never woken
\* again, neither by a retry nor after a crash, unless a stale write-back revived
\* its cycle (quota_wake.rs:476-478).
ConfirmedIsFinal ==
    [][\A t \in confirmed \ overwritten : sent'[t] = sent[t]]_vars

\* No cycle is stranded: one that is pending still has an attempt left, so the
\* loop or the confirmation command can claim it, whatever was completed, dropped,
\* recovered or put back before (quota_wake.rs:203-215, 418-425, 476-486).
PendingHasAttempts ==
    \A q \in {cycles, disk} : \A c \in Range(q) :
        c.status = "Pending" => c.attempts_started < c.max_attempts

\* What the coordinator keeps through crashes, failing saves and write-backs
\* (quota_wake.rs:194-486): valid queues, the retry cap, one carrier for each
\* cycle in flight, and an attempt left for each pending one.
WakeSafe == WakeTypeOK /\ RetryCap /\ InFlightCarriedOnce /\ PendingHasAttempts

-----------------------------------------------------------------------------
\* Nothing tells the workers apart.
WorkerSymmetry == Permutations(Workers)
=============================================================================
