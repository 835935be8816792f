------------------------------ MODULE QuotaWake ------------------------------
(***************************************************************************)
(* The wake coordinator (crates/relay-core/src/automations/quota_wake.rs). *)
(* When the primary quota window of an account becomes full again, a wake  *)
(* task schedules one cycle for that transition: a tiny request that       *)
(* starts the next window.  A cycle is attempted at most max_attempts      *)
(* times and then stays behind, completed, so that the transition is not   *)
(* scheduled twice.                                                        *)
(*                                                                         *)
(* The coordinator is a value: a queue of cycles that each host clones,    *)
(* changes and saves.  Its operations are operators on that queue.  A      *)
(* transition stands for its cycle key.  Due times are left to the callers *)
(* of Claimable: a pending cycle may or may not be due.  The history is a  *)
(* bounded log that no decision reads.                                     *)
(***************************************************************************)
EXTENDS Integers, Sequences

CONSTANTS
    WakeAccounts,  \* the accounts a wake task can select
    MaxWindows,    \* bound: how often the window of an account becomes full again
    Tasks,         \* the wake tasks
    MaxCycles,     \* max_cycles of the automation state
    MaxAttempts,   \* MAX_WAKE_ATTEMPTS
    Limits         \* the max_attempts the tasks are given

ASSUME WakeAssumption ==
    /\ MaxWindows \in Nat \ {0} /\ MaxCycles \in Nat \ {0} /\ MaxAttempts \in Nat \ {0}
    /\ Limits \subseteq 1..MaxAttempts

\* The quota transitions: an account and which of its windows became full.
Transitions == WakeAccounts \X (1..MaxWindows)

AccountOf(t) == t[1]

WakeCycle ==
    [key : Transitions, task : Tasks, requires_confirmation : BOOLEAN,
     max_attempts : 1..MaxAttempts, attempts_started : 0..MaxAttempts,
     status : {"Pending", "InFlight", "Completed"}]

WakePermit ==
    [key : Transitions, task : Tasks, attempt : 1..MaxAttempts]

Outcomes == {"Confirmed", "Unconfirmed", "Failed"}

-----------------------------------------------------------------------------
FinishCycle(c) == [c EXCEPT !.status = "Completed"]

FinishThose(cycles, S) ==
    [i \in DOMAIN cycles |->
        IF i \in S /\ cycles[i].status # "Completed"
        THEN FinishCycle(cycles[i]) ELSE cycles[i]]

OfAccount(cycles, account) == {i \in DOMAIN cycles : AccountOf(cycles[i].key) = account}

RemovePendingForTask(cycles, task) ==
    FinishThose(cycles, {i \in DOMAIN cycles : cycles[i].task = task})

RemovePendingForAccount(cycles, account) ==
    FinishThose(cycles, OfAccount(cycles, account))

MarkNaturalUse(cycles, account) ==
    FinishThose(cycles, OfAccount(cycles, account))

RecoverNothing(cycles) == cycles

RecoverAll(cycles) ==
    [i \in DOMAIN cycles |->
        IF cycles[i].status = "InFlight" THEN [cycles[i] EXCEPT !.status = "Pending"]
        ELSE cycles[i]]

RecoverForgetting(cycles) ==
    [i \in DOMAIN cycles |->
        IF cycles[i].status = "InFlight"
        THEN [cycles[i] EXCEPT !.status = "Pending", !.attempts_started = 0]
        ELSE cycles[i]]

\* from_state(): what a restart makes of the attempts that were under way.
FromState(cycles) ==
    [i \in DOMAIN cycles |->
        IF cycles[i].status # "InFlight" THEN cycles[i]
        ELSE IF cycles[i].attempts_started < cycles[i].max_attempts
        THEN [cycles[i] EXCEPT !.status = "Pending"]
        ELSE FinishCycle(cycles[i])]

-----------------------------------------------------------------------------
ReserveUnbounded(cycles, c) == Append(cycles, c)

\* The first of the positions, as position() and find() give it.
FirstOf(S) == CHOOSE i \in S : \A j \in S : i <= j

Without(cycles, i) ==
    [j \in 1..(Len(cycles) - 1) |-> IF i \in 1..j THEN cycles[j + 1] ELSE cycles[j]]

\* reserve_cycle(): at the limit the oldest completed cycle makes room.
ReserveCycle(cycles, c) ==
    LET done == {i \in DOMAIN cycles : cycles[i].status = "Completed"}
    IN  IF Len(cycles) < MaxCycles THEN Append(cycles, c)
        ELSE IF done = {} THEN cycles ELSE Append(Without(cycles, FirstOf(done)), c)

NewCycle(t, task, max, confirm) ==
    [key |-> t, task |-> task, requires_confirmation |-> confirm, max_attempts |-> max,
     attempts_started |-> 0, status |-> "Pending"]

\* complete_by_natural_use(): a transition known to no cycle leaves one that is
\* completed, so that it is not woken later.
CompleteByNaturalUse(cycles, t, task, max) ==
    LET same == {i \in DOMAIN cycles : cycles[i].key = t}
    IN  IF same # {} THEN FinishThose(cycles, same)
        ELSE ReserveCycle(cycles, FinishCycle(NewCycle(t, task, max, FALSE)))

\* evaluate() for a task that selects an eligible account; used: the account
\* was last used at or after the transition.
Evaluate(cycles, t, task, max, confirm, used) ==
    IF used THEN CompleteByNaturalUse(cycles, t, task, max)
    ELSE IF \E i \in DOMAIN cycles : cycles[i].key = t THEN cycles
    ELSE ReserveCycle(cycles, NewCycle(t, task, max, confirm))

Claimable(c, confirm) ==
    /\ c.status = "Pending"
    /\ c.attempts_started < c.max_attempts
    /\ c.requires_confirmation = confirm

ClaimCycle(cycles, i) ==
    [cycles EXCEPT ![i].status = "InFlight",
                   ![i].attempts_started = @ + 1]

WakePermitOf(c) == [key |-> c.key, task |-> c.task, attempt |-> c.attempts_started]

IsPermitActive(cycles, p) ==
    \E i \in DOMAIN cycles : /\ cycles[i].key = p.key
                            /\ cycles[i].status = "InFlight"
                            /\ cycles[i].attempts_started = p.attempt
                            /\ cycles[i].task = p.task

InFlightOf(cycles, p) ==
    {i \in DOMAIN cycles : cycles[i].key = p.key /\ cycles[i].status = "InFlight"}

CompleteAlwaysRetries(cycles, p, outcome) ==
    LET i == FirstOf(InFlightOf(cycles, p))
    IN  IF InFlightOf(cycles, p) = {} THEN cycles
        ELSE IF outcome = "Confirmed" THEN [cycles EXCEPT ![i] = FinishCycle(@)]
        ELSE [cycles EXCEPT ![i].status = "Pending"]

CompleteRetriesConfirmed(cycles, p, outcome) ==
    LET i == FirstOf(InFlightOf(cycles, p))
    IN  IF InFlightOf(cycles, p) = {} THEN cycles
        ELSE IF cycles[i].attempts_started >= cycles[i].max_attempts
        THEN [cycles EXCEPT ![i] = FinishCycle(@)]
        ELSE [cycles EXCEPT ![i].status = "Pending"]

\* complete(): a permit that is no longer in flight changes nothing.
CompleteCycle(cycles, p, outcome) ==
    LET held == {i \in InFlightOf(cycles, p) : cycles[i].attempts_started = p.attempt}
        i == FirstOf(held)
    IN  IF held = {} THEN cycles
        ELSE IF outcome = "Confirmed"
                \/ cycles[i].attempts_started >= cycles[i].max_attempts
        THEN [cycles EXCEPT ![i] = FinishCycle(@)]
        ELSE [cycles EXCEPT ![i].status = "Pending"]
=============================================================================
