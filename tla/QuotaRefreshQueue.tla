-------------------------- MODULE QuotaRefreshQueue --------------------------
(***************************************************************************)
(* The queue of pending quota refreshes (crates/relay-core/src/quota/      *)
(* queue.rs).  It keeps one entry per account and a binary heap ordered by *)
(* due time with lazy deletion: an entry that is rescheduled or removed    *)
(* leaves its old heap element behind, to be discarded when it surfaces or *)
(* when the heap is compacted.  A claimed entry stays in the table as      *)
(* InFlight until the holder of its permit completes or reschedules it.    *)
(*                                                                         *)
(* Every operation runs under one mutex, so each is one action.  A call    *)
(* that changes nothing (an unchanged due time, a rejected id, a full      *)
(* table, a stale permit) is a stuttering step.  Account ids are opaque,   *)
(* times are small naturals, and generations never wrap: the counter has   *)
(* 64 bits in the code.                                                    *)
(***************************************************************************)
EXTENDS Integers, FiniteSets
LOCAL INSTANCE TLC

CONSTANTS
    Accounts,       \* the account ids callers use
    MaxEntries,     \* the capacity given to QuotaRefreshQueue::new
    MaxTime,        \* bound: the last instant of the clock and of due times
    MaxGeneration   \* bound: callers stop scheduling above this generation

ASSUME QueueAssumption ==
    /\ IsFiniteSet(Accounts)
    /\ MaxEntries \in Nat \ {0}
    /\ MaxTime \in Nat
    /\ MaxGeneration \in Nat

VARIABLES
    entries,          \* account -> its QueueEntry, or NoEntry
    heap,             \* the heap elements
    next_generation,  \* the next generation to hand out
    now,              \* the clock the callers read
    permits           \* the permits held by refresh workers

queueVars == <<entries, heap, next_generation>>
vars == <<entries, heap, next_generation, now, permits>>

-----------------------------------------------------------------------------
Times == 0..MaxTime

\* Option::None of dirty_due_at_ms.
None == -1

NoEntry == [status |-> "Absent", due |-> 0, generation |-> 0, dirty |-> None]

QueueEntry == [status : {"Pending", "InFlight"}, due : Times,
               generation : Nat \ {0}, dirty : Times \cup {None}]

HeapEntry == [due : Times, generation : Nat \ {0}, account : Accounts]

Present(E) == {a \in Accounts : E[a].status # "Absent"}

\* The derived Ord of HeapEntry; equal generations do not meet in one heap.
Precedes(e, f) ==
    \/ e.due < f.due
    \/ e.due = f.due /\ e.generation < f.generation

\* The heap element an entry stands for while it is pending.
ElementOf(E, a) ==
    [due |-> E[a].due, generation |-> E[a].generation, account |-> a]

Live(E, e) == E[e.account].status = "Pending" /\ ElementOf(E, e.account) = e

PendingElements(E) ==
    {ElementOf(E, a) : a \in {b \in Accounts : E[b].status = "Pending"}}

\* Popping while the top is stale leaves what does not precede a live element.
DiscardStale(E, h) ==
    {e \in h : \E l \in h : Live(E, l) /\ (l = e \/ Precedes(l, e))}

CompactNever(E, h) == h

CompactBeforeUpdate(E, h) ==
    IF Cardinality(h) <= 2 * MaxEntries THEN h ELSE PendingElements(entries)

CompactIfNeeded(E, h) ==
    IF Cardinality(h) <= 2 * MaxEntries THEN h ELSE PendingElements(E)

\* schedule(), and the tail of insert(): a fresh generation for the account.
Schedule(a, d) ==
    /\ entries' = [entries EXCEPT ![a] =
                     [status |-> "Pending", due |-> d,
                      generation |-> next_generation, dirty |-> None]]
    /\ heap' = CompactIfNeeded(entries', heap \cup {ElementOf(entries', a)})
    /\ next_generation' = next_generation + 1

Insert(a, d) ==
    /\ Cardinality(Present(entries)) < MaxEntries
    /\ Schedule(a, d)

SetDirtyTakingGeneration(a, d) ==
    /\ entries' = [entries EXCEPT ![a].dirty = d, ![a].generation = next_generation]
    /\ next_generation' = next_generation + 1
    /\ UNCHANGED heap

SetDirty(a, d) ==
    /\ entries' = [entries EXCEPT ![a].dirty = d]
    /\ UNCHANGED <<heap, next_generation>>

-----------------------------------------------------------------------------
Upsert(a, d) ==
    /\ next_generation <= MaxGeneration
    /\ \/ entries[a].status = "Absent" /\ Insert(a, d)
       \/ entries[a].status = "InFlight" /\ SetDirty(a, d)
       \/ /\ entries[a].status = "Pending"
          /\ ~(entries[a].due = d /\ entries[a].dirty = None)
          /\ Schedule(a, d)
    /\ UNCHANGED <<now, permits>>

MarkDirty(a, d) ==
    /\ next_generation <= MaxGeneration
    /\ \/ entries[a].status = "Absent" /\ Insert(a, d)
       \/ /\ entries[a].status = "Pending"
          /\ ~(entries[a].due <= d)
          /\ Schedule(a, d)
       \/ /\ entries[a].status = "InFlight"
          /\ entries[a].dirty = None \/ ~(entries[a].dirty <= d)
          /\ SetDirty(a, d)
    /\ UNCHANGED <<now, permits>>

DueElementsEarly == {e \in heap : Live(entries, e)}

\* The live elements that are due, and the batches claim_due may take of them:
\* as many as asked for, the earliest first.
DueElements == {e \in heap : Live(entries, e) /\ e.due <= now}

IsBatch(C, max_claims) ==
    /\ C \subseteq DueElements
    /\ Cardinality(C) <= max_claims
    /\ C = DueElements \/ Cardinality(C) = max_claims
    /\ \A e \in C, f \in DueElements \ C : Precedes(e, f)

\* The loop ends right after its last pop when the batch is full, and after
\* one more round of discarding otherwise.
HeapAfterClaim(C, max_claims) ==
    IF Cardinality(C) = max_claims
    THEN {e \in heap : \A c \in C : Precedes(c, e)}
    ELSE DiscardStale(entries', heap \ C)

PermitOf(e) == [account |-> e.account, due |-> e.due, generation |-> e.generation]

ClaimDue(max_claims) ==
    \E C \in SUBSET heap :
        /\ IsBatch(C, max_claims)
        /\ entries' = [a \in Accounts |->
                         IF \E e \in C : e.account = a
                         THEN [entries[a] EXCEPT !.status = "InFlight"]
                         ELSE entries[a]]
        /\ heap' = HeapAfterClaim(C, max_claims)
        /\ permits' = permits \cup {PermitOf(e) : e \in C}
        /\ UNCHANGED <<next_generation, now>>

\* The check complete() and reschedule() make before they act on a permit.
Honoured(p) ==
    /\ entries[p.account].status = "InFlight"
    /\ entries[p.account].generation = p.generation

CompleteDroppingDirty(p) ==
    /\ IF ~Honoured(p) THEN UNCHANGED queueVars
       ELSE /\ entries' = [entries EXCEPT ![p.account] = NoEntry]
            /\ UNCHANGED <<heap, next_generation>>
    /\ permits' = permits \ {p}
    /\ UNCHANGED now

Complete(p) ==
    /\ IF ~Honoured(p) THEN UNCHANGED queueVars
       ELSE IF entries[p.account].dirty # None
            THEN Schedule(p.account, entries[p.account].dirty)
            ELSE /\ entries' = [entries EXCEPT ![p.account] = NoEntry]
                 /\ UNCHANGED <<heap, next_generation>>
    /\ permits' = permits \ {p}
    /\ UNCHANGED now

EarlierOfWithoutNone(dirty, d) == IF d < dirty THEN d ELSE dirty

EarlierOf(dirty, d) == IF dirty = None \/ d < dirty THEN d ELSE dirty

Reschedule(p, d) ==
    /\ next_generation <= MaxGeneration
    /\ IF ~Honoured(p) THEN UNCHANGED queueVars
       ELSE Schedule(p.account, EarlierOf(entries[p.account].dirty, d))
    /\ permits' = permits \ {p}
    /\ UNCHANGED now

Remove(a) ==
    /\ entries[a].status # "Absent"
    /\ entries' = [entries EXCEPT ![a] = NoEntry]
    /\ UNCHANGED <<heap, next_generation, now, permits>>

\* next_due() answers from the top of the heap, which it cleans first.
NextDue ==
    /\ heap' = DiscardStale(entries, heap)
    /\ UNCHANGED <<entries, next_generation, now, permits>>

Tick ==
    /\ now < MaxTime
    /\ now' = now + 1
    /\ UNCHANGED <<entries, heap, next_generation, permits>>

-----------------------------------------------------------------------------
Init ==
    /\ entries = [a \in Accounts |-> NoEntry]
    /\ heap = {}
    /\ next_generation = 1
    /\ now = 0
    /\ permits = {}

Next ==
    \/ \E a \in Accounts, d \in Times : Upsert(a, d) \/ MarkDirty(a, d)
    \/ \E max_claims \in 1..MaxEntries : ClaimDue(max_claims)
    \/ \E p \in permits : Complete(p) \/ \E d \in Times : Reschedule(p, d)
    \/ \E a \in Accounts : Remove(a)
    \/ NextDue
    \/ Tick

Spec == Init /\ [][Next]_vars

-----------------------------------------------------------------------------
\* One type invariant: the table, the heap and the permits hold well-formed
\* entries of known accounts (queue.rs:29-41, 280-292).
TypeOK ==
    /\ entries \in [Accounts -> QueueEntry \cup {NoEntry}]
    /\ heap \subseteq HeapEntry
    /\ next_generation \in Nat \ {0}
    /\ now \in Times
    /\ permits \subseteq HeapEntry

\* No refresh is lost to lazy deletion: whatever was discarded, compacted or
\* left stale, a pending account still has its element in the heap, so
\* claim_due can reach it (queue.rs:208-213, 227-232, 241-270).
PendingIsQueued ==
    \A a \in Accounts : entries[a].status = "Pending" => ElementOf(entries, a) \in heap

\* Rescheduling for ever cannot grow the heap past twice the capacity, and the
\* table never exceeds it (queue.rs:195, 255).
StorageBounded ==
    /\ Cardinality(Present(entries)) <= MaxEntries
    /\ Cardinality(heap) <= 2 * MaxEntries

\* Every InFlight entry has exactly one outstanding permit that complete() or
\* reschedule() will honour: no account is stuck in flight, and no two workers
\* can both settle it (queue.rs:137-151, 157-162).
InFlightHeldOnce ==
    \A a \in Accounts : entries[a].status = "InFlight" =>
        \E p \in permits :
            /\ p.account = a /\ Honoured(p)
            /\ \A q \in permits : q.account = a /\ Honoured(q) => q = p

-----------------------------------------------------------------------------
\* What the queue promises, without heap or generations: see QuotaSchedule.
want ==
    [a \in Accounts |-> CASE entries[a].status = "Pending"  -> entries[a].due
                          [] entries[a].status = "InFlight" -> entries[a].dirty
                          [] OTHER -> None]

busy == {a \in Accounts : entries[a].status = "InFlight"}

\* A refresh asked for while one is in flight survives it: settling the permit
\* leaves the account wanted, no later than was asked (queue.rs:163-167,
\* 178-181).
DirtyMarkSurvives ==
    [][\A p \in permits :
          p \notin permits' /\ Honoured(p) /\ want[p.account] # None =>
              want'[p.account] # None /\ want'[p.account] <= want[p.account]]_vars

\* want, busy and now are the abstract variables; the table, the heap and the
\* permits are hidden.
Schedule_ == INSTANCE QuotaSchedule WITH want <- want, busy <- busy, now <- now

\* The queue implements the abstract schedule: heap, lazy deletion, generations
\* and stale permits never change which accounts are wanted, when, or who is
\* being refreshed (queue.rs:71-192).
ImplementsSchedule == Schedule_!Spec

-----------------------------------------------------------------------------
\* Nothing tells the accounts apart.
AccountSymmetry == Permutations(Accounts)
=============================================================================
