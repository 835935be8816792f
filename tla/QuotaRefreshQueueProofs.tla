----------------------- MODULE QuotaRefreshQueueProofs -----------------------
(***************************************************************************)
(* Proofs about QuotaRefreshQueue and the worker on top of it, for any set *)
(* of accounts, capacity, batch size and bounds.  The invariants become    *)
(* inductive once generations are known to be fresh: every generation in   *)
(* use is below next_generation, so a newly scheduled entry can be confused*)
(* with no heap element and no permit that is still around.                *)
(***************************************************************************)
EXTENDS DesktopQuotaWorker, FiniteSetTheorems, TLAPS

\* Generations identify claims: all are below next_generation, a pending entry
\* has never been claimed under its generation, and two permits for one
\* account differ in generation.
GenerationsFresh ==
    /\ \A a \in Accounts : entries[a].generation < next_generation
    /\ \A e \in heap : e.generation < next_generation
    /\ \A p \in permits : p.generation < next_generation
    /\ \A a \in Accounts, p \in permits :
          entries[a].status = "Pending" /\ p.account = a =>
              p.generation # entries[a].generation
    /\ \A p, q \in permits :
          p.account = q.account /\ p.generation = q.generation => p = q

\* An entry in flight has an outstanding permit of its generation.
InFlightHeld ==
    \A a \in Accounts : entries[a].status = "InFlight" =>
        \E p \in permits : p.account = a /\ p.generation = entries[a].generation

IInv == TypeOK /\ GenerationsFresh /\ PendingIsQueued /\ InFlightHeld

-----------------------------------------------------------------------------
\* What Schedule leaves behind: the account is pending under the fresh
\* generation, and the heap holds elements of the old heap and of pending
\* entries only.
LEMMA ScheduleTypes ==
    ASSUME TypeOK, NEW a \in Accounts, NEW d \in Times, Schedule(a, d)
    PROVE  /\ entries' \in [Accounts -> QueueEntry \cup {NoEntry}]
           /\ next_generation' = next_generation + 1
           /\ next_generation' \in Nat \ {0}
           /\ entries'[a] = [status |-> "Pending", due |-> d,
                             generation |-> next_generation, dirty |-> None]
           /\ \A b \in Accounts : b # a => entries'[b] = entries[b]
           /\ heap' \subseteq heap \cup PendingElements(entries')
           /\ heap' \subseteq HeapEntry
<1>1. [status |-> "Pending", due |-> d, generation |-> next_generation,
       dirty |-> None] \in QueueEntry
  BY DEF TypeOK, QueueEntry, Times, None
<1>2. /\ entries' \in [Accounts -> QueueEntry \cup {NoEntry}]
      /\ entries'[a] = [status |-> "Pending", due |-> d,
                        generation |-> next_generation, dirty |-> None]
      /\ \A b \in Accounts : b # a => entries'[b] = entries[b]
  BY <1>1 DEF TypeOK, Schedule
<1>3. next_generation' = next_generation + 1 /\ next_generation' \in Nat \ {0}
  BY DEF TypeOK, Schedule
<1>4. ElementOf(entries', a) \in PendingElements(entries')
  BY <1>2 DEF PendingElements
<1>5. heap' \subseteq heap \cup PendingElements(entries')
  BY <1>4 DEF Schedule, CompactIfNeeded
<1>6. PendingElements(entries') \subseteq HeapEntry
  <2>1. SUFFICES ASSUME NEW b \in Accounts, entries'[b].status = "Pending"
                 PROVE  ElementOf(entries', b) \in HeapEntry
    BY DEF PendingElements
  <2>2. entries'[b] \in QueueEntry
    BY <1>2, <2>1 DEF NoEntry
  <2>3. QED
    BY <2>2 DEF ElementOf, HeapEntry, QueueEntry
<1>7. QED
  BY <1>2, <1>3, <1>5, <1>6 DEF TypeOK

\* Scheduling an account that is not in flight under an honoured permit any
\* more keeps the invariant: the old permits stay, or lose those of the account.
LEMMA ScheduleKeepsIInv ==
    ASSUME IInv, NEW a \in Accounts, NEW d \in Times, Schedule(a, d),
           now' = now, permits' \subseteq permits,
           \A p \in permits : p.account # a => p \in permits'
    PROVE  IInv'
<1> USE DEF IInv
<1>1. /\ entries' \in [Accounts -> QueueEntry \cup {NoEntry}]
      /\ next_generation' = next_generation + 1
      /\ next_generation' \in Nat \ {0}
      /\ entries'[a] = [status |-> "Pending", due |-> d,
                        generation |-> next_generation, dirty |-> None]
      /\ \A b \in Accounts : b # a => entries'[b] = entries[b]
      /\ heap' \subseteq heap \cup PendingElements(entries')
      /\ heap' \subseteq HeapEntry
  BY ScheduleTypes
<1>2. TypeOK'
  BY <1>1 DEF TypeOK
<1>3. \A b \in Accounts : entries'[b].generation < next_generation'
  <2>1. SUFFICES ASSUME NEW b \in Accounts
                 PROVE  entries'[b].generation < next_generation'
    OBVIOUS
  <2>2. CASE b = a
    BY <1>1, <2>2 DEF TypeOK
  <2>3. CASE b # a
    <3>1. entries[b] \in QueueEntry \cup {NoEntry}
      BY DEF TypeOK
    <3>2. entries[b].generation \in Nat
      BY <3>1 DEF QueueEntry, NoEntry
    <3>3. QED
      BY <1>1, <2>3, <3>2 DEF TypeOK, GenerationsFresh
  <2>4. QED
    BY <2>2, <2>3
<1>4. \A e \in heap' : e.generation < next_generation'
  <2>1. \A e \in heap : e.generation \in Nat /\ e.generation < next_generation
    BY DEF TypeOK, HeapEntry, GenerationsFresh
  <2>2. \A e \in PendingElements(entries') : e.generation < next_generation'
    BY <1>3 DEF PendingElements, ElementOf
  <2>3. QED
    BY <1>1, <2>1, <2>2 DEF TypeOK
<1>5. \A p \in permits : p.generation \in Nat /\ p.generation < next_generation
  BY DEF TypeOK, HeapEntry, GenerationsFresh
<1>6. GenerationsFresh'
  <2>1. \A p \in permits' : p.generation < next_generation'
    BY <1>1, <1>5 DEF TypeOK
  <2>2. \A b \in Accounts, p \in permits' :
           entries'[b].status = "Pending" /\ p.account = b =>
               p.generation # entries'[b].generation
    <3>1. SUFFICES ASSUME NEW b \in Accounts, NEW p \in permits',
                          entries'[b].status = "Pending", p.account = b
                   PROVE  p.generation # entries'[b].generation
      OBVIOUS
    <3>2. CASE b = a
      BY <1>1, <1>5, <3>2 DEF TypeOK
    <3>3. CASE b # a
      BY <1>1, <3>1, <3>3 DEF GenerationsFresh
    <3>4. QED
      BY <3>2, <3>3
  <2>3. \A p, q \in permits' :
           p.account = q.account /\ p.generation = q.generation => p = q
    BY DEF GenerationsFresh
  <2>4. QED
    BY <1>3, <1>4, <2>1, <2>2, <2>3 DEF GenerationsFresh
<1>7. PendingIsQueued'
  <2>1. SUFFICES ASSUME NEW b \in Accounts, entries'[b].status = "Pending"
                 PROVE  ElementOf(entries', b) \in heap'
    BY DEF PendingIsQueued
  <2>2. ElementOf(entries', b) \in PendingElements(entries')
    BY <2>1 DEF PendingElements
  <2>3. ElementOf(entries', b) \in heap \cup {ElementOf(entries', a)}
    <3>1. CASE b = a
      BY <3>1
    <3>2. CASE b # a
      BY <1>1, <2>1, <3>2 DEF PendingIsQueued, ElementOf
    <3>3. QED
      BY <3>1, <3>2
  <2>4. QED
    BY <2>2, <2>3, Zenon DEF Schedule, CompactIfNeeded
<1>8. InFlightHeld'
  <2>1. SUFFICES ASSUME NEW b \in Accounts, entries'[b].status = "InFlight"
                 PROVE  \E p \in permits' :
                           p.account = b /\ p.generation = entries'[b].generation
    BY DEF InFlightHeld
  <2>2. b # a /\ entries'[b] = entries[b]
    BY <1>1, <2>1
  <2>3. QED
    BY <2>1, <2>2 DEF InFlightHeld
<1>9. QED
  BY <1>2, <1>6, <1>7, <1>8

\* Marking an account that is in flight changes its dirty mark only.
LEMMA SetDirtyKeepsIInv ==
    ASSUME IInv, NEW a \in Accounts, NEW d \in Times,
           entries[a].status = "InFlight", SetDirty(a, d), UNCHANGED <<now, permits>>
    PROVE  IInv'
<1> USE DEF IInv
<1>1. entries[a] \in QueueEntry
  BY DEF TypeOK, NoEntry
<1>2. /\ entries' \in [Accounts -> QueueEntry \cup {NoEntry}]
      /\ \A b \in Accounts : /\ entries'[b].status = entries[b].status
                             /\ entries'[b].generation = entries[b].generation
                             /\ entries'[b].due = entries[b].due
  BY <1>1 DEF TypeOK, SetDirty, QueueEntry
<1>3. heap' = heap /\ next_generation' = next_generation
  BY DEF SetDirty
<1>4. TypeOK'
  BY <1>2, <1>3 DEF TypeOK
<1>5. GenerationsFresh'
  BY <1>2, <1>3 DEF GenerationsFresh
<1>6. PendingIsQueued'
  BY <1>2, <1>3 DEF PendingIsQueued, ElementOf
<1>7. InFlightHeld'
  BY <1>2, <1>3 DEF InFlightHeld
<1>8. QED
  BY <1>4, <1>5, <1>6, <1>7

\* Dropping an entry, and permits of no other entry that is in flight.
LEMMA DropKeepsIInv ==
    ASSUME IInv, NEW a \in Accounts,
           entries' = [entries EXCEPT ![a] = NoEntry],
           UNCHANGED <<heap, next_generation, now>>,
           permits' \subseteq permits,
           \A p \in permits : p.account # a => p \in permits'
    PROVE  IInv'
<1> USE DEF IInv
<1>1. /\ entries' \in [Accounts -> QueueEntry \cup {NoEntry}]
      /\ entries'[a] = NoEntry
      /\ \A b \in Accounts : b # a => entries'[b] = entries[b]
  BY DEF TypeOK
<1>2. TypeOK'
  BY <1>1 DEF TypeOK
<1>3. NoEntry.generation < next_generation /\ NoEntry.status = "Absent"
  BY DEF TypeOK, NoEntry
<1>4. GenerationsFresh'
  BY <1>1, <1>3 DEF GenerationsFresh
<1>5. PendingIsQueued'
  BY <1>1, <1>3 DEF PendingIsQueued, ElementOf
<1>6. InFlightHeld'
  <2>1. SUFFICES ASSUME NEW b \in Accounts, entries'[b].status = "InFlight"
                 PROVE  \E p \in permits' :
                           p.account = b /\ p.generation = entries'[b].generation
    BY DEF InFlightHeld
  <2>2. b # a /\ entries'[b] = entries[b]
    BY <1>1, <1>3, <2>1
  <2>3. QED
    BY <2>1, <2>2 DEF InFlightHeld
<1>7. QED
  BY <1>2, <1>4, <1>5, <1>6

\* A permit that is not honoured may be dropped: no entry in flight needs it.
LEMMA StalePermitKeepsIInv ==
    ASSUME IInv, NEW p \in permits, ~Honoured(p), UNCHANGED queueVars,
           permits' = permits \ {p}, now' = now
    PROVE  IInv'
<1> USE DEF IInv
<1>1. UNCHANGED <<entries, heap, next_generation>>
  BY DEF queueVars
<1>2. TypeOK' /\ GenerationsFresh' /\ PendingIsQueued'
  BY <1>1 DEF TypeOK, GenerationsFresh, PendingIsQueued, ElementOf
<1>3. InFlightHeld'
  BY <1>1 DEF InFlightHeld, Honoured
<1>4. QED
  BY <1>2, <1>3

\* Claiming a batch: what leaves the heap is stale or claimed, and each claimed
\* entry gets the one permit of its generation.
LEMMA ClaimKeepsIInv ==
    ASSUME IInv, NEW max_claims \in Nat, ClaimDue(max_claims)
    PROVE  IInv'
<1> USE DEF IInv
<1>1. PICK C \in SUBSET heap :
        /\ IsBatch(C, max_claims)
        /\ entries' = [a \in Accounts |->
                         IF \E e \in C : e.account = a
                         THEN [entries[a] EXCEPT !.status = "InFlight"]
                         ELSE entries[a]]
        /\ heap' = HeapAfterClaim(C, max_claims)
        /\ permits' = permits \cup {PermitOf(e) : e \in C}
        /\ UNCHANGED <<next_generation, now>>
  BY DEF ClaimDue
<1>2. \A e \in C : /\ e \in heap /\ e \in HeapEntry /\ e.account \in Accounts
                   /\ e.due \in Times /\ e.generation \in Nat \ {0}
                   /\ entries[e.account].status = "Pending"
                   /\ ElementOf(entries, e.account) = e
                   /\ entries[e.account].generation = e.generation
  BY <1>1 DEF IsBatch, DueElements, Live, TypeOK, HeapEntry, ElementOf
<1>3. \A a \in Accounts :
         /\ entries'[a].generation = entries[a].generation
         /\ entries'[a].due = entries[a].due
         /\ (\E e \in C : e.account = a) =>
                entries'[a] \in QueueEntry /\ entries'[a].status = "InFlight"
         /\ ~(\E e \in C : e.account = a) => entries'[a] = entries[a]
  <2>1. SUFFICES ASSUME NEW a \in Accounts
                 PROVE  /\ entries'[a].generation = entries[a].generation
                        /\ entries'[a].due = entries[a].due
                        /\ (\E e \in C : e.account = a) =>
                             entries'[a] \in QueueEntry /\ entries'[a].status = "InFlight"
                        /\ ~(\E e \in C : e.account = a) => entries'[a] = entries[a]
    OBVIOUS
  <2>2. CASE \E e \in C : e.account = a
    <3>1. entries[a] \in QueueEntry
      BY <1>2, <2>2 DEF TypeOK, NoEntry
    <3>2. entries'[a] = [entries[a] EXCEPT !.status = "InFlight"]
      BY <1>1, <2>2
    <3>3. QED
      BY <2>2, <3>1, <3>2 DEF QueueEntry
  <2>3. CASE ~(\E e \in C : e.account = a)
    BY <1>1, <2>3
  <2>4. QED
    BY <2>2, <2>3
<1>4. heap' \subseteq heap
  BY <1>1 DEF HeapAfterClaim, DiscardStale
<1>5. \A e \in C : /\ PermitOf(e) \in HeapEntry
                   /\ PermitOf(e).account = e.account
                   /\ PermitOf(e).generation = e.generation
                   /\ PermitOf(e).due = e.due
  BY <1>2 DEF PermitOf, HeapEntry
<1>6. TypeOK'
  <2>1. entries' \in [Accounts -> QueueEntry \cup {NoEntry}]
    <3>1. \A a \in Accounts : entries'[a] \in QueueEntry \cup {NoEntry}
      BY <1>3 DEF TypeOK
    <3>2. QED
      BY <1>1, <3>1
  <2>2. QED
    BY <1>1, <1>4, <1>5, <2>1 DEF TypeOK
<1>7. GenerationsFresh'
  <2>1. \A p \in permits' : p.generation < next_generation'
    BY <1>1, <1>2, <1>5 DEF GenerationsFresh
  <2>2. \A a \in Accounts, p \in permits' :
           entries'[a].status = "Pending" /\ p.account = a =>
               p.generation # entries'[a].generation
    <3>1. SUFFICES ASSUME NEW a \in Accounts, NEW p \in permits',
                          entries'[a].status = "Pending", p.account = a
                   PROVE  p.generation # entries'[a].generation
      OBVIOUS
    <3>2. ~(\E e \in C : e.account = a)
      BY <1>3, <3>1
    <3>3. p \in permits
      BY <1>1, <1>5, <3>1, <3>2
    <3>4. QED
      BY <1>3, <3>1, <3>2, <3>3 DEF GenerationsFresh
  <2>3. \A p, q \in permits' :
           p.account = q.account /\ p.generation = q.generation => p = q
    <3>1. SUFFICES ASSUME NEW p \in permits', NEW q \in permits',
                          p.account = q.account, p.generation = q.generation
                   PROVE  p = q
      OBVIOUS
    <3>2. \A r \in permits, e \in C :
             ~(r.account = e.account /\ r.generation = e.generation)
      BY <1>2 DEF GenerationsFresh
    <3>3. CASE p \in permits /\ q \in permits
      BY <3>1, <3>3 DEF GenerationsFresh
    <3>4. CASE p \notin permits /\ q \notin permits
      <4>1. PICK e \in C : p = PermitOf(e)
        BY <1>1, <3>4
      <4>2. PICK f \in C : q = PermitOf(f)
        BY <1>1, <3>4
      <4>3. e.account = f.account
        BY <1>5, <3>1, <4>1, <4>2
      <4>4. e = f
        BY <1>2, <4>3
      <4>5. QED
        BY <4>1, <4>2, <4>4
    <3>5. CASE p \in permits /\ q \notin permits
      BY <1>1, <1>5, <3>1, <3>2, <3>5
    <3>6. CASE p \notin permits /\ q \in permits
      BY <1>1, <1>5, <3>1, <3>2, <3>6
    <3>7. QED
      BY <3>3, <3>4, <3>5, <3>6
  <2>4. /\ \A a \in Accounts : entries'[a].generation < next_generation'
        /\ \A e \in heap' : e.generation < next_generation'
    BY <1>1, <1>3, <1>4 DEF GenerationsFresh
  <2>5. QED
    BY <2>1, <2>2, <2>3, <2>4 DEF GenerationsFresh
<1>8. PendingIsQueued'
  <2>1. SUFFICES ASSUME NEW a \in Accounts, entries'[a].status = "Pending"
                 PROVE  ElementOf(entries', a) \in heap'
    BY DEF PendingIsQueued
  <2>2. ~(\E e \in C : e.account = a) /\ entries'[a] = entries[a]
    BY <1>3, <2>1
  <2> DEFINE e == ElementOf(entries, a)
  <2>3. /\ ElementOf(entries', a) = e
        /\ e.account = a /\ e \in heap /\ e \notin C
        /\ Live(entries, e) /\ Live(entries', e)
    BY <2>1, <2>2 DEF PendingIsQueued, ElementOf, Live
  <2>4. CASE Cardinality(C) = max_claims
    <3>1. \A c \in C : Precedes(c, e)
      <4>1. CASE e.due <= now
        BY <1>1, <2>3, <4>1 DEF IsBatch, DueElements
      <4>2. CASE ~(e.due <= now)
        <5>1. \A c \in C : c.due <= now /\ c.due \in Int
          BY <1>1, <1>2 DEF IsBatch, DueElements, Times
        <5>2. e.due \in Int /\ now \in Int
          BY <2>3 DEF TypeOK, HeapEntry, Times
        <5>3. QED
          BY <4>2, <5>1, <5>2 DEF Precedes
      <4>3. QED
        BY <4>1, <4>2
    <3>2. QED
      BY <1>1, <2>3, <2>4, <3>1 DEF HeapAfterClaim
  <2>5. CASE Cardinality(C) # max_claims
    <3>1. e \in DiscardStale(entries', heap \ C)
      BY <2>3 DEF DiscardStale
    <3>2. QED
      BY <1>1, <2>3, <2>5, <3>1 DEF HeapAfterClaim
  <2>6. QED
    BY <2>4, <2>5
<1>9. InFlightHeld'
  <2>1. SUFFICES ASSUME NEW a \in Accounts, entries'[a].status = "InFlight"
                 PROVE  \E p \in permits' :
                           p.account = a /\ p.generation = entries'[a].generation
    BY DEF InFlightHeld
  <2>2. CASE \E e \in C : e.account = a
    <3>1. PICK e \in C : e.account = a
      BY <2>2
    <3>2. PermitOf(e) \in permits'
      BY <1>1
    <3>3. QED
      BY <1>2, <1>3, <1>5, <3>1, <3>2
  <2>3. CASE ~(\E e \in C : e.account = a)
    BY <1>1, <1>3, <2>1, <2>3 DEF InFlightHeld
  <2>4. QED
    BY <2>2, <2>3
<1>10. QED
  BY <1>6, <1>7, <1>8, <1>9

-----------------------------------------------------------------------------
\* Initially nothing is scheduled.
LEMMA InitIInv == Init => IInv
BY QueueAssumption
   DEF Init, IInv, TypeOK, GenerationsFresh, PendingIsQueued, InFlightHeld,
       NoEntry, Times, HeapEntry

\* Every step of the queue keeps the inductive invariant.
LEMMA NextIInv == IInv /\ [Next]_vars => IInv'
<1> SUFFICES ASSUME IInv, [Next]_vars PROVE IInv'
  OBVIOUS
<1>1. ASSUME NEW a \in Accounts, NEW d \in Times, Upsert(a, d)
      PROVE  IInv'
  <2>1. CASE Schedule(a, d)
    BY <1>1, <2>1, ScheduleKeepsIInv DEF Upsert
  <2>2. CASE entries[a].status = "InFlight" /\ SetDirty(a, d)
    BY <1>1, <2>2, SetDirtyKeepsIInv DEF Upsert
  <2>3. QED
    BY <1>1, <2>1, <2>2 DEF Upsert, Insert
<1>2. ASSUME NEW a \in Accounts, NEW d \in Times, MarkDirty(a, d)
      PROVE  IInv'
  <2>1. CASE Schedule(a, d)
    BY <1>2, <2>1, ScheduleKeepsIInv DEF MarkDirty
  <2>2. CASE entries[a].status = "InFlight" /\ SetDirty(a, d)
    BY <1>2, <2>2, SetDirtyKeepsIInv DEF MarkDirty
  <2>3. QED
    BY <1>2, <2>1, <2>2 DEF MarkDirty, Insert
<1>3. ASSUME NEW max_claims \in 1..MaxEntries, ClaimDue(max_claims)
      PROVE  IInv'
  BY <1>3, ClaimKeepsIInv
<1>4. \A p \in permits : p.account \in Accounts
  BY DEF IInv, TypeOK, HeapEntry
<1>5. ASSUME NEW p \in permits, Complete(p)
      PROVE  IInv'
  <2>1. CASE ~Honoured(p)
    BY <1>5, <2>1, StalePermitKeepsIInv DEF Complete
  <2>2. CASE Honoured(p) /\ entries[p.account].dirty # None
    <3>1. entries[p.account] \in QueueEntry
      BY <1>4, <2>2 DEF Honoured, IInv, TypeOK, NoEntry
    <3>2. entries[p.account].dirty \in Times
      BY <2>2, <3>1 DEF QueueEntry
    <3>3. QED
      BY <1>4, <1>5, <2>2, <3>2, ScheduleKeepsIInv DEF Complete
  <2>3. CASE Honoured(p) /\ entries[p.account].dirty = None
    BY <1>4, <1>5, <2>3, DropKeepsIInv DEF Complete
  <2>4. QED
    BY <2>1, <2>2, <2>3
<1>6. ASSUME NEW p \in permits, NEW d \in Times, Reschedule(p, d)
      PROVE  IInv'
  <2>1. CASE ~Honoured(p)
    BY <1>6, <2>1, StalePermitKeepsIInv DEF Reschedule
  <2>2. CASE Honoured(p)
    <3>1. entries[p.account] \in QueueEntry
      BY <1>4, <2>2 DEF Honoured, IInv, TypeOK, NoEntry
    <3>2. EarlierOf(entries[p.account].dirty, d) \in Times
      BY <3>1 DEF QueueEntry, EarlierOf
    <3>3. QED
      BY <1>4, <1>6, <2>2, <3>2, ScheduleKeepsIInv DEF Reschedule
  <2>3. QED
    BY <2>1, <2>2
<1>7. ASSUME NEW a \in Accounts, Remove(a)
      PROVE  IInv'
  BY <1>7, DropKeepsIInv, Zenon DEF Remove
<1>8. CASE NextDue
  <2>1. heap' \subseteq heap
    BY <1>8 DEF NextDue, DiscardStale
  <2>2. TypeOK' /\ GenerationsFresh' /\ InFlightHeld'
    BY <1>8, <2>1 DEF NextDue, IInv, TypeOK, GenerationsFresh, InFlightHeld
  <2>3. PendingIsQueued'
    BY <1>8 DEF NextDue, IInv, PendingIsQueued, ElementOf, DiscardStale, Live
  <2>4. QED
    BY <2>2, <2>3 DEF IInv
<1>9. CASE Tick
  <2>1. now' \in Times
    BY <1>9, QueueAssumption DEF Tick, IInv, TypeOK, Times
  <2>2. QED
    BY <1>9, <2>1 DEF Tick, IInv, TypeOK, GenerationsFresh, PendingIsQueued,
                      InFlightHeld, ElementOf
<1>10. CASE UNCHANGED vars
  BY <1>10 DEF vars, IInv, TypeOK, GenerationsFresh, PendingIsQueued,
               InFlightHeld, ElementOf
<1>11. QED
  BY <1>1, <1>2, <1>3, <1>5, <1>6, <1>7, <1>8, <1>9, <1>10 DEF Next

\* The inductive invariant holds in every reachable state.
THEOREM SpecIInv == Spec => []IInv
BY InitIInv, NextIInv, PTL DEF Spec

\* The table, the heap and the permits stay well formed (queue.rs:29-41).
THEOREM SpecTypeOK == Spec => []TypeOK
<1>1. IInv => TypeOK
  BY DEF IInv
<1>2. QED
  BY <1>1, SpecIInv, PTL

\* No pending refresh is ever lost from the heap, whatever is discarded or
\* compacted (queue.rs:208-213, 227-232, 241-270).
THEOREM SpecPendingIsQueued == Spec => []PendingIsQueued
<1>1. IInv => PendingIsQueued
  BY DEF IInv
<1>2. QED
  BY <1>1, SpecIInv, PTL

\* Every entry in flight has exactly one permit that will be honoured
\* (queue.rs:137-151, 157-162).
THEOREM SpecInFlightHeldOnce == Spec => []InFlightHeldOnce
<1>1. IInv => InFlightHeldOnce
  <2>1. SUFFICES ASSUME IInv, NEW a \in Accounts, entries[a].status = "InFlight"
                 PROVE  \E p \in permits :
                           /\ p.account = a /\ Honoured(p)
                           /\ \A q \in permits : q.account = a /\ Honoured(q) => q = p
    BY DEF InFlightHeldOnce
  <2>2. PICK p \in permits : p.account = a /\ p.generation = entries[a].generation
    BY <2>1 DEF IInv, InFlightHeld
  <2>3. Honoured(p)
    BY <2>1, <2>2 DEF Honoured
  <2>4. \A q \in permits : q.account = a /\ Honoured(q) => q = p
    BY <2>1, <2>2 DEF Honoured, IInv, GenerationsFresh
  <2>5. QED
    BY <2>2, <2>3, <2>4
<1>2. QED
  BY <1>1, SpecIInv, PTL

-----------------------------------------------------------------------------
\* There are no more pending elements than accounts in the table.
LEMMA PendingElementsBounded ==
    ASSUME NEW E
    PROVE  /\ IsFiniteSet(Present(E))
           /\ IsFiniteSet(PendingElements(E))
           /\ Cardinality(PendingElements(E)) <= Cardinality(Present(E))
<1> DEFINE P == {b \in Accounts : E[b].status = "Pending"}
           f == [b \in P |-> ElementOf(E, b)]
<1>1. IsFiniteSet(Present(E)) /\ P \in SUBSET Present(E)
  BY QueueAssumption, FS_Subset DEF Present
<1>2. IsFiniteSet(P) /\ Cardinality(P) <= Cardinality(Present(E))
  BY <1>1, FS_Subset
<1>3. f \in Surjection(P, PendingElements(E))
  BY DEF Surjection, PendingElements
<1>4. /\ IsFiniteSet(PendingElements(E))
      /\ Cardinality(PendingElements(E)) <= Cardinality(P)
  BY <1>2, <1>3, FS_Surjection
<1>5. QED
  <2>1. /\ Cardinality(PendingElements(E)) \in Nat
        /\ Cardinality(P) \in Nat /\ Cardinality(Present(E)) \in Nat
    BY <1>1, <1>2, <1>4, FS_CardinalityType
  <2>2. QED
    BY <1>1, <1>2, <1>4, <2>1

Bounded == IsFiniteSet(heap) /\ StorageBounded

\* Scheduling stays within the bounds if the table has room for the account:
\* a heap past twice the capacity is rebuilt from the table.
LEMMA ScheduleBounded ==
    ASSUME Bounded, TypeOK, NEW a \in Accounts, NEW d \in Times, Schedule(a, d),
           a \in Present(entries) \/ Cardinality(Present(entries)) < MaxEntries
    PROVE  Bounded'
<1>1. Present(entries') = Present(entries) \cup {a}
  <2>1. /\ entries'[a] = [status |-> "Pending", due |-> d,
                          generation |-> next_generation, dirty |-> None]
        /\ \A b \in Accounts : b # a => entries'[b] = entries[b]
    BY ScheduleTypes
  <2>2. entries'[a].status = "Pending"
    BY <2>1
  <2>3. QED
    BY <2>1, <2>2 DEF Present
<1>2. Cardinality(Present(entries')) <= MaxEntries
  <2>1. IsFiniteSet(Present(entries)) /\ Cardinality(Present(entries)) \in Nat
    BY PendingElementsBounded, FS_CardinalityType
  <2>2. Cardinality(Present(entries')) =
           IF a \in Present(entries) THEN Cardinality(Present(entries))
           ELSE Cardinality(Present(entries)) + 1
    BY <1>1, <2>1, FS_AddElement, Zenon
  <2>3. QED
    BY <2>1, <2>2, QueueAssumption DEF Bounded, StorageBounded
<1> DEFINE h == heap \cup {ElementOf(entries', a)}
<1>3. IsFiniteSet(h)
  BY FS_AddElement DEF Bounded
<1>4. CASE Cardinality(h) <= 2 * MaxEntries
  BY <1>2, <1>3, <1>4 DEF Bounded, StorageBounded, Schedule, CompactIfNeeded
<1>5. CASE ~(Cardinality(h) <= 2 * MaxEntries)
  <2>1. heap' = PendingElements(entries')
    BY <1>5 DEF Schedule, CompactIfNeeded
  <2>2. /\ IsFiniteSet(heap') /\ IsFiniteSet(Present(entries'))
        /\ Cardinality(heap') <= Cardinality(Present(entries'))
    BY <2>1, PendingElementsBounded
  <2>3. Cardinality(heap') \in Nat /\ Cardinality(Present(entries')) \in Nat
    BY <2>2, FS_CardinalityType
  <2>4. Cardinality(heap') <= 2 * MaxEntries
    BY <1>2, <2>2, <2>3, QueueAssumption
  <2>5. QED
    BY <1>2, <2>2, <2>4 DEF Bounded, StorageBounded
<1>6. QED
  BY <1>4, <1>5

\* A step that adds nothing to the table or the heap stays within the bounds.
LEMMA ShrinkBounded ==
    ASSUME Bounded, heap' \subseteq heap, Present(entries') \subseteq Present(entries)
    PROVE  Bounded'
<1>1. /\ IsFiniteSet(heap') /\ Cardinality(heap') <= Cardinality(heap)
      /\ Cardinality(heap') \in Nat /\ Cardinality(heap) \in Nat
  BY FS_Subset, FS_CardinalityType DEF Bounded
<1>2. /\ Cardinality(Present(entries')) <= Cardinality(Present(entries))
      /\ Cardinality(Present(entries')) \in Nat
      /\ Cardinality(Present(entries)) \in Nat
  BY PendingElementsBounded, FS_Subset, FS_CardinalityType
<1>3. QED
  BY <1>1, <1>2, QueueAssumption DEF Bounded, StorageBounded

\* Every step stays within the bounds.
LEMMA NextBounded == IInv /\ Bounded /\ [Next]_vars => Bounded'
<1> SUFFICES ASSUME IInv, Bounded, [Next]_vars PROVE Bounded'
  OBVIOUS
<1>1. TypeOK
  BY DEF IInv
<1>2. ASSUME NEW a \in Accounts, NEW d \in Times, Upsert(a, d) \/ MarkDirty(a, d)
      PROVE  Bounded'
  <2>1. CASE Insert(a, d)
    BY <1>1, <2>1, ScheduleBounded DEF Insert
  <2>2. CASE entries[a].status = "Pending" /\ Schedule(a, d)
    BY <1>1, <2>2, ScheduleBounded, Zenon DEF Present
  <2>3. CASE entries[a].status = "InFlight" /\ SetDirty(a, d)
    <3>1. heap' = heap /\ Present(entries') \subseteq Present(entries)
      BY <1>1, <2>3 DEF SetDirty, TypeOK, Present
    <3>2. QED
      BY <3>1, ShrinkBounded
  <2>4. QED
    BY <1>2, <2>1, <2>2, <2>3 DEF Upsert, MarkDirty
<1>3. ASSUME NEW max_claims \in 1..MaxEntries, ClaimDue(max_claims)
      PROVE  Bounded'
  <2>1. PICK C \in SUBSET heap :
          /\ IsBatch(C, max_claims)
          /\ entries' = [a \in Accounts |->
                           IF \E e \in C : e.account = a
                           THEN [entries[a] EXCEPT !.status = "InFlight"]
                           ELSE entries[a]]
          /\ heap' = HeapAfterClaim(C, max_claims)
    BY <1>3 DEF ClaimDue
  <2>2. heap' \subseteq heap
    BY <2>1 DEF HeapAfterClaim, DiscardStale
  <2>3. \A a \in Accounts : (\E e \in C : e.account = a) => entries[a].status = "Pending"
    BY <2>1 DEF IsBatch, DueElements, Live
  <2>4. Present(entries') \subseteq Present(entries)
    BY <2>1, <2>3 DEF Present
  <2>5. QED
    BY <2>2, <2>4, ShrinkBounded
<1>4. ASSUME NEW p \in permits, NEW d \in Times, Honoured(p), Schedule(p.account, d)
      PROVE  Bounded'
  <2>1. p.account \in Present(entries)
    BY <1>1, <1>4 DEF TypeOK, HeapEntry, Present, Honoured
  <2>2. QED
    BY <1>1, <1>4, <2>1, ScheduleBounded, Zenon DEF Present
<1>5. ASSUME NEW a \in Accounts, entries' = [entries EXCEPT ![a] = NoEntry], heap' = heap
      PROVE  Bounded'
  <2>1. Present(entries') \subseteq Present(entries)
    BY <1>1, <1>5 DEF TypeOK, Present, NoEntry
  <2>2. QED
    BY <1>5, <2>1, ShrinkBounded, Zenon
<1>6. ASSUME UNCHANGED <<entries, heap>>
      PROVE  Bounded'
  BY <1>6, ShrinkBounded
<1>7. \A p \in permits : /\ p.account \in Accounts
                         /\ Honoured(p) => entries[p.account] \in QueueEntry
  BY <1>1 DEF TypeOK, HeapEntry, Honoured, NoEntry
<1>8. ASSUME NEW p \in permits, Complete(p)
      PROVE  Bounded'
  <2>1. CASE ~Honoured(p)
    BY <1>6, <1>8, <2>1 DEF Complete, queueVars
  <2>2. CASE Honoured(p) /\ entries[p.account].dirty # None
    <3>1. entries[p.account].dirty \in Times
      BY <1>7, <2>2 DEF QueueEntry
    <3>2. QED
      BY <1>4, <1>8, <2>2, <3>1 DEF Complete
  <2>3. CASE Honoured(p) /\ entries[p.account].dirty = None
    BY <1>5, <1>7, <1>8, <2>3 DEF Complete
  <2>4. QED
    BY <2>1, <2>2, <2>3
<1>9. ASSUME NEW p \in permits, NEW d \in Times, Reschedule(p, d)
      PROVE  Bounded'
  <2>1. CASE ~Honoured(p)
    BY <1>6, <1>9, <2>1 DEF Reschedule, queueVars
  <2>2. CASE Honoured(p)
    <3>1. EarlierOf(entries[p.account].dirty, d) \in Times
      BY <1>7, <2>2 DEF QueueEntry, EarlierOf
    <3>2. QED
      BY <1>4, <1>9, <2>2, <3>1 DEF Reschedule
  <2>3. QED
    BY <2>1, <2>2
<1>10. CASE NextDue
  BY <1>10, ShrinkBounded DEF NextDue, DiscardStale
<1>11. CASE Tick \/ UNCHANGED vars
  BY <1>6, <1>11 DEF Tick, vars
<1>12. QED
  BY <1>2, <1>3, <1>5, <1>8, <1>9, <1>10, <1>11 DEF Next, Remove

\* However long callers reschedule, the heap never holds more than twice the
\* capacity and the table never more than the capacity (queue.rs:195, 255).
THEOREM SpecStorageBounded == Spec => []StorageBounded
<1>1. Init => Bounded
  <2>1. SUFFICES ASSUME Init PROVE Bounded
    OBVIOUS
  <2>2. heap = {} /\ Present(entries) = {}
    BY <2>1 DEF Init, Present, NoEntry
  <2>3. QED
    BY <2>2, FS_EmptySet, QueueAssumption DEF Bounded, StorageBounded
<1>2. Bounded => StorageBounded
  BY DEF Bounded
<1>3. QED
  BY <1>1, <1>2, NextBounded, SpecIInv, PTL DEF Spec

-----------------------------------------------------------------------------
\* Scheduling an account makes it wanted at the time given.
LEMMA ScheduleWants ==
    ASSUME TypeOK, NEW a \in Accounts, NEW d \in Times, Schedule(a, d)
    PROVE  want'[a] = d
<1>1. entries'[a].status = "Pending" /\ entries'[a].due = d
  <2>1. entries'[a] = [status |-> "Pending", due |-> d,
                       generation |-> next_generation, dirty |-> None]
    BY ScheduleTypes
  <2>2. QED
    BY <2>1
<1>2. QED
  BY <1>1 DEF want

\* A refresh asked for while one is in flight survives the settling of that one,
\* no later than asked (queue.rs:163-167, 178-181).
THEOREM SpecDirtyMarkSurvives == Spec => DirtyMarkSurvives
<1> DEFINE Survives ==
      \A p \in permits :
          p \notin permits' /\ Honoured(p) /\ want[p.account] # None =>
              want'[p.account] # None /\ want'[p.account] <= want[p.account]
<1>1. IInv /\ [Next]_vars => [Survives]_vars
  <2> SUFFICES ASSUME IInv, Next, NEW p \in permits, p \notin permits',
                      Honoured(p), want[p.account] # None
               PROVE  want'[p.account] # None /\ want'[p.account] <= want[p.account]
    OBVIOUS
  <2>1. TypeOK /\ p.account \in Accounts
    BY DEF IInv, TypeOK, HeapEntry
  <2>2. entries[p.account] \in QueueEntry
    BY <2>1 DEF TypeOK, Honoured, NoEntry
  <2>3. want[p.account] = entries[p.account].dirty
    BY <2>1 DEF want, Honoured
  <2>4. /\ entries[p.account].dirty \in Times
        /\ \A t \in Times : t \in Int /\ t # None
    BY <2>2, <2>3 DEF QueueEntry, Times, None
  <2>5. CASE Complete(p)
    <3>1. Schedule(p.account, entries[p.account].dirty)
      BY <2>3, <2>5 DEF Complete
    <3>2. QED
      BY <2>1, <2>3, <2>4, <3>1, ScheduleWants
  <2>6. ASSUME NEW d \in Times, Reschedule(p, d)
        PROVE  want'[p.account] # None /\ want'[p.account] <= want[p.account]
    <3>1. Schedule(p.account, EarlierOf(entries[p.account].dirty, d))
      BY <2>6 DEF Reschedule
    <3>2. /\ EarlierOf(entries[p.account].dirty, d) \in Times
          /\ EarlierOf(entries[p.account].dirty, d) <= entries[p.account].dirty
      BY <2>3, <2>4 DEF EarlierOf
    <3>3. want'[p.account] = EarlierOf(entries[p.account].dirty, d)
      BY <2>1, <3>1, <3>2, ScheduleWants
    <3>4. QED
      BY <2>3, <2>4, <3>2, <3>3
  <2>7. Complete(p) \/ \E d \in Times : Reschedule(p, d)
    BY DEF Next, Upsert, MarkDirty, ClaimDue, Complete, Reschedule, Remove, NextDue, Tick
  <2>8. QED
    BY <2>5, <2>6, <2>7
<1>2. QED
  BY <1>1, SpecIInv, PTL DEF Spec, DirtyMarkSurvives

-----------------------------------------------------------------------------
\* The instance of QuotaSchedule counts with the same Cardinality.
LEMMA AbstractCardinality ==
    ASSUME NEW S
    PROVE  Schedule_!Cardinality(S) = Cardinality(S)
BY DEF Schedule_!Cardinality, Cardinality

\* The abstract state of one account, by the status of its entry.
LEMMA AbstractState ==
    ASSUME TypeOK
    PROVE  /\ want \in [Accounts -> Times \cup {None}]
           /\ busy \subseteq Accounts
           /\ \A a \in Accounts :
                 /\ entries[a].status \in {"Absent", "Pending", "InFlight"}
                 /\ entries[a].status = "Pending" =>
                       want[a] = entries[a].due /\ want[a] \in Times /\ a \notin busy
                 /\ entries[a].status = "InFlight" =>
                       want[a] = entries[a].dirty /\ a \in busy
                 /\ entries[a].status = "Absent" => want[a] = None /\ a \notin busy
<1>1. \A a \in Accounts : entries[a] \in QueueEntry \cup {NoEntry}
  BY DEF TypeOK
<1>2. \A a \in Accounts :
         /\ entries[a].status \in {"Absent", "Pending", "InFlight"}
         /\ entries[a].status = "Pending" => entries[a].due \in Times
         /\ entries[a].status = "InFlight" => entries[a].dirty \in Times \cup {None}
  BY <1>1 DEF QueueEntry, NoEntry
<1>3. \A a \in Accounts :
         /\ entries[a].status = "Pending" => want[a] = entries[a].due /\ a \notin busy
         /\ entries[a].status = "InFlight" => want[a] = entries[a].dirty /\ a \in busy
         /\ entries[a].status = "Absent" => want[a] = None /\ a \notin busy
  BY DEF want, busy
<1>4. want \in [Accounts -> Times \cup {None}]
  <2>1. \A a \in Accounts : want[a] \in Times \cup {None}
    BY <1>2, <1>3
  <2>2. want = [a \in Accounts |-> want[a]]
    BY DEF want
  <2>3. QED
    BY <2>1, <2>2
<1>5. QED
  BY <1>2, <1>3, <1>4 DEF busy

\* The abstract schedule tracks the accounts that have an entry.
LEMMA TrackedIsPresent ==
    ASSUME TypeOK
    PROVE  Schedule_!Tracked = Present(entries)
<1>1. \A a \in Accounts : a \in Schedule_!Tracked <=> entries[a].status # "Absent"
  BY AbstractState, QueueAssumption DEF Schedule_!Tracked, Schedule_!None, None, Times
<1>2. QED
  BY <1>1, AbstractState DEF Schedule_!Tracked, Present

\* What schedule() does to the abstract state (queue.rs:217-233).
LEMMA ScheduleAbstract ==
    ASSUME TypeOK, NEW a \in Accounts, NEW d \in Times, Schedule(a, d)
    PROVE  want' = [want EXCEPT ![a] = d] /\ busy' = busy \ {a}
<1>1. /\ entries'[a] = [status |-> "Pending", due |-> d,
                        generation |-> next_generation, dirty |-> None]
      /\ \A b \in Accounts : b # a => entries'[b] = entries[b]
  BY ScheduleTypes
<1>2. entries'[a].status = "Pending" /\ entries'[a].due = d
  BY <1>1
<1>3. \A b \in Accounts : want'[b] = IF b = a THEN d ELSE want[b]
  BY <1>1, <1>2 DEF want
<1>4. want' = [want EXCEPT ![a] = d]
  BY <1>3, Zenon DEF want
<1>5. busy' = busy \ {a}
  BY <1>1, <1>2 DEF busy
<1>6. QED
  BY <1>4, <1>5

\* Scheduling an account that is not in flight is an Ask.
LEMMA ScheduleIsAsk ==
    ASSUME TypeOK, NEW a \in Accounts, NEW d \in Times, Schedule(a, d),
           entries[a].status # "InFlight",
           a \in Present(entries) \/ Cardinality(Present(entries)) < MaxEntries,
           now' = now
    PROVE  Schedule_!Ask(a, d)
<1>1. want' = [want EXCEPT ![a] = d] /\ busy' = busy \ {a}
  BY ScheduleAbstract
<1>2. a \notin busy
  BY DEF busy
<1>3. busy' = busy
  BY <1>1, <1>2
<1>4. QED
  BY <1>1, <1>3, TrackedIsPresent, AbstractCardinality DEF Schedule_!Ask

\* Marking an account that is in flight dirty is an Ask.
LEMMA SetDirtyIsAsk ==
    ASSUME TypeOK, NEW a \in Accounts, NEW d \in Times, SetDirty(a, d),
           entries[a].status = "InFlight", now' = now
    PROVE  Schedule_!Ask(a, d)
<1>1. entries[a] \in QueueEntry
  BY DEF TypeOK, NoEntry
<1>2. /\ entries'[a].status = "InFlight" /\ entries'[a].dirty = d
      /\ \A b \in Accounts : b # a => entries'[b] = entries[b]
  BY <1>1 DEF SetDirty, TypeOK, QueueEntry
<1>3. \A b \in Accounts : want'[b] = IF b = a THEN d ELSE want[b]
  BY <1>2 DEF want
<1>4. want' = [want EXCEPT ![a] = d]
  BY <1>3, Zenon DEF want
<1>5. busy' = busy
  BY <1>2 DEF busy
<1>6. a \in Schedule_!Tracked
  BY TrackedIsPresent DEF Present
<1>7. QED
  BY <1>4, <1>5, <1>6 DEF Schedule_!Ask

\* Dropping an entry leaves its account neither wanted nor in flight.
LEMMA DropAbstract ==
    ASSUME TypeOK, NEW a \in Accounts, entries' = [entries EXCEPT ![a] = NoEntry]
    PROVE  want' = [want EXCEPT ![a] = None] /\ busy' = busy \ {a}
<1>1. /\ entries'[a].status = "Absent"
      /\ \A b \in Accounts : b # a => entries'[b] = entries[b]
  BY DEF TypeOK, NoEntry
<1>2. \A b \in Accounts : want'[b] = IF b = a THEN None ELSE want[b]
  BY <1>1 DEF want
<1>3. QED
  BY <1>1, <1>2, ZenonT(40) DEF want, busy

-----------------------------------------------------------------------------
\* The accounts of a batch of live elements, one account per element.
LEMMA BatchAccounts ==
    ASSUME TypeOK, NEW C \in SUBSET heap, \A e \in C : Live(entries, e)
    PROVE  /\ \A e \in C : e.account \in Accounts /\ ElementOf(entries, e.account) = e
           /\ IsFiniteSet({e.account : e \in C}) /\ IsFiniteSet(C)
           /\ Cardinality({e.account : e \in C}) = Cardinality(C)
<1> DEFINE A == {e.account : e \in C}
           f == [a \in A |-> ElementOf(entries, a)]
<1>1. \A e \in C : e.account \in Accounts /\ ElementOf(entries, e.account) = e
  BY DEF TypeOK, HeapEntry, Live
<1>2. IsFiniteSet(A)
  <2>1. A \in SUBSET Accounts
    BY <1>1
  <2>2. QED
    BY <2>1, QueueAssumption, FS_Subset
<1>3. f \in Bijection(A, C)
  <2>1. \A a \in A : f[a] \in C /\ f[a].account = a
    BY <1>1 DEF ElementOf
  <2>2. \A e \in C : e.account \in A /\ f[e.account] = e
    BY <1>1
  <2>3. f \in [A -> C]
    BY <2>1, Zenon
  <2>4. \A a, b \in A : f[a] = f[b] => a = b
    BY <2>1
  <2>5. QED
    BY <2>2, <2>3, <2>4, Zenon DEF Bijection, Injection, Surjection, IsInjective
<1>4. IsFiniteSet(C) /\ Cardinality(A) = Cardinality(C)
  BY <1>2, <1>3, FS_Bijection DEF ExistsBijection
<1>5. QED
  BY <1>1, <1>2, <1>4

\* Only an entry in flight carries a dirty mark: schedule() clears it
\* (queue.rs:217-226), and a mark on a pending entry reschedules it instead.
PendingIsClean ==
    \A a \in Accounts : entries[a].status = "Pending" => entries[a].dirty = None

\* Every step keeps it: what reschedules an entry clears the mark.
LEMMA NextPendingIsClean == TypeOK /\ PendingIsClean /\ [Next]_vars => PendingIsClean'
<1> SUFFICES ASSUME TypeOK, PendingIsClean, [Next]_vars PROVE PendingIsClean'
  OBVIOUS
<1> USE DEF PendingIsClean
<1>1. ASSUME NEW a \in Accounts, NEW d, Schedule(a, d)
      PROVE  PendingIsClean'
  BY <1>1 DEF Schedule, TypeOK
<1>2. ASSUME NEW a \in Accounts, NEW d, SetDirty(a, d), entries[a].status = "InFlight"
      PROVE  PendingIsClean'
  <2>1. entries[a] \in QueueEntry
    BY <1>2 DEF TypeOK, NoEntry
  <2>2. QED
    BY <1>2, <2>1 DEF SetDirty, TypeOK, QueueEntry
<1>3. ASSUME NEW a \in Accounts, entries' = [entries EXCEPT ![a] = NoEntry]
      PROVE  PendingIsClean'
  BY <1>3 DEF NoEntry, TypeOK
<1>4. ASSUME NEW a \in Accounts, NEW d \in Times, Upsert(a, d) \/ MarkDirty(a, d)
      PROVE  PendingIsClean'
  BY <1>1, <1>2, <1>4 DEF Upsert, MarkDirty, Insert
<1>5. ASSUME NEW max_claims \in 1..MaxEntries, ClaimDue(max_claims)
      PROVE  PendingIsClean'
  <2>1. PICK C \in SUBSET heap :
          entries' = [a \in Accounts |->
                         IF \E e \in C : e.account = a
                         THEN [entries[a] EXCEPT !.status = "InFlight"]
                         ELSE entries[a]]
    BY <1>5, Zenon DEF ClaimDue
  <2>2. SUFFICES ASSUME NEW a \in Accounts, entries'[a].status = "Pending"
                 PROVE  entries'[a].dirty = None
    OBVIOUS
  <2>3. entries[a] \in QueueEntry \cup {NoEntry}
    BY DEF TypeOK
  <2>4. entries'[a] = entries[a]
    BY <2>1, <2>2, <2>3 DEF QueueEntry, NoEntry
  <2>5. QED
    BY <2>2, <2>4
<1>6. \A p \in permits : p.account \in Accounts
  BY DEF TypeOK, HeapEntry
<1>7. ASSUME NEW p \in permits, Complete(p) \/ \E d \in Times : Reschedule(p, d)
      PROVE  PendingIsClean'
  <2>1. CASE UNCHANGED queueVars
    BY <2>1 DEF queueVars
  <2>2. QED
    BY <1>1, <1>3, <1>6, <1>7, <2>1 DEF Complete, Reschedule
<1>8. ASSUME NEW a \in Accounts, Remove(a)
      PROVE  PendingIsClean'
  BY <1>3, <1>8, Zenon DEF Remove
<1>9. CASE NextDue \/ Tick \/ UNCHANGED vars
  BY <1>9 DEF NextDue, Tick, vars
<1>10. QED
  BY <1>4, <1>5, <1>7, <1>8, <1>9 DEF Next

\* claim_due is a Begin: the batch it pops is a batch of the most urgent ready
\* accounts, because every pending account has its element in the heap
\* (queue.rs:127-154).
LEMMA ClaimIsBegin ==
    ASSUME IInv, PendingIsClean, NEW max_claims \in 1..MaxEntries, ClaimDue(max_claims)
    PROVE  Schedule_!Begin(max_claims)
<1>1. TypeOK /\ PendingIsQueued
  BY DEF IInv
<1>2. PICK C \in SUBSET heap :
        /\ IsBatch(C, max_claims)
        /\ entries' = [a \in Accounts |->
                         IF \E e \in C : e.account = a
                         THEN [entries[a] EXCEPT !.status = "InFlight"]
                         ELSE entries[a]]
        /\ UNCHANGED now
  BY DEF ClaimDue
<1> DEFINE A == {e.account : e \in C}
<1>3. \A e \in C : Live(entries, e)
  BY <1>2 DEF IsBatch, DueElements
<1>4. /\ \A e \in C : e.account \in Accounts /\ ElementOf(entries, e.account) = e
      /\ IsFiniteSet(A)
      /\ Cardinality(A) = Cardinality(C)
  BY <1>1, <1>3, BatchAccounts
<1>5. \A a \in Accounts : a \in Schedule_!Ready <=>
         entries[a].status = "Pending" /\ entries[a].due <= now
  BY <1>1, AbstractState, QueueAssumption
     DEF Schedule_!Ready, Schedule_!None, None, Times
<1>6. \A a \in Schedule_!Ready :
         /\ a \in Accounts /\ want[a] = entries[a].due
         /\ ElementOf(entries, a) \in DueElements
  <2>1. SUFFICES ASSUME NEW a \in Accounts, a \in Schedule_!Ready
                 PROVE  want[a] = entries[a].due /\ ElementOf(entries, a) \in DueElements
    BY DEF Schedule_!Ready
  <2>2. entries[a].status = "Pending" /\ entries[a].due <= now
    BY <1>5, <2>1
  <2>3. ElementOf(entries, a) \in heap
    BY <1>1, <2>2 DEF PendingIsQueued
  <2>4. QED
    BY <1>1, <2>2, <2>3, AbstractState DEF DueElements, Live, ElementOf
<1>7. A \in SUBSET Schedule_!Ready
  <2>1. \A e \in C : /\ entries[e.account].status = "Pending"
                     /\ entries[e.account].due <= now
    BY <1>2, <1>3, <1>4 DEF IsBatch, DueElements, Live, ElementOf
  <2>2. QED
    BY <1>4, <1>5, <2>1
<1>8. \A a \in Accounts : ElementOf(entries, a) \in C <=> a \in A
  BY <1>4 DEF ElementOf
<1>9. A = Schedule_!Ready \/ Cardinality(A) = max_claims
  <2>1. CASE C = DueElements
    BY <1>6, <1>7, <1>8, <2>1
  <2>2. CASE Cardinality(C) = max_claims
    BY <1>4, <2>2
  <2>3. QED
    BY <1>2, <2>1, <2>2 DEF IsBatch
<1>10. \A a \in A, b \in Schedule_!Ready \ A : want[a] <= want[b]
  <2>1. SUFFICES ASSUME NEW a \in A, NEW b \in Schedule_!Ready, b \notin A
                 PROVE  want[a] <= want[b]
    OBVIOUS
  <2>2. /\ ElementOf(entries, a) \in C
        /\ ElementOf(entries, b) \in DueElements \ C
    BY <1>4, <1>6, <1>8, <2>1
  <2>3. Precedes(ElementOf(entries, a), ElementOf(entries, b))
    BY <1>2, <2>2 DEF IsBatch
  <2>4. want[a] = entries[a].due /\ want[b] = entries[b].due
    BY <1>6, <1>7, <2>1
  <2>5. entries[a].due \in Nat /\ entries[b].due \in Nat
    BY <1>1, <1>5, <1>6, <1>7, <2>1, <2>4, AbstractState, QueueAssumption DEF Times
  <2>6. QED
    BY <2>3, <2>4, <2>5 DEF Precedes, ElementOf
<1>11. \A a \in Accounts :
          /\ a \in A => /\ entries'[a].status = "InFlight"
                        /\ entries'[a].dirty = entries[a].dirty
          /\ a \notin A => entries'[a] = entries[a]
  <2>1. SUFFICES ASSUME NEW a \in Accounts
                 PROVE  /\ a \in A => /\ entries'[a].status = "InFlight"
                                      /\ entries'[a].dirty = entries[a].dirty
                        /\ a \notin A => entries'[a] = entries[a]
    OBVIOUS
  <2>2. entries[a] \in QueueEntry \cup {NoEntry}
    BY <1>1 DEF TypeOK
  <2>3. QED
    BY <1>2, <2>2 DEF QueueEntry, NoEntry
<1>12. \A a \in Accounts : want'[a] = IF a \in A THEN None ELSE want[a]
  <2>1. \A a \in A : entries[a].status = "Pending"
    BY <1>4, <1>5, <1>7
  <2>2. QED
    BY <1>11, <2>1 DEF want, PendingIsClean
<1>13. want' = [a \in Accounts |-> IF a \in A THEN None ELSE want[a]]
  BY <1>12 DEF want
<1>14. busy' = busy \cup A
  BY <1>4, <1>11 DEF busy
<1>15. Cardinality(A) <= max_claims
  BY <1>2, <1>4 DEF IsBatch
<1>16. QED
  BY <1>2, <1>7, <1>9, <1>10, <1>13, <1>14, <1>15, AbstractCardinality, Zenon
     DEF Schedule_!Begin, Schedule_!None, None

\* Settling an honoured permit is an End: the account leaves busy and stays
\* wanted no later than the dirty mark asked (queue.rs:156-183).
LEMMA SettleIsEnd ==
    ASSUME TypeOK, NEW p \in permits, Honoured(p),
           Complete(p) \/ \E d \in Times : Reschedule(p, d)
    PROVE  Schedule_!End(p.account)
<1> DEFINE a == p.account
<1>1. a \in Accounts /\ entries[a].status = "InFlight"
  BY DEF TypeOK, HeapEntry, Honoured
<1>2. a \in busy /\ want[a] = entries[a].dirty /\ want[a] \in Times \cup {None}
  BY <1>1, AbstractState
<1>3. want = [want EXCEPT ![a] = want[a]]
  BY <1>1 DEF want
<1>4. CASE Complete(p) /\ entries[a].dirty # None
  <2>1. want' = [want EXCEPT ![a] = want[a]] /\ busy' = busy \ {a}
    BY <1>1, <1>2, <1>4, ScheduleAbstract DEF Complete
  <2>2. QED
    BY <1>2, <1>3, <1>4, <2>1 DEF Schedule_!End, Complete
<1>5. CASE Complete(p) /\ entries[a].dirty = None
  <2>1. want' = [want EXCEPT ![a] = None] /\ busy' = busy \ {a}
    BY <1>1, <1>5, DropAbstract, SMTT(30) DEF Complete
  <2>2. QED
    BY <1>2, <1>3, <1>5, <2>1 DEF Schedule_!End, Complete
<1>6. ASSUME NEW d \in Times, Reschedule(p, d)
      PROVE  Schedule_!End(a)
  <2> DEFINE e == EarlierOf(entries[a].dirty, d)
  <2>1. /\ e = want[a] \/ (e = d /\ (want[a] = None \/ d < want[a]))
        /\ e \in Times
    BY <1>2, SMTT(30) DEF EarlierOf
  <2>2. want' = [want EXCEPT ![a] = e] /\ busy' = busy \ {a}
    BY <1>1, <1>6, <2>1, ScheduleAbstract, SMTT(30) DEF Reschedule
  <2>3. now' = now
    BY <1>6 DEF Reschedule
  <2>4. CASE e = want[a]
    BY <1>2, <1>3, <2>2, <2>3, <2>4 DEF Schedule_!End
  <2>5. CASE e = d /\ (want[a] = None \/ d < want[a])
    BY <1>2, <2>2, <2>3, <2>5, ZenonT(40)
       DEF Schedule_!End, Schedule_!None, None, Schedule_!Times, Times
  <2>6. QED
    BY <2>1, <2>4, <2>5
<1>7. QED
  BY <1>4, <1>5, <1>6

\* Every step of the queue is a step of the abstract schedule or leaves its
\* variables alone.
LEMMA StepImplements ==
    IInv /\ PendingIsClean /\ [Next]_vars => [Schedule_!Next]_<<want, busy, now>>
<1> SUFFICES ASSUME IInv, PendingIsClean, [Next]_vars
             PROVE  [Schedule_!Next]_<<want, busy, now>>
  OBVIOUS
<1> USE DEF Schedule_!Times, Times
<1>1. TypeOK
  BY DEF IInv
<1>2. ASSUME UNCHANGED entries, now' = now
      PROVE  UNCHANGED <<want, busy, now>>
  BY <1>2 DEF want, busy
<1>3. ASSUME NEW a \in Accounts, NEW d \in Times, Upsert(a, d) \/ MarkDirty(a, d)
      PROVE  Schedule_!Next
  <2>1. CASE entries[a].status = "Absent" /\ Insert(a, d)
    BY <1>1, <1>3, <2>1, ScheduleIsAsk, SMTT(30) DEF Insert, Upsert, MarkDirty, Schedule_!Next
  <2>2. CASE entries[a].status = "Pending" /\ Schedule(a, d)
    BY <1>1, <1>3, <2>2, ScheduleIsAsk, Zenon DEF Present, Upsert, MarkDirty, Schedule_!Next
  <2>3. CASE entries[a].status = "InFlight" /\ SetDirty(a, d)
    BY <1>1, <1>3, <2>3, SetDirtyIsAsk DEF Upsert, MarkDirty, Schedule_!Next
  <2>4. QED
    BY <1>3, <2>1, <2>2, <2>3 DEF Upsert, MarkDirty
<1>4. ASSUME NEW max_claims \in 1..MaxEntries, ClaimDue(max_claims)
      PROVE  Schedule_!Next
  BY <1>4, ClaimIsBegin DEF Schedule_!Next
<1>5. ASSUME NEW p \in permits, Complete(p) \/ \E d \in Times : Reschedule(p, d)
      PROVE  [Schedule_!Next]_<<want, busy, now>>
  <2>1. CASE Honoured(p)
    <3>1. p.account \in Accounts
      BY <1>1 DEF TypeOK, HeapEntry
    <3>2. QED
      BY <1>1, <1>5, <2>1, <3>1, SettleIsEnd DEF Schedule_!Next
  <2>2. CASE ~Honoured(p)
    BY <1>2, <1>5, <2>2 DEF Complete, Reschedule, queueVars
  <2>3. QED
    BY <2>1, <2>2
<1>6. ASSUME NEW a \in Accounts, Remove(a)
      PROVE  Schedule_!Next
  BY <1>1, <1>6, DropAbstract, Zenon
     DEF Remove, Schedule_!Next, Schedule_!Forget, Schedule_!None, None
<1>7. CASE NextDue
  BY <1>2, <1>7 DEF NextDue
<1>8. CASE Tick
  BY <1>8 DEF Tick, Schedule_!Next, Schedule_!Pass, want, busy
<1>9. CASE UNCHANGED vars
  BY <1>2, <1>9 DEF vars
<1>10. QED
  BY <1>3, <1>4, <1>5, <1>6, <1>7, <1>8, <1>9 DEF Next

\* The queue implements the abstract schedule: heap, lazy deletion, compaction,
\* generations and stale permits never change which accounts are wanted, when,
\* or who is being refreshed (queue.rs:71-192).
THEOREM SpecImplementsSchedule == Spec => ImplementsSchedule
<1>1. Init => Schedule_!Init
  BY DEF Init, Schedule_!Init, want, busy, NoEntry, Schedule_!None, None
<1>2. Init => PendingIsClean
  BY DEF Init, PendingIsClean, NoEntry
<1>3. IInv => TypeOK
  BY DEF IInv
<1>4. QED
  BY <1>1, <1>2, <1>3, SpecIInv, NextPendingIsClean, StepImplements, PTL
     DEF Spec, ImplementsSchedule, Schedule_!Spec
-----------------------------------------------------------------------------
\* The worker: its loop only ever sees the top of a heap from which stale elements
\* were discarded; that its sleep is short enough rests on the queue's own invariant,
\* that no pending account is missing from that heap, which the operations the worker
\* composes keep.
WorkerInv == IInv /\ WorkerSafe /\ IsFiniteSet(permits)

-----------------------------------------------------------------------------
\* DesktopState::open leaves a queue that satisfies the queue's invariant
\* (queue.rs:71-88).
LEMMA WorkerInitInv == WorkerInit => WorkerInv
<1> SUFFICES ASSUME WorkerInit PROVE WorkerInv
  OBVIOUS
<1>1. PICK monitored \in SUBSET Accounts :
        \E order \in [monitored -> 1..Cardinality(monitored)] :
                /\ \A a, b \in monitored : order[a] = order[b] => a = b
                /\ entries = [a \in Accounts |->
                                IF a \in monitored
                                THEN [status |-> "Pending", due |-> 0,
                                      generation |-> order[a], dirty |-> None]
                                ELSE NoEntry]
                /\ heap = PendingElements(entries)
                /\ next_generation = Cardinality(monitored) + 1
  BY DEF WorkerInit
<1>2. PICK order \in [monitored -> 1..Cardinality(monitored)] :
                /\ entries = [a \in Accounts |->
                                IF a \in monitored
                                THEN [status |-> "Pending", due |-> 0,
                                      generation |-> order[a], dirty |-> None]
                                ELSE NoEntry]
                /\ heap = PendingElements(entries)
                /\ next_generation = Cardinality(monitored) + 1
  BY <1>1
<1>3. Cardinality(monitored) \in Nat
  BY QueueAssumption, FS_Subset, FS_CardinalityType
<1>4. \A a \in monitored : order[a] \in Nat \ {0} /\ order[a] < next_generation
  BY <1>2, <1>3
<1>5. now = 0 /\ permits = {} /\ 0 \in Times /\ next_generation \in Nat \ {0}
  BY <1>2, <1>3, QueueAssumption DEF WorkerInit, Times
<1>6. \A a \in Accounts :
         /\ entries[a] \in QueueEntry \cup {NoEntry}
         /\ entries[a].generation < next_generation
         /\ entries[a].status # "InFlight"
         /\ entries[a].status = "Pending" => ElementOf(entries, a) \in HeapEntry
  <2> SUFFICES ASSUME NEW a \in Accounts
               PROVE  /\ entries[a] \in QueueEntry \cup {NoEntry}
                      /\ entries[a].generation < next_generation
                      /\ entries[a].status # "InFlight"
                      /\ entries[a].status = "Pending" => ElementOf(entries, a) \in HeapEntry
    OBVIOUS
  <2>1. CASE a \in monitored
    BY <1>2, <1>4, <1>5, <2>1 DEF QueueEntry, ElementOf, HeapEntry
  <2>2. CASE a \notin monitored
    BY <1>2, <1>5, <2>2 DEF NoEntry
  <2> QED BY <2>1, <2>2
<1>7. \A e \in heap : e \in HeapEntry /\ e.generation < next_generation
  <2> SUFFICES ASSUME NEW a \in Accounts, entries[a].status = "Pending"
               PROVE  /\ ElementOf(entries, a) \in HeapEntry
                      /\ ElementOf(entries, a).generation < next_generation
    BY <1>2 DEF PendingElements
  <2> QED BY <1>6 DEF ElementOf
<1>8. TypeOK
  <2>1. entries \in [Accounts -> QueueEntry \cup {NoEntry}]
    BY <1>2, <1>6
  <2> QED BY <1>5, <1>7, <2>1 DEF TypeOK
<1>9. GenerationsFresh
  BY <1>5, <1>6, <1>7 DEF GenerationsFresh
<1>10. PendingIsQueued
  BY <1>2 DEF PendingIsQueued, PendingElements
<1>11. InFlightHeld
  BY <1>6 DEF InFlightHeld
<1>12. IsFiniteSet(permits) /\ Cardinality(permits) = 0
  BY <1>5, FS_EmptySet
<1>13. WorkerSafe
  <2>1. WorkerTypeOK /\ NeverOversleeps
    BY <1>5, <1>8, Zenon DEF WorkerInit, WorkerTypeOK, NeverOversleeps
  <2>2. TasksAreJoined
    BY <1>5, <1>12, WorkerAssumption DEF TasksAreJoined
  <2> QED BY <2>1, <2>2 DEF WorkerSafe
<1>14. QED
  BY <1>8, <1>9, <1>10, <1>11, <1>12, <1>13 DEF WorkerInv, IInv

\* A batch adds no more permits than it has slots (background.rs:312-345).
LEMMA ClaimFits ==
    ASSUME WorkerInv, NEW slots \in Nat, slots + Cardinality(permits) = BatchSize,
           ClaimDue(slots)
    PROVE  IsFiniteSet(permits') /\ Cardinality(permits') <= BatchSize
<1>1. PICK C \in SUBSET heap : /\ IsBatch(C, slots)
                               /\ permits' = permits \cup {PermitOf(e) : e \in C}
  BY DEF ClaimDue
<1> DEFINE P == {PermitOf(e) : e \in C}
           f == [e \in C |-> PermitOf(e)]
<1>2. \A e \in C : Live(entries, e)
  BY <1>1 DEF IsBatch, DueElements
<1>3. IsFiniteSet(C)
  BY <1>2, BatchAccounts, Zenon DEF WorkerInv, IInv
<1>4. f \in Surjection(C, P)
  BY Zenon DEF Surjection
<1>5. IsFiniteSet(P) /\ Cardinality(P) <= Cardinality(C)
  BY <1>3, <1>4, FS_Surjection
<1>6. Cardinality(C) <= slots
  BY <1>1 DEF IsBatch
<1>7. /\ IsFiniteSet(permits \cup P)
      /\ Cardinality(permits \cup P) =
            Cardinality(permits) + Cardinality(P) - Cardinality(permits \cap P)
      /\ IsFiniteSet(permits \cap P)
  BY <1>5, FS_Union, FS_Intersection DEF WorkerInv
<1>8. /\ Cardinality(permits) \in Nat /\ Cardinality(P) \in Nat
      /\ Cardinality(permits \cap P) \in Nat /\ Cardinality(C) \in Nat
  BY <1>3, <1>5, <1>7, FS_CardinalityType DEF WorkerInv
<1>9. QED
  BY <1>1, <1>5, <1>6, <1>7, <1>8, WorkerAssumption

\* Looking at the top of the cleaned heap finds the earliest pending refresh
\* (background.rs:284-296, queue.rs:125-135).
LEMMA CheckKeepsInv ==
    ASSUME WorkerInv, CheckDue
    PROVE  WorkerInv'
<1> USE DEF WorkerInv, WorkerSafe
<1>1. IInv'
  BY NextIInv DEF CheckDue, Next
<1>2. permits = {} /\ permits' = permits
  BY DEF CheckDue, NextDue, TasksAreJoined
<1>3. TasksAreJoined' /\ IsFiniteSet(permits')
  BY <1>2 DEF TasksAreJoined
<1>4. WorkerTypeOK' /\ NeverOversleeps'
  <2>1. CASE heap' = {} /\ pc' = "Await" /\ UNCHANGED wake_at
    <3>1. \A a \in Accounts : entries'[a].status # "Pending"
      BY <1>1, <2>1 DEF IInv, PendingIsQueued
    <3> QED
      BY <1>1, <2>1, <3>1 DEF CheckDue, IInv, WorkerTypeOK, NeverOversleeps
  <2>2. ASSUME NEW e \in heap', \A f \in heap' : f = e \/ Precedes(e, f),
               wake_at' = e.due, pc' = IF e.due <= now THEN "Claim" ELSE "Sleep"
        PROVE  WorkerTypeOK' /\ NeverOversleeps'
    <3>1. e.due \in Times
      BY <1>1 DEF IInv, TypeOK, HeapEntry
    <3>2. ASSUME NEW a \in Accounts, entries'[a].status = "Pending"
          PROVE  e.due <= entries'[a].due
      <4>1. ElementOf(entries', a) \in heap' /\ ElementOf(entries', a).due = entries'[a].due
        BY <1>1, <3>2 DEF IInv, PendingIsQueued, ElementOf
      <4>2. ElementOf(entries', a) = e \/ Precedes(e, ElementOf(entries', a))
        BY <2>2, <4>1
      <4>3. ElementOf(entries', a).due \in Times
        BY <1>1, <4>1 DEF IInv, TypeOK, HeapEntry
      <4> QED BY <3>1, <4>1, <4>2, <4>3 DEF Precedes, Times
    <3> QED
      BY <1>1, <2>2, <3>1, <3>2 DEF CheckDue, IInv, WorkerTypeOK, NeverOversleeps
  <2> QED BY <2>1, <2>2 DEF CheckDue
<1>5. QED
  BY <1>1, <1>3, <1>4

\* Claiming into the open slots (background.rs:312-345).
LEMMA ClaimKeepsInv ==
    ASSUME WorkerInv, Claim
    PROVE  WorkerInv'
<1> USE DEF WorkerInv, WorkerSafe
<1> DEFINE slots == BatchSize - Cardinality(permits)
<1>1. Cardinality(permits) \in Nat
  BY FS_CardinalityType
<1>2. slots \in Nat /\ slots + Cardinality(permits) = BatchSize
  BY <1>1, WorkerAssumption DEF TasksAreJoined
<1> HIDE DEF slots
<1>3. IInv' /\ IsFiniteSet(permits') /\ Cardinality(permits') <= BatchSize
  <2>1. CASE session
    <3>1. ClaimDue(slots)
      BY <2>1 DEF Claim, slots
    <3> QED BY <1>2, <3>1, ClaimKeepsIInv, ClaimFits
  <2>2. CASE ~session
    <3>1. UNCHANGED vars
      BY <2>2 DEF Claim
    <3> QED BY <3>1, NextIInv DEF vars, TasksAreJoined
  <2> QED BY <2>1, <2>2
<1>4. WorkerTypeOK' /\ TasksAreJoined' /\ NeverOversleeps'
  BY <1>3 DEF Claim, IInv, WorkerTypeOK, TasksAreJoined, NeverOversleeps
<1>5. QED
  BY <1>3, <1>4

\* Settling a task's permit (background.rs:346-379).
LEMMA SettleKeepsInv ==
    ASSUME WorkerInv, NEW p \in permits, Settle(p)
    PROVE  WorkerInv'
<1> USE DEF WorkerInv, WorkerSafe
<1>1. IInv'
  BY NextIInv DEF Settle, Next
<1>2. permits' = permits \ {p}
  BY DEF Settle, Complete, Reschedule
<1>3. IsFiniteSet(permits') /\ Cardinality(permits') <= BatchSize
  <2>1. IsFiniteSet(permits') /\ Cardinality(permits') = Cardinality(permits) - 1
    BY <1>2, FS_RemoveElement
  <2>2. Cardinality(permits) \in Nat
    BY FS_CardinalityType
  <2> QED BY <2>1, <2>2, WorkerAssumption DEF TasksAreJoined
<1>4. notified' \in BOOLEAN
  BY DEF Settle, Honoured, WorkerTypeOK
<1>5. WorkerTypeOK' /\ TasksAreJoined' /\ NeverOversleeps'
  BY <1>1, <1>3, <1>4 DEF Settle, IInv, WorkerTypeOK, TasksAreJoined, NeverOversleeps
<1>6. QED
  BY <1>1, <1>3, <1>5

\* What the callers do to the queue is notified; time only passes, and the
\* loop's other steps leave the queue alone (state/coordination.rs:17-95).
LEMMA OthersKeepInv ==
    ASSUME WorkerInv,
           Callers \/ Clock \/ LoopStart \/ SessionEnds \/ WakeByNotice \/ WakeByTimer
           \/ UNCHANGED allWorkerVars
    PROVE  WorkerInv'
<1> USE DEF WorkerInv, WorkerSafe
<1>1. ASSUME NEW a \in Accounts, RemoveAccount(a) \/ \E d \in Times : Mark(a, d)
      PROVE  WorkerInv'
  <2>1. IInv'
    BY <1>1, NextIInv DEF RemoveAccount, Mark, Next
  <2>2. permits' = permits /\ notified' = TRUE /\ UNCHANGED <<session, pc, wake_at>>
    BY <1>1 DEF RemoveAccount, Mark, Remove, MarkDirty, Notify
  <2> QED
    BY <2>1, <2>2 DEF IInv, WorkerTypeOK, TasksAreJoined, NeverOversleeps
<1>2. CASE Clock
  <2>1. IInv'
    BY <1>2, NextIInv DEF Clock, Next
  <2> QED
    BY <1>2, <2>1 DEF Clock, Tick, workerVars, IInv, WorkerTypeOK, TasksAreJoined, NeverOversleeps
<1>3. CASE SetSession \/ LoopStart \/ SessionEnds \/ WakeByNotice \/ WakeByTimer
           \/ UNCHANGED allWorkerVars
  <2>1. UNCHANGED vars
    BY <1>3 DEF SetSession, LoopStart, SessionEnds, WakeByNotice, WakeByTimer, allWorkerVars
  <2>2. IInv' /\ UNCHANGED <<permits, entries>>
    BY <2>1, NextIInv DEF vars
  <2>3. session' \in BOOLEAN /\ notified' \in BOOLEAN
    BY <1>3, Zenon DEF WorkerTypeOK, SetSession, LoopStart, SessionEnds, WakeByNotice, WakeByTimer,
                allWorkerVars, workerVars
  <2> QED
    BY <1>3, <2>2, <2>3
       DEF SetSession, LoopStart, SessionEnds, WakeByNotice, WakeByTimer, allWorkerVars,
           workerVars, IInv, WorkerTypeOK, TasksAreJoined, NeverOversleeps
<1>4. QED
  BY <1>1, <1>2, <1>3 DEF Callers

-----------------------------------------------------------------------------
\* The worker's loop, its tasks and the concurrent callers of the queue: for any
\* accounts and any batch size the batch is joined before the loop sleeps, and
\* while it sleeps unnotified no pending refresh falls due before its deadline
\* (background.rs:143-162, 284-379, state/coordination.rs:17-95).
THEOREM SpecWorkerSafe == WorkerSpec => []WorkerSafe
<1>1. WorkerInv /\ [WorkerNext]_allWorkerVars => WorkerInv'
  BY CheckKeepsInv, ClaimKeepsInv, SettleKeepsInv, OthersKeepInv DEF WorkerNext, Loop
<1>2. WorkerInv => WorkerSafe
  BY DEF WorkerInv
<1>3. QED
  BY <1>1, <1>2, WorkerInitInv, PTL DEF WorkerSpec
===============================================================================
