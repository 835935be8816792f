---------------------------- MODULE QuotaSchedule ----------------------------
(***************************************************************************)
(* What QuotaRefreshQueue promises its callers: for each account the       *)
(* earliest time a refresh is wanted, and whether one is being made.  A    *)
(* refresh asked for while one is being made is owed afterwards.           *)
(***************************************************************************)
EXTENDS Integers, FiniteSets

CONSTANTS Accounts, MaxEntries, MaxTime

VARIABLES
    want,   \* account -> when a refresh is wanted, or None
    busy,   \* the accounts being refreshed
    now

None == -1
Times == 0..MaxTime

Tracked == {a \in Accounts : want[a] # None} \cup busy

\* A caller sets or brings forward the time of a refresh.
Ask(a, d) ==
    /\ a \in Tracked \/ Cardinality(Tracked) < MaxEntries
    /\ want' = [want EXCEPT ![a] = d]
    /\ UNCHANGED <<busy, now>>

Ready == {a \in Accounts \ busy : want[a] # None /\ want[a] <= now}

\* The most urgent accounts that are ready, at most max_claims of them.
Begin(max_claims) ==
    \E C \in SUBSET Ready :
        /\ Cardinality(C) <= max_claims
        /\ C = Ready \/ Cardinality(C) = max_claims
        /\ \A a \in C, b \in Ready \ C : want[a] <= want[b]
        /\ want' = [a \in Accounts |-> IF a \in C THEN None ELSE want[a]]
        /\ busy' = busy \cup C
        /\ UNCHANGED now

\* The refresh ends; what was asked for meanwhile stays, and the next regular
\* refresh is no later than asked.
End(a) ==
    /\ a \in busy
    /\ busy' = busy \ {a}
    /\ \/ UNCHANGED want
       \/ \E d \in Times :
             /\ want[a] = None \/ d < want[a]
             /\ want' = [want EXCEPT ![a] = d]
    /\ UNCHANGED now

Forget(a) ==
    /\ want' = [want EXCEPT ![a] = None]
    /\ busy' = busy \ {a}
    /\ UNCHANGED now

Pass == now < MaxTime /\ now' = now + 1 /\ UNCHANGED <<want, busy>>

Init ==
    /\ want = [a \in Accounts |-> None]
    /\ busy = {}
    /\ now = 0

Next ==
    \/ \E a \in Accounts : (\E d \in Times : Ask(a, d)) \/ End(a) \/ Forget(a)
    \/ \E max_claims \in 1..MaxEntries : Begin(max_claims)
    \/ Pass

Spec == Init /\ [][Next]_<<want, busy, now>>
==============================================================================
