---------------------------- MODULE PoolScheduler ----------------------------
(***************************************************************************)
(* The pool scheduler (crates/relay-core/src/scheduler/selection.rs) under *)
(* the requests that use it: selection with reservation, cooldowns and     *)
(* half-open probes, execution fences, response affinity, and candidates   *)
(* that are removed while they still serve a request.                      *)
(*                                                                         *)
(* The scheduler is behind one mutex, so every call is one action; a       *)
(* request makes several, and others run between them.  A buffered request *)
(* settles its outcome and then releases its lease, a stream releases      *)
(* first (gateway/streaming.rs).  Its future may be dropped at any await.  *)
(*                                                                         *)
(* Which eligible candidate is preferred is left open: any of them may be  *)
(* selected.  Health, quota and the stored secret are one flag, usable.    *)
(* The provider storm breaker is off, its default.                         *)
(***************************************************************************)
EXTENDS Integers, FiniteSets

CONSTANTS
    PoolCandidates,      \* candidate ids
    PoolAccounts,        \* the candidates that are OAuth accounts
    Models,          \* model names, in lower case
    Supports,        \* candidate -> the models it serves
    Requests,        \* requests, one lease at a time each
    Guards,          \* execution fences that may be held at once
    Keys,            \* response affinity keys
    Lanes,           \* the lanes in use
    Policies,        \* the <<enabled, draining>> pairs policy updates set
    Availabilities,  \* the <<enabled, usable>> pairs availability updates set
    Blockable,       \* the <<candidate, model>> pairs an upstream may reject for good
    Reasons,         \* the cooldown reasons failures have
    CooldownAfter,   \* cooldown_after_failures
    PoolMaxTime          \* bound: the last instant of the clock

ASSUME SchedulerAssumption ==
    /\ IsFiniteSet(PoolCandidates) /\ IsFiniteSet(Requests) /\ IsFiniteSet(Guards)
    /\ "none" \notin PoolCandidates \cup Models /\ "*" \notin Models
    /\ PoolAccounts \subseteq PoolCandidates
    /\ Supports \in [PoolCandidates -> SUBSET Models]
    /\ Lanes \subseteq {"Text", "Image"}
    /\ Policies \subseteq BOOLEAN \X BOOLEAN /\ Availabilities \subseteq BOOLEAN \X BOOLEAN
    /\ Blockable \subseteq PoolCandidates \X Models
    /\ Reasons \subseteq {"Transient", "Mandatory"}
    /\ CooldownAfter \in Nat \ {0} /\ PoolMaxTime \in Nat \ {0}

VARIABLES
    cand,           \* candidate -> its RuntimeCandidate, cooldowns included
    retired,        \* retired_candidates: the tombstones
    half_open,      \* <<candidate, scope>> pairs with a probe under way
    in_flight,      \* <<candidate, lane>> -> reservations
    active_models,  \* <<candidate, lane, model>> -> reservations
    fences,         \* candidate -> execution_fences
    blocks,         \* capability_blocks
    affinity,       \* response_affinity
    lease,          \* request -> its lease and how far it is
    guard,          \* the candidate each live ExecutionFence is for
    poolNow

poolVars == <<cand, retired, half_open, in_flight, active_models, fences, blocks, affinity>>
schedVars == <<cand, retired, half_open, in_flight, active_models, fences, blocks, affinity,
          lease, guard, poolNow>>

-----------------------------------------------------------------------------
Nothing == "none"
Scopes == Models \cup {"*"}
NoCooldown == 0

\* A cooldown is the instant it ends.  The clock starts at 1, and one that ends
\* at PoolMaxTime + 1 outlasts the run.
Candidate == [present : BOOLEAN, enabled : BOOLEAN, draining : BOOLEAN, usable : BOOLEAN,
              cooldowns : [Scopes -> 0..PoolMaxTime + 1], failures : 0..CooldownAfter]

NewCandidate == [present |-> TRUE, enabled |-> TRUE, draining |-> FALSE, usable |-> TRUE,
                 cooldowns |-> [s \in Scopes |-> NoCooldown], failures |-> 0]

NoCandidateRecord == [NewCandidate EXCEPT !.present = FALSE]

\* A request's lease: stage Active until the upstream has answered, Failed
\* between record_failure and the cooldown, Succeeded between record_success and
\* the binding of its response, then Settled.
NoLease == [stage |-> "Idle", c |-> Nothing, lane |-> "Text", model |-> Nothing,
            held |-> FALSE]

Lease == [stage : {"Active", "Failed", "Succeeded", "Settled"}, c : PoolCandidates,
          lane : Lanes, model : Models, held : BOOLEAN]

Expired(c, s) == cand[c].cooldowns[s] # NoCooldown /\ cand[c].cooldowns[s] <= poolNow
Cooling(c, s) == cand[c].cooldowns[s] > poolNow

HalfOpenScope(c, m) ==
    CASE Expired(c, "*") -> "*"
      [] ~Expired(c, "*") /\ Expired(c, m) -> m
      [] OTHER -> Nothing

LaneAllowsTwo(c, lane) ==
    c \in PoolAccounts /\ lane = "Image" => in_flight[<<c, "Image">>] <= 1

LaneAllows(c, lane) ==
    c \in PoolAccounts /\ lane = "Image" => in_flight[<<c, "Image">>] < 1

ProbeKeyAlways(c, m) == {<<c, HalfOpenScope(c, m)>>}

\* What a reservation adds to half_open.
ProbeKey(c, m) ==
    IF HalfOpenScope(c, m) = Nothing THEN {} ELSE {<<c, HalfOpenScope(c, m)>>}

IsEligible(c, m) ==
    /\ cand[c].present /\ c \notin retired /\ fences[c] = 0 /\ <<c, m>> \notin blocks
    /\ cand[c].enabled /\ ~cand[c].draining /\ cand[c].usable /\ m \in Supports[c]
    /\ ~Cooling(c, m) /\ ~Cooling(c, "*")
    /\ <<c, HalfOpenScope(c, m)>> \notin half_open

Eligible(m) == {c \in PoolCandidates : IsEligible(c, m)}

HasRequests(active, c) == \E lane \in Lanes, m \in Models : active[<<c, lane, m>>] > 0

NeverFinalizes(active, c) == FALSE

\* finalize_retired_if_idle().
Finalizes(active, c) == c \in retired /\ ~HasRequests(active, c)

ReopensModelOnly(c, m) == {<<c, m>>}

\* The half-open scopes a release clears, whoever took them.
Reopens(c, m) == {<<c, m>>, <<c, "*">>}

-----------------------------------------------------------------------------
\* remove_now(): nothing of the candidate is left.
RemoveNow(c) ==
    /\ cand' = [cand EXCEPT ![c] = NoCandidateRecord]
    /\ retired' = retired \ {c}
    /\ half_open' = {h \in half_open : h[1] # c}
    /\ in_flight' = [x \in DOMAIN in_flight |-> IF x[1] = c THEN 0 ELSE in_flight[x]]
    /\ active_models' =
         [x \in DOMAIN active_models |-> IF x[1] = c THEN 0 ELSE active_models[x]]
    /\ fences' = [fences EXCEPT ![c] = 0]
    /\ blocks' = {b \in blocks : b[1] # c}
    /\ affinity' = [k \in Keys |-> IF affinity[k] = c THEN Nothing ELSE affinity[k]]

RemoveWhileBusy(c) ==
    /\ cand[c].present
    /\ RemoveNow(c)
    /\ UNCHANGED <<lease, guard, poolNow>>

RemoveCandidate(c) ==
    /\ cand[c].present
    /\ IF ~HasRequests(active_models, c) THEN RemoveNow(c)
       ELSE /\ cand' = [cand EXCEPT ![c].enabled = FALSE, ![c].draining = TRUE]
            /\ retired' = retired \cup {c}
            /\ affinity' = [k \in Keys |-> IF affinity[k] = c THEN Nothing ELSE affinity[k]]
            /\ UNCHANGED <<half_open, in_flight, active_models, fences, blocks>>
    /\ UNCHANGED <<lease, guard, poolNow>>

\* update_account_policy() and update_source_policies(): the candidate is cloned,
\* changed and upserted, and upsert() ends its retirement.
UpdatePolicy(c, enabled, draining) ==
    /\ cand[c].present
    /\ cand' = [cand EXCEPT ![c].enabled = enabled, ![c].draining = draining]
    /\ retired' = retired \ {c}
    /\ UNCHANGED <<half_open, in_flight, active_models, fences, blocks, affinity>>
    /\ UNCHANGED <<lease, guard, poolNow>>

\* update_candidate_availability_at(), set_candidate_health() and the quota
\* updates.
UpdateAvailability(c, enabled, usable) ==
    /\ cand[c].present
    /\ cand' = [cand EXCEPT ![c].enabled = enabled, ![c].usable = usable]
    /\ UNCHANGED <<retired, half_open, in_flight, active_models, fences, blocks, affinity>>
    /\ UNCHANGED <<lease, guard, poolNow>>

BlockCapability(c, m) ==
    /\ cand[c].present
    /\ blocks' = blocks \cup {<<c, m>>}
    /\ UNCHANGED <<cand, retired, half_open, in_flight, active_models, fences, affinity>>
    /\ UNCHANGED <<lease, guard, poolNow>>

ClearCapabilityBlocks(c) ==
    /\ blocks' = {b \in blocks : b[1] # c}
    /\ UNCHANGED <<cand, retired, half_open, in_flight, active_models, fences, affinity>>
    /\ UNCHANGED <<lease, guard, poolNow>>

FenceOnce(g, c) ==
    /\ guard[g] = Nothing /\ cand[c].present
    /\ fences' = [fences EXCEPT ![c] = 1]
    /\ guard' = [guard EXCEPT ![g] = c]
    /\ UNCHANGED <<cand, retired, half_open, in_flight, active_models, blocks, affinity>>
    /\ UNCHANGED <<lease, poolNow>>

\* fence_execution() and the drop of the ExecutionFence it returned.
Fence(g, c) ==
    /\ guard[g] = Nothing /\ cand[c].present
    /\ fences' = [fences EXCEPT ![c] = @ + 1]
    /\ guard' = [guard EXCEPT ![g] = c]
    /\ UNCHANGED <<cand, retired, half_open, in_flight, active_models, blocks, affinity>>
    /\ UNCHANGED <<lease, poolNow>>

Unfence(g) ==
    /\ guard[g] # Nothing
    /\ fences' = IF cand[guard[g]].present /\ fences[guard[g]] > 0
                 THEN [fences EXCEPT ![guard[g]] = @ - 1]
                 ELSE fences
    /\ guard' = [guard EXCEPT ![g] = Nothing]
    /\ UNCHANGED <<cand, retired, half_open, in_flight, active_models, blocks, affinity>>
    /\ UNCHANGED <<lease, poolNow>>

-----------------------------------------------------------------------------
\* select_for() and reserve_for_lane() under one lock.  A bound response key
\* admits its owner only; the image lane has no keys.
SelectAndReserve(r, m, lane, key, tried) ==
    /\ lease[r].stage = "Idle"
    /\ lane = "Image" => key = Nothing
    /\ \E c \in Eligible(m) \ tried :
          /\ LaneAllows(c, lane)
          /\ key # Nothing /\ affinity[key] # Nothing => c = affinity[key]
          /\ half_open' = half_open \cup ProbeKey(c, m)
          /\ in_flight' = [in_flight EXCEPT ![<<c, lane>>] = @ + 1]
          /\ active_models' = [active_models EXCEPT ![<<c, lane, m>>] = @ + 1]
          /\ lease' = [lease EXCEPT ![r] =
                         [stage |-> "Active", c |-> c, lane |-> lane, model |-> m,
                          held |-> TRUE]]
    /\ UNCHANGED <<cand, retired, fences, blocks, affinity, guard, poolNow>>

\* The request has settled: it keeps its lease until it is dropped, or is over
\* when it released first.
SettleLease(l) == IF l.held THEN [l EXCEPT !.stage = "Settled"] ELSE NoLease

CooldownsEnded(c, m) ==
    [s \in Scopes |-> IF s \in {"*", m} THEN NoCooldown ELSE cand[c].cooldowns[s]]

\* What a success leaves of the cooldowns.
CooldownsKept(c, m) ==
    [s \in Scopes |-> IF s \in {"*", m} /\ ~Cooling(c, s)
                      THEN NoCooldown ELSE cand[c].cooldowns[s]]

\* record_success_with_metrics(): expired cooldowns of the model end, and with no
\* cooldown left the candidate is healthy again: usable, unless its quota is what
\* keeps it from being so.
RecordSuccess(r, healed) ==
    LET l == lease[r]
        kept == CooldownsKept(l.c, l.model)
        recovered == \A s \in Scopes : kept[s] <= poolNow
    IN  /\ l.stage = "Active"
        /\ IF cand[l.c].present
           THEN /\ cand' = [cand EXCEPT ![l.c].cooldowns = kept,
                                        ![l.c].usable = @ \/ (recovered /\ healed),
                                        ![l.c].failures = IF recovered THEN 0 ELSE @]
                /\ half_open' = half_open \ {<<l.c, l.model>>}
           ELSE UNCHANGED <<cand, half_open>>
        /\ lease' = [lease EXCEPT ![r].stage = "Succeeded"]
        /\ UNCHANGED <<retired, in_flight, active_models, fences, blocks, affinity, guard, poolNow>>

BindToAnyone(r, key) ==
    /\ lease[r].stage = "Succeeded"
    /\ affinity' = IF key # Nothing THEN [affinity EXCEPT ![key] = lease[r].c] ELSE affinity
    /\ lease' = [lease EXCEPT ![r] = SettleLease(@)]
    /\ UNCHANGED <<cand, retired, half_open, in_flight, active_models, fences, blocks, guard, poolNow>>

BindResponseAffinity(r, key) ==
    /\ lease[r].stage = "Succeeded"
    /\ affinity' = IF key # Nothing /\ cand[lease[r].c].present
                   THEN [affinity EXCEPT ![key] = lease[r].c] ELSE affinity
    /\ lease' = [lease EXCEPT ![r] = SettleLease(@)]
    /\ UNCHANGED <<cand, retired, half_open, in_flight, active_models, fences, blocks, guard, poolNow>>

\* apply_status_cooldown_with_hint(): record_failure, and then the cooldown.
RecordFailure(r) ==
    LET c == lease[r].c
    IN  /\ lease[r].stage = "Active"
        /\ cand' = IF cand[c].present /\ cand[c].failures < CooldownAfter
                   THEN [cand EXCEPT ![c].failures = @ + 1] ELSE cand
        /\ lease' = [lease EXCEPT ![r].stage = "Failed"]
        /\ UNCHANGED <<retired, half_open, in_flight, active_models, fences, blocks,
                       affinity, guard, poolNow>>

TransientAllowedToOne(c, m) ==
    cand[c].failures >= CooldownAfter /\ Cardinality(Eligible(m)) >= 1

\* transient_cooldown_allowed(), with keep_last_candidate_available.
TransientAllowed(c, m) ==
    cand[c].failures >= CooldownAfter /\ Cardinality(Eligible(m)) > 1

\* set_cooldown_with_reason_inner(): a cooldown is only ever extended, and a new
\* one ends the probes of its scope.
SetCooldown(r, scope, until, reason) ==
    LET c == lease[r].c
    IN  /\ lease[r].stage = "Failed"
        /\ IF cand[c].present /\ (reason = "Transient" => TransientAllowed(c, lease[r].model))
           THEN /\ cand' = [cand EXCEPT ![c].cooldowns[scope] = IF @ > until THEN @ ELSE until]
                /\ half_open' = {h \in half_open : ~(h[1] = c /\ scope \in {"*", h[2]})}
           ELSE UNCHANGED <<cand, half_open>>
        /\ lease' = [lease EXCEPT ![r] = SettleLease(@)]
        /\ UNCHANGED <<retired, in_flight, active_models, fences, blocks, affinity, guard, poolNow>>

ReleasableUnlessRetired(l) == l.held /\ l.c \notin retired

\* The lease has not been released yet.
Releasable(l) == l.held

\* CandidateLease::release(): by a stream before it settles, else when the lease
\* is dropped, settled or not.  The last lease of a tombstone finalizes it.
Release(r) ==
    LET l == lease[r]
        active == [active_models EXCEPT ![<<l.c, l.lane, l.model>>] = IF @ = 0 THEN 0 ELSE @ - 1]
    IN  /\ Releasable(l)
        /\ IF Finalizes(active, l.c) THEN RemoveNow(l.c)
           ELSE /\ half_open' = half_open \ Reopens(l.c, l.model)
                /\ in_flight' = [in_flight EXCEPT ![<<l.c, l.lane>>] = IF @ = 0 THEN 0 ELSE @ - 1]
                /\ active_models' = active
                /\ UNCHANGED <<cand, retired, fences, blocks, affinity>>
        /\ \/ lease' = [lease EXCEPT ![r] = NoLease]
           \/ l.stage = "Active" /\ lease' = [lease EXCEPT ![r].held = FALSE]
        /\ UNCHANGED <<guard, poolNow>>

\* A binding expires, is evicted, or is invalidated after a failure.
Forget(key) ==
    /\ affinity[key] # Nothing
    /\ affinity' = [affinity EXCEPT ![key] = Nothing]
    /\ UNCHANGED <<cand, retired, half_open, in_flight, active_models, fences, blocks>>
    /\ UNCHANGED <<lease, guard, poolNow>>

PoolTick ==
    /\ poolNow < PoolMaxTime
    /\ poolNow' = poolNow + 1
    /\ UNCHANGED <<poolVars, lease, guard>>

-----------------------------------------------------------------------------
PoolInit ==
    /\ cand = [c \in PoolCandidates |-> NewCandidate]
    /\ retired = {} /\ half_open = {} /\ blocks = {}
    /\ in_flight = [x \in PoolCandidates \X Lanes |-> 0]
    /\ active_models = [x \in PoolCandidates \X Lanes \X Models |-> 0]
    /\ fences = [c \in PoolCandidates |-> 0]
    /\ affinity = [k \in Keys |-> Nothing]
    /\ lease = [r \in Requests |-> NoLease]
    /\ guard = [g \in Guards |-> Nothing]
    /\ poolNow = 1

RequestStep(r) ==
    \/ \E m \in Models, lane \in Lanes, key \in Keys \cup {Nothing}, tried \in SUBSET PoolCandidates :
          SelectAndReserve(r, m, lane, key, tried)
    \/ \E healed \in BOOLEAN : RecordSuccess(r, healed)
    \/ \E key \in Keys \cup {Nothing} : BindResponseAffinity(r, key)
    \/ RecordFailure(r)
    \/ \E scope \in {"*", lease[r].model}, until \in poolNow + 1 .. PoolMaxTime + 1, reason \in Reasons :
          SetCooldown(r, scope, until, reason)
    \/ Release(r)

AdminStep(c) ==
    \/ RemoveCandidate(c)
    \/ \E p \in Policies : UpdatePolicy(c, p[1], p[2])
    \/ \E p \in Availabilities : UpdateAvailability(c, p[1], p[2])
    \/ \E m \in {n \in Models : <<c, n>> \in Blockable} : BlockCapability(c, m)
    \/ ClearCapabilityBlocks(c)
    \/ \E g \in Guards : Fence(g, c)

PoolNext ==
    \/ \E r \in Requests : RequestStep(r)
    \/ \E c \in PoolCandidates : AdminStep(c)
    \/ \E g \in Guards : Unfence(g)
    \/ \E key \in Keys : Forget(key)
    \/ PoolTick

PoolSpec == PoolInit /\ [][PoolNext]_schedVars

\* A lease is released when its owner is done or dropped.
PoolFairSpec == PoolSpec /\ \A r \in Requests : WF_schedVars(Release(r))

-----------------------------------------------------------------------------
\* One type invariant (selection.rs:64-85).
SchedulerTypeOK ==
    /\ cand \in [PoolCandidates -> Candidate]
    /\ retired \subseteq PoolCandidates
    /\ half_open \subseteq PoolCandidates \X Scopes
    /\ in_flight \in [PoolCandidates \X Lanes -> Nat]
    /\ active_models \in [PoolCandidates \X Lanes \X Models -> Nat]
    /\ fences \in [PoolCandidates -> Nat]
    /\ blocks \subseteq PoolCandidates \X Models
    /\ affinity \in [Keys -> PoolCandidates \cup {Nothing}]
    /\ lease \in [Requests -> Lease \cup {NoLease}]
    /\ guard \in [Guards -> PoolCandidates \cup {Nothing}]
    /\ poolNow \in 1..PoolMaxTime

HeldOn(c, lane, m) ==
    {r \in Requests : lease[r].held /\ lease[r].c = c /\ lease[r].lane = lane /\ lease[r].model = m}

\* The two counters of activity.rs never drift from the leases that exist, through
\* retirement, revival and removal: a candidate is neither thought busy when it is
\* idle nor idle while it serves a request (activity.rs:32-76, 118-148).
CountsMatchLeases ==
    \A c \in PoolCandidates, lane \in Lanes :
        /\ \A m \in Models : active_models[<<c, lane, m>>] = Cardinality(HeldOn(c, lane, m))
        /\ in_flight[<<c, lane>>] = Cardinality(UNION {HeldOn(c, lane, m) : m \in Models})

\* An OAuth account never serves two images at once (selection.rs:29, 614-619).
OneImagePerAccount ==
    \A c \in PoolAccounts : Cardinality(UNION {HeldOn(c, "Image", m) : m \in Models}) <= 1

\* A removed candidate stays only as long as a request still holds it, and a
\* request never holds one that is gone (selection.rs:209-225, 259-265).
TombstoneIsHeld ==
    /\ \A c \in retired : cand[c].present /\ \E r \in Requests : lease[r].held /\ lease[r].c = c
    /\ \A r \in Requests : lease[r].held => cand[lease[r].c].present

\* A half-open scope is closed to selection only while a request that will reopen
\* it is under way: no dropped probe shuts a candidate out for good
\* (selection.rs:944-951, 975-983).
HalfOpenIsHeld ==
    \A h \in half_open : \E r \in Requests :
        lease[r].held /\ lease[r].c = h[1] /\ h[2] \in {"*", lease[r].model}

\* A response key never names a candidate that is gone, even when the response
\* that bound it completed after the removal (selection.rs:227-230, 822-833).
OwnerIsPresent ==
    \A k \in Keys : affinity[k] # Nothing => cand[affinity[k]].present

\* Fences nest: a candidate is fenced exactly while some ExecutionFence for it is
\* alive (selection.rs:416-434, runtime.rs:626-636).
FencesMatchGuards ==
    \A c \in PoolCandidates : cand[c].present => fences[c] = Cardinality({g \in Guards : guard[g] = c})

\* No answer, however late, shortens a cooldown that is still running
\* (selection.rs:1012-1015, 1118-1123).
CooldownStands ==
    [][\A c \in PoolCandidates, s \in Scopes :
          Cooling(c, s) /\ cand'[c].present => cand'[c].cooldowns[s] >= cand[c].cooldowns[s]]_schedVars

\* "Keep the last candidate available": a transient failure never leaves the model
\* it is about without a candidate, whatever probes, fences and other failures do
\* in between (selection.rs:1145-1189).
LastCandidateStays ==
    [][\A r \in {q \in Requests : lease[q].stage = "Failed" /\ Eligible(lease[q].model) # {}} :
          \A m \in {lease[r].model}, scope \in Scopes, until \in poolNow + 1 .. PoolMaxTime + 1 :
              SetCooldown(r, scope, until, "Transient") => Eligible(m)' # {}]_schedVars

\* The scheduler's books agree with the leases and guards that exist, through
\* removal, revival, failures and dropped futures (activity.rs:32-148,
\* selection.rs:209-265, 416-434, 822-833).
LeasesAreExact ==
    /\ SchedulerTypeOK /\ CountsMatchLeases /\ OneImagePerAccount
    /\ TombstoneIsHeld /\ OwnerIsPresent /\ FencesMatchGuards

\* What no answer does to the pool's cooldowns: end one early, or rest the last
\* candidate of a model for a transient failure (selection.rs).
CooldownSteps == CooldownStands /\ LastCandidateStays
=============================================================================
