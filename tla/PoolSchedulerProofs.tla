------------------------ MODULE PoolSchedulerProofs ------------------------
(***************************************************************************)
(* The scheduler's books against the leases and guards that exist, for any *)
(* set of candidates, models, requests and guards.  The counters are exact *)
(* by induction over the calls: each call that changes one adds or removes *)
(* one lease, and a candidate is only forgotten when none is left.         *)
(***************************************************************************)
EXTENDS PoolScheduler, FiniteSetTheorems, TLAPS

\* The requests that hold a candidate in a lane.
HeldIn(c, lane) ==
    {r \in Requests : lease[r].held /\ lease[r].c = c /\ lease[r].lane = lane}

-----------------------------------------------------------------------------
\* A request that has a lease has one of a candidate, a lane and a model.
LEMMA LeaseTypes ==
    ASSUME SchedulerTypeOK, NEW r \in Requests
    PROVE  /\ lease[r].held \in BOOLEAN
           /\ lease[r].held => lease[r] \in Lease
           /\ lease[r].stage # "Idle" => lease[r] \in Lease
           /\ lease[r].stage = "Idle" => lease[r] = NoLease /\ ~lease[r].held
<1>1. lease[r] \in Lease \cup {NoLease}
  BY DEF SchedulerTypeOK
<1>2. CASE lease[r] = NoLease
  BY <1>2 DEF NoLease
<1>3. CASE lease[r] \in Lease
  BY <1>3 DEF Lease
<1>4. QED
  BY <1>1, <1>2, <1>3

\* What a settled request leaves: the same lease, or none if it had released.
LEMMA SettleTypes ==
    ASSUME NEW l \in Lease
    PROVE  /\ SettleLease(l) \in Lease \cup {NoLease}
           /\ SettleLease(l).held = l.held
           /\ l.held => /\ SettleLease(l).c = l.c /\ SettleLease(l).lane = l.lane
                        /\ SettleLease(l).model = l.model
<1>1. CASE l.held
  BY <1>1, Zenon DEF SettleLease, Lease
<1>2. CASE ~l.held
  BY <1>2, Zenon DEF SettleLease, Lease, NoLease
<1>3. QED
  BY <1>1, <1>2

\* A new candidate, and the place of one that is gone.
LEMMA NewCandidateType == NewCandidate \in Candidate /\ NoCandidateRecord \in Candidate
<1>1. [s \in Scopes |-> NoCooldown] \in [Scopes -> 0..PoolMaxTime + 1]
  BY SchedulerAssumption DEF NoCooldown
<1>2. 0 \in 0..CooldownAfter
  BY SchedulerAssumption
<1>3. NewCandidate \in Candidate
  BY <1>1, <1>2 DEF NewCandidate, Candidate
<1>4. QED
  BY <1>3, Zenon DEF NoCandidateRecord, Candidate

\* What remove_now() leaves is well formed.
LEMMA RemoveNowTypes ==
    ASSUME SchedulerTypeOK, NEW c \in PoolCandidates, RemoveNow(c)
    PROVE  /\ cand' \in [PoolCandidates -> Candidate]
           /\ retired' \subseteq PoolCandidates
           /\ half_open' \subseteq PoolCandidates \X Scopes
           /\ in_flight' \in [PoolCandidates \X Lanes -> Nat]
           /\ active_models' \in [PoolCandidates \X Lanes \X Models -> Nat]
           /\ fences' \in [PoolCandidates -> Nat]
           /\ blocks' \subseteq PoolCandidates \X Models
           /\ affinity' \in [Keys -> PoolCandidates \cup {Nothing}]
<1>1. cand' \in [PoolCandidates -> Candidate]
  BY NewCandidateType DEF RemoveNow, SchedulerTypeOK
<1>2. in_flight' \in [PoolCandidates \X Lanes -> Nat]
  BY DEF RemoveNow, SchedulerTypeOK
<1>3. active_models' \in [PoolCandidates \X Lanes \X Models -> Nat]
  BY DEF RemoveNow, SchedulerTypeOK
<1>4. QED
  BY <1>1, <1>2, <1>3 DEF RemoveNow, SchedulerTypeOK

\* The administrative calls keep the types.
LEMMA AdminTypes ==
    ASSUME SchedulerTypeOK, NEW c \in PoolCandidates, AdminStep(c)
    PROVE  SchedulerTypeOK'
<1>1. cand[c] \in Candidate
  BY DEF SchedulerTypeOK
<1>2. CASE RemoveCandidate(c)
  <2>1. CASE RemoveNow(c)
    BY <1>2, <2>1, RemoveNowTypes DEF RemoveCandidate, SchedulerTypeOK
  <2>2. CASE ~RemoveNow(c)
    <3>1. cand' = [cand EXCEPT ![c].enabled = FALSE, ![c].draining = TRUE]
      BY <1>2, <2>2, Zenon DEF RemoveCandidate
    <3>2. cand' \in [PoolCandidates -> Candidate]
      BY <1>1, <3>1, Zenon DEF SchedulerTypeOK, Candidate
    <3>3. QED
      BY <1>2, <2>2, <3>2 DEF RemoveCandidate, SchedulerTypeOK
  <2>3. QED
    BY <2>1, <2>2
<1>3. ASSUME NEW p \in Policies, UpdatePolicy(c, p[1], p[2])
      PROVE  SchedulerTypeOK'
  <2>1. p[1] \in BOOLEAN /\ p[2] \in BOOLEAN
    BY SchedulerAssumption
  <2>2. cand' \in [PoolCandidates -> Candidate]
    BY <1>1, <1>3, <2>1, Zenon DEF UpdatePolicy, SchedulerTypeOK, Candidate
  <2>3. QED
    BY <1>3, <2>2 DEF UpdatePolicy, SchedulerTypeOK
<1>4. ASSUME NEW p \in Availabilities, UpdateAvailability(c, p[1], p[2])
      PROVE  SchedulerTypeOK'
  <2>1. p[1] \in BOOLEAN /\ p[2] \in BOOLEAN
    BY SchedulerAssumption
  <2>2. cand' \in [PoolCandidates -> Candidate]
    BY <1>1, <1>4, <2>1, Zenon DEF UpdateAvailability, SchedulerTypeOK, Candidate
  <2>3. QED
    BY <1>4, <2>2 DEF UpdateAvailability, SchedulerTypeOK
<1>5. ASSUME NEW m \in Models, BlockCapability(c, m)
      PROVE  SchedulerTypeOK'
  BY <1>5 DEF BlockCapability, SchedulerTypeOK
<1>6. CASE ClearCapabilityBlocks(c)
  BY <1>6 DEF ClearCapabilityBlocks, SchedulerTypeOK
<1>7. ASSUME NEW g \in Guards, Fence(g, c)
      PROVE  SchedulerTypeOK'
  BY <1>7 DEF Fence, SchedulerTypeOK
<1>8. QED
  BY <1>2, <1>3, <1>4, <1>5, <1>6, <1>7, Zenon DEF AdminStep

\* The calls a request makes keep the types.
LEMMA SelectTypes ==
    ASSUME SchedulerTypeOK, NEW r \in Requests, NEW m \in Models, NEW lane \in Lanes,
           NEW key \in Keys \cup {Nothing}, NEW tried \in SUBSET PoolCandidates,
           SelectAndReserve(r, m, lane, key, tried)
    PROVE  SchedulerTypeOK'
<1>1. PICK c \in PoolCandidates :
        /\ half_open' = half_open \cup ProbeKey(c, m)
        /\ in_flight' = [in_flight EXCEPT ![<<c, lane>>] = @ + 1]
        /\ active_models' = [active_models EXCEPT ![<<c, lane, m>>] = @ + 1]
        /\ lease' = [lease EXCEPT ![r] =
                       [stage |-> "Active", c |-> c, lane |-> lane, model |-> m,
                        held |-> TRUE]]
  BY Zenon DEF SelectAndReserve, Eligible
<1>2. ProbeKey(c, m) \subseteq PoolCandidates \X Scopes
  <2>1. HalfOpenScope(c, m) \in Scopes \cup {Nothing}
    BY DEF HalfOpenScope, Scopes
  <2>2. QED
    BY <2>1 DEF ProbeKey
<1>3. in_flight' \in [PoolCandidates \X Lanes -> Nat]
  BY <1>1 DEF SchedulerTypeOK
<1>4. active_models' \in [PoolCandidates \X Lanes \X Models -> Nat]
  BY <1>1 DEF SchedulerTypeOK
<1>5. lease' \in [Requests -> Lease \cup {NoLease}]
  BY <1>1 DEF SchedulerTypeOK, Lease
<1>6. half_open' \subseteq PoolCandidates \X Scopes
  BY <1>1, <1>2 DEF SchedulerTypeOK
<1>7. QED
  BY <1>3, <1>4, <1>5, <1>6 DEF SelectAndReserve, SchedulerTypeOK

\* So do the outcomes it records.
LEMMA SettlingTypes ==
    ASSUME SchedulerTypeOK, NEW r \in Requests,
           \/ \E healed \in BOOLEAN : RecordSuccess(r, healed)
           \/ \E key \in Keys \cup {Nothing} : BindResponseAffinity(r, key)
           \/ RecordFailure(r)
           \/ \E scope \in {"*", lease[r].model}, until \in poolNow + 1 .. PoolMaxTime + 1,
                 reason \in Reasons : SetCooldown(r, scope, until, reason)
    PROVE  SchedulerTypeOK'
<1>1. lease[r].stage # "Idle" /\ lease[r] \in Lease
  BY LeaseTypes, Zenon DEF RecordSuccess, BindResponseAffinity, RecordFailure, SetCooldown
<1> DEFINE c == lease[r].c
<1>2. /\ c \in PoolCandidates /\ lease[r].model \in Models /\ cand[c] \in Candidate
      /\ lease \in [Requests -> Lease \cup {NoLease}]
  BY <1>1 DEF Lease, SchedulerTypeOK
<1>3. /\ SettleLease(lease[r]) \in Lease \cup {NoLease}
      /\ \A stage \in {"Succeeded", "Failed"} : [lease[r] EXCEPT !.stage = stage] \in Lease
  BY <1>1, SettleTypes, SMTT(30) DEF Lease
<1>4. ASSUME NEW healed \in BOOLEAN, RecordSuccess(r, healed)
      PROVE  SchedulerTypeOK'
  <2>1. lease' \in [Requests -> Lease \cup {NoLease}]
    BY <1>2, <1>3, <1>4, Zenon DEF RecordSuccess
  <2>2. cand' \in [PoolCandidates -> Candidate] /\ half_open' \subseteq half_open
    <3> DEFINE kept == CooldownsKept(c, lease[r].model)
               recovered == \A s \in Scopes : kept[s] <= poolNow
    <3>1. kept \in [Scopes -> 0..PoolMaxTime + 1]
      BY <1>2, SchedulerAssumption, SMTT(30) DEF CooldownsKept, NoCooldown, Candidate
    <3>2. CASE cand[c].present
      <4>1. PICK f \in 0..CooldownAfter, u \in BOOLEAN :
              cand' = [cand EXCEPT ![c].cooldowns = kept, ![c].usable = u, ![c].failures = f]
        <5>1. (IF recovered THEN 0 ELSE cand[c].failures) \in 0..CooldownAfter
          BY <1>2, SchedulerAssumption DEF Candidate
        <5>2. (cand[c].usable \/ (recovered /\ healed)) \in BOOLEAN
          BY SMTT(30)
        <5>3. cand' = [cand EXCEPT ![c].cooldowns = kept,
                                   ![c].usable = cand[c].usable \/ (recovered /\ healed),
                                   ![c].failures = IF recovered THEN 0 ELSE cand[c].failures]
          BY <1>4, <3>2, Zenon DEF RecordSuccess
        <5> HIDE DEF recovered, kept
        <5>4. QED
          BY <5>1, <5>2, <5>3, Zenon
      <4> HIDE DEF kept
      <4>2. cand' \in [PoolCandidates -> Candidate]
        BY <1>2, <3>1, <4>1, Zenon DEF SchedulerTypeOK, Candidate
      <4>3. QED
        BY <1>4, <3>2, <4>2, ZenonT(40) DEF RecordSuccess
    <3>3. CASE ~cand[c].present
      BY <1>4, <3>3 DEF RecordSuccess, SchedulerTypeOK
    <3>4. QED
      BY <3>2, <3>3
  <2>3. QED
    BY <1>4, <2>1, <2>2, ZenonT(40) DEF RecordSuccess, SchedulerTypeOK
<1>5. ASSUME NEW key \in Keys \cup {Nothing}, BindResponseAffinity(r, key)
      PROVE  SchedulerTypeOK'
  <2>1. lease' \in [Requests -> Lease \cup {NoLease}]
    BY <1>2, <1>3, <1>5 DEF BindResponseAffinity
  <2>2. affinity' \in [Keys -> PoolCandidates \cup {Nothing}]
    BY <1>2, <1>5 DEF BindResponseAffinity, SchedulerTypeOK
  <2>3. QED
    BY <1>5, <2>1, <2>2 DEF BindResponseAffinity, SchedulerTypeOK
<1>6. CASE RecordFailure(r)
  <2>1. lease' \in [Requests -> Lease \cup {NoLease}]
    BY <1>2, <1>3, <1>6 DEF RecordFailure
  <2>2. cand' \in [PoolCandidates -> Candidate]
    <3>1. CASE cand[c].present /\ cand[c].failures < CooldownAfter
      <4>1. cand[c].failures + 1 \in 0..CooldownAfter
        BY <1>2, <3>1, SchedulerAssumption DEF Candidate
      <4>2. cand' = [cand EXCEPT ![c].failures = cand[c].failures + 1]
        BY <1>6, <3>1 DEF RecordFailure
      <4>3. QED
        BY <1>2, <4>1, <4>2, ZenonT(40) DEF SchedulerTypeOK, Candidate
    <3>2. CASE ~(cand[c].present /\ cand[c].failures < CooldownAfter)
      BY <1>6, <3>2 DEF RecordFailure, SchedulerTypeOK
    <3>3. QED
      BY <3>1, <3>2
  <2>3. QED
    BY <1>6, <2>1, <2>2 DEF RecordFailure, SchedulerTypeOK
<1>7. ASSUME NEW scope \in {"*", lease[r].model}, NEW until \in poolNow + 1 .. PoolMaxTime + 1,
             NEW reason \in Reasons, SetCooldown(r, scope, until, reason)
      PROVE  SchedulerTypeOK'
  <2>1. lease' \in [Requests -> Lease \cup {NoLease}]
    BY <1>2, <1>3, <1>7, Zenon DEF SetCooldown
  <2>2. scope \in Scopes /\ until \in 0..PoolMaxTime + 1
    BY <1>2, SchedulerAssumption DEF Scopes, SchedulerTypeOK
  <2>3. cand' \in [PoolCandidates -> Candidate] /\ half_open' \subseteq half_open
    <3>1. CASE UNCHANGED <<cand, half_open>>
      BY <3>1, SMTT(30) DEF SchedulerTypeOK
    <3>2. CASE ~UNCHANGED <<cand, half_open>>
      <4>1. PICK u \in 0..PoolMaxTime + 1 :
              cand' = [cand EXCEPT ![c].cooldowns[scope] = u]
        BY <1>2, <1>7, <2>2, <3>2, Zenon DEF SetCooldown, Candidate
      <4>2. cand' \in [PoolCandidates -> Candidate]
        BY <1>2, <2>2, <4>1, Zenon DEF SchedulerTypeOK, Candidate
      <4>3. QED
        BY <1>7, <3>2, <4>2, ZenonT(40) DEF SetCooldown
    <3>3. QED
      BY <3>1, <3>2
  <2>4. QED
    BY <1>7, <2>1, <2>3, Zenon DEF SetCooldown, SchedulerTypeOK
<1>8. QED
  BY <1>4, <1>5, <1>6, <1>7

\* And the release of its lease.
LEMMA ReleaseTypes ==
    ASSUME SchedulerTypeOK, NEW r \in Requests, Release(r)
    PROVE  SchedulerTypeOK'
<1>1. lease[r] \in Lease /\ lease[r].held
  BY LeaseTypes DEF Release, Releasable
<1>2. /\ lease[r].c \in PoolCandidates /\ lease[r].lane \in Lanes /\ lease[r].model \in Models
      /\ lease \in [Requests -> Lease \cup {NoLease}]
  BY <1>1 DEF Lease, SchedulerTypeOK
<1>3. lease' \in [Requests -> Lease \cup {NoLease}]
  <2>1. [lease[r] EXCEPT !.held = FALSE] \in Lease
    BY <1>1, Zenon DEF Lease
  <2>2. QED
    BY <1>2, <2>1, Zenon DEF Release
<1>4. CASE RemoveNow(lease[r].c)
  BY <1>2, <1>3, <1>4, RemoveNowTypes DEF Release, SchedulerTypeOK
<1>5. CASE ~RemoveNow(lease[r].c)
  <2>1. in_flight' \in [PoolCandidates \X Lanes -> Nat]
    <3>1. <<lease[r].c, lease[r].lane>> \in PoolCandidates \X Lanes
      BY <1>2
    <3>2. PICK n : in_flight' = [in_flight EXCEPT ![<<lease[r].c, lease[r].lane>>] = n]
                   /\ n = IF in_flight[<<lease[r].c, lease[r].lane>>] = 0 THEN 0
                          ELSE in_flight[<<lease[r].c, lease[r].lane>>] - 1
      BY <1>5 DEF Release
    <3>3. in_flight[<<lease[r].c, lease[r].lane>>] \in Nat
      BY <3>1 DEF SchedulerTypeOK
    <3>4. n \in Nat
      BY <3>2, <3>3
    <3>5. QED
      BY <3>1, <3>2, <3>4 DEF SchedulerTypeOK
  <2>2. active_models' \in [PoolCandidates \X Lanes \X Models -> Nat]
    <3>1. <<lease[r].c, lease[r].lane, lease[r].model>> \in PoolCandidates \X Lanes \X Models
      BY <1>2
    <3>2. PICK n :
            /\ active_models' =
                 [active_models EXCEPT ![<<lease[r].c, lease[r].lane, lease[r].model>>] = n]
            /\ n = IF active_models[<<lease[r].c, lease[r].lane, lease[r].model>>] = 0 THEN 0
                   ELSE active_models[<<lease[r].c, lease[r].lane, lease[r].model>>] - 1
      BY <1>5 DEF Release
    <3>3. active_models[<<lease[r].c, lease[r].lane, lease[r].model>>] \in Nat
      BY <3>1 DEF SchedulerTypeOK
    <3>4. n \in Nat
      BY <3>2, <3>3
    <3>5. QED
      BY <3>1, <3>2, <3>4 DEF SchedulerTypeOK
  <2>3. QED
    BY <1>3, <1>5, <2>1, <2>2 DEF Release, SchedulerTypeOK
<1>6. QED
  BY <1>4, <1>5

\* Every step keeps the types.
LEMMA NextSchedulerTypeOK == SchedulerTypeOK /\ [PoolNext]_schedVars => SchedulerTypeOK'
<1> SUFFICES ASSUME SchedulerTypeOK, [PoolNext]_schedVars PROVE SchedulerTypeOK'
  OBVIOUS
<1>1. ASSUME NEW r \in Requests, RequestStep(r)
      PROVE  SchedulerTypeOK'
  BY <1>1, SelectTypes, SettlingTypes, ReleaseTypes DEF RequestStep
<1>2. ASSUME NEW c \in PoolCandidates, AdminStep(c)
      PROVE  SchedulerTypeOK'
  BY <1>2, AdminTypes
<1>3. ASSUME NEW g \in Guards, Unfence(g)
      PROVE  SchedulerTypeOK'
  <2>1. fences' \in [PoolCandidates -> Nat]
    BY <1>3 DEF Unfence, SchedulerTypeOK
  <2>2. QED
    BY <1>3, <2>1 DEF Unfence, SchedulerTypeOK
<1>4. ASSUME NEW key \in Keys, Forget(key)
      PROVE  SchedulerTypeOK'
  BY <1>4 DEF Forget, SchedulerTypeOK
<1>5. CASE PoolTick
  <2>1. poolNow' \in 1..PoolMaxTime
    BY <1>5, SchedulerAssumption DEF PoolTick, SchedulerTypeOK
  <2>2. QED
    BY <1>5, <2>1 DEF PoolTick, poolVars, SchedulerTypeOK
<1>6. CASE UNCHANGED schedVars
  BY <1>6 DEF schedVars, SchedulerTypeOK
<1>7. QED
  BY <1>1, <1>2, <1>3, <1>4, <1>5, <1>6 DEF PoolNext

-----------------------------------------------------------------------------
\* The sets that are counted are finite, and those of a lane make up the lane.
LEMMA HeldSets ==
    ASSUME SchedulerTypeOK
    PROVE  /\ \A c, lane, m : IsFiniteSet(HeldOn(c, lane, m))
           /\ \A c, lane : IsFiniteSet(HeldIn(c, lane))
           /\ \A c, lane : UNION {HeldOn(c, lane, m) : m \in Models} = HeldIn(c, lane)
<1>1. \A c, lane, m : HeldOn(c, lane, m) \in SUBSET Requests
  BY DEF HeldOn
<1>2. \A c, lane : HeldIn(c, lane) \in SUBSET Requests
  BY DEF HeldIn
<1>3. \A r \in Requests : lease[r].held => lease[r].model \in Models
  BY LeaseTypes DEF Lease
<1>4. ASSUME NEW c, NEW lane
      PROVE  UNION {HeldOn(c, lane, m) : m \in Models} = HeldIn(c, lane)
  BY <1>3 DEF HeldOn, HeldIn
<1>5. QED
  BY <1>1, <1>2, <1>4, SchedulerAssumption, FS_Subset

\* The leases stay as they are: no request takes, releases or changes one.
LeasesStay ==
    \A r \in Requests :
        /\ lease'[r].held = lease[r].held
        /\ lease[r].held => /\ lease'[r].c = lease[r].c /\ lease'[r].lane = lease[r].lane
                            /\ lease'[r].model = lease[r].model

\* Then so do the sets that are counted.
LEMMA LeasesStaySets ==
    ASSUME LeasesStay
    PROVE  /\ \A c, lane, m : HeldOn(c, lane, m)' = HeldOn(c, lane, m)
           /\ \A c, lane : HeldIn(c, lane)' = HeldIn(c, lane)
BY DEF LeasesStay, HeldOn, HeldIn

\* The counters, with the lane's set written directly.
Counted ==
    \A c \in PoolCandidates, lane \in Lanes :
        /\ \A m \in Models : active_models[<<c, lane, m>>] = Cardinality(HeldOn(c, lane, m))
        /\ in_flight[<<c, lane>>] = Cardinality(HeldIn(c, lane))

\* It is the same count.
LEMMA CountedIsCountsMatch ==
    ASSUME SchedulerTypeOK
    PROVE  CountsMatchLeases <=> Counted
BY HeldSets, ZenonT(40) DEF CountsMatchLeases, Counted

\* A candidate without requests, by the counters, is one nobody holds.
LEMMA IdleIsUnheld ==
    ASSUME SchedulerTypeOK, Counted, NEW c \in PoolCandidates
    PROVE  HasRequests(active_models, c) <=> \E r \in Requests : lease[r].held /\ lease[r].c = c
<1>1. \A lane \in Lanes, m \in Models :
         active_models[<<c, lane, m>>] > 0 <=> HeldOn(c, lane, m) # {}
  <2>1. SUFFICES ASSUME NEW lane \in Lanes, NEW m \in Models
                 PROVE  active_models[<<c, lane, m>>] > 0 <=> HeldOn(c, lane, m) # {}
    OBVIOUS
  <2>2. /\ Cardinality(HeldOn(c, lane, m)) \in Nat
        /\ Cardinality(HeldOn(c, lane, m)) = 0 <=> HeldOn(c, lane, m) = {}
    BY HeldSets, FS_EmptySet, FS_CardinalityType
  <2>3. active_models[<<c, lane, m>>] = Cardinality(HeldOn(c, lane, m))
    BY Zenon DEF Counted
  <2>4. QED
    BY <2>2, <2>3
<1>2. HasRequests(active_models, c) <=>
         \E lane \in Lanes, m \in Models : HeldOn(c, lane, m) # {}
  BY <1>1, Zenon DEF HasRequests
<1>3. \A r \in Requests : lease[r].held => lease[r].lane \in Lanes /\ lease[r].model \in Models
  BY LeaseTypes DEF Lease
<1>4. QED
  BY <1>2, <1>3 DEF HeldOn

\* The lane limit, in terms of the counter that enforces it.
OneImage == \A c \in PoolAccounts, lane \in Lanes : lane = "Image" => in_flight[<<c, lane>>] <= 1

\* The inductive invariant.
Books ==
    /\ SchedulerTypeOK /\ Counted /\ OneImage /\ TombstoneIsHeld /\ OwnerIsPresent
    /\ FencesMatchGuards /\ HalfOpenIsHeld

\* It holds the promises about the leases.
LEMMA BooksAreExact == Books => LeasesAreExact /\ HalfOpenIsHeld
<1> SUFFICES ASSUME Books PROVE LeasesAreExact /\ HalfOpenIsHeld
  OBVIOUS
<1>1. SchedulerTypeOK /\ Counted
  BY DEF Books
<1>2. CountsMatchLeases
  BY <1>1, CountedIsCountsMatch
<1>3. OneImagePerAccount
  <2>1. SUFFICES ASSUME NEW c \in PoolAccounts
                 PROVE  Cardinality(HeldIn(c, "Image")) <= 1
    BY <1>1, HeldSets, Zenon DEF OneImagePerAccount
  <2>2. c \in PoolCandidates
    BY SchedulerAssumption
  <2>3. CASE "Image" \in Lanes
    BY <1>1, <2>2, <2>3, Zenon DEF Books, OneImage, Counted
  <2>4. CASE "Image" \notin Lanes
    <3>1. HeldIn(c, "Image") = {}
      BY <1>1, <2>4, LeaseTypes DEF HeldIn, Lease
    <3>2. QED
      BY <3>1, FS_EmptySet
  <2>5. QED
    BY <2>3, <2>4
<1>4. QED
  BY <1>2, <1>3 DEF Books, LeasesAreExact

-----------------------------------------------------------------------------
\* A call that touches no lease and no counter, and forgets no candidate, keeps
\* the books if it retires only a candidate that has requests, closes no scope
\* and binds only to a candidate that is there.
LEMMA QuietStep ==
    ASSUME Books, SchedulerTypeOK', LeasesStay, UNCHANGED <<in_flight, active_models>>,
           \A c \in PoolCandidates : cand'[c].present = cand[c].present,
           \A c \in retired' : c \in retired \/ (cand[c].present /\ HasRequests(active_models, c)),
           half_open' \subseteq half_open,
           \A k \in Keys : affinity'[k] # Nothing =>
               affinity'[k] = affinity[k] \/ cand[affinity'[k]].present,
           FencesMatchGuards'
    PROVE  Books'
<1>1. SchedulerTypeOK /\ Counted
  BY DEF Books
<1>2. Counted'
  <2>1. \A c \in PoolCandidates, lane \in Lanes :
          /\ \A m \in Models : HeldOn(c, lane, m)' = HeldOn(c, lane, m)
          /\ HeldIn(c, lane)' = HeldIn(c, lane)
    BY LeasesStaySets
  <2>2. QED
    BY <1>1, <2>1, Zenon DEF Counted
<1>3. OneImage'
  BY DEF Books, OneImage
<1>4. \A r \in Requests : lease[r].held => lease[r].c \in PoolCandidates
  BY <1>1, LeaseTypes DEF Lease
<1>5. TombstoneIsHeld'
  <2>1. ASSUME NEW c \in retired'
        PROVE  cand'[c].present /\ \E r \in Requests : lease'[r].held /\ lease'[r].c = c
    <3>1. c \in PoolCandidates
      BY DEF SchedulerTypeOK
    <3>2. cand[c].present /\ \E r \in Requests : lease[r].held /\ lease[r].c = c
      BY <1>1, <3>1, IdleIsUnheld DEF Books, TombstoneIsHeld
    <3>3. QED
      BY <3>1, <3>2 DEF LeasesStay
  <2>2. ASSUME NEW r \in Requests, lease'[r].held
        PROVE  cand'[lease'[r].c].present
    BY <1>4, <2>2 DEF Books, TombstoneIsHeld, LeasesStay
  <2>3. QED
    BY <2>1, <2>2 DEF TombstoneIsHeld
<1>6. OwnerIsPresent'
  <2>1. SUFFICES ASSUME NEW k \in Keys, affinity'[k] # Nothing
                 PROVE  cand'[affinity'[k]].present
    BY DEF OwnerIsPresent
  <2>2. affinity'[k] \in PoolCandidates
    BY <2>1 DEF SchedulerTypeOK
  <2>3. QED
    BY <2>1, <2>2 DEF Books, OwnerIsPresent
<1>7. HalfOpenIsHeld'
  <2>1. SUFFICES ASSUME NEW h \in half_open
                 PROVE  \E r \in Requests : /\ lease'[r].held /\ lease'[r].c = h[1]
                                            /\ h[2] \in {"*", lease'[r].model}
    BY DEF HalfOpenIsHeld
  <2>2. PICK r \in Requests :
          lease[r].held /\ lease[r].c = h[1] /\ h[2] \in {"*", lease[r].model}
    BY DEF Books, HalfOpenIsHeld
  <2>3. QED
    BY <2>2 DEF LeasesStay
<1>8. QED
  BY <1>2, <1>3, <1>5, <1>6, <1>7 DEF Books

\* Calls that leave every lease alone.
LEMMA UnchangedLeasesStay ==
    ASSUME UNCHANGED lease
    PROVE  LeasesStay
BY DEF LeasesStay

\* The outcomes a request records keep what it holds.
LEMMA SettlingLeasesStay ==
    ASSUME SchedulerTypeOK, NEW r \in Requests, lease[r].stage # "Idle",
           \/ \E stage \in {"Succeeded", "Failed"} : lease' = [lease EXCEPT ![r].stage = stage]
           \/ lease' = [lease EXCEPT ![r] = SettleLease(lease[r])]
    PROVE  LeasesStay
<1>1. lease[r] \in Lease /\ lease \in [Requests -> Lease \cup {NoLease}]
  BY LeaseTypes DEF SchedulerTypeOK
<1>2. \A q \in Requests \ {r} : lease'[q] = lease[q]
  BY <1>1
<1>3. /\ lease'[r].held = lease[r].held
      /\ lease[r].held => /\ lease'[r].c = lease[r].c /\ lease'[r].lane = lease[r].lane
                          /\ lease'[r].model = lease[r].model
  <2>1. CASE lease' = [lease EXCEPT ![r] = SettleLease(lease[r])]
    BY <1>1, <2>1, SettleTypes
  <2>2. ASSUME NEW stage \in {"Succeeded", "Failed"}, lease' = [lease EXCEPT ![r].stage = stage]
        PROVE  /\ lease'[r].held = lease[r].held
               /\ lease'[r].c = lease[r].c /\ lease'[r].lane = lease[r].lane
               /\ lease'[r].model = lease[r].model
    BY <1>1, <2>2 DEF Lease
  <2>3. QED
    BY <2>1, <2>2
<1>4. QED
  BY <1>2, <1>3 DEF LeasesStay

\* The outcomes of a request keep the books.
LEMMA SettlingKeepsBooks ==
    ASSUME Books, NEW r \in Requests,
           \/ \E healed \in BOOLEAN : RecordSuccess(r, healed)
           \/ \E key \in Keys \cup {Nothing} : BindResponseAffinity(r, key)
           \/ RecordFailure(r)
           \/ \E scope \in {"*", lease[r].model}, until \in poolNow + 1 .. PoolMaxTime + 1,
                 reason \in Reasons : SetCooldown(r, scope, until, reason)
    PROVE  Books'
<1>1. SchedulerTypeOK /\ SchedulerTypeOK'
  BY SettlingTypes, SMTT(30) DEF Books
<1>2. lease[r].stage # "Idle"
  BY ZenonT(40) DEF RecordSuccess, BindResponseAffinity, RecordFailure, SetCooldown
<1>3. LeasesStay
  BY <1>1, <1>2, SettlingLeasesStay, ZenonT(40)
     DEF RecordSuccess, BindResponseAffinity, RecordFailure, SetCooldown
<1>4. UNCHANGED <<in_flight, active_models, retired, fences, guard>>
  BY ZenonT(40) DEF RecordSuccess, BindResponseAffinity, RecordFailure, SetCooldown
<1>5. half_open' \subseteq half_open
  BY Zenon DEF RecordSuccess, BindResponseAffinity, RecordFailure, SetCooldown
<1>6. \A c \in PoolCandidates : cand'[c].present = cand[c].present
  <2>1. SUFFICES ASSUME NEW c \in PoolCandidates
                 PROVE  cand'[c].present = cand[c].present
    OBVIOUS
  <2>2. cand \in [PoolCandidates -> Candidate]
    BY <1>1 DEF SchedulerTypeOK
  <2>3. cand[c] \in Candidate
    BY <2>2
  <2>4. CASE RecordFailure(r)
    BY <2>2, <2>3, <2>4 DEF RecordFailure, Candidate
  <2>5. ASSUME NEW healed \in BOOLEAN, RecordSuccess(r, healed)
        PROVE  cand'[c].present = cand[c].present
    <3> DEFINE d == lease[r].c
               kept == CooldownsKept(d, lease[r].model)
               recovered == \A s \in Scopes : kept[s] <= poolNow
    <3>1. \/ UNCHANGED cand
          \/ cand' = [cand EXCEPT ![d].cooldowns = kept,
                                  ![d].usable = cand[d].usable \/ (recovered /\ healed),
                                  ![d].failures = IF recovered THEN 0 ELSE cand[d].failures]
      BY <2>5, Zenon DEF RecordSuccess
    <3>2. CASE UNCHANGED cand
      BY <3>2
    <3>3. CASE ~UNCHANGED cand
      <4>1. (cand[d].usable \/ (recovered /\ healed)) \in BOOLEAN
        BY SMTT(30)
      <4>2. PICK u \in BOOLEAN :
              \E f : cand' = [cand EXCEPT ![d].cooldowns = kept, ![d].usable = u, ![d].failures = f]
        <5> HIDE DEF kept, recovered, d
        <5>1. QED
          BY <3>1, <3>3, <4>1, Zenon
      <4> HIDE DEF kept
      <4>3. QED
        BY <2>2, <2>3, <4>2 DEF Candidate
    <3>4. QED
      BY <3>2, <3>3, SMTT(30)
  <2>6. ASSUME NEW scope, NEW until, NEW reason, SetCooldown(r, scope, until, reason)
        PROVE  cand'[c].present = cand[c].present
    <3>1. PICK d, u : UNCHANGED cand \/ cand' = [cand EXCEPT ![d].cooldowns[scope] = u]
      BY <2>6, ZenonT(40) DEF SetCooldown
    <3>2. QED
      BY <2>2, <2>3, <3>1, SMTT(30) DEF Candidate
  <2>7. ASSUME NEW key, BindResponseAffinity(r, key)
        PROVE  cand'[c].present = cand[c].present
    BY <2>7 DEF BindResponseAffinity
  <2>8. QED
    BY <2>4, <2>5, <2>6, <2>7
<1>7. \A k \in Keys : affinity'[k] # Nothing =>
         affinity'[k] = affinity[k] \/ cand[affinity'[k]].present
  BY <1>1, Zenon DEF RecordSuccess, BindResponseAffinity, RecordFailure, SetCooldown, SchedulerTypeOK
<1>8. FencesMatchGuards'
  BY <1>4, <1>6, SMTT(30) DEF Books, FencesMatchGuards
<1>9. QED
  BY <1>1, <1>3, <1>4, <1>5, <1>6, <1>7, <1>8, QuietStep

\* The administrative calls that remove nobody keep the books.
LEMMA AdminKeepsBooks ==
    ASSUME Books, NEW c \in PoolCandidates, SchedulerTypeOK',
           \/ \E p \in Policies : UpdatePolicy(c, p[1], p[2])
           \/ \E p \in Availabilities : UpdateAvailability(c, p[1], p[2])
           \/ \E m \in Models : BlockCapability(c, m)
           \/ ClearCapabilityBlocks(c)
    PROVE  Books'
<1>1. LeasesStay
  BY UnchangedLeasesStay, Zenon
     DEF UpdatePolicy, UpdateAvailability, BlockCapability, ClearCapabilityBlocks
<1>2. /\ UNCHANGED <<in_flight, active_models, half_open, affinity, fences, guard>>
      /\ retired' \subseteq retired
  BY Zenon DEF UpdatePolicy, UpdateAvailability, BlockCapability, ClearCapabilityBlocks
<1>3. \A d \in PoolCandidates : cand'[d].present = cand[d].present
  <2>1. SUFFICES ASSUME NEW d \in PoolCandidates
                 PROVE  cand'[d].present = cand[d].present
    OBVIOUS
  <2>2. cand \in [PoolCandidates -> Candidate] /\ cand[d] \in Candidate
    BY SMTT(30) DEF Books, SchedulerTypeOK
  <2>3. ASSUME NEW x, NEW y, UpdatePolicy(c, x, y)
        PROVE  cand'[d].present = cand[d].present
    BY <2>2, <2>3, ZenonT(40) DEF UpdatePolicy, Candidate
  <2>4. ASSUME NEW x, NEW y, UpdateAvailability(c, x, y)
        PROVE  cand'[d].present = cand[d].present
    BY <2>2, <2>4, Zenon DEF UpdateAvailability, Candidate
  <2>5. QED
    BY <2>3, <2>4 DEF BlockCapability, ClearCapabilityBlocks
<1>4. FencesMatchGuards'
  BY <1>2, <1>3, ZenonT(30) DEF Books, FencesMatchGuards
<1>5. QED
  BY <1>1, <1>2, <1>3, <1>4, QuietStep

\* So do the loss of a binding and the passing of time.
LEMMA TimeKeepsBooks ==
    ASSUME Books, SchedulerTypeOK', (\E key \in Keys : Forget(key)) \/ PoolTick
    PROVE  Books'
<1>1. LeasesStay
  BY UnchangedLeasesStay DEF Forget, PoolTick
<1>2. UNCHANGED <<cand, retired, half_open, in_flight, active_models, fences, guard>>
  BY DEF Forget, PoolTick, poolVars
<1>3. \A k \in Keys : affinity'[k] # Nothing => affinity'[k] = affinity[k]
  BY DEF Forget, PoolTick, poolVars, Books, SchedulerTypeOK
<1>4. FencesMatchGuards'
  BY <1>2 DEF Books, FencesMatchGuards
<1>5. QED
  BY <1>1, <1>2, <1>3, <1>4, QuietStep

\* A fence is counted when its guard is made, and again when it is dropped.
LEMMA FenceKeepsBooks ==
    ASSUME Books, SchedulerTypeOK', NEW g \in Guards,
           (\E c \in PoolCandidates : Fence(g, c)) \/ Unfence(g)
    PROVE  Books'
<1> DEFINE G(d) == {x \in Guards : guard[x] = d}
<1>1. /\ UNCHANGED <<cand, retired, half_open, in_flight, active_models, affinity, lease>>
      /\ LeasesStay
  BY UnchangedLeasesStay DEF Fence, Unfence
<1>2. /\ guard \in [Guards -> PoolCandidates \cup {Nothing}]
      /\ fences \in [PoolCandidates -> Nat]
      /\ Nothing \notin PoolCandidates
  BY SchedulerAssumption DEF Books, SchedulerTypeOK, Nothing
<1>3. \A d : IsFiniteSet(G(d))
  <2>1. \A d : G(d) \subseteq Guards
    OBVIOUS
  <2>2. QED
    BY <2>1, FS_Subset, SchedulerAssumption
<1>4. FencesMatchGuards'
  <2>1. SUFFICES ASSUME NEW d \in PoolCandidates, cand[d].present
                 PROVE  fences'[d] = Cardinality({x \in Guards : guard'[x] = d})
    BY <1>1 DEF FencesMatchGuards
  <2>2. fences[d] = Cardinality(G(d)) /\ fences[d] \in Nat
    BY <1>2, <2>1 DEF Books, FencesMatchGuards
  <2>3. ASSUME NEW c \in PoolCandidates, Fence(g, c)
        PROVE  fences'[d] = Cardinality({x \in Guards : guard'[x] = d})
    <3>1. guard[g] = Nothing /\ guard' = [guard EXCEPT ![g] = c]
          /\ fences' = [fences EXCEPT ![c] = fences[c] + 1]
      BY <2>3 DEF Fence
    <3>2. CASE d = c
      <4>1. {x \in Guards : guard'[x] = d} = G(d) \cup {g} /\ g \notin G(d)
        BY <1>2, <3>1, <3>2
      <4>2. PICK S : S = G(d) /\ IsFiniteSet(S) /\ g \notin S
        BY <1>3, <4>1, Zenon
      <4>3. Cardinality(S \cup {g}) = Cardinality(S) + 1
        BY <4>2, FS_AddElement
      <4>4. QED
        BY <1>2, <2>2, <3>1, <3>2, <4>1, <4>2, <4>3, Zenon
    <3>3. CASE d # c
      <4>1. {x \in Guards : guard'[x] = d} = G(d)
        BY <1>2, <3>1, <3>3
      <4>2. QED
        BY <1>2, <2>2, <3>1, <3>3, <4>1
    <3>4. QED
      BY <3>2, <3>3
  <2>4. CASE Unfence(g)
    <3>1. guard[g] \in PoolCandidates /\ guard' = [guard EXCEPT ![g] = Nothing]
      BY <1>2, <2>4 DEF Unfence
    <3>2. CASE d = guard[g]
      <4>1. {x \in Guards : guard'[x] = d} = G(d) \ {g} /\ g \in G(d)
        BY <1>2, <3>1, <3>2
      <4>2. Cardinality(G(d) \ {g}) = Cardinality(G(d)) - 1
        <5>1. PICK S : S = G(d) /\ IsFiniteSet(S) /\ g \in S
          BY <1>3, <4>1, Zenon
        <5>2. Cardinality(S \ {g}) = Cardinality(S) - 1
          BY <5>1, FS_RemoveElement, Zenon
        <5>3. QED
          BY <5>1, <5>2
      <4>3. Cardinality(G(d)) > 0
        <5>1. IsFiniteSet(G(d) \ {g})
          BY <1>3, FS_Subset, Zenon
        <5>2. Cardinality(G(d) \ {g}) \in Nat
          BY <5>1, FS_CardinalityType
        <5>3. QED
          BY <2>2, <4>2, <5>2
      <4>4. fences'[d] = fences[d] - 1
        BY <1>2, <2>1, <2>2, <2>4, <3>2, <4>3 DEF Unfence
      <4>5. QED
        BY <2>2, <4>1, <4>2, <4>4, Zenon
    <3>3. CASE d # guard[g]
      <4>1. {x \in Guards : guard'[x] = d} = G(d)
        BY <1>2, <3>1, <3>3
      <4>2. fences'[d] = fences[d]
        BY <1>2, <2>4, <3>1, <3>3 DEF Unfence
      <4>3. QED
        BY <2>2, <4>1, <4>2
    <3>4. QED
      BY <3>2, <3>3
  <2>5. QED
    BY <2>3, <2>4
<1>5. QED
  BY <1>1, <1>4, QuietStep

-----------------------------------------------------------------------------
\* What a step does to the leases: those of c end, the others stay.
LeasesEnd(c) ==
    \A r \in Requests :
        /\ lease'[r].held <=> lease[r].held /\ lease[r].c # c
        /\ lease'[r].held => /\ lease'[r].c = lease[r].c /\ lease'[r].lane = lease[r].lane
                             /\ lease'[r].model = lease[r].model

\* A candidate that is forgotten together with its last lease leaves the books in
\* order.
LEMMA RemovedBooks ==
    ASSUME Books, SchedulerTypeOK', NEW c \in PoolCandidates, RemoveNow(c), LeasesEnd(c),
           UNCHANGED guard
    PROVE  Books'
<1>1. SchedulerTypeOK /\ Counted
  BY DEF Books
<1>2. \A d, lane, m : HeldOn(d, lane, m)' = IF d = c THEN {} ELSE HeldOn(d, lane, m)
  BY DEF LeasesEnd, HeldOn
<1>3. \A d, lane : HeldIn(d, lane)' = IF d = c THEN {} ELSE HeldIn(d, lane)
  BY DEF LeasesEnd, HeldIn
<1>4. Counted'
  <2>1. SUFFICES ASSUME NEW d \in PoolCandidates, NEW lane \in Lanes
                 PROVE  /\ \A m \in Models :
                             active_models'[<<d, lane, m>>] = Cardinality(HeldOn(d, lane, m)')
                        /\ in_flight'[<<d, lane>>] = Cardinality(HeldIn(d, lane)')
    BY Zenon DEF Counted
  <2>2. in_flight'[<<d, lane>>] = IF d = c THEN 0 ELSE in_flight[<<d, lane>>]
    BY <1>1 DEF RemoveNow, SchedulerTypeOK
  <2>3. \A m \in Models :
          active_models'[<<d, lane, m>>] = IF d = c THEN 0 ELSE active_models[<<d, lane, m>>]
    BY <1>1, SMTT(30) DEF RemoveNow, SchedulerTypeOK
  <2>4. CASE d = c
    BY <1>2, <1>3, <2>2, <2>3, <2>4, FS_EmptySet, SMTT(30)
  <2>5. CASE d # c
    BY <1>1, <1>2, <1>3, <2>2, <2>3, <2>5 DEF Counted
  <2>6. QED
    BY <2>4, <2>5
<1>5. OneImage'
  <2>1. SUFFICES ASSUME NEW d \in PoolAccounts, NEW lane \in Lanes, lane = "Image"
                 PROVE  in_flight'[<<d, lane>>] <= 1
    BY DEF OneImage
  <2>2. d \in PoolCandidates
    BY SchedulerAssumption
  <2>3. in_flight'[<<d, lane>>] = IF d = c THEN 0 ELSE in_flight[<<d, lane>>]
    BY <1>1, <2>2 DEF RemoveNow, SchedulerTypeOK
  <2>4. QED
    BY <2>1, <2>3 DEF Books, OneImage
<1>6. \A d \in PoolCandidates \ {c} : cand'[d] = cand[d]
  BY <1>1 DEF RemoveNow, SchedulerTypeOK
<1>7. ~cand'[c].present
  BY <1>1, NewCandidateType DEF RemoveNow, SchedulerTypeOK, NoCandidateRecord, Candidate
<1>8. \A r \in Requests : lease[r].held => lease[r].c \in PoolCandidates
  BY <1>1, LeaseTypes, SMTT(30) DEF Lease
<1>9. TombstoneIsHeld'
  <2>1. ASSUME NEW d \in retired'
        PROVE  cand'[d].present /\ \E r \in Requests : lease'[r].held /\ lease'[r].c = d
    <3>1. d \in retired /\ d # c /\ d \in PoolCandidates
      BY <1>1 DEF RemoveNow, SchedulerTypeOK
    <3>2. cand[d].present /\ \E r \in Requests : lease[r].held /\ lease[r].c = d
      BY <3>1, SMTT(30) DEF Books, TombstoneIsHeld
    <3>3. QED
      BY <1>6, <3>1, <3>2, SMTT(30) DEF LeasesEnd
  <2>2. ASSUME NEW r \in Requests, lease'[r].held
        PROVE  cand'[lease'[r].c].present
    BY <1>6, <1>8, <2>2 DEF Books, TombstoneIsHeld, LeasesEnd
  <2>3. QED
    BY <2>1, <2>2 DEF TombstoneIsHeld
<1>10. OwnerIsPresent'
  <2>1. SUFFICES ASSUME NEW k \in Keys, affinity'[k] # Nothing
                 PROVE  cand'[affinity'[k]].present
    BY DEF OwnerIsPresent
  <2>2. affinity'[k] = affinity[k] /\ affinity[k] # c
    BY <2>1 DEF RemoveNow
  <2>3. affinity[k] \in PoolCandidates
    BY <1>1, <2>1, <2>2, SMTT(30) DEF SchedulerTypeOK
  <2>4. QED
    BY <1>6, <2>1, <2>2, <2>3 DEF Books, OwnerIsPresent
<1>11. FencesMatchGuards'
  <2>1. SUFFICES ASSUME NEW d \in PoolCandidates, cand'[d].present
                 PROVE  fences'[d] = Cardinality({g \in Guards : guard'[g] = d})
    BY DEF FencesMatchGuards
  <2>2. d # c /\ cand[d].present
    BY <1>6, <1>7, <2>1
  <2>3. fences'[d] = fences[d]
    BY <1>1, <2>2 DEF RemoveNow, SchedulerTypeOK
  <2>4. QED
    BY <2>2, <2>3 DEF Books, FencesMatchGuards
<1>12. HalfOpenIsHeld'
  <2>1. SUFFICES ASSUME NEW h \in half_open'
                 PROVE  \E r \in Requests : /\ lease'[r].held /\ lease'[r].c = h[1]
                                            /\ h[2] \in {"*", lease'[r].model}
    BY DEF HalfOpenIsHeld
  <2>2. h \in half_open /\ h[1] # c
    BY <2>1, SMTT(30) DEF RemoveNow
  <2>3. PICK r \in Requests :
          lease[r].held /\ lease[r].c = h[1] /\ h[2] \in {"*", lease[r].model}
    BY <2>2 DEF Books, HalfOpenIsHeld
  <2>4. QED
    BY <2>2, <2>3 DEF LeasesEnd
<1>13. QED
  BY <1>4, <1>5, <1>9, <1>10, <1>11, <1>12 DEF Books

\* Removing a candidate keeps the books, whether it is forgotten or retired.
LEMMA RemoveKeepsBooks ==
    ASSUME Books, SchedulerTypeOK', NEW c \in PoolCandidates, RemoveCandidate(c)
    PROVE  Books'
<1>1. /\ SchedulerTypeOK /\ Counted
      /\ UNCHANGED <<lease, guard>>
  BY DEF Books, RemoveCandidate
<1>2. CASE ~HasRequests(active_models, c)
  <2>1. RemoveNow(c)
    BY <1>2 DEF RemoveCandidate
  <2>2. LeasesEnd(c)
    <3>1. \A r \in Requests : ~(lease[r].held /\ lease[r].c = c)
      BY <1>1, <1>2, IdleIsUnheld
    <3>2. \A r \in Requests : lease[r].held \in BOOLEAN
      BY <1>1, LeaseTypes
    <3>3. QED
      BY <1>1, <3>1, <3>2 DEF LeasesEnd
  <2>3. QED
    BY <1>1, <2>1, <2>2, RemovedBooks
<1>3. CASE HasRequests(active_models, c)
  <2>1. /\ cand[c].present
        /\ cand' = [cand EXCEPT ![c].enabled = FALSE, ![c].draining = TRUE]
        /\ retired' = retired \cup {c}
        /\ affinity' = [k \in Keys |-> IF affinity[k] = c THEN Nothing ELSE affinity[k]]
        /\ UNCHANGED <<half_open, in_flight, active_models, fences, blocks>>
    BY <1>3, Zenon DEF RemoveCandidate
  <2>2. \A d \in PoolCandidates : cand'[d].present = cand[d].present
    <3>1. SUFFICES ASSUME NEW d \in PoolCandidates
                   PROVE  cand'[d].present = cand[d].present
      OBVIOUS
    <3>2. cand \in [PoolCandidates -> Candidate] /\ cand[d] \in Candidate
      BY <1>1 DEF SchedulerTypeOK
    <3>3. QED
      BY <2>1, <3>2 DEF Candidate
  <2>3. FencesMatchGuards'
    BY <1>1, <2>1, <2>2 DEF Books, FencesMatchGuards
  <2>4. LeasesStay
    BY <1>1, UnchangedLeasesStay
  <2>5. \A d \in retired' : d \in retired \/ (cand[d].present /\ HasRequests(active_models, d))
    BY <1>3, <2>1
  <2>6. \A k \in Keys : affinity'[k] # Nothing => affinity'[k] = affinity[k]
    BY <2>1
  <2>7. QED
    BY <2>1, <2>2, <2>3, <2>4, <2>5, <2>6, QuietStep, Zenon
<1>4. QED
  BY <1>2, <1>3

-----------------------------------------------------------------------------
\* A reservation adds its request to one of the counted sets, and to the counters.
LEMMA ReserveKeepsBooks ==
    ASSUME Books, SchedulerTypeOK', NEW r \in Requests, NEW m \in Models, NEW lane \in Lanes,
           NEW key, NEW tried, SelectAndReserve(r, m, lane, key, tried)
    PROVE  Books'
<1>1. SchedulerTypeOK /\ Counted
  BY SMTT(30) DEF Books
<1>2. PICK c \in PoolCandidates :
        /\ IsEligible(c, m) /\ LaneAllows(c, lane)
        /\ half_open' = half_open \cup ProbeKey(c, m)
        /\ in_flight' = [in_flight EXCEPT ![<<c, lane>>] = in_flight[<<c, lane>>] + 1]
        /\ active_models' =
             [active_models EXCEPT ![<<c, lane, m>>] = active_models[<<c, lane, m>>] + 1]
        /\ lease' = [lease EXCEPT ![r] =
                       [stage |-> "Active", c |-> c, lane |-> lane, model |-> m,
                        held |-> TRUE]]
  BY ZenonT(40) DEF SelectAndReserve, Eligible
<1>3. UNCHANGED <<cand, retired, fences, affinity, guard>>
  BY DEF SelectAndReserve
<1>4. ~lease[r].held
  BY <1>1, LeaseTypes, Zenon DEF SelectAndReserve
<1>5. /\ lease'[r].held /\ lease'[r].c = c /\ lease'[r].lane = lane /\ lease'[r].model = m
      /\ \A q \in Requests \ {r} : lease'[q] = lease[q]
  BY <1>1, <1>2, ZenonT(40) DEF SchedulerTypeOK
<1>6. Counted'
  <2>1. SUFFICES ASSUME NEW d \in PoolCandidates, NEW l \in Lanes
                 PROVE  /\ \A n \in Models :
                             active_models'[<<d, l, n>>] = Cardinality(HeldOn(d, l, n)')
                        /\ in_flight'[<<d, l>>] = Cardinality(HeldIn(d, l)')
    BY Zenon DEF Counted
  <2>2. ASSUME NEW n \in Models
        PROVE  active_models'[<<d, l, n>>] = Cardinality(HeldOn(d, l, n)')
    <3>1. active_models[<<d, l, n>>] = Cardinality(HeldOn(d, l, n))
      BY <1>1, ZenonT(40) DEF Counted
    <3>2. CASE d = c /\ l = lane /\ n = m
      <4>1. HeldOn(d, l, n)' = HeldOn(d, l, n) \cup {r} /\ r \notin HeldOn(d, l, n)
        BY <1>4, <1>5, <3>2 DEF HeldOn
      <4>2. IsFiniteSet(HeldOn(d, l, n))
        BY <1>1, HeldSets, Zenon
      <4>3. Cardinality(HeldOn(d, l, n) \cup {r}) = Cardinality(HeldOn(d, l, n)) + 1
        BY <4>1, <4>2, FS_AddElement, ZenonT(40)
      <4>4. active_models'[<<d, l, n>>] = active_models[<<d, l, n>>] + 1
        BY <1>1, <1>2, <3>2, Zenon DEF SchedulerTypeOK
      <4>5. QED
        BY <3>1, <4>1, <4>3, <4>4, ZenonT(30)
    <3>3. CASE ~(d = c /\ l = lane /\ n = m)
      <4>1. HeldOn(d, l, n)' = HeldOn(d, l, n)
        BY <1>4, <1>5, <3>3, SMTT(30) DEF HeldOn
      <4>2. active_models'[<<d, l, n>>] = active_models[<<d, l, n>>]
        BY <1>1, <1>2, <3>3, ZenonT(40) DEF SchedulerTypeOK
      <4>3. QED
        BY <3>1, <4>1, <4>2, ZenonT(40)
    <3>4. QED
      BY <3>2, <3>3
  <2>3. in_flight'[<<d, l>>] = Cardinality(HeldIn(d, l)')
    <3>1. in_flight[<<d, l>>] = Cardinality(HeldIn(d, l))
      BY <1>1, SMTT(30) DEF Counted
    <3>2. CASE d = c /\ l = lane
      <4>1. HeldIn(d, l)' = HeldIn(d, l) \cup {r} /\ r \notin HeldIn(d, l)
        BY <1>4, <1>5, <3>2, SMTT(30) DEF HeldIn
      <4>2. IsFiniteSet(HeldIn(d, l))
        BY <1>1, HeldSets
      <4>3. Cardinality(HeldIn(d, l) \cup {r}) = Cardinality(HeldIn(d, l)) + 1
        BY <4>1, <4>2, FS_AddElement, Zenon
      <4>4. in_flight'[<<d, l>>] = in_flight[<<d, l>>] + 1
        BY <1>1, <1>2, <3>2, ZenonT(40) DEF SchedulerTypeOK
      <4>5. QED
        BY <3>1, <4>1, <4>3, <4>4, SMTT(30)
    <3>3. CASE ~(d = c /\ l = lane)
      <4>1. HeldIn(d, l)' = HeldIn(d, l)
        BY <1>4, <1>5, <3>3, SMTT(30) DEF HeldIn
      <4>2. in_flight'[<<d, l>>] = in_flight[<<d, l>>]
        BY <1>1, <1>2, <3>3, Zenon DEF SchedulerTypeOK
      <4>3. QED
        BY <3>1, <4>1, <4>2, ZenonT(40)
    <3>4. QED
      BY <3>2, <3>3, Zenon
  <2>4. QED
    BY <2>2, <2>3, Zenon
<1>7. OneImage'
  <2>1. SUFFICES ASSUME NEW d \in PoolAccounts, NEW l \in Lanes, l = "Image"
                 PROVE  in_flight'[<<d, l>>] <= 1
    BY DEF OneImage
  <2>2. d \in PoolCandidates
    BY SchedulerAssumption
  <2>3. in_flight[<<d, l>>] \in Nat /\ in_flight[<<d, l>>] <= 1
    BY <1>1, <2>1, <2>2 DEF SchedulerTypeOK, Books, OneImage
  <2>4. CASE d = c /\ l = lane
    <3>1. in_flight[<<d, l>>] < 1
      BY <1>2, <2>1, <2>4, SMTT(30) DEF LaneAllows
    <3>2. in_flight'[<<d, l>>] = in_flight[<<d, l>>] + 1
      BY <1>1, <1>2, <2>4, ZenonT(40) DEF SchedulerTypeOK
    <3>3. QED
      BY <2>3, <3>1, <3>2
  <2>5. CASE ~(d = c /\ l = lane)
    <3>1. in_flight'[<<d, l>>] = in_flight[<<d, l>>]
      BY <1>1, <1>2, <2>2, <2>5, ZenonT(40) DEF SchedulerTypeOK
    <3>2. QED
      BY <2>3, <3>1, ZenonT(40)
  <2>6. QED
    BY <2>4, <2>5
<1>8. TombstoneIsHeld'
  <2>1. \A d \in retired : \E q \in Requests : lease'[q].held /\ lease'[q].c = d
    <3>1. SUFFICES ASSUME NEW d \in retired
                   PROVE  \E q \in Requests : lease'[q].held /\ lease'[q].c = d
      OBVIOUS
    <3>2. PICK q \in Requests : lease[q].held /\ lease[q].c = d
      BY SMTT(30) DEF Books, TombstoneIsHeld
    <3>3. QED
      BY <1>4, <1>5, <3>2
  <2>2. \A q \in Requests : lease'[q].held => cand[lease'[q].c].present
    BY <1>2, <1>5, ZenonT(40) DEF Books, TombstoneIsHeld, IsEligible
  <2>3. QED
    BY <1>3, <2>1, <2>2, Zenon DEF Books, TombstoneIsHeld
<1>9. HalfOpenIsHeld'
  <2>1. SUFFICES ASSUME NEW h \in half_open'
                 PROVE  \E q \in Requests : /\ lease'[q].held /\ lease'[q].c = h[1]
                                            /\ h[2] \in {"*", lease'[q].model}
    BY DEF HalfOpenIsHeld
  <2>2. CASE h \in half_open
    <3>1. PICK q \in Requests :
            lease[q].held /\ lease[q].c = h[1] /\ h[2] \in {"*", lease[q].model}
      BY <2>2, SMTT(30) DEF Books, HalfOpenIsHeld
    <3>2. QED
      BY <1>4, <1>5, <3>1, SMTT(30)
  <2>3. CASE h \in ProbeKey(c, m)
    <3>1. HalfOpenScope(c, m) \in {"*", m, Nothing}
      BY DEF HalfOpenScope
    <3>2. h[1] = c /\ h[2] \in {"*", m}
      BY <2>3, <3>1, SMTT(30) DEF ProbeKey
    <3>3. QED
      BY <1>5, <3>2
  <2>4. QED
    BY <1>2, <2>1, <2>2, <2>3
<1>10. OwnerIsPresent' /\ FencesMatchGuards'
  BY <1>3, Zenon DEF Books, OwnerIsPresent, FencesMatchGuards
<1>11. QED
  BY <1>6, <1>7, <1>8, <1>9, <1>10 DEF Books

-----------------------------------------------------------------------------
\* The counters once a lease is taken off them.
Without(r) ==
    [active_models EXCEPT ![<<lease[r].c, lease[r].lane, lease[r].model>>] = IF @ = 0 THEN 0 ELSE @ - 1]

LaneWithout(r) ==
    [in_flight EXCEPT ![<<lease[r].c, lease[r].lane>>] = IF @ = 0 THEN 0 ELSE @ - 1]

\* They count the other leases: the guards against zero never decide.
LEMMA WithoutCounts ==
    ASSUME SchedulerTypeOK, Counted, NEW r \in Requests, lease[r].held,
           NEW d \in PoolCandidates, NEW l \in Lanes
    PROVE  /\ \A n \in Models : Without(r)[<<d, l, n>>] = Cardinality(HeldOn(d, l, n) \ {r})
           /\ LaneWithout(r)[<<d, l>>] = Cardinality(HeldIn(d, l) \ {r})
<1>1. lease[r].c \in PoolCandidates /\ lease[r].lane \in Lanes /\ lease[r].model \in Models
  BY LeaseTypes DEF Lease
<1>2. ASSUME NEW n \in Models
      PROVE  Without(r)[<<d, l, n>>] = Cardinality(HeldOn(d, l, n) \ {r})
  <2>1. active_models[<<d, l, n>>] = Cardinality(HeldOn(d, l, n)) /\ IsFiniteSet(HeldOn(d, l, n))
    BY HeldSets, Zenon DEF Counted
  <2>2. CASE d = lease[r].c /\ l = lease[r].lane /\ n = lease[r].model
    <3>1. r \in HeldOn(d, l, n)
      BY <2>2 DEF HeldOn
    <3>2. Cardinality(HeldOn(d, l, n) \ {r}) = Cardinality(HeldOn(d, l, n)) - 1
      BY <2>1, <3>1, FS_RemoveElement, Zenon
    <3>3. Cardinality(HeldOn(d, l, n)) \in Nat \ {0}
      BY <2>1, <3>1, FS_CardinalityType, FS_EmptySet
    <3>4. Without(r)[<<d, l, n>>] =
            IF active_models[<<d, l, n>>] = 0 THEN 0 ELSE active_models[<<d, l, n>>] - 1
      BY <1>1, <2>2, Zenon DEF Without, SchedulerTypeOK
    <3>5. QED
      BY <2>1, <3>2, <3>3, <3>4
  <2>3. CASE ~(d = lease[r].c /\ l = lease[r].lane /\ n = lease[r].model)
    <3>1. HeldOn(d, l, n) \ {r} = HeldOn(d, l, n)
      BY <2>3, SMTT(30) DEF HeldOn
    <3>2. Without(r)[<<d, l, n>>] = active_models[<<d, l, n>>]
      BY <1>1, <2>3 DEF Without, SchedulerTypeOK
    <3>3. QED
      BY <2>1, <3>1, <3>2
  <2>4. QED
    BY <2>2, <2>3, SMTT(30)
<1>3. LaneWithout(r)[<<d, l>>] = Cardinality(HeldIn(d, l) \ {r})
  <2>1. in_flight[<<d, l>>] = Cardinality(HeldIn(d, l)) /\ IsFiniteSet(HeldIn(d, l))
    BY HeldSets DEF Counted
  <2>2. CASE d = lease[r].c /\ l = lease[r].lane
    <3>1. r \in HeldIn(d, l)
      BY <2>2 DEF HeldIn
    <3>2. Cardinality(HeldIn(d, l) \ {r}) = Cardinality(HeldIn(d, l)) - 1
      BY <2>1, <3>1, FS_RemoveElement, Zenon
    <3>3. Cardinality(HeldIn(d, l)) \in Nat \ {0}
      BY <2>1, <3>1, FS_CardinalityType, FS_EmptySet, SMTT(30)
    <3>4. LaneWithout(r)[<<d, l>>] =
            IF in_flight[<<d, l>>] = 0 THEN 0 ELSE in_flight[<<d, l>>] - 1
      BY <1>1, <2>2 DEF LaneWithout, SchedulerTypeOK
    <3>5. QED
      BY <2>1, <3>2, <3>3, <3>4
  <2>3. CASE ~(d = lease[r].c /\ l = lease[r].lane)
    <3>1. HeldIn(d, l) \ {r} = HeldIn(d, l)
      BY <2>3, SMTT(30) DEF HeldIn
    <3>2. LaneWithout(r)[<<d, l>>] = in_flight[<<d, l>>]
      BY <1>1, <2>3 DEF LaneWithout, SchedulerTypeOK
    <3>3. QED
      BY <2>1, <3>1, <3>2
  <2>4. QED
    BY <2>2, <2>3
<1>4. QED
  BY <1>2, <1>3

\* So finalize_retired_if_idle() sees requests exactly when another holds the
\* candidate.
LEMMA BusyWithout ==
    ASSUME SchedulerTypeOK, Counted, NEW r \in Requests, lease[r].held, NEW c \in PoolCandidates
    PROVE  HasRequests(Without(r), c) <=>
              \E q \in Requests \ {r} : lease[q].held /\ lease[q].c = c
<1>1. \A l \in Lanes, n \in Models :
         Without(r)[<<c, l, n>>] > 0 <=> HeldOn(c, l, n) \ {r} # {}
  <2>1. SUFFICES ASSUME NEW l \in Lanes, NEW n \in Models
                 PROVE  Without(r)[<<c, l, n>>] > 0 <=> HeldOn(c, l, n) \ {r} # {}
    OBVIOUS
  <2>2. IsFiniteSet(HeldOn(c, l, n) \ {r})
    BY HeldSets, FS_RemoveElement, Zenon
  <2>3. /\ Cardinality(HeldOn(c, l, n) \ {r}) \in Nat
        /\ Cardinality(HeldOn(c, l, n) \ {r}) = 0 <=> HeldOn(c, l, n) \ {r} = {}
    BY <2>2, FS_EmptySet, FS_CardinalityType, SMTT(30)
  <2>4. Without(r)[<<c, l, n>>] = Cardinality(HeldOn(c, l, n) \ {r})
    BY WithoutCounts, Zenon
  <2>5. QED
    BY <2>3, <2>4
<1>2. HasRequests(Without(r), c) <=>
         \E l \in Lanes, n \in Models : HeldOn(c, l, n) \ {r} # {}
  BY <1>1, Zenon DEF HasRequests
<1>3. \A q \in Requests : lease[q].held => lease[q].lane \in Lanes /\ lease[q].model \in Models
  BY LeaseTypes DEF Lease
<1>4. QED
  BY <1>2, <1>3 DEF HeldOn

\* A release takes its request out of the counted sets, and off the counters; a
\* tombstone whose last lease it was goes with it.
LEMMA ReleaseKeepsBooks ==
    ASSUME Books, SchedulerTypeOK', NEW r \in Requests, Release(r)
    PROVE  Books'
<1>1. SchedulerTypeOK /\ Counted /\ lease[r].held
  BY DEF Books, Release, Releasable
<1>2. PICK c : c = lease[r].c
  OBVIOUS
<1>3. /\ c \in PoolCandidates /\ lease[r] \in Lease
      /\ lease \in [Requests -> Lease \cup {NoLease}]
  BY <1>1, <1>2, LeaseTypes DEF Lease, SchedulerTypeOK
<1>4. /\ ~lease'[r].held
      /\ \A q \in Requests \ {r} : lease'[q] = lease[q]
  BY <1>3 DEF Release, NoLease, Lease
<1>5. UNCHANGED guard
  BY SMTT(30) DEF Release
<1>6. \A q \in Requests : lease[q].held \in BOOLEAN /\ (lease[q].held => lease[q].c \in PoolCandidates)
  BY <1>1, LeaseTypes DEF Lease
<1>7. CASE Finalizes(Without(r), c)
  <2>1. RemoveNow(c)
    BY <1>2, <1>7 DEF Release, Without
  <2>2. \A q \in Requests \ {r} : ~(lease[q].held /\ lease[q].c = c)
    BY <1>1, <1>3, <1>7, BusyWithout DEF Finalizes
  <2>3. LeasesEnd(c)
    <3>1. SUFFICES ASSUME NEW q \in Requests
                   PROVE  /\ lease'[q].held <=> lease[q].held /\ lease[q].c # c
                          /\ lease'[q].held => /\ lease'[q].c = lease[q].c
                                               /\ lease'[q].lane = lease[q].lane
                                               /\ lease'[q].model = lease[q].model
      BY DEF LeasesEnd
    <3>2. CASE q = r
      BY <1>2, <1>4, <3>2
    <3>3. CASE q # r
      BY <1>4, <2>2, <3>3
    <3>4. QED
      BY <3>2, <3>3
  <2>4. QED
    BY <1>3, <1>5, <2>1, <2>3, RemovedBooks
<1>8. CASE ~Finalizes(Without(r), c)
  <2>1. /\ half_open' = half_open \ Reopens(c, lease[r].model)
        /\ in_flight' = LaneWithout(r)
        /\ active_models' = Without(r)
        /\ UNCHANGED <<cand, retired, fences, affinity>>
    BY <1>2, <1>8 DEF Release, Without, LaneWithout
  <2>2. \A d, l, n : HeldOn(d, l, n)' = HeldOn(d, l, n) \ {r}
    BY <1>4 DEF HeldOn
  <2>3. \A d, l : HeldIn(d, l)' = HeldIn(d, l) \ {r}
    BY <1>4, SMTT(30) DEF HeldIn
  <2>4. Counted'
    <3>1. SUFFICES ASSUME NEW d \in PoolCandidates, NEW l \in Lanes
                   PROVE  /\ \A n \in Models :
                               active_models'[<<d, l, n>>] = Cardinality(HeldOn(d, l, n)')
                          /\ in_flight'[<<d, l>>] = Cardinality(HeldIn(d, l)')
      BY Zenon DEF Counted
    <3>2. /\ \A n \in Models : Without(r)[<<d, l, n>>] = Cardinality(HeldOn(d, l, n) \ {r})
          /\ LaneWithout(r)[<<d, l>>] = Cardinality(HeldIn(d, l) \ {r})
      BY <1>1, WithoutCounts
    <3>3. QED
      BY <2>1, <2>2, <2>3, <3>2, Zenon
  <2>5. OneImage'
    <3>1. SUFFICES ASSUME NEW d \in PoolAccounts, NEW l \in Lanes, l = "Image"
                   PROVE  LaneWithout(r)[<<d, l>>] <= 1
      BY <2>1 DEF OneImage
    <3>2. d \in PoolCandidates
      BY SchedulerAssumption
    <3>3. in_flight[<<d, l>>] \in Nat /\ in_flight[<<d, l>>] <= 1
      BY <1>1, <3>1, <3>2 DEF SchedulerTypeOK, Books, OneImage
    <3>4. LaneWithout(r)[<<d, l>>] \in {0, in_flight[<<d, l>>], in_flight[<<d, l>>] - 1}
      BY <1>1, <3>2, Zenon DEF LaneWithout, SchedulerTypeOK
    <3>5. QED
      BY <3>3, <3>4
  <2>6. TombstoneIsHeld'
    <3>1. ASSUME NEW d \in retired
          PROVE  \E q \in Requests : lease'[q].held /\ lease'[q].c = d
      <4>1. PICK q \in Requests : lease[q].held /\ lease[q].c = d
        BY DEF Books, TombstoneIsHeld
      <4>2. CASE q # r
        BY <1>4, <4>1, <4>2
      <4>3. CASE q = r
        <5>1. HasRequests(Without(r), c) /\ d = c
          BY <1>2, <1>8, <4>1, <4>3 DEF Finalizes
        <5>2. PICK p \in Requests \ {r} : lease[p].held /\ lease[p].c = c
          BY <1>1, <1>3, <5>1, BusyWithout
        <5>3. QED
          BY <1>4, <5>1, <5>2
      <4>4. QED
        BY <4>2, <4>3
    <3>2. \A q \in Requests : lease'[q].held => cand[lease'[q].c].present
      BY <1>4, SMTT(30) DEF Books, TombstoneIsHeld
    <3>3. QED
      BY <2>1, <3>1, <3>2, Zenon DEF Books, TombstoneIsHeld
  <2>7. HalfOpenIsHeld'
    <3>1. SUFFICES ASSUME NEW h \in half_open'
                   PROVE  \E q \in Requests : /\ lease'[q].held /\ lease'[q].c = h[1]
                                              /\ h[2] \in {"*", lease'[q].model}
      BY DEF HalfOpenIsHeld
    <3>2. /\ h \in half_open /\ h # <<c, lease[r].model>> /\ h # <<c, "*">>
          /\ h \in PoolCandidates \X Scopes
      BY <1>1, <2>1, <3>1 DEF Reopens, SchedulerTypeOK
    <3>3. PICK q \in Requests :
            lease[q].held /\ lease[q].c = h[1] /\ h[2] \in {"*", lease[q].model}
      BY <3>2 DEF Books, HalfOpenIsHeld
    <3>4. q # r
      BY <1>2, <3>2, <3>3, SMTT(30)
    <3>5. QED
      BY <1>4, <3>3, <3>4, SMTT(30)
  <2>8. OwnerIsPresent' /\ FencesMatchGuards'
    BY <1>5, <2>1 DEF Books, OwnerIsPresent, FencesMatchGuards
  <2>9. QED
    BY <2>4, <2>5, <2>6, <2>7, <2>8 DEF Books
<1>9. QED
  BY <1>7, <1>8

\* The scheduler starts with every candidate idle.
LEMMA InitBooks == PoolInit => Books
<1> SUFFICES ASSUME PoolInit PROVE Books
  OBVIOUS
<1>1. SchedulerTypeOK
  <2>1. /\ cand \in [PoolCandidates -> Candidate]
        /\ in_flight \in [PoolCandidates \X Lanes -> Nat]
        /\ active_models \in [PoolCandidates \X Lanes \X Models -> Nat]
        /\ fences \in [PoolCandidates -> Nat]
    BY NewCandidateType DEF PoolInit
  <2>2. poolNow \in 1..PoolMaxTime
    BY SchedulerAssumption DEF PoolInit
  <2>3. QED
    BY <2>1, <2>2 DEF PoolInit, SchedulerTypeOK
<1>2. \A r \in Requests : ~lease[r].held
  BY DEF PoolInit, NoLease
<1>3. Counted
  <2>1. \A c, lane, m : HeldOn(c, lane, m) = {}
    BY <1>2 DEF HeldOn
  <2>2. \A c, lane : HeldIn(c, lane) = {}
    BY <1>2 DEF HeldIn
  <2>3. \A c \in PoolCandidates, lane \in Lanes :
          in_flight[<<c, lane>>] = 0 /\ \A m \in Models : active_models[<<c, lane, m>>] = 0
    BY DEF PoolInit
  <2>4. QED
    BY <2>1, <2>2, <2>3, FS_EmptySet, Zenon DEF Counted
<1>4. OneImage
  BY SchedulerAssumption DEF PoolInit, OneImage
<1>5. FencesMatchGuards
  <2>1. \A c \in PoolCandidates : {g \in Guards : guard[g] = c} = {}
    BY SchedulerAssumption DEF PoolInit, Nothing
  <2>2. QED
    BY <2>1, FS_EmptySet, Zenon DEF PoolInit, FencesMatchGuards
<1>6. TombstoneIsHeld /\ OwnerIsPresent /\ HalfOpenIsHeld
  BY <1>2 DEF PoolInit, TombstoneIsHeld, OwnerIsPresent, HalfOpenIsHeld
<1>7. QED
  BY <1>1, <1>3, <1>4, <1>5, <1>6 DEF Books

\* Every step keeps the books.
LEMMA NextBooks == Books /\ [PoolNext]_schedVars => Books'
<1> SUFFICES ASSUME Books, [PoolNext]_schedVars PROVE Books'
  OBVIOUS
<1>1. SchedulerTypeOK'
  BY NextSchedulerTypeOK, SMTT(30) DEF Books
<1>2. ASSUME NEW r \in Requests, RequestStep(r)
      PROVE  Books'
  BY <1>1, <1>2, ReserveKeepsBooks, SettlingKeepsBooks, ReleaseKeepsBooks, Zenon DEF RequestStep
<1>3. ASSUME NEW c \in PoolCandidates, AdminStep(c)
      PROVE  Books'
  BY <1>1, <1>3, RemoveKeepsBooks, AdminKeepsBooks, FenceKeepsBooks, Zenon DEF AdminStep
<1>4. ASSUME NEW g \in Guards, Unfence(g)
      PROVE  Books'
  BY <1>1, <1>4, FenceKeepsBooks
<1>5. CASE (\E key \in Keys : Forget(key)) \/ PoolTick
  BY <1>1, <1>5, TimeKeepsBooks, SMTT(30)
<1>6. CASE UNCHANGED schedVars
  <2>1. LeasesStay
    BY <1>6, UnchangedLeasesStay, SMTT(30) DEF schedVars
  <2>2. FencesMatchGuards'
    BY <1>6 DEF schedVars, Books, FencesMatchGuards
  <2>3. QED
    BY <1>1, <1>6, <2>1, <2>2, QuietStep DEF schedVars
<1>7. QED
  BY <1>2, <1>3, <1>4, <1>5, <1>6 DEF PoolNext

\* The scheduler's books agree with the leases and guards that exist, and every
\* half-open scope is held by a request that will reopen it, in every behaviour and
\* for any candidates, models, lanes, requests and guards (activity.rs:32-148,
\* selection.rs:209-265, 416-434, 822-833, 944-983).
THEOREM SpecLeasesAreExact == PoolSpec => [](LeasesAreExact /\ HalfOpenIsHeld)
<1>1. PoolInit => Books
  BY InitBooks
<1>2. Books /\ [PoolNext]_schedVars => Books'
  BY NextBooks
<1>3. Books => LeasesAreExact /\ HalfOpenIsHeld
  BY BooksAreExact
<1>4. QED
  BY <1>1, <1>2, <1>3, PTL DEF PoolSpec

-----------------------------------------------------------------------------
\* What CooldownStands says of a step.
Stands ==
    \A c \in PoolCandidates, s \in Scopes :
        Cooling(c, s) /\ cand'[c].present => cand'[c].cooldowns[s] >= cand[c].cooldowns[s]

\* The calls that write no cooldown.
LEMMA SameCooldowns ==
    ASSUME SchedulerTypeOK,
           \A c \in PoolCandidates :
               cand'[c].present => cand'[c].cooldowns = cand[c].cooldowns
    PROVE  Stands
<1>1. SUFFICES ASSUME NEW c \in PoolCandidates, NEW s \in Scopes, cand'[c].present
               PROVE  cand'[c].cooldowns[s] >= cand[c].cooldowns[s]
  BY SMTT(30) DEF Stands
<1>2. cand[c].cooldowns[s] \in 0..PoolMaxTime + 1
  BY DEF SchedulerTypeOK, Candidate
<1>3. cand[c].cooldowns[s] \in Int
  BY <1>2
<1>4. QED
  BY <1>1, <1>3

\* A removal leaves the cooldowns of the others.
LEMMA RemoveNowStands ==
    ASSUME SchedulerTypeOK, NEW c \in PoolCandidates, RemoveNow(c)
    PROVE  Stands
<1>1. \A d \in PoolCandidates \ {c} : cand'[d] = cand[d]
  BY DEF RemoveNow, SchedulerTypeOK
<1>2. ~cand'[c].present
  BY NewCandidateType DEF RemoveNow, SchedulerTypeOK, NoCandidateRecord, Candidate
<1>3. QED
  BY <1>1, <1>2, SameCooldowns

\* A success ends only cooldowns that are over.
LEMMA SuccessStands ==
    ASSUME SchedulerTypeOK, NEW r \in Requests, NEW healed \in BOOLEAN, RecordSuccess(r, healed)
    PROVE  Stands
<1> DEFINE d == lease[r].c
           kept == CooldownsKept(d, lease[r].model)
           recovered == \A s \in Scopes : kept[s] <= poolNow
<1>1. d \in PoolCandidates /\ cand \in [PoolCandidates -> Candidate]
  BY LeaseTypes, ZenonT(40) DEF RecordSuccess, Lease, SchedulerTypeOK
<1>2. \/ UNCHANGED cand
      \/ cand' = [cand EXCEPT ![d].cooldowns = kept,
                              ![d].usable = cand[d].usable \/ (recovered /\ healed),
                              ![d].failures = IF recovered THEN 0 ELSE cand[d].failures]
  BY Zenon DEF RecordSuccess
<1>3. CASE UNCHANGED cand
  BY <1>3, SameCooldowns
<1>4. CASE ~UNCHANGED cand
  <2>1. (cand[d].usable \/ (recovered /\ healed)) \in BOOLEAN
    BY SMTT(30)
  <2>2. PICK u \in BOOLEAN :
          \E f : cand' = [cand EXCEPT ![d].cooldowns = kept, ![d].usable = u, ![d].failures = f]
    <3> HIDE DEF kept, recovered, d
    <3>1. QED
      BY <1>2, <1>4, <2>1, ZenonT(40)
  <2>3. SUFFICES ASSUME NEW c \in PoolCandidates, NEW s \in Scopes, Cooling(c, s)
                 PROVE  cand'[c].cooldowns[s] >= cand[c].cooldowns[s]
    BY DEF Stands
  <2>4. cand[c] \in Candidate /\ cand[d] \in Candidate
    BY <1>1
  <2>5. cand[c].cooldowns[s] \in 0..PoolMaxTime + 1
    BY <2>4 DEF Candidate
  <2>6. cand'[c].cooldowns[s] = cand[c].cooldowns[s]
    <3>1. CASE c = d
      <4>1. kept[s] = cand[c].cooldowns[s]
        BY <2>3, <3>1, SMTT(30) DEF CooldownsKept
      <4> HIDE DEF kept
      <4>2. cand'[d].cooldowns = kept
        BY <1>1, <2>2, <2>4 DEF Candidate
      <4>3. QED
        BY <3>1, <4>1, <4>2, SMTT(30)
    <3>2. CASE c # d
      <4> HIDE DEF kept
      <4>1. cand'[c] = cand[c]
        BY <1>1, <2>2, <3>2
      <4>2. QED
        BY <4>1
    <3>3. QED
      BY <3>1, <3>2
  <2>7. cand[c].cooldowns[s] \in Int
    BY <2>5
  <2>8. QED
    BY <2>6, <2>7
<1>5. QED
  BY <1>3, <1>4, SMTT(30)

\* A failure only extends one.
LEMMA FailureStands ==
    ASSUME SchedulerTypeOK, NEW r \in Requests, NEW scope \in {"*", lease[r].model},
           NEW until \in poolNow + 1 .. PoolMaxTime + 1, NEW reason,
           SetCooldown(r, scope, until, reason)
    PROVE  Stands
<1>1. PICK d : d = lease[r].c
  OBVIOUS
<1>2. d \in PoolCandidates /\ scope \in Scopes /\ cand \in [PoolCandidates -> Candidate]
  BY <1>1, LeaseTypes DEF SetCooldown, Lease, Scopes, SchedulerTypeOK
<1>3. CASE UNCHANGED cand
  BY <1>3, SameCooldowns
<1>4. CASE ~UNCHANGED cand
  <2>1. PICK u : /\ u = IF cand[d].cooldowns[scope] > until THEN cand[d].cooldowns[scope] ELSE until
                 /\ cand' = [cand EXCEPT ![d].cooldowns[scope] = u]
    BY <1>1, <1>4, Zenon DEF SetCooldown
  <2>2. SUFFICES ASSUME NEW c \in PoolCandidates, NEW s \in Scopes
                 PROVE  cand'[c].cooldowns[s] >= cand[c].cooldowns[s]
    BY DEF Stands
  <2>3. cand[c] \in Candidate /\ cand[d] \in Candidate
    BY <1>2
  <2>4. cand[c].cooldowns[s] \in Int /\ cand[d].cooldowns[scope] \in Int /\ until \in Int
    <3>1. cand[c].cooldowns[s] \in 0..PoolMaxTime + 1 /\ cand[d].cooldowns[scope] \in 0..PoolMaxTime + 1
      BY <1>2, <2>3 DEF Candidate
    <3>2. QED
      BY <3>1, SMTT(30)
  <2>5. u >= cand[d].cooldowns[scope]
    BY <2>1, <2>4
  <2>6. CASE c = d /\ s = scope
    <3>1. cand'[c].cooldowns[s] = u
      BY <1>2, <2>1, <2>3, <2>6, SMTT(30) DEF Candidate
    <3>2. QED
      BY <2>5, <2>6, <3>1
  <2>7. CASE ~(c = d /\ s = scope)
    <3>1. cand'[c].cooldowns[s] = cand[c].cooldowns[s]
      BY <1>2, <2>1, <2>3, <2>7 DEF Candidate
    <3>2. QED
      BY <2>4, <3>1
  <2>8. QED
    BY <2>6, <2>7
<1>5. QED
  BY <1>3, <1>4

\* No step shortens a cooldown that is running.
LEMMA NextStands == SchedulerTypeOK /\ [PoolNext]_schedVars => Stands
<1> SUFFICES ASSUME SchedulerTypeOK, [PoolNext]_schedVars PROVE Stands
  OBVIOUS
<1>1. cand \in [PoolCandidates -> Candidate] /\ \A c \in PoolCandidates : cand[c] \in Candidate
  BY DEF SchedulerTypeOK
<1>2. CASE UNCHANGED cand
  BY <1>2, SameCooldowns, SMTT(30)
<1>3. ASSUME NEW r \in Requests, RequestStep(r)
      PROVE  Stands
  <2>1. CASE RecordFailure(r)
    <3>1. lease[r].c \in PoolCandidates
      BY <2>1, LeaseTypes DEF RecordFailure, Lease
    <3>2. \A c \in PoolCandidates : cand'[c].cooldowns = cand[c].cooldowns
      BY <1>1, <2>1, <3>1 DEF RecordFailure, Candidate
    <3>3. QED
      BY <3>2, SameCooldowns
  <2>2. CASE Release(r)
    <3>1. lease[r].c \in PoolCandidates
      BY <2>2, LeaseTypes DEF Release, Releasable, Lease
    <3>2. RemoveNow(lease[r].c) \/ UNCHANGED cand
      BY <2>2, SMTT(30) DEF Release
    <3>3. QED
      BY <1>2, <3>1, <3>2, RemoveNowStands
  <2>3. CASE \/ \E m \in Models, lane \in Lanes, key \in Keys \cup {Nothing},
                   tried \in SUBSET PoolCandidates : SelectAndReserve(r, m, lane, key, tried)
             \/ \E key \in Keys \cup {Nothing} : BindResponseAffinity(r, key)
    BY <1>2, <2>3, Zenon DEF SelectAndReserve, BindResponseAffinity
  <2>4. CASE \E healed \in BOOLEAN : RecordSuccess(r, healed)
    BY <2>4, SuccessStands
  <2>5. CASE \E scope \in {"*", lease[r].model}, until \in poolNow + 1 .. PoolMaxTime + 1,
                reason \in Reasons : SetCooldown(r, scope, until, reason)
    BY <2>5, FailureStands, SMTT(30)
  <2>6. QED
    BY <1>3, <2>1, <2>2, <2>3, <2>4, <2>5, Zenon DEF RequestStep
<1>4. ASSUME NEW c \in PoolCandidates, AdminStep(c)
      PROVE  Stands
  <2>1. CASE RemoveCandidate(c)
    <3>1. CASE RemoveNow(c)
      BY <3>1, RemoveNowStands
    <3>2. CASE ~RemoveNow(c)
      <4>1. \A d \in PoolCandidates : cand'[d].cooldowns = cand[d].cooldowns
        BY <1>1, <2>1, <3>2 DEF RemoveCandidate, Candidate
      <4>2. QED
        BY <4>1, SameCooldowns
    <3>3. QED
      BY <3>1, <3>2
  <2>2. ASSUME NEW x, NEW y, UpdatePolicy(c, x, y) \/ UpdateAvailability(c, x, y)
        PROVE  Stands
    <3>1. CASE UpdatePolicy(c, x, y)
      <4>1. \A d \in PoolCandidates : cand'[d].cooldowns = cand[d].cooldowns
        BY <1>1, <3>1 DEF UpdatePolicy, Candidate
      <4>2. QED
        BY <4>1, SameCooldowns
    <3>2. CASE UpdateAvailability(c, x, y)
      <4>1. \A d \in PoolCandidates : cand'[d].cooldowns = cand[d].cooldowns
        BY <1>1, <3>2 DEF UpdateAvailability, Candidate
      <4>2. QED
        BY <4>1, SameCooldowns
    <3>3. QED
      BY <2>2, <3>1, <3>2
  <2>3. CASE \/ \E m \in Models : BlockCapability(c, m)
             \/ ClearCapabilityBlocks(c)
             \/ \E g \in Guards : Fence(g, c)
    BY <1>2, <2>3, SMTT(30) DEF BlockCapability, ClearCapabilityBlocks, Fence
  <2>4. QED
    BY <1>4, <2>1, <2>2, <2>3, Zenon DEF AdminStep
<1>5. CASE (\E g \in Guards : Unfence(g)) \/ (\E key \in Keys : Forget(key)) \/ PoolTick
  BY <1>2, <1>5 DEF Unfence, Forget, PoolTick, poolVars
<1>6. CASE UNCHANGED schedVars
  BY <1>2, <1>6, SMTT(30) DEF schedVars
<1>7. QED
  BY <1>3, <1>4, <1>5, <1>6 DEF PoolNext

-----------------------------------------------------------------------------
\* What LastCandidateStays says of a step.
Stays ==
    \A r \in {q \in Requests : lease[q].stage = "Failed" /\ Eligible(lease[q].model) # {}} :
        \A m \in {lease[r].model}, scope \in Scopes, until \in poolNow + 1 .. PoolMaxTime + 1 :
            SetCooldown(r, scope, until, "Transient") => Eligible(m)' # {}

\* A candidate the cooldown is not about stays eligible: its record is the same,
\* and no probe begins.
LEMMA OthersStayEligible ==
    ASSUME NEW d \in PoolCandidates, NEW m, IsEligible(d, m), cand'[d] = cand[d],
           half_open' \subseteq half_open, UNCHANGED <<retired, fences, blocks, poolNow>>
    PROVE  IsEligible(d, m)'
<1>1. HalfOpenScope(d, m)' = HalfOpenScope(d, m)
  BY SMTT(30) DEF HalfOpenScope, Expired
<1>2. QED
  BY <1>1 DEF IsEligible, Cooling

\* A transient failure leaves its model a candidate: the cooldown is set only when
\* another one is eligible, and that one is not touched.
LEMMA CooldownStays == SchedulerTypeOK => Stays
<1> SUFFICES ASSUME SchedulerTypeOK, NEW r \in Requests, lease[r].stage = "Failed",
                    NEW m, m = lease[r].model, Eligible(m) # {},
                    NEW scope \in Scopes, NEW until \in poolNow + 1 .. PoolMaxTime + 1,
                    SetCooldown(r, scope, until, "Transient")
             PROVE  Eligible(m)' # {}
  BY ZenonT(30) DEF Stays
<1>1. PICK c : c = lease[r].c
  OBVIOUS
<1>2. UNCHANGED <<retired, fences, blocks, poolNow>> /\ cand \in [PoolCandidates -> Candidate]
  BY SMTT(30) DEF SetCooldown, SchedulerTypeOK
<1>3. CASE UNCHANGED <<cand, half_open>>
  <2>1. PICK d \in PoolCandidates : IsEligible(d, m)
    BY ZenonT(30) DEF Eligible
  <2>2. IsEligible(d, m)'
    BY <1>2, <1>3, <2>1, OthersStayEligible
  <2>3. QED
    BY <2>2, ZenonT(30) DEF Eligible
<1>4. CASE ~UNCHANGED <<cand, half_open>>
  <2>1. PICK u :
          /\ TransientAllowed(c, m)
          /\ cand' = [cand EXCEPT ![c].cooldowns[scope] = u]
          /\ half_open' \subseteq half_open
    BY <1>1, <1>4, Zenon DEF SetCooldown
  <2>2. \E d \in Eligible(m) : d # c
    <3>1. SUFFICES ASSUME Eligible(m) \subseteq {c} PROVE FALSE
      OBVIOUS
    <3>2. IsFiniteSet({c}) /\ Cardinality({c}) = 1
      BY FS_Singleton, ZenonT(40)
    <3>3. Cardinality(Eligible(m)) \in Nat /\ Cardinality(Eligible(m)) <= 1
      BY <3>1, <3>2, FS_Subset, FS_CardinalityType, ZenonT(30)
    <3>4. QED
      BY <2>1, <3>3 DEF TransientAllowed
  <2>3. PICK d \in PoolCandidates : IsEligible(d, m) /\ d # c
    BY <2>2 DEF Eligible
  <2>4. cand'[d] = cand[d]
    BY <1>2, <2>1, <2>3
  <2>5. IsEligible(d, m)'
    BY <1>2, <2>1, <2>3, <2>4, OthersStayEligible
  <2>6. QED
    BY <2>5, ZenonT(30) DEF Eligible
<1>5. QED
  BY <1>3, <1>4, ZenonT(30)

\* No answer, however late, ends a cooldown early or rests the last candidate of a
\* model for a transient failure, for any candidates, models and requests
\* (selection.rs:1012-1015, 1118-1189).
THEOREM SpecCooldownSteps == PoolSpec => CooldownSteps
<1>1. PoolInit => Books
  BY InitBooks
<1>2. Books /\ [PoolNext]_schedVars => Books'
  BY NextBooks
<1>3. Books => SchedulerTypeOK
  BY DEF Books
<1>4. SchedulerTypeOK /\ [PoolNext]_schedVars => Stands
  BY NextStands
<1>5. SchedulerTypeOK => Stays
  BY CooldownStays
<1>6. [][Stands]_schedVars => CooldownStands
  BY PTL DEF Stands, CooldownStands
<1>7. [][Stays]_schedVars => LastCandidateStays
  BY PTL DEF Stays, LastCandidateStays
<1>8. QED
  BY <1>1, <1>2, <1>3, <1>4, <1>5, <1>6, <1>7, PTL DEF PoolSpec, CooldownSteps

=============================================================================
