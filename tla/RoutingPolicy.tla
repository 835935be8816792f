---------------------------- MODULE RoutingPolicy ----------------------------
(***************************************************************************)
(* Which eligible candidate the scheduler prefers: compare_preference()    *)
(* and its parts (scheduler/selection/routing_policy.rs), the selection    *)
(* that folds it over the candidates in the order of their ids, prompt     *)
(* affinity, the reserve of the protected account and the provider storm   *)
(* breaker (scheduler/selection.rs).  PoolScheduler has the leases, the    *)
(* cooldowns and the probes; here a candidate is otherwise usable.         *)
(*                                                                         *)
(* Ids are numbers in the order of the strings.  A quota is Available(n),  *)
(* written n, or one of the negative values below.  A comparison answers   *)
(* -1, 0 or 1.  Quotas and tolerances are scaled down from basis points.   *)
(***************************************************************************)
EXTENDS Integers, SequencesExt

CONSTANTS
    RpIds,          \* candidate ids
    RpKind,         \* id -> "account" or "source"
    RpSource,       \* id -> its source_id
    RpPriority,     \* id -> priority
    RpExpiry,       \* id -> subscription_expires_at_ms, or RpNone
    RpRank,         \* id -> rank of its subscription plan, unranked ones last
    RpStrategies,   \* the routing strategies in use
    RpStarts,       \* the <<quotas, resets>> of the candidates a runtime is built with
    RpQuotas,       \* the quotas refreshes report
    RpResets,       \* the reset times refreshes report, RpNone included
    RpReserves,     \* the reserves of the protected account
    RpNear,         \* QUOTA_RESET_TIE_BPS
    RpSlack,        \* PROMPT_AFFINITY_QUOTA_SLACK_BPS
    RpWindow,       \* PROVIDER_STORM_WINDOW_MS
    RpOpen,         \* PROVIDER_STORM_OPEN_MS
    RpThreshold,    \* PROVIDER_STORM_THRESHOLD
    RpMaxNow,       \* bound: the last instant of the clock
    RpMaxFlight,    \* bound: requests of one candidate at a time
    RpMaxDispatch,  \* bound: dispatches counted for one candidate
    RpMaxRefresh    \* bound: quota refreshes

RpNone == -1
Unknown == -1
ExhaustedQuota == -2
Stale == -3
RpPrimary == 10        \* API_SOURCE_PRIMARY_PRIORITY
RpReserve == -10       \* API_SOURCE_RESERVE_PRIORITY
RpNoise == 1           \* QUOTA_NOISE_TIE_BPS
RpSkew == 1            \* PROMPT_AFFINITY_MAX_IN_FLIGHT_SKEW

VARIABLES
    rpQuota,      \* id -> quota
    rpReset,      \* id -> quota_reset_at_ms
    rpFlight,     \* id -> requests in flight
    rpDispatch,   \* id -> dispatches since the counters were last cleared
    rpStrategy,   \* routing_strategy
    rpProtected,  \* protected_candidate: <<id, reserve>>, or <<>>
    rpStorm,      \* source -> [failures, until], a storm breaker
    rpOwner,      \* the candidate the session's prompt key is bound to
    rpLast,       \* the latest selection: the candidate, the one the order alone
                  \* prefers, and what it was chosen from
    rpLimits,     \* source -> the instants of its 429 answers since its last success
    rpNow, rpRefreshes

rpVars == <<rpQuota, rpReset, rpFlight, rpDispatch, rpStrategy, rpProtected, rpStorm, rpOwner,
            rpLast, rpLimits, rpNow, rpRefreshes>>

-----------------------------------------------------------------------------
Cmp(x, y) == IF x < y THEN -1 ELSE IF x > y THEN 1 ELSE 0

\* Ordering::then_with(), repeated: the first comparison that decides.
FirstDecides(s) ==
    LET decided == SelectSeq(s, LAMBDA o : o # 0) IN IF decided = <<>> THEN 0 ELSE Head(decided)

BothAre(kind, l, r) == RpKind[l] = kind /\ RpKind[r] = kind

RoutingTier(c) ==
    CASE RpKind[c] = "account" -> 0
      [] RpKind[c] = "source" /\ RpPriority[c] >= RpPrimary -> 1
      [] RpKind[c] = "source" /\ RpPriority[c] <= RpReserve -> -1
      [] OTHER -> 0

KindPreference(c) == IF RpKind[c] = "account" THEN 1 ELSE 0

CompareSourcePriority(l, r) ==
    IF BothAre("source", l, r) /\ RoutingTier(l) = RoutingTier(r)
    THEN Cmp(RpPriority[l], RpPriority[r]) ELSE 0

\* routing_quota(): the protected account counts what is above its reserve.
RoutingQuota(c) ==
    IF rpQuota[c] >= 0 /\ rpProtected # <<>> /\ rpProtected[1] = c
    THEN IF rpQuota[c] > rpProtected[2] THEN rpQuota[c] - rpProtected[2] ELSE 0
    ELSE rpQuota[c]

\* CandidateQuota::compare_preference(): a known quota before any other answer.
CompareQuota(l, r) ==
    CASE l >= 0 /\ r >= 0 -> Cmp(l, r)
      [] l >= 0 /\ r < 0 -> 1
      [] l < 0 /\ r >= 0 -> -1
      [] OTHER -> 0

Apart(x, y) == IF x > y THEN x - y ELSE y - x

CompareResets(l, r) ==
    IF rpReset[l] # RpNone /\ rpReset[r] # RpNone THEN Cmp(rpReset[r], rpReset[l]) ELSE 0

CompareResetsAlways(l, r) ==
    FirstDecides(<<CompareResets(l, r), CompareQuota(RoutingQuota(l), RoutingQuota(r))>>)

\* Quotas one step apart are equal; near ones go to the earlier reset.
CompareQuotaAndReset(l, r) ==
    LET x == RoutingQuota(l)
        y == RoutingQuota(r)
        known == x >= 0 /\ y >= 0
    IN  CASE known /\ Apart(x, y) <= RpNoise -> 0
          [] known /\ Apart(x, y) \in RpNoise + 1..RpNear ->
               FirstDecides(<<CompareResets(l, r), Cmp(x, y)>>)
          [] OTHER -> CompareQuota(x, y)

CompareExpiry(l, r) ==
    IF ~BothAre("account", l, r) \/ RpExpiry[l] = RpExpiry[r] THEN 0
    ELSE IF RpExpiry[l] = RpNone THEN -1
    ELSE IF RpExpiry[r] = RpNone THEN 1
    ELSE Cmp(RpExpiry[r], RpExpiry[l])

ComparePlan(l, r) == IF BothAre("account", l, r) THEN Cmp(RpRank[r], RpRank[l]) ELSE 0

\* What the strategy asks before the quota.
CompareSubscription(l, r) ==
    CASE rpStrategy = "subscription_expiry" -> CompareExpiry(l, r)
      [] rpStrategy = "subscription_plan" -> ComparePlan(l, r)
      [] OTHER -> 0

CompareLoad(l, r) == IF BothAre("account", l, r) THEN Cmp(rpFlight[r], rpFlight[l]) ELSE 0

\* rotation_dispatch_count(): a source's reservation counts once it has settled.
RotationCount(c) ==
    IF RpKind[c] = "account" THEN rpDispatch[c]
    ELSE IF rpDispatch[c] > rpFlight[c] THEN rpDispatch[c] - rpFlight[c] ELSE 0

CompareRotation(l, r) ==
    IF rpStrategy = "quota_highest" \/ BothAre("source", l, r) THEN 0
    ELSE Cmp(RotationCount(r), RotationCount(l))

\* compare_preference(): the route's roles, the strategy, the quota, the load,
\* the rotation and at last the id.
ComparePreference(l, r) ==
    FirstDecides(<<Cmp(RoutingTier(l), RoutingTier(r)),
                   Cmp(KindPreference(l), KindPreference(r)), CompareSourcePriority(l, r),
                   CompareSubscription(l, r), CompareQuotaAndReset(l, r), CompareLoad(l, r),
                   CompareRotation(l, r), Cmp(r, l)>>)

\* Iterator::max_by(): the candidates are folded in the order of their ids, and
\* a later one replaces the best so far unless the best is greater.
MostPreferred(S) ==
    LET ids == SetToSortSeq(S, <)
    IN  FoldLeft(LAMBDA best, c : IF ComparePreference(best, c) = 1 THEN best ELSE c,
                 Head(ids), Tail(ids))

-----------------------------------------------------------------------------
QuotaEligible(c) == rpQuota[c] = Unknown \/ rpQuota[c] > 0
                    \/ (rpQuota[c] = Stale /\ RpKind[c] = "account")

\* quota_reserve_allows(): the protected account keeps its reserve.
ReserveAllows(c) ==
    rpProtected # <<>> /\ rpProtected[1] = c => rpQuota[c] >= 0 /\ rpQuota[c] > rpProtected[2]

StormOpen(c) == RpKind[c] = "source" /\ rpStorm[RpSource[c]].until > rpNow

RpEligible == {c \in RpIds : QuotaEligible(c) /\ ReserveAllows(c) /\ ~StormOpen(c)}

AffinityByRole(p, b) ==
    /\ RoutingTier(p) = RoutingTier(b) /\ KindPreference(p) = KindPreference(b)
    /\ rpFlight[p] <= rpFlight[b] + RpSkew

AffinityForgetsPriority(p, b, explicit) == AffinityByRole(p, b)

\* prompt_affinity_allows(): the owner of the prompt's cache goes before the
\* preferred candidate b, a derived key only while its quota is close.
AffinityAllows(p, b, explicit) ==
    /\ AffinityByRole(p, b)
    /\ BothAre("source", p, b) => RpPriority[p] >= RpPriority[b]
    /\ \/ explicit
       \/ /\ RoutingQuota(p) >= 0 /\ RoutingQuota(b) >= 0
          /\ RoutingQuota(p) + RpSlack >= RoutingQuota(b)
       \/ RoutingQuota(p) >= Unknown /\ RoutingQuota(b) = Unknown

\* What select_for() answers: the owner where affinity allows it, or the most
\* preferred candidate.
Choice(explicit) ==
    LET b == MostPreferred(RpEligible)
    IN  IF rpOwner \in RpEligible \ {b} /\ AffinityAllows(rpOwner, b, explicit)
        THEN rpOwner ELSE b

-----------------------------------------------------------------------------
NoStorm == [failures |-> <<>>, until |-> 0]
Sources == {RpSource[c] : c \in {x \in RpIds : RpKind[x] = "source"}}
NoSelection == [choice |-> RpNone, preferred |-> RpNone, from |-> {}]

RpInit ==
    /\ \E start \in RpStarts : rpQuota = start[1] /\ rpReset = start[2]
    /\ rpFlight = [c \in RpIds |-> 0] /\ rpDispatch = [c \in RpIds |-> 0]
    /\ rpStrategy \in RpStrategies /\ rpProtected = <<>>
    /\ rpStorm = [s \in Sources |-> NoStorm] /\ rpLimits = [s \in Sources |-> <<>>]
    /\ rpOwner = RpNone /\ rpLast = NoSelection
    /\ rpNow = 1 /\ rpRefreshes = 0

\* A request is routed: select_for() and the reservation, under one lock.
RpRoute(explicit) ==
    /\ RpEligible # {}
    /\ LET c == Choice(explicit)
       IN  /\ rpFlight[c] < RpMaxFlight /\ rpDispatch[c] < RpMaxDispatch
           /\ rpFlight' = [rpFlight EXCEPT ![c] = @ + 1]
           /\ rpDispatch' = [rpDispatch EXCEPT ![c] = @ + 1]
           /\ rpLast' = [choice |-> c, preferred |-> MostPreferred(RpEligible),
                         from |-> RpEligible]
    /\ UNCHANGED <<rpQuota, rpReset, rpStrategy, rpProtected, rpStorm, rpOwner, rpLimits,
                   rpNow, rpRefreshes>>

\* record_success(): the provider's storm breaker is dropped, the prompt key is
\* bound unless it has an owner, and the lease is released.
RpSucceed(c) ==
    /\ rpFlight[c] > 0
    /\ rpFlight' = [rpFlight EXCEPT ![c] = @ - 1]
    /\ rpOwner' = IF rpOwner = RpNone THEN c ELSE rpOwner
    /\ rpStorm' = [s \in Sources |-> IF s = RpSource[c] THEN NoStorm ELSE rpStorm[s]]
    /\ rpLimits' = [s \in Sources |-> IF s = RpSource[c] THEN <<>> ELSE rpLimits[s]]
    /\ rpLast' = NoSelection
    /\ UNCHANGED <<rpQuota, rpReset, rpDispatch, rpStrategy, rpProtected, rpNow, rpRefreshes>>

StormPerAnswer(storm) == [failures |-> <<rpNow>>, until |-> storm.until]

\* record_provider_rate_limit(): the failures in the window, this one included.
StormAfter(storm) ==
    LET recent == Append(SelectSeq(storm.failures, LAMBDA t : rpNow - t <= RpWindow), rpNow)
    IN  [failures |-> recent,
         until |-> IF Len(recent) >= RpThreshold THEN rpNow + RpOpen ELSE storm.until]

\* A source answers 429: the storm breaker hears of it, and the lease ends.
RpRateLimited(c) ==
    /\ rpFlight[c] > 0 /\ RpKind[c] = "source"
    /\ rpFlight' = [rpFlight EXCEPT ![c] = @ - 1]
    /\ rpStorm' = [rpStorm EXCEPT ![RpSource[c]] = StormAfter(@)]
    /\ rpLimits' = [rpLimits EXCEPT ![RpSource[c]] = Append(@, rpNow)]
    /\ rpLast' = NoSelection
    /\ UNCHANGED <<rpQuota, rpReset, rpDispatch, rpStrategy, rpProtected, rpOwner, rpNow,
                   rpRefreshes>>

\* update_candidate_quota_at(): any change starts the rotation of every
\* candidate again.
RpRefresh(c, q, t) ==
    /\ rpRefreshes < RpMaxRefresh /\ <<q, t>> # <<rpQuota[c], rpReset[c]>>
    /\ rpQuota' = [rpQuota EXCEPT ![c] = q] /\ rpReset' = [rpReset EXCEPT ![c] = t]
    /\ rpDispatch' = [x \in RpIds |-> 0]
    /\ rpRefreshes' = rpRefreshes + 1
    /\ rpLast' = NoSelection
    /\ UNCHANGED <<rpFlight, rpStrategy, rpProtected, rpStorm, rpOwner, rpLimits, rpNow>>

\* set_protected_candidate(): the account of the ChatGPT profile, or none.
RpProtect(p) ==
    /\ rpProtected # p
    /\ rpProtected' = p
    /\ rpLast' = NoSelection
    /\ UNCHANGED <<rpQuota, rpReset, rpFlight, rpDispatch, rpStrategy, rpStorm, rpOwner,
                   rpLimits, rpNow, rpRefreshes>>

\* set_routing_strategy(): a change starts the rotation again.
RpSetStrategy(x) ==
    /\ rpStrategy # x
    /\ rpStrategy' = x /\ rpDispatch' = [c \in RpIds |-> 0]
    /\ rpLast' = NoSelection
    /\ UNCHANGED <<rpQuota, rpReset, rpFlight, rpProtected, rpStorm, rpOwner, rpLimits, rpNow,
                   rpRefreshes>>

RpTick ==
    /\ rpNow < RpMaxNow
    /\ rpNow' = rpNow + 1 /\ rpLast' = NoSelection
    /\ UNCHANGED <<rpQuota, rpReset, rpFlight, rpDispatch, rpStrategy, rpProtected, rpStorm,
                   rpOwner, rpLimits, rpRefreshes>>

RpProtections ==
    {<<>>} \cup ({c \in RpIds : RpKind[c] = "account"} \X RpReserves)

RpNext ==
    \/ \E explicit \in BOOLEAN : RpRoute(explicit)
    \/ \E c \in RpIds : RpSucceed(c) \/ RpRateLimited(c)
    \/ \E c \in RpIds, q \in RpQuotas, t \in RpResets : RpRefresh(c, q, t)
    \/ \E p \in RpProtections : RpProtect(p)
    \/ \E x \in RpStrategies : RpSetStrategy(x)
    \/ RpTick

-----------------------------------------------------------------------------
RpTypeOK ==
    /\ \A c \in RpIds : rpQuota[c] >= Stale /\ rpReset[c] >= RpNone
    /\ rpFlight \in [RpIds -> 0..RpMaxFlight] /\ rpDispatch \in [RpIds -> 0..RpMaxDispatch]
    /\ rpStrategy \in RpStrategies /\ rpProtected \in RpProtections
    /\ rpOwner \in RpIds \cup {RpNone}
    /\ rpLast.from = {} \/ {rpLast.choice, rpLast.preferred} \subseteq rpLast.from

\* The role of a route: primary sources, then accounts, then sources by priority.
Role(c) == <<RoutingTier(c), KindPreference(c),
             IF RpKind[c] = "source" THEN RpPriority[c] ELSE 0>>

Above(x, y) == \/ x[1] > y[1]
               \/ x[1] = y[1] /\ x[2] > y[2]
               \/ x[1] = y[1] /\ x[2] = y[2] /\ x[3] > y[3]

\* The candidates that nothing but quota, load and rotation tells from c.
Peers(c) == {x \in rpLast'.from : Role(x) = Role(c) /\ CompareSubscription(x, c) = 0}

\* The configured order is a hard policy: whatever the quotas, the load, the
\* rotation and the owner of the prompt's cache say, no request goes to a
\* candidate while one of a higher role is eligible (compare_preference and
\* prompt_affinity_allows, "An explicit API source order is a hard route
\* policy").
RolesComeFirst ==
    [][\A x \in rpLast'.from : ~Above(Role(x), Role(rpLast'.choice))]_rpVars

\* The preference is not transitive: near quotas are ordered by their resets.
\* The selection folds it all the same, and the quota of the candidate it
\* prefers falls short of the greatest one by at most one tolerance for each
\* further peer.
DriftIsBounded ==
    [][rpLast' # NoSelection =>
         LET b == rpLast'.preferred
         IN  \A x \in Peers(b) : RoutingQuota(x) >= 0 =>
               /\ RoutingQuota(b) >= 0
               /\ RoutingQuota(x) - RoutingQuota(b) <= (Cardinality(Peers(b)) - 1) * RpNear]_rpVars

\* A storm: enough 429 answers within one window, the last less than the open
\* time ago, and no success of the source since.
Storming(s) ==
    \E i \in RpThreshold..Len(rpLimits[s]) :
       /\ rpLimits[s][i] - rpLimits[s][i - RpThreshold + 1] <= RpWindow
       /\ rpLimits[s][i] + RpOpen > rpNow

\* No request goes to any candidate of a source in a storm, also when the 429
\* answers were those of its other candidates (record_provider_rate_limit).
StormIsShared ==
    [][rpLast' # NoSelection /\ RpKind[rpLast'.choice] = "source"
         => ~Storming(RpSource[rpLast'.choice])]_rpVars

\* What every selection obeys, however quotas, load and storms move between two
\* of them (routing_policy.rs, selection.rs).
RoutingSteps == RolesComeFirst /\ DriftIsBounded /\ StormIsShared
====
