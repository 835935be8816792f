---------------------------- MODULE QuotaReading ----------------------------
(***************************************************************************)
(* What the relay makes of one observation of a ChatGPT account: the       *)
(* reducers of relay-core that the desktop application and the server      *)
(* share.  A quota answer, a set of quota headers, a subscription probe, a  *)
(* model discovery or the end of a proxied request comes in; the state      *)
(* that is written to the account comes out.                               *)
(*                                                                         *)
(* An optional value is the empty set or a singleton.  What is left of a    *)
(* quota window is one of three levels (the code keeps basis points and     *)
(* asks only whether nothing is left and whether the window is full), times *)
(* are small naturals, an error is the code's error string.                *)
(***************************************************************************)
EXTENDS Naturals, FiniteSets, FiniteSetsExt, TLC

Exhausted == 0
Partial == 1
FullyAvailable == 2

-----------------------------------------------------------------------------
(* Quota windows.  A window is [level, reset, at, full, spent]; full and    *)
(* spent hold the fingerprint of the transition that led to the level.      *)

IsFullyAvailable(w) == w.level = {FullyAvailable}
IsExhausted(w) == w.level = {Exhausted}

\* The fingerprint is made of the reset time and the time of the observation.
Fingerprint(w) == <<w.reset, w.at>>

\* A state that the previous window was in already keeps its fingerprint.
Carried(holds, before, fresh) == IF ~holds THEN {} ELSE IF before # {} THEN before ELSE {fresh}

\* w is [level, reset, at]; before is the previous window of that kind.
NormalizedWindow(w, before) ==
  w @@ [full  |-> Carried(IsFullyAvailable(w),
                          UNION {p.full : p \in {q \in before : IsFullyAvailable(q)}},
                          Fingerprint(w)),
        spent |-> Carried(IsExhausted(w),
                          UNION {p.spent : p \in {q \in before : IsExhausted(q)}},
                          Fingerprint(w))]

FullTransition(w, before) ==
  {IF w.full # {} THEN CHOOSE f \in w.full : TRUE ELSE Fingerprint(w) :
     p \in {q \in before : ~IsFullyAvailable(q) /\ IsFullyAvailable(w)}}

ExhaustionTransition(w) ==
  IF ~IsExhausted(w) THEN {}
  ELSE {IF w.spent # {} THEN CHOOSE f \in w.spent : TRUE ELSE Fingerprint(w)}

\* Quota headers of a proxied answer.
IsNewCycle(before, seen) ==
  \E p \in before : \E r \in p.reset :
     r <= seen.at \/ \E s \in seen.reset : s > r

LeastLevel(a, b) == IF a = {} \/ b = {} THEN a \cup b ELSE {Min(a \cup b)}

MergedWindow(before, seen) ==
  IF before = {} THEN {seen}
  ELSE LET p == CHOOSE q \in before : TRUE
       IN  IF seen.at < p.at THEN before
           ELSE {[seen EXCEPT !.level = IF IsNewCycle(before, seen) THEN @ ELSE LeastLevel(p.level, @),
                              !.reset = IF @ # {} THEN @ ELSE p.reset]}

\* The account's quota is [weekly, limited, at, error]; the headers carry the
\* weekly window as [level, reset, at].
MergedHeaders(quota, seen) ==
  LET weekly == MergedWindow(quota.weekly, NormalizedWindow(seen, {}))
  IN  [weekly  |-> weekly,
       limited |-> \/ \E w \in weekly : IsExhausted(w)
                   \/ quota.limited /\ ~IsNewCycle(quota.weekly, seen),
       at      |-> {Max(quota.at \cup {seen.at})},
       error   |-> {}]

-----------------------------------------------------------------------------
(* The subscription: [plan, until, status, at].                             *)

PlanChanged(before, seen) == seen # {} /\ seen # before

SubscriptionStatus(plan, until, now) ==
  IF \E u \in until : u <= now THEN "expired"
  ELSE IF plan # {} \/ until # {} THEN "active" ELSE "unknown"

NormalizedSubscription(seen) ==
  [plan |-> seen.plan, until |-> seen.until,
   status |-> SubscriptionStatus(seen.plan, seen.until, seen.at), at |-> {seen.at}]

\* What a quota answer does not say is taken from the stored subscription.
PreservedSubscription(seen, stored) ==
  LET plan == IF seen.plan = {} THEN stored.plan ELSE seen.plan
  IN  [seen EXCEPT !.plan = plan,
                   !.until = IF @ = {} /\ ~PlanChanged(stored.plan, plan) THEN stored.until ELSE @]

SubscriptionDue(sub, now, interval) ==
  sub.until = {} \/ \A t \in sub.at : now - t >= interval

\* The answer of the dedicated subscription probe, [plan, until].
MergedMetadata(sub, found, now) ==
  LET changed == PlanChanged(sub.plan, found.plan)
      stale   == found.plan # {} /\ \E u \in sub.until : u <= now
  IN  [plan  |-> IF found.plan # {} THEN found.plan ELSE sub.plan,
       until |-> IF found.until # {} THEN found.until
                 ELSE IF changed \/ stale THEN {} ELSE sub.until]

-----------------------------------------------------------------------------
(* The account: [auth, health, error, quota, sub].                          *)

AuthStates == {"active", "access_only", "error", "reauth"}
HealthStates == {"unknown", "healthy", "degraded", "unhealthy", "blocked"}

RequiresFreshLogin(auth) == auth = "reauth"
MonitoringEligible(enabled, auth) == enabled /\ ~RequiresFreshLogin(auth)

\* Error codes by the part of the relay that owns them.
AuthenticationFailures == {"token_revoked"}
BlockedFailures == {"account_deactivated"}
QuotaErrors == {"quota_forbidden", "quota_unauthorized", "quota_transport", "quota_token_refresh"}
ModelErrors == {"models_unauthorized", "models_forbidden", "models_transport"}
UsageErrors == {"upstream_unauthorized", "upstream_forbidden", "upstream_rate_limited",
                "upstream_quota_exhausted", "credential_access_expiry_failed"}
ErrorCodes == AuthenticationFailures \cup BlockedFailures \cup QuotaErrors
                \cup ModelErrors \cup UsageErrors

IsAuthOwned(code) ==
  code \in AuthenticationFailures \cup {"credential_access_expiry_failed", "upstream_unauthorized"}

QuotaOwned(code, quota) == code \in QuotaErrors \/ code \in quota.error

\* A usage payload is [weekly, reached, limited, allowed, plan], a window of it
\* [used, reset]; it is read as [weekly, limited, allowed, sub, at].
MappedWindow(w, at) == [level |-> {FullyAvailable - w.used}, reset |-> w.reset, at |-> at]

ParsedUsage(payload, at) ==
  [weekly  |-> {MappedWindow(w, at) : w \in payload.weekly},
   limited |-> payload.reached \/ payload.limited,
   allowed |-> payload.allowed,
   sub     |-> {[plan |-> {p}, until |-> {}, at |-> at] : p \in payload.plan},
   at      |-> at]

QuotaRead(acct, answer) ==
  LET owned == \A code \in acct.error : QuotaOwned(code, acct.quota) \/ IsAuthOwned(code)
      shut  == ~answer.allowed /\ ~answer.limited
  IN  [acct EXCEPT !.quota  = [weekly  |-> {NormalizedWindow(w, acct.quota.weekly) : w \in answer.weekly},
                               limited |-> answer.limited, at |-> {answer.at}, error |-> {}],
                   !.sub    = IF answer.sub = {} THEN @
                              ELSE NormalizedSubscription(PreservedSubscription(
                                     CHOOSE s \in answer.sub : TRUE, acct.sub)),
                   !.health = IF shut THEN "blocked" ELSE IF owned THEN "healthy" ELSE @,
                   !.error  = IF shut THEN {"quota_forbidden"} ELSE IF owned THEN {} ELSE @]

QuotaFailed(acct, code, unauthorized) ==
  LET verdict == IF code \in AuthenticationFailures THEN "unhealthy"
                 ELSE IF code \in BlockedFailures THEN "blocked"
                 ELSE IF unauthorized THEN "unhealthy" ELSE "none"
  IN  [acct EXCEPT !.quota.error = {code},
                   !.health = IF verdict = "none" THEN @ ELSE verdict,
                   !.error  = IF verdict = "none" THEN @ ELSE {code}]


ModelsFailed(acct, code, retryable) ==
  [acct EXCEPT !.error  = {code},
               !.auth   = IF code = "models_unauthorized" /\ ~RequiresFreshLogin(@) THEN "error" ELSE @,
               !.health = IF code = "models_unauthorized" THEN "unhealthy"
                          ELSE IF code = "models_forbidden"
                               THEN IF @ \in {"blocked", "unhealthy"} THEN @ ELSE "degraded"
                          ELSE IF retryable THEN "degraded" ELSE "unhealthy"]

ModelsRecovered(acct) ==
  IF acct.error \cap ModelErrors = {} THEN acct
  ELSE IF RequiresFreshLogin(acct.auth) THEN [acct EXCEPT !.error = {}]
  ELSE [acct EXCEPT !.error = {}, !.health = "healthy",
                    !.auth = IF @ = "error" THEN "active" ELSE @]

\* The end of a proxied request: it succeeded, or it failed with a status.
\* access says whether a 401 can still be answered by refreshing the token.
RequestSucceeded(acct, auth) ==
  [acct EXCEPT !.health = "healthy", !.error = {},
               !.auth = IF @ \in {"error", "reauth"} THEN auth ELSE @]

Explicit(acct) == RequiresFreshLogin(acct.auth) \/ acct.health = "blocked"

Lowered(acct, code) ==
  [acct EXCEPT !.health = IF Explicit(acct) THEN @ ELSE "degraded", !.error = {code}]

Unauthorized(acct, access) ==
  IF access = "refreshable" THEN Lowered(acct, "upstream_unauthorized")
  ELSE IF access = "access_only"
       THEN [acct EXCEPT !.auth = IF RequiresFreshLogin(@) THEN @ ELSE "error",
                         !.health = "unhealthy", !.error = {"upstream_unauthorized"}]
  ELSE IF Explicit(acct) THEN acct
  ELSE [acct EXCEPT !.auth = "error", !.health = "unhealthy",
                    !.error = {"credential_access_expiry_failed"}]

Forbidden(acct, code) ==
  IF code = "upstream_quota_exhausted" THEN Lowered(acct, code)
  ELSE [acct EXCEPT !.health = "blocked", !.error = {code}]

RequestFailed(acct, status, code, access) ==
  CASE status = 401 -> Unauthorized(acct, access)
    [] status = 403 -> Forbidden(acct, code)
    [] OTHER        -> Lowered(acct, code)

\* Whether the failed request asks for a quota refresh.
WantsRefresh(status, code, access) ==
  status = 429 \/ (status = 401 /\ access = "refreshable")
     \/ (status = 403 /\ code = "upstream_quota_exhausted")
=============================================================================
