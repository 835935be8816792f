-------------------------- MODULE AccountEndpoint ---------------------------
(***************************************************************************)
(* What the gateway makes of an upstream's refusal: its category           *)
(* (crates/relay-core/src/gateway/errors.rs), whether another candidate    *)
(* may be asked (errors/failure.rs), and for how long, for which models    *)
(* and for what reason the candidate rests (errors/cooldown.rs).           *)
(*                                                                         *)
(* A refusal is its status and the kinds of phrase found in its text;      *)
(* the phrases themselves are left out, a kind has the name of the         *)
(* category it points to.  Category names lose their "upstream_".          *)
(***************************************************************************)
EXTENDS Integers, Sequences, FiniteSets, FiniteSetsExt

CONSTANTS
    FpSecond, FpTransient, FpLong,   \* 1 s, TRANSIENT_COOLDOWN_MS and half an hour
    FpHintMax                        \* MAX_RATE_LIMIT_RETRY_HINT_MS

ASSUME FpAssumption ==
    /\ {FpSecond, FpTransient, FpLong, FpHintMax} \subseteq Nat \ {0}
    /\ FpSecond <= FpTransient /\ FpTransient <= FpLong /\ FpLong <= FpHintMax

FpNone == -1      \* an absent header, hint or configured delay

-----------------------------------------------------------------------------
Rule(category, statuses) == [category |-> category, statuses |-> statuses]

\* classify_upstream_error_text() is one chain of alternatives; its order matters,
\* as one text may hold phrases of several kinds.
ConversationRules == <<
    Rule("response_affinity_miss", {}), Rule("refresh_token_reused", {}),
    Rule("previous_response_not_found", {}), Rule("account_verification_required", {}),
    Rule("tool_call_mismatch", {}), Rule("context_too_large", {}),
    Rule("encrypted_content_invalid", {}), Rule("instructions_required", {}) >>

AccountRules == <<
    Rule("account_disabled", {}), Rule("usage_not_included", {}),
    Rule("quota_exhausted", {402}), Rule("unauthorized", {401}),
    Rule("region_unsupported", {}), Rule("content_policy", {}), Rule("invalid_request", {}),
    Rule("payload_too_large", {413}), Rule("unsupported_request", {}) >>

ModelRules == <<
    Rule("model_capacity", {}), Rule("model_not_found", {}), Rule("model_unsupported", {406}),
    Rule("websocket_unsupported", {426}), Rule("websocket_connection_limit", {}),
    Rule("rate_limited", {}), Rule("overloaded", {529}), Rule("unavailable", {}),
    Rule("server_error", {}) >>

StatusRules == <<
    Rule("edge_challenge", {}), Rule("forbidden", {403}), Rule("not_found", {404}),
    Rule("request_timeout", {408}), Rule("conflict", {409}), Rule("rate_limited", {429}),
    Rule("server_error", {500}), Rule("bad_gateway", {502}), Rule("unavailable", {503}),
    Rule("gateway_timeout", {504}), Rule("candidate_rejected", 400..499),
    Rule("server_error", 500..599) >>

Rules == ConversationRules \o AccountRules \o ModelRules \o StatusRules

Categories == {Rules[i].category : i \in DOMAIN Rules} \cup {"status"}

Refusal == [status : 300..599, says : SUBSET (Categories \cup {"zenith"}), after : Nat \cup {FpNone},
            header : Nat \cup {FpNone}, global : BOOLEAN, workspace : BOOLEAN]

\* The phrases of an edge challenge only count in a 403.
Speaks(e, category) == category \in e.says /\ (category = "edge_challenge" => e.status = 403)

\* classify_upstream_error(): the gateway's own envelope comes before the text.
Classify(e) ==
    LET fits == {i \in DOMAIN Rules : Speaks(e, Rules[i].category) \/ e.status \in Rules[i].statuses}
    IN CASE "zenith" \in e.says -> "invalid_request"
         [] "zenith" \notin e.says /\ fits # {} -> Rules[Min(fits)].category
         [] OTHER -> "status"

\* upstream_failure_status().
FailureStatus(category) ==
    CASE category = "unauthorized" -> 401
      [] category \in {"account_disabled", "account_verification_required", "forbidden",
                       "region_unsupported", "usage_not_included"} -> 403
      [] category \in {"quota_exhausted", "rate_limited", "websocket_connection_limit"} -> 429
      [] category \in {"model_not_found", "not_found"} -> 404
      [] category = "model_unsupported" -> 406
      [] category = "websocket_unsupported" -> 426
      [] category = "request_timeout" -> 408
      [] category = "conflict" -> 409
      [] category = "payload_too_large" -> 413
      [] category \in {"response_affinity_miss", "previous_response_not_found", "tool_call_mismatch",
                       "context_too_large", "encrypted_content_invalid", "instructions_required",
                       "content_policy", "unsupported_request", "invalid_request"} -> 400
      [] category \in {"candidate_rejected", "model_capacity", "overloaded", "unavailable",
                       "edge_challenge"} -> 503
      [] category = "server_error" -> 500
      [] category = "gateway_timeout" -> 504
      [] OTHER -> 502

CanonicalStatus(status, category) ==
    IF category = "status" THEN status ELSE FailureStatus(category)

-----------------------------------------------------------------------------
\* failure_category_is_request_terminal().
RequestFaults == {"tool_call_mismatch", "context_too_large", "encrypted_content_invalid",
                  "instructions_required", "content_policy", "payload_too_large",
                  "unsupported_request", "websocket_unsupported", "invalid_request"}

\* failure_category_requires_cooldown(): nor do these blame the candidate.
NoFaults == {"client_cancelled", "response_affinity_miss", "response_incomplete", "cancelled",
             "previous_response_not_found"}

RequiresCooldown(category) == category \notin RequestFaults /\ category \notin NoFaults

RetryableStatus(status, prev) ==
    \/ status \in {401, 402, 403, 408, 409, 429} \/ status \in 500..599
    \/ status = 404 /\ ~prev

\* The categories another candidate may not share.
RetryableCategories ==
    {"unauthorized", "account_disabled", "usage_not_included", "quota_exhausted", "region_unsupported",
     "model_not_found", "model_unsupported", "model_capacity", "candidate_rejected",
     "websocket_connection_limit", "rate_limited", "refresh_token_reused", "request_timeout",
     "overloaded", "edge_challenge", "server_error", "bad_gateway", "unavailable", "gateway_timeout"}

RetryableAnyway(status, category, prev) ==
    \/ RetryableStatus(status, prev) \/ category \in RetryableCategories

\* retryable_failure(): it looks at the status as it came, not at the canonical one,
\* and never moves a continuation because of a rejection it could not classify.
RetryableFailure(status, category, prev) ==
    /\ RequiresCooldown(category)
    /\ IF category = "candidate_rejected" THEN ~prev
       ELSE RetryableStatus(status, prev) \/ category \in RetryableCategories

\* recoverable_response_affinity_miss().
AffinityMiss(e, prev) == prev /\ "previous_response_not_found" \in e.says /\ e.status \in {400, 404, 409}

-----------------------------------------------------------------------------
AtMostHint(d) == IF d = FpNone THEN FpNone ELSE Min({d, FpHintMax})

\* exponential_backoff_ms(): doubles with every failure in a row, up to half an hour.
ExponentialBackoff(failures) ==
    Min({FpLong, FpSecond * 2 ^ Min({31, IF failures = 0 THEN 0 ELSE failures - 1})})

\* half_open_backoff_ms(): a failed probe doubles the delay, never below a longer one.
HalfOpenBackoff(d, failures, probe) ==
    LET base == Max({d, FpSecond})
        grown == base * 2 ^ Min({31, IF failures = 0 THEN 0 ELSE failures - 1})
    IN IF probe THEN Min({grown, Max({base, FpLong})}) ELSE d

\* rate_limit_cooldown_ms(): the stronger of the two hints.
RateLimitDelay(e, failures) ==
    LET hints == {e.header, e.after} \ {FpNone}
    IN IF hints = {} THEN ExponentialBackoff(failures) ELSE Max({AtMostHint(h) : h \in hints})

HintedDelay(e) == {e.header, e.after} # {FpNone}

\* source_cooldown_ms(): a configured delay replaces the automatic one, not a hint.
SourceDelay(automatic, configured, explicit) ==
    CASE configured = FpNone -> automatic
      [] configured # FpNone /\ explicit -> Max({automatic, configured})
      [] OTHER -> configured

\* failure_cooldown_reason().
Reason(status, category, explicit) ==
    CASE status = 429 -> "RateLimit"
      [] status # 429 /\ \/ explicit \/ status \in {401, 402, 403}
                         \/ category \in {"unauthorized", "account_disabled", "usage_not_included",
                               "quota_exhausted", "region_unsupported", "model_not_found",
                               "model_unsupported", "model_capacity", "websocket_connection_limit"}
           -> "Mandatory"
      [] OTHER -> "Transient"

\* rate_limit_scope(): exhausted quota is the account's, whatever the body says.
RateLimitScope(e, category, model) ==
    IF e.global \/ category = "quota_exhausted" THEN "*" ELSE model

Rest(scope, span, reason) == [scope |-> scope, span |-> span, reason |-> reason]

\* apply_status_cooldown_with_hint(), up to the call of the scheduler.
StatusRest(e, status, category, model, failures, configured, probe) ==
    LET scope == CASE status = 404 -> model
                   [] status = 429 -> RateLimitScope(e, category, model)
                   [] OTHER -> "*"
        automatic == CASE status \in {401, 402, 403} -> FpLong
                       [] status = 429 -> RateLimitDelay(e, failures)
                       [] OTHER -> FpTransient
    IN Rest(scope, HalfOpenBackoff(SourceDelay(automatic, configured, HintedDelay(e)), failures, probe),
            Reason(status, category, HintedDelay(e)))

\* apply_cooldown_with_reason_for_model(), up to the call of the scheduler.
PlainRest(scope, failures, configured, probe, reason) ==
    Rest(scope, HalfOpenBackoff(SourceDelay(FpTransient, configured, FALSE), failures, probe), reason)

ModelFailures == {"model_not_found", "model_unsupported", "model_capacity", "overloaded", "candidate_rejected"}

StreamFailures == {"stream", "stream_incomplete", "stream_idle_timeout"}

\* apply_failure_cooldown_with_hint(): how long the candidate rests after its
\* failures-th failure in a row.
RestAfter(e, category, model, failures, configured, probe) ==
    LET status == CanonicalStatus(e.status, category)
    IN CASE category \in StreamFailures -> PlainRest(model, failures, configured, probe, "Transient")
         [] category \in ModelFailures ->
              PlainRest(model, failures, configured, probe, Reason(status, category, HintedDelay(e)))
         [] OTHER -> StatusRest(e, status, category, model, failures, configured, probe)

\* AttemptFailure::prepare() and ::transport(): failures without an answer.
LocalFailure(kind) ==
    CASE kind = "auth" -> [category |-> "account_auth", status |-> 401]
      [] kind = "persist" -> [category |-> "account_token_persistence", status |-> 503]
      [] kind = "refresh" -> [category |-> "account_refresh", status |-> 502]
      [] OTHER -> [category |-> "transport", status |-> 502]

-----------------------------------------------------------------------------
(***************************************************************************)
(* The endpoints only ChatGPT accounts serve (compact, search, memories):  *)
(* execute_account_endpoint() of                                           *)
(* crates/relay-core/src/gateway/execution/account.rs, run for several     *)
(* requests at once over one pool of accounts, with what every failure     *)
(* does to the account: its failures in a row, its rests, its health and   *)
(* its capability blocks (runtime/candidates.rs, apply_usage_event).       *)
(*                                                                         *)
(* FailurePolicy says what a refusal means.  Which of the eligible         *)
(* accounts is selected is left open (PoolScheduler has the selection);    *)
(* every account may serve every model.                                    *)
(***************************************************************************)

CONSTANTS
    AeAccounts, AeModels, AeRequests,
    AeTeam,           \* the accounts of one ChatGPT workspace
    AeInputs,         \* the requests clients send
    AeRefusals,       \* the refusals an upstream may answer with
    AeRepairs,        \* the item-id repairs a strict upstream may ask for
    AeMaxRetry, AeOwnerLimit,   \* max_retry_candidates, MAX_RESPONSE_OWNER_CANDIDATES
    AeMaxNow, AeMaxFailures     \* bounds: the clock, failures in a row that are told apart

ASSUME AeAssumption == AeTeam \subseteq AeAccounts /\ AeMaxRetry \in Nat \ {0} /\ AeMaxRetry <= AeOwnerLimit

VARIABLES
    aeNow,
    aeCand,      \* account -> what the scheduler knows of it
    aeTripped,   \* until when the team breaker ignores another report
    aeReq,       \* request -> its execute_account_endpoint() call
    aeBar        \* account -> scope -> the moment an upstream asked to wait for (history)

aeVars == <<aeNow, aeCand, aeTripped, aeReq, aeBar>>

\* The category of each refusal.
Verdict == [e \in AeRefusals |-> Classify(e)]

AeScopes == AeModels \cup {"*"}
AeNobody == "nobody"
NotResting == [until |-> FpNone, reason |-> "Transient"]
AeNoFailure == [category |-> "no_eligible_source", status |-> 503, attempt |-> 0]

IdleRequest == [pc |-> "idle", model |-> "*", prev |-> FALSE, owner |-> AeNobody, sealed |-> FALSE,
                broken |-> {}, repaired |-> {}, recovered |-> FALSE, confirmed |-> FALSE, tried |-> {},
                attempts |-> 0, account |-> AeNobody, hit |-> FALSE, probe |-> FALSE, blamed |-> FALSE, stray |-> FALSE,
                last |-> AeNoFailure, preserved |-> AeNoFailure, sends |-> [a \in AeAccounts |-> 0]]

AeInit ==
    /\ aeNow = 0
    /\ aeCand = [a \in AeAccounts |-> [health |-> "Healthy", failures |-> 0, blocked |-> {},
                                       rests |-> [s \in AeScopes |-> NotResting]]]
    /\ aeTripped = FpNone
    /\ aeReq = [r \in AeRequests |-> IdleRequest]
    /\ aeBar = [a \in AeAccounts |-> [s \in AeScopes |-> 0]]

-----------------------------------------------------------------------------
AeResting(a, s) == aeCand[a].rests[s].until > aeNow
AeRested(a, s) == aeCand[a].rests[s].until # FpNone /\ ~AeResting(a, s)

AeUsable(a, m) ==
    /\ aeCand[a].health = "Healthy" /\ m \notin aeCand[a].blocked
    /\ ~AeResting(a, m) /\ ~AeResting(a, "*")

AeProbing(a, m) == AeRested(a, m) \/ AeRested(a, "*")

\* A rested account is first tried by one probe.
AeEligible(a, m) ==
    AeUsable(a, m) /\ (AeProbing(a, m) => \A r \in AeRequests : aeReq[r].account = a => ~aeReq[r].probe)

\* transient_cooldown_allowed(): never the last usable account.
LeavesOne(a, m) == \E b \in AeAccounts \ {a} : AeUsable(b, m)

Capped(n) == Min({n, AeMaxFailures})

\* The failure is counted, then the scheduler is asked for the rest
\* (set_cooldown_with_reason_inner): rests only get longer.
AfterRest(a, m, rest) ==
    LET counted == [aeCand[a] EXCEPT !.failures = Capped(@ + 1)]
        old == counted.rests[rest.scope]
        new == [until |-> Max({old.until, aeNow + rest.span}),
                reason |-> IF aeNow + rest.span > old.until \/ rest.reason = "Mandatory"
                           THEN rest.reason ELSE old.reason]
    IN IF rest.reason = "Transient" /\ ~LeavesOne(a, m) THEN counted
       ELSE [counted EXCEPT !.rests[rest.scope] = new]

\* is_model_capability_failure().
CapabilityFailures == {"model_not_found", "model_unsupported", "usage_not_included"}

\* apply_usage_event() for a failed request of an account.
AfterEvent(cand, m, category) ==
    CASE category \in CapabilityFailures -> [cand EXCEPT !.blocked = @ \cup {m}]
      [] category \in {"unauthorized", "account_auth"} -> [cand EXCEPT !.health = "ReauthRequired"]
      [] category = "account_disabled" -> [cand EXCEPT !.health = "Blocked"]
      [] category = "account_verification_required" -> [cand EXCEPT !.health = "Checkpoint"]
      [] OTHER -> cand

AfterSuccessAllClear(cand, m) ==
    [cand EXCEPT !.rests = [s \in AeScopes |-> NotResting], !.health = "Healthy", !.failures = 0]

\* record_success_with_metrics(), then apply_usage_event().
AfterSuccess(cand, m) ==
    LET kept == [s \in AeScopes |-> IF s \in {m, "*"} /\ cand.rests[s].until <= aeNow
                                  THEN NotResting ELSE cand.rests[s]]
        recovered == \A s \in AeScopes : kept[s].until <= aeNow
    IN [cand EXCEPT !.rests = kept, !.health = "Healthy", !.failures = IF recovered THEN 0 ELSE @]

\* trip_chatgpt_team_breaker(): the members other than the one that reported.
Felled(a) == IF a \in AeTeam /\ aeTripped <= aeNow THEN AeTeam \ {a} ELSE {}

-----------------------------------------------------------------------------
\* A client's request: its model, whether it continues a response (and who owns that),
\* whether it carries encrypted reasoning, and the item ids a strict upstream rejects.
AeBegin(r, x) ==
    /\ aeReq[r].pc = "idle"
    /\ aeReq' = [aeReq EXCEPT ![r] = [@ EXCEPT !.pc = "select", !.model = x.model, !.prev = x.prev,
                     !.owner = x.owner, !.sealed = x.sealed, !.broken = x.broken]]
    /\ UNCHANGED <<aeNow, aeCand, aeTripped, aeBar>>

AeLoopRuns(q) == q.attempts < (IF q.confirmed THEN AeOwnerLimit ELSE AeMaxRetry)
                              + (IF q.recovered THEN 1 ELSE 0)

\* select_and_reserve(): a bound continuation only goes to its owner.
AeChoices(q) ==
    {a \in AeAccounts \ q.tried : AeEligible(a, q.model) /\ (q.owner # AeNobody => a = q.owner)}

\* A candidate is selected, its route is found and the request is sent.
AeSelectAndSend(r, a) ==
    LET q == aeReq[r] IN
    /\ q.pc = "select" /\ AeLoopRuns(q) /\ a \in AeChoices(q)
    /\ aeReq' = [aeReq EXCEPT ![r] = [q EXCEPT !.pc = "sent", !.account = a, !.tried = @ \cup {a},
                     !.hit = (q.owner = a), !.blamed = FALSE, !.probe = AeProbing(a, q.model), !.attempts = @ + 1,
                     !.sends[a] = @ + 1]]
    /\ UNCHANGED <<aeNow, aeCand, aeTripped, aeBar>>

\* The route was removed after the selection: no attempt is counted.
AeRouteGone(r, a) ==
    LET q == aeReq[r] IN
    /\ q.pc = "select" /\ AeLoopRuns(q) /\ a \in AeChoices(q)
    /\ aeReq' = [aeReq EXCEPT ![r].tried = @ \cup {a}]
    /\ UNCHANGED <<aeNow, aeCand, aeTripped, aeBar>>

\* What the loop does after an attempt that failed: it selects again.
AeOnward(q, failure) ==
    [q EXCEPT !.pc = "select", !.account = AeNobody, !.probe = FALSE, !.last = failure]

\* The client has its answer: a failure, and the attempt whose message goes with it.
AeEnded(q, failure, message) ==
    [IdleRequest EXCEPT !.pc = "done", !.blamed = q.blamed, !.stray = (message # failure)]

AeFailure(q, category, status) == [category |-> category, status |-> status, attempt |-> q.attempts]

\* send_authorized_request() failed: no answer came.
SendFails(r, kind) ==
    LET q == aeReq[r] a == q.account f == LocalFailure(kind)
        silent == [status |-> f.status, says |-> {}, after |-> FpNone, header |-> FpNone,
                   global |-> FALSE, workspace |-> FALSE]
        cooled == AfterRest(a, q.model, RestAfter(silent, f.category, q.model,
                                            Capped(aeCand[a].failures + 1), FpNone, q.probe))
    IN /\ q.pc = "sent"
       /\ aeCand' = [aeCand EXCEPT ![a] = AfterEvent(cooled, q.model, f.category)]
       /\ aeReq' = [aeReq EXCEPT ![r] = AeOnward(q, AeFailure(q, f.category, f.status))]
       /\ UNCHANGED <<aeNow, aeTripped, aeBar>>

\* The body could not be collected.
BodyFails(r) ==
    LET q == aeReq[r] a == q.account IN
    /\ q.pc = "sent"
    /\ aeCand' = [aeCand EXCEPT ![a] = AfterRest(a, q.model,
                     PlainRest("*", Capped(aeCand[a].failures + 1), FpNone, q.probe, "Transient"))]
    /\ aeReq' = [aeReq EXCEPT ![r] = AeOnward(q, AeFailure(q, "error", 502))]
    /\ UNCHANGED <<aeNow, aeTripped, aeBar>>

RepairKept(q, k) == [AeOnward(q, q.last) EXCEPT !.attempts = @ - 1, !.tried = @ \ {q.account}]

\* A strict upstream names an item id: repaired once, and asked again for free.
AeRepaired(q, k) == [RepairKept(q, k) EXCEPT !.repaired = @ \cup {k}, !.broken = @ \ {k}]

RepairAndResend(r, k) ==
    LET q == aeReq[r] IN
    /\ q.pc = "sent" /\ k \in q.broken \ q.repaired
    /\ aeReq' = [aeReq EXCEPT ![r] = AeRepaired(q, k)]
    /\ UNCHANGED <<aeNow, aeCand, aeTripped, aeBar>>

PreservedOlder(q, e) ==
    IF e.workspace THEN q.preserved ELSE AeFailure(q, Verdict[e], CanonicalStatus(e.status, Verdict[e]))

\* preserved_upstream_error(): the public message of this answer, or nothing.  An
\* answer with a workspace's private code has none.
AePreserved(q, e) ==
    IF e.workspace THEN AeNoFailure ELSE AeFailure(q, Verdict[e], CanonicalStatus(e.status, Verdict[e]))

\* History: the refusals that speak of the request and of nothing else.
BlamesRequest(e) == e.says # {} /\ e.says \subseteq RequestFaults \cup {"zenith"} /\ e.status \notin {401, 402}

\* A status other than success: see what the loop makes of it.
AeRefused(r, e) ==
    LET q == aeReq[r] a == q.account category == Verdict[e]
        failure == AeFailure(q, category, CanonicalStatus(e.status, category))
        heard == [q EXCEPT !.preserved = AePreserved(q, e), !.blamed = BlamesRequest(e)]
        unsealed == category = "encrypted_content_invalid" /\ q.sealed /\ ~q.recovered
        miss == AffinityMiss(e, q.prev)
        retry == ~unsealed /\ ~miss /\ RetryableFailure(e.status, category, q.prev)
        rest == RestAfter(e, category, q.model, Capped(aeCand[a].failures + 1), FpNone, q.probe)
        tripped == e.status = 402 /\ e.workspace
    IN /\ q.pc = "sent"
       /\ aeCand' = [b \in AeAccounts |->
             CASE b = a -> AfterEvent(IF retry THEN AfterRest(a, q.model, rest) ELSE aeCand[a], q.model,
                                      IF miss THEN "response_affinity_miss" ELSE category)
               [] b # a /\ tripped /\ b \in Felled(a) -> [aeCand[b] EXCEPT !.health = "Blocked"]
               [] OTHER -> aeCand[b]]
       /\ aeTripped' = IF tripped /\ Felled(a) # {} THEN aeNow + FpLong ELSE aeTripped
       /\ aeReq' = [aeReq EXCEPT ![r] =
             CASE unsealed -> [AeOnward(heard, failure) EXCEPT !.recovered = TRUE, !.sealed = FALSE,
                                                            !.tried = @ \ {a}]
               [] miss /\ ~unsealed -> [AeOnward(heard, failure) EXCEPT !.owner = AeNobody,
                                                            !.confirmed = @ \/ ~q.hit]
               [] retry -> [AeOnward(heard, failure) EXCEPT !.owner = IF q.hit THEN AeNobody ELSE @]
               [] OTHER -> AeEnded(heard, failure, failure)]
       /\ aeBar' = IF retry /\ HintedDelay(e) /\ CanonicalStatus(e.status, category) = 429
                   THEN [aeBar EXCEPT ![a][RateLimitScope(e, category, q.model)] =
                            Max({@, aeNow + Max({AtMostHint(e.header), AtMostHint(e.after)})})]
                   ELSE aeBar
       /\ UNCHANGED aeNow

AeSucceeds(r) ==
    LET q == aeReq[r] IN
    /\ q.pc = "sent"
    /\ aeCand' = [aeCand EXCEPT ![q.account] = AfterSuccess(@, q.model)]
    /\ aeReq' = [aeReq EXCEPT ![r] = [IdleRequest EXCEPT !.pc = "done"]]
    /\ UNCHANGED <<aeNow, aeTripped, aeBar>>

\* all_applicable_cooldown(): every account the request could go to is resting, and the
\* last failure was a limit: the client is told when the first of them is back.
AeToldToWait(q) ==
    /\ q.last.status = 429
    /\ LET visible == {a \in AeAccounts : q.model \notin aeCand[a].blocked /\ aeCand[a].health = "Healthy"
                                          /\ (q.owner # AeNobody => a = q.owner)}
       IN visible # {} /\ \A a \in visible : AeResting(a, q.model) \/ AeResting(a, "*")

AeMessage(q) ==
    IF /\ ~AeToldToWait(q)
       /\ q.preserved.category = q.last.category /\ q.preserved.status = q.last.status
    THEN q.preserved ELSE q.last

\* The loop ends without an answer of its own: the last failure is reported, with its
\* public message when that message belongs to it, or the client is told to wait.
AeConclude(r) ==
    LET q == aeReq[r] IN
    /\ q.pc = "select" /\ (~AeLoopRuns(q) \/ AeChoices(q) = {})
    /\ aeReq' = [aeReq EXCEPT ![r] = AeEnded(q, q.last, AeMessage(q))]
    /\ UNCHANGED <<aeNow, aeCand, aeTripped, aeBar>>

AeTick ==
    /\ aeNow < AeMaxNow
    /\ aeNow' = aeNow + 1
    /\ UNCHANGED <<aeCand, aeTripped, aeReq, aeBar>>

AeStep(r) ==
    \/ \E a \in AeAccounts : AeSelectAndSend(r, a) \/ AeRouteGone(r, a)
    \/ \E kind \in {"auth", "persist", "refresh", "transport"} : SendFails(r, kind)
    \/ BodyFails(r)
    \/ \E k \in AeRepairs : RepairAndResend(r, k)
    \/ \E e \in AeRefusals : AeRefused(r, e)
    \/ AeSucceeds(r)
    \/ AeConclude(r)

AeNext ==
    \/ AeTick
    \/ \E r \in AeRequests :
          \/ AeStep(r)
          \/ \E x \in AeInputs : AeBegin(r, x)

-----------------------------------------------------------------------------
\* Every account and every request is a record of the shape the code keeps.
AeTypeOK ==
    /\ aeNow \in 0..AeMaxNow
    /\ aeTripped \in Int
    /\ \A a \in AeAccounts :
          /\ aeCand[a].health \in {"Healthy", "ReauthRequired", "Blocked", "Checkpoint"}
          /\ aeCand[a].failures \in 0..AeMaxFailures
          /\ aeCand[a].blocked \subseteq AeModels
          /\ \A s \in AeScopes : aeCand[a].rests[s].reason \in {"Transient", "RateLimit", "Mandatory"}
    /\ \A r \in AeRequests :
          /\ aeReq[r].pc \in {"idle", "select", "sent", "done"}
          /\ aeReq[r].account \in AeAccounts \cup {AeNobody}
          /\ (aeReq[r].pc = "sent") = (aeReq[r].account # AeNobody)

\* An account whose upstream named the moment to come back (a 429's Retry-After header or
\* body hint) is asked for that model, or for any model when its quota is spent, by no request
\* before that moment: whatever other requests succeeded or failed on it in between.
HintIsHonoured ==
    [][\A r \in AeRequests : aeReq[r].pc = "select" /\ aeReq'[r].pc = "sent" =>
          \A s \in {"*", aeReq[r].model} : aeBar[aeReq'[r].account][s] <= aeNow]_aeVars

\* An answer that blames the request costs no account anything and is taken to no other
\* account: it is the client's answer, or the same account is asked once more without the
\* encrypted reasoning it rejected.
RequestFaultStaysHome ==
    [][\A r \in AeRequests : aeReq[r].pc = "sent" /\ aeReq'[r].blamed /\ ~aeReq[r].blamed =>
          /\ aeCand' = aeCand
          /\ \/ aeReq'[r].pc = "done"
             \/ aeReq'[r].recovered /\ aeReq'[r].tried = aeReq[r].tried \ {aeReq[r].account}]_aeVars

\* One request asks an account once, and once more for each repair and for stripped reasoning;
\* it tries no more accounts than the limit, the owner's search included.
AsksAreBounded ==
    \A r \in AeRequests :
        /\ \A a \in AeAccounts : aeReq[r].sends[a] <= 2 + Cardinality(aeReq[r].repaired)
        /\ aeReq[r].attempts <= AeOwnerLimit + 1
        /\ ~aeReq[r].confirmed => aeReq[r].attempts <= AeMaxRetry + 1

\* The message shown with the last failure was written for that failure, not for an earlier
\* attempt that failed in the same way on another account.
MessageIsOwn == \A r \in AeRequests : ~aeReq[r].stray

\* Every request's search over the accounts is bounded and reports its own
\* failure (the retry loop of the account endpoint).
EndpointSafe == AeTypeOK /\ AsksAreBounded /\ MessageIsOwn

\* What a failed attempt costs: a hint is honoured by every later request, and a
\* fault of the request by nobody but its client (failure_policy.rs).
EndpointSteps == HintIsHonoured /\ RequestFaultStaysHome
=============================================================================
