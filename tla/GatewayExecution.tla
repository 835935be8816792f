--------------------------- MODULE GatewayExecution ---------------------------
(***************************************************************************)
(* One request of the gateway (crates/relay-core/src/gateway/execution/    *)
(* request.rs, execute_request): the loop that selects a candidate, sends, *)
(* classifies the answer, and retries, repairs, replays or gives up; and   *)
(* the one restart without the previous response it may end in.            *)
(*                                                                         *)
(* The pool belongs to other requests too, so which candidates are         *)
(* eligible at a selection is arbitrary (see PoolScheduler), and so is the *)
(* upstream's answer.  Answers are kept by class, the wording, the usage   *)
(* events and the cooldowns they cause are not.  The client speaks         *)
(* Responses, the protocol with every recovery.                            *)
(***************************************************************************)
EXTENDS Integers, FiniteSets

CONSTANTS
    ExecCandidates,
    ExecAccounts,        \* candidates with an OAuth token to refresh
    Native,          \* candidates whose adapter passes the request through
    Repairs,         \* the item-id repairs: function, custom tool, message
    MaxRetry,        \* max_retry_candidates
    OwnerLimit       \* MAX_RESPONSE_OWNER_CANDIDATES

ASSUME ExecutionAssumption ==
    /\ IsFiniteSet(ExecCandidates) /\ ExecAccounts \subseteq Native /\ Native \subseteq ExecCandidates
    /\ IsFiniteSet(Repairs) /\ MaxRetry \in Nat \ {0} /\ OwnerLimit \in Nat /\ MaxRetry <= OwnerLimit

VARIABLES
    execPc,          \* where execute_request is
    req,         \* the request as it would be sent now
    has_prev,    \* has_previous_response_id of this run
    owner,       \* the candidate its response key is bound to
    c,           \* the selected candidate
    hit,         \* response_affinity_hit: it was selected as the owner
    tried, attempts,
    owner_recovery, missing,            \* the two *_confirmed flags
    encrypted, replayed, repaired,      \* recoveries used in this run
    restarted,   \* this is the run without the previous response
    sent,        \* history: candidate -> attempts of this run made on it
    made         \* history: attempts of this run

execVars == <<execPc, req, has_prev, owner, c, hit, tried, attempts, owner_recovery, missing,
          encrypted, replayed, repaired, restarted, sent, made>>

flags == <<has_prev, owner_recovery, missing, restarted>>
recoveries == <<encrypted, replayed, repaired>>
tally == <<sent, made>>

-----------------------------------------------------------------------------
Nobody == "none"

\* What the properties tell apart in a request: where its history is, whether it
\* carries tool outputs, the ids a strict endpoint rejects, encrypted reasoning.
Request == [history : {"previous", "inline", "dropped"}, tool_output : BOOLEAN,
            broken : SUBSET Repairs, sealed : BOOLEAN]

\* retry_candidate_limit().
RetryLimit(confirmed) == IF confirmed THEN OwnerLimit ELSE MaxRetry

One(flag) == IF flag THEN 1 ELSE 0

LoopGuardInclusive ==
    attempts <= RetryLimit(owner_recovery) + One(encrypted) + One(replayed)

LoopGuard == attempts < RetryLimit(owner_recovery) + One(encrypted) + One(replayed)

TriesNothing(x) == tried

\* tried.insert(), right after the selection.
Tries(x) == tried \cup {x}

\* select_and_reserve(): a bound key admits its owner only.
Select ==
    /\ execPc = "Select" /\ LoopGuard
    /\ \E x \in ExecCandidates \ tried :
          /\ has_prev /\ owner # Nobody => x = owner
          /\ c' = x
          /\ hit' = (has_prev /\ x = owner)
          /\ tried' = Tries(x)
    /\ execPc' = "Prepare"
    /\ UNCHANGED <<req, owner, attempts, flags, recoveries, tally>>

\* No candidate, or no attempt left.
NoCandidate ==
    /\ execPc = "Select"
    /\ execPc' = "After"
    /\ UNCHANGED <<req, owner, c, hit, tried, attempts, flags, recoveries, tally>>

RouteIncompatibleForgets ==
    /\ execPc = "Prepare"
    /\ tried' = tried \ {c}
    /\ execPc' = "Select"
    /\ UNCHANGED <<req, owner, c, hit, attempts, flags, recoveries, tally>>

\* The route is gone or its adapter cannot carry the request.
RouteIncompatible ==
    /\ execPc = "Prepare"
    /\ execPc' = "Select"
    /\ UNCHANGED <<req, owner, c, hit, tried, attempts, flags, recoveries, tally>>

RequestInvalid ==
    /\ execPc = "Prepare"
    /\ execPc' = "Done"
    /\ UNCHANGED <<req, owner, c, hit, tried, attempts, flags, recoveries, tally>>

Send ==
    /\ execPc = "Prepare"
    /\ attempts' = attempts + 1
    /\ sent' = [sent EXCEPT ![c] = @ + 1] /\ made' = made + 1
    /\ execPc' = "Sent"
    /\ UNCHANGED <<req, owner, c, hit, tried, flags, recoveries>>

\* send_authorized_request(): a 401 is answered by one refresh and one resend.
Resend ==
    /\ execPc = "Sent" /\ c \in ExecAccounts
    /\ execPc' = "Resent"
    /\ UNCHANGED <<req, owner, c, hit, tried, attempts, flags, recoveries, tally>>

\* The binding expires, or another request finds the response missing.
Unbind ==
    /\ owner # Nobody
    /\ owner' = Nobody
    /\ UNCHANGED <<execPc, req, c, hit, tried, attempts, flags, recoveries, tally>>

-----------------------------------------------------------------------------
Answered == execPc \in {"Sent", "Resent"}

RefundTwice == attempts - 2

\* A repaired attempt is not counted.
Refund == attempts - 1

\* A repair is made once, and only if there is something to repair.
MayRepair(k) == k \notin repaired /\ k \in req.broken

Repair(k) ==
    /\ Answered /\ c \in Native /\ MayRepair(k)
    /\ req' = [req EXCEPT !.broken = @ \ {k}]
    /\ repaired' = repaired \cup {k}
    /\ attempts' = Refund
    /\ tried' = tried \ {c}
    /\ execPc' = "Select"
    /\ UNCHANGED <<owner, c, hit, flags, encrypted, replayed, tally>>

MayReplay == has_prev /\ c \in Native /\ ~replayed

\* replay_native_tool_continuation(): the stored turns replace the previous
\* response, with whatever ids and reasoning they hold.
Replay ==
    /\ Answered /\ MayReplay /\ req.history = "previous"
    /\ \E broken \in SUBSET Repairs, sealed \in BOOLEAN :
          req' = [req EXCEPT !.history = "inline", !.broken = broken, !.sealed = sealed]
    /\ replayed' = TRUE
    /\ tried' = tried \ {c}
    /\ execPc' = "Select"
    /\ UNCHANGED <<owner, c, hit, attempts, flags, encrypted, repaired, tally>>

\* try_recover_encrypted_content().
StripEncrypted ==
    /\ Answered /\ ~encrypted /\ req.sealed
    /\ req' = [req EXCEPT !.sealed = FALSE]
    /\ encrypted' = TRUE
    /\ tried' = tried \ {c}
    /\ execPc' = "Select"
    /\ UNCHANGED <<owner, c, hit, attempts, flags, replayed, repaired, tally>>

\* The upstream does not know the previous response.  Its owner saying so ends
\* the loop; anyone else widens the search.
AffinityMiss ==
    /\ Answered /\ has_prev
    /\ missing' = TRUE
    /\ owner_recovery' = (owner_recovery \/ ~hit)
    /\ owner' = Nobody
    /\ execPc' = IF hit THEN "After" ELSE "Select"
    /\ UNCHANGED <<req, c, hit, tried, attempts, has_prev, restarted, recoveries, tally>>

\* A retryable status releases the binding of the owner it came from.
RetryableStatus ==
    /\ Answered
    /\ owner' = IF hit THEN Nobody ELSE owner
    /\ execPc' = "Select"
    /\ UNCHANGED <<req, c, hit, tried, attempts, flags, recoveries, tally>>

-----------------------------------------------------------------------------
\* The candidate stays tried and the loop goes on.
TriesNext ==
    /\ Answered
    /\ execPc' = "Select"
    /\ UNCHANGED <<req, owner, c, hit, tried, attempts, flags, recoveries, tally>>

\* The client gets its answer from this attempt.
Ends ==
    /\ Answered
    /\ execPc' = "Done"
    /\ UNCHANGED <<req, owner, c, hit, tried, attempts, flags, recoveries, tally>>

\* No answer: the binding of an owner is kept.
TransportFails == TriesNext

\* An error whose body is lost is judged by its status alone.
ErrorBodyLost == TriesNext \/ Ends

\* An error that is the client's: proxied, or translated for a bridged route.
Respond == Ends

\* A success whose body is lost or too large.
BodyLost == TriesNext

\* An account reports a failure in a successful answer; some end the request.
FailedAnswer == c \in ExecAccounts /\ (TriesNext \/ Ends)

\* The answer, or that it cannot be translated for the client.
CompleteResponse == Ends

StartStream == Ends

\* A stream that fails before its first output; some failures end the request.
StreamFails == TriesNext \/ Ends

Settles ==
    \/ TransportFails \/ ErrorBodyLost \/ Respond \/ BodyLost \/ FailedAnswer
    \/ CompleteResponse \/ StartStream \/ StreamFails

-----------------------------------------------------------------------------
MayRestartWithTools == ~restarted /\ has_prev /\ missing

MayRestart == ~restarted /\ has_prev /\ missing /\ ~req.tool_output

\* After the loop: once, the request starts again without its previous response;
\* else the last failure is the answer.
Finish ==
    /\ execPc = "After"
    /\ IF MayRestart
       THEN /\ req' = [req EXCEPT !.history = IF @ = "previous" THEN "dropped" ELSE @]
            /\ restarted' = TRUE /\ has_prev' = FALSE /\ owner' = Nobody
            /\ tried' = {} /\ attempts' = 0
            /\ owner_recovery' = FALSE /\ missing' = FALSE
            /\ encrypted' = FALSE /\ replayed' = FALSE /\ repaired' = {}
            /\ sent' = [x \in ExecCandidates |-> 0] /\ made' = 0
            /\ execPc' = "Select"
       ELSE /\ execPc' = "Done"
            /\ UNCHANGED <<req, owner, tried, attempts, flags, recoveries, tally>>
    /\ UNCHANGED <<c, hit>>

-----------------------------------------------------------------------------
ExecInit ==
    /\ execPc = "Select"
    /\ req \in {r \in Request : r.history # "dropped"}
    /\ has_prev = (req.history = "previous")
    /\ owner \in IF has_prev THEN ExecCandidates \cup {Nobody} ELSE {Nobody}
    /\ c = Nobody /\ hit = FALSE
    /\ tried = {} /\ attempts = 0
    /\ owner_recovery = FALSE /\ missing = FALSE /\ restarted = FALSE
    /\ encrypted = FALSE /\ replayed = FALSE /\ repaired = {}
    /\ sent = [x \in ExecCandidates |-> 0] /\ made = 0

ExecNext ==
    \/ Select \/ NoCandidate \/ RouteIncompatible \/ RequestInvalid \/ Send \/ Resend \/ Unbind
    \/ \E k \in Repairs : Repair(k)
    \/ Replay \/ StripEncrypted \/ AffinityMiss \/ RetryableStatus \/ Settles \/ Finish

ExecSpec == ExecInit /\ [][ExecNext]_execVars

\* Upstream calls time out, so the request is never stuck at one.
ExecFairSpec == ExecSpec /\ WF_execVars(ExecNext)

-----------------------------------------------------------------------------
\* One type invariant (request.rs:84-128).
ExecutionTypeOK ==
    /\ execPc \in {"Select", "Prepare", "Sent", "Resent", "After", "Done"}
    /\ req \in Request
    /\ owner \in ExecCandidates \cup {Nobody} /\ c \in ExecCandidates \cup {Nobody}
    /\ tried \subseteq ExecCandidates /\ attempts \in Nat
    /\ repaired \subseteq Repairs
    /\ sent \in [ExecCandidates -> Nat] /\ made \in Nat
    /\ {has_prev, hit, owner_recovery, missing, encrypted, replayed, restarted} \subseteq BOOLEAN

Recovered == One(encrypted) + One(replayed) + Cardinality(repaired)

\* A run makes at most as many attempts as the retry limit and the recoveries it
\* used allow, whatever the upstreams answer and although a repair gives its
\* attempt back; there are at most two runs, and a 401 may double an attempt
\* (request.rs:129-133, 421-456, 971-998).
AttemptsBounded == made <= RetryLimit(owner_recovery) + Recovered

\* No candidate gets the same request twice: every further attempt on it is owed
\* to a repair, a replay or stripped reasoning, each made once (request.rs:171,
\* 421-500).
NoBlindRetry == \A x \in ExecCandidates : sent[x] <= 1 + Recovered

\* Tool outputs are never sent without the calls they answer: the restart that
\* drops the previous response is not for them (request.rs:971-978).
ToolOutputKeepsHistory == req.tool_output => req.history # "dropped"

\* What a request's execution promises whatever the upstreams answer
\* (request.rs:84-998): its attempts are bounded, no candidate is asked the same
\* thing twice, and tool outputs keep the calls they answer.
ExecutionSafe == ExecutionTypeOK /\ AttemptsBounded /\ NoBlindRetry /\ ToolOutputKeepsHistory
===============================================================================
