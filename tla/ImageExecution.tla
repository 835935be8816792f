---------------------------- MODULE ImageExecution ----------------------------
(***************************************************************************)
(* An image request (gateway/images.rs).  It is validated, and tried on    *)
(* candidates until one delivers.  A source has an images endpoint of its  *)
(* own; an account is asked through the Responses protocol, and its stream *)
(* of events is collected and translated once it has ended.                *)
(***************************************************************************)
EXTENDS Integers, Sequences, SequencesExt

CONSTANTS
    ImAccounts,   \* candidates that are accounts
    ImSources,    \* candidates that are sources
    ImRetryLimit, \* max_retry_candidates
    ImMaxEvents   \* bound: events in the answer of an account

ASSUME ImAssumption ==
    /\ ImRetryLimit \in Nat /\ ImMaxEvents \in Nat /\ ImAccounts \cap ImSources = {}

VARIABLES
    imPhase,   \* "validate", "loop", "done"
    imReq,     \* the request
    imTried,   \* candidates that were selected
    imAttempt, \* attempts made
    imLast,    \* the last failure
    imBills,   \* attempt -> usage events for it
    imWins,    \* attempts recorded as successful
    imMade,    \* attempts whose completed answer contained an image
    imReply    \* what the client got

imVars == <<imPhase, imReq, imTried, imAttempt, imLast, imBills, imWins, imMade, imReply>>

-----------------------------------------------------------------------------
ImCands == ImAccounts \cup ImSources
NoReply == [kind |-> "none", images |-> 0]
ErrorReply(kind) == [kind |-> kind, images |-> 0]

\* What validation distinguishes in a request.
ImRequests ==
    [edit : BOOLEAN, prompt : BOOLEAN, input : BOOLEAN, readable : BOOLEAN,
     model : {"image", "other", "unknown"}, stream : BOOLEAN]

\* prepare_request(), parse_json(), parse_multipart(): the first check that fails.
Invalid(r) ==
    CASE ~r.readable -> "invalid_request"
      [] ~r.prompt -> "invalid_request"
      [] r.edit /\ ~r.input -> "invalid_request"
      [] r.model = "unknown" -> "model_not_found"
      [] r.model = "other" -> "invalid_image_model"
      [] OTHER -> "no"

Validate ==
    /\ imPhase = "validate"
    /\ LET refusal == Invalid(imReq)
       IN  IF refusal = "no" THEN imPhase' = "loop" /\ UNCHANGED imReply
           ELSE imPhase' = "done" /\ imReply' = ErrorReply(refusal)
    /\ UNCHANGED <<imReq, imTried, imAttempt, imLast, imBills, imWins, imMade>>

-----------------------------------------------------------------------------
(***************************************************************************)
(* translate_account_response()                                            *)
(***************************************************************************)
\* Events of an account's answer.  A completed answer lists its output itself
\* ("whole"), lists output without an image ("text"), or leaves the list empty.
ImEvents == {"partial", "image", "whole", "text", "empty", "user_error", "failed", "not_enabled"}
ImAnswers == UNION {[1..n -> ImEvents] : n \in 0..ImMaxEvents}

ImFailures == {"user_error", "failed", "not_enabled"}
ImCompletions == {"whole", "text", "empty"}

\* The first event that ends the collection, and how many images came before it.
EndOf(a) ==
    LET ends == {i \in 1..Len(a) : a[i] \in ImFailures \cup ImCompletions}
    IN  IF ends = {} THEN 0 ELSE CHOOSE i \in ends : \A j \in ends : i <= j

ImagesBefore(a, n) == Len(SelectSeq(SubSeq(a, 1, n), LAMBDA e : e = "image"))

ImagesOfOutput(a) == IF a[EndOf(a)] = "whole" THEN 1 ELSE 0

\* The images of a completed answer: its own output, or the items that were
\* announced one by one when its output is empty.
ImagesOf(a) ==
    CASE a[EndOf(a)] = "whole" -> 1
      [] a[EndOf(a)] = "text" -> 0
      [] a[EndOf(a)] = "empty" -> ImagesBefore(a, EndOf(a))

\* "ok", or the failure's category.
ImTranslate(a) ==
    CASE EndOf(a) = 0 -> "stream_incomplete"
      [] EndOf(a) # 0 /\ a[EndOf(a)] \in ImFailures -> a[EndOf(a)]
      [] OTHER -> IF ImagesOf(a) = 0 THEN "image_output_missing" ELSE "ok"

\* image_failure_from_event(): what is worth another candidate.
ImRetryable(category) == category # "user_error"

-----------------------------------------------------------------------------
(***************************************************************************)
(* execute_prepared()                                                      *)
(***************************************************************************)
\* select_and_reserve_image(): the lease is dropped at the end of each turn of the loop.
Choosing(c) == imPhase = "loop" /\ imAttempt < ImRetryLimit /\ c \notin imTried

Counted == imAttempt' = imAttempt + 1
Record == imBills' = [imBills EXCEPT ![imAttempt + 1] = @ + 1]

Again(c, failure) ==
    /\ imTried' = imTried \cup {c} /\ imLast' = failure
    /\ UNCHANGED <<imPhase, imReq, imWins, imReply>>

Reply(c, reply) ==
    /\ imTried' = imTried \cup {c}
    /\ imPhase' = "done" /\ imReply' = reply
    /\ UNCHANGED <<imReq, imLast>>

\* The candidate has no route, or its address has no images endpoint.
ImNoRoute(c) ==
    /\ Choosing(c)
    /\ Again(c, IF c \in ImSources THEN "invalid_request" ELSE imLast)
    /\ UNCHANGED <<imAttempt, imBills, imMade>>

\* The request cannot be sent, the answer cannot be read, or its status is one that
\* another candidate may not give.
ImRefused(c) ==
    /\ Choosing(c)
    /\ Counted /\ Record
    /\ \E f \in {"transport", "body", "rate_limit", "image_generation_not_enabled"} : Again(c, f)
    /\ UNCHANGED imMade

\* Any other status is the client's answer.
ImRejected(c) ==
    /\ Choosing(c)
    /\ Counted /\ Record
    /\ Reply(c, ErrorReply("upstream"))
    /\ UNCHANGED <<imWins, imMade>>

Won == imWins' = imWins \cup {imAttempt + 1}

DirectSuccess(c) ==
    /\ c \in ImSources /\ Choosing(c)
    /\ Counted /\ Record /\ Won
    /\ Reply(c, [kind |-> "proxied", images |-> 1])
    /\ imMade' = imMade \cup {imAttempt + 1}

\* Not part of the code: an answer that was completed with an image in it.
HasImage(a) ==
    EndOf(a) # 0 /\ (a[EndOf(a)] = "whole" \/ (a[EndOf(a)] = "empty" /\ ImagesBefore(a, EndOf(a)) > 0))

AccountAnswers(c) ==
    /\ c \in ImAccounts /\ Choosing(c)
    /\ Counted /\ Record
    /\ \E a \in ImAnswers :
        /\ imMade' = IF HasImage(a) THEN imMade \cup {imAttempt + 1} ELSE imMade
        /\ LET outcome == ImTranslate(a)
           IN  \/ /\ outcome = "ok" /\ Won
                  /\ Reply(c, [kind |-> IF imReq.stream THEN "stream" ELSE "json", images |-> ImagesOf(a)])
               \/ outcome # "ok" /\ ImRetryable(outcome) /\ Again(c, outcome)
               \/ /\ outcome # "ok" /\ ~ImRetryable(outcome)
                  /\ Reply(c, ErrorReply(outcome)) /\ UNCHANGED imWins

\* No candidate is left: the last failure, or a cooldown.
ImExhausted ==
    /\ imPhase = "loop"
    /\ imPhase' = "done"
    /\ imReply' = ErrorReply(IF imLast = "rate_limit" THEN "cooldown" ELSE imLast)
    /\ UNCHANGED <<imReq, imTried, imAttempt, imLast, imBills, imWins, imMade>>

-----------------------------------------------------------------------------
ImInit ==
    /\ imPhase = "validate" /\ imReq \in ImRequests
    /\ imTried = {} /\ imAttempt = 0 /\ imLast = "no_candidate"
    /\ imBills = [a \in 1..ImRetryLimit |-> 0] /\ imWins = {} /\ imMade = {} /\ imReply = NoReply

ImNext ==
    \/ Validate \/ ImExhausted
    \/ \E c \in ImCands : \/ ImNoRoute(c) \/ ImRefused(c) \/ ImRejected(c)
                          \/ DirectSuccess(c) \/ AccountAnswers(c)

ImSpec == ImInit /\ [][ImNext]_imVars

-----------------------------------------------------------------------------
ImTypeOK ==
    /\ imPhase \in {"validate", "loop", "done"} /\ imReq \in ImRequests
    /\ imTried \subseteq ImCands /\ imAttempt \in 0..ImRetryLimit
    /\ imBills \in [1..ImRetryLimit -> Nat]

\* An image is generated at most once per request and never thrown away: once an
\* upstream has completed an answer that contains one, no other candidate is asked
\* and the client gets it, whether it came in the answer's output or item by item.
ImageIsDelivered ==
    /\ imMade # {} => imPhase = "done" /\ imReply.images > 0
    /\ imReply.images > 0 => imWins = {imAttempt}
    /\ \A a \in 1..ImRetryLimit : imBills[a] = (IF a <= imAttempt THEN 1 ELSE 0)

\* The image loop keeps its types and delivers what was generated
\* (gateway/images).
ImageSafe == ImTypeOK /\ ImageIsDelivered
=============================================================================
