--------------------------- MODULE WebSocketBridge ---------------------------
(***************************************************************************)
(* One client's Responses WebSocket (gateway/websocket.rs and its modules):*)
(* the request is parsed, an upstream socket is found in a loop over       *)
(* candidates, and the bridge forwards messages both ways until one side   *)
(* ends, with a new upstream when one breaks before any output.  When no   *)
(* candidate speaks WebSocket the requests are served over HTTP instead.   *)
(*                                                                         *)
(* The connection is one task.  The client may go away at any time, which  *)
(* is noticed when something is sent or received.  A response's id is the  *)
(* number of its request; an attempt is numbered as in the usage event.    *)
(***************************************************************************)
EXTENDS Integers, FiniteSets

CONSTANTS
    WsCands,       \* candidates that serve the model
    WsRetryLimit,  \* max_retry_candidates
    WsOwnerLimit,  \* MAX_RESPONSE_OWNER_CANDIDATES
    WsMaxRequests, \* bound: requests the client sends
    WsMaxAttempts  \* bound: attempts of one request

ASSUME WsAssumption ==
    /\ WsRetryLimit \in Nat /\ WsOwnerLimit \in Nat
    /\ WsMaxRequests \in Nat /\ WsMaxAttempts \in Nat

VARIABLES
    wsPhase,    \* where the connection's task is
    wsReq,      \* the request being served, or NoReq
    wsLoop,     \* the locals of connect_upstream()
    wsUp,       \* the candidate at the other end of the upstream socket
    wsFlight,   \* BridgeState.in_flight
    wsLease,    \* the candidate whose lease is held
    wsLast,     \* BridgeState.last_response_id
    wsStream,   \* BridgeState.stream_id
    wsHttpOnly, \* candidates marked as HTTP only
    wsClient,   \* whether the client is still there
    wsBilled,   \* attempt of the request -> usage events emitted for it
    wsShown,    \* attempts of the request whose output the client has seen
    wsAnswers,  \* terminal events and errors the client got for the request
    wsOwner,    \* response id -> the candidate that created it
    wsDropped   \* how the connection ended without an answer

wsVars == <<wsPhase, wsReq, wsLoop, wsUp, wsFlight, wsLease, wsLast, wsStream, wsHttpOnly,
            wsClient, wsBilled, wsShown, wsAnswers, wsOwner, wsDropped>>

-----------------------------------------------------------------------------
NoCand == "none"
NoId == 0
Attempts == 1..WsMaxAttempts
Streams == {"s1", "s2"}
NoStream == "any"

\* A ClientRequest: its number, previous_response_id, whether it carries tool
\* outputs, and its stream_id.
NoReq == [n |-> NoId, prev |-> NoId, tool |-> FALSE, stream |-> NoStream]

WsClientRequests(n) == [n : {n}, prev : 0..(n - 1), tool : BOOLEAN, stream : Streams \cup {NoStream}]

\* from: who called connect_upstream(); repairs: what was repaired and tried again;
\* last: the last failure.
Repairs == {"encrypted", "function", "custom", "message"}
FreshLoop(from, attempt, reset) ==
    [from |-> from, tried |-> {}, attempt |-> attempt, count |-> 0, reset |-> reset,
     owner |-> FALSE, missing |-> FALSE, repairs |-> {}, last |-> "none", over |-> FALSE]

NoFlight == [attempt |-> 0, output |-> FALSE, cand |-> NoCand, id |-> NoId]

NoBills == [a \in Attempts |-> 0]
Bill(a) == wsBilled' = [wsBilled EXCEPT ![a] = @ + 1]

\* A new request begins: what was counted for the one before it is over.
Accept(r, phase, from) ==
    /\ wsReq' = r
    /\ wsPhase' = phase /\ wsLoop' = FreshLoop(from, 0, TRUE)
    /\ wsBilled' = NoBills /\ wsShown' = {} /\ wsAnswers' = 0

\* The connection ends.  Dropping the bridge's state drops its lease.
Close == wsPhase' = "Closed" /\ wsLease' = NoCand

\* send_gateway_error(): an error event and a close frame.
SendError == Close /\ wsAnswers' = wsAnswers + 1

\* On the bridge, an error that answers a request in flight.
InFlight == wsFlight.attempt # 0
EndBridge == Close /\ wsAnswers' = IF InFlight THEN wsAnswers + 1 ELSE wsAnswers

wsHistory == <<wsOwner, wsDropped, wsClient>>
wsBridge == <<wsUp, wsFlight, wsLast>>

-----------------------------------------------------------------------------
\* read_initial_request() and the checks of handle_connection().
ReadInitialRequest ==
    /\ wsPhase = "Reading"
    /\ \/ \E r \in WsClientRequests(1) : Accept(r, "Connecting", "first") /\ wsStream' = r.stream
       \/ \E r \in WsClientRequests(1) : Accept(r, "Fallback", "first") /\ wsStream' = r.stream
    /\ UNCHANGED <<wsBridge, wsLease, wsHttpOnly, wsHistory>>

\* The message does not come in time or cannot be parsed, the client closes, or a
\* background request is not wanted and answered by the gateway itself.
RefuseInitialRequest ==
    /\ wsPhase = "Reading"
    /\ SendError
    /\ UNCHANGED <<wsReq, wsLoop, wsBridge, wsStream, wsHttpOnly, wsBilled, wsShown, wsHistory>>

-----------------------------------------------------------------------------
(***************************************************************************)
(* connect_upstream()                                                      *)
(***************************************************************************)
\* retry_candidate_limit(), and one more attempt after a recovery of encrypted content.
MayTry ==
    /\ wsPhase = "Connecting" /\ ~wsLoop.over
    /\ wsLoop.count < (IF wsLoop.owner THEN WsOwnerLimit ELSE WsRetryLimit)
                      + (IF "encrypted" \in wsLoop.repairs THEN 1 ELSE 0)
    /\ wsLoop.attempt < WsMaxAttempts

Next1 == wsLoop.attempt + 1

\* select_and_reserve() takes a candidate that was not tried; the attempt is
\* counted.
Attempt(c) == [wsLoop EXCEPT !.tried = @ \cup {c}, !.count = @ + 1, !.attempt = @ + 1]

Looping == UNCHANGED <<wsPhase, wsBridge, wsLease, wsStream, wsShown, wsAnswers, wsHistory>>

\* No route, or a route that is not Responses: not counted.
TryNoRoute(c) ==
    /\ MayTry /\ c \notin wsLoop.tried
    /\ wsLoop' = [wsLoop EXCEPT !.tried = @ \cup {c}]
    /\ Looping /\ UNCHANGED <<wsReq, wsHttpOnly, wsBilled>>

\* An adapted route, or one marked before: HTTP only, not counted.
TryHttpOnly(c) ==
    /\ MayTry /\ c \notin wsLoop.tried
    /\ wsHttpOnly' = wsHttpOnly \cup {c}
    /\ wsLoop' = [wsLoop EXCEPT !.tried = @ \cup {c}, !.last = "http"]
    /\ Looping /\ UNCHANGED <<wsReq, wsBilled>>

\* The upgrade is refused with a status that says there is no WebSocket.
TryUnsupported(c) ==
    /\ MayTry /\ c \notin wsLoop.tried \cup wsHttpOnly
    /\ wsHttpOnly' = wsHttpOnly \cup {c}
    /\ wsLoop' = [Attempt(c) EXCEPT !.last = "http"]
    /\ Looping /\ UNCHANGED <<wsReq, wsBilled>>

\* The authorization, the connection, the send or the first message fails, or the
\* upstream refuses in a way that another candidate may not.
TryFails(c) ==
    /\ MayTry /\ c \notin wsLoop.tried \cup wsHttpOnly
    /\ wsLoop' = [Attempt(c) EXCEPT !.last = "other"]
    /\ Bill(Next1)
    /\ Looping /\ UNCHANGED <<wsReq, wsHttpOnly>>

\* The upstream does not know previous_response_id.  When the selection followed the
\* response's affinity the loop ends, otherwise more candidates may be asked.
TryAffinityMiss(c) ==
    /\ MayTry /\ c \notin wsLoop.tried \cup wsHttpOnly /\ wsReq.prev # NoId
    /\ \E hit \in BOOLEAN :
           wsLoop' = [Attempt(c) EXCEPT !.last = "other", !.missing = TRUE,
                                        !.owner = @ \/ ~hit, !.over = hit]
    /\ Bill(Next1)
    /\ Looping /\ UNCHANGED <<wsReq, wsHttpOnly>>

\* The upstream refuses something in the request that can be repaired: the same
\* candidate is asked again, once per kind.  Only encrypted content is recorded.
TryRepair(c) ==
    /\ MayTry /\ c \notin wsLoop.tried \cup wsHttpOnly
    /\ \E k \in Repairs \ wsLoop.repairs :
        /\ wsLoop' = [Attempt(c) EXCEPT !.repairs = @ \cup {k}, !.tried = wsLoop.tried,
                                        !.last = IF k = "encrypted" THEN "other" ELSE "none"]
        /\ IF k = "encrypted" THEN Bill(Next1) ELSE UNCHANGED wsBilled
    /\ Looping /\ UNCHANGED <<wsReq, wsHttpOnly>>

\* Any other refusal ends the request: connect_upstream() returns it.
TryRejected(c) ==
    /\ MayTry /\ c \notin wsLoop.tried \cup wsHttpOnly
    /\ wsLoop' = Attempt(c)
    /\ Bill(Next1)
    /\ SendError
    /\ UNCHANGED <<wsReq, wsBridge, wsStream, wsHttpOnly, wsShown, wsHistory>>

\* The upstream has answered with output, a terminal event or something that cannot
\* be parsed.  The buffered messages are forwarded first (Install), then the bridge
\* goes on.  The socket that was used before is closed.
Connect(c) ==
    /\ MayTry /\ c \notin wsLoop.tried \cup wsHttpOnly
    /\ wsLoop' = Attempt(c)
    /\ wsUp' = c /\ wsLease' = c /\ wsLast' = NoId
    /\ wsFlight' = [NoFlight EXCEPT !.attempt = Next1, !.cand = c]
    /\ wsPhase' = "Open"
    /\ UNCHANGED <<wsReq, wsStream, wsHttpOnly, wsBilled, wsShown, wsAnswers, wsHistory>>

\* After the loop, which ends when no candidate is selected at the latest: a continuation whose response is gone everywhere starts over
\* without previous_response_id, unless it carries tool outputs; otherwise the
\* caller gets a cooldown or the last failure, and only the first request of the
\* connection falls back to HTTP.
Exhausted == wsPhase = "Connecting"

ResetPrevious ==
    /\ Exhausted /\ wsLoop.reset /\ wsLoop.missing /\ wsReq.prev # NoId /\ ~wsReq.tool
    /\ wsReq' = [wsReq EXCEPT !.prev = NoId]
    /\ wsLoop' = FreshLoop(wsLoop.from, wsLoop.attempt, FALSE)
    /\ Looping /\ UNCHANGED <<wsHttpOnly, wsBilled>>

Unresettable == ~(wsLoop.reset /\ wsLoop.missing /\ wsReq.prev # NoId /\ ~wsReq.tool)

FallBack ==
    /\ Exhausted /\ Unresettable /\ wsLoop.last = "http" /\ wsLoop.from = "first"
    /\ wsPhase' = "Fallback"
    /\ UNCHANGED <<wsReq, wsLoop, wsBridge, wsLease, wsStream, wsHttpOnly, wsBilled, wsShown,
                   wsAnswers, wsHistory>>

GiveUp ==
    /\ Exhausted /\ Unresettable
    /\ SendError
    /\ UNCHANGED <<wsReq, wsLoop, wsBridge, wsStream, wsHttpOnly, wsBilled, wsShown, wsHistory>>

-----------------------------------------------------------------------------
(***************************************************************************)
(* The bridge                                                              *)
(***************************************************************************)
Open == wsPhase = "Open"

\* finish_incomplete(): the usage event is emitted and the lease released.
FinishIncomplete ==
    /\ wsFlight' = NoFlight
    /\ IF InFlight THEN Bill(wsFlight.attempt) ELSE UNCHANGED wsBilled

\* A message of the upstream that is not terminal is inspected and forwarded; it may
\* carry output, or nothing that counts.  One of the first messages has output, is
\* terminal or cannot be parsed.
ForwardEvent ==
    /\ Open /\ wsClient
    /\ \E output \in BOOLEAN :
        /\ wsFlight' = IF InFlight
                       THEN [wsFlight EXCEPT !.output = @ \/ output, !.id = wsReq.n] ELSE wsFlight
        /\ wsShown' = IF InFlight /\ output THEN wsShown \cup {wsFlight.attempt} ELSE wsShown
    /\ UNCHANGED <<wsPhase, wsReq, wsLoop, wsUp, wsLease, wsLast, wsStream, wsHttpOnly, wsBilled,
                   wsAnswers, wsHistory>>

\* finish_terminal(): response.completed and response.incomplete keep the client's
\* socket and the response id, a failure ends the connection.
ForwardTerminal ==
    /\ Open /\ wsClient /\ InFlight
    /\ Bill(wsFlight.attempt)
    /\ wsFlight' = NoFlight /\ wsLease' = NoCand
    /\ wsAnswers' = wsAnswers + 1
    /\ \/ /\ \E id \in {wsReq.n, wsFlight.id} : wsLast' = id
          /\ wsOwner' = [wsOwner EXCEPT ![wsReq.n] = wsUp]
          /\ UNCHANGED <<wsPhase, wsReq>>
       \/ wsPhase' = "Closed" /\ UNCHANGED <<wsLast, wsOwner, wsReq>>
    /\ UNCHANGED <<wsLoop, wsUp, wsStream, wsHttpOnly, wsShown, wsDropped, wsClient>>

\* The client is found to be gone, or its frame is invalid: nothing more is sent.
ClientLost ==
    /\ Open
    /\ FinishIncomplete /\ Close
    /\ wsClient' = FALSE
    /\ UNCHANGED <<wsReq, wsLoop, wsUp, wsLast, wsStream, wsHttpOnly, wsShown, wsAnswers, wsOwner,
                   wsDropped>>

\* The client is found to be gone when a ping or pong of the upstream is forwarded:
\* the loop ends without finish_incomplete().
ClientLostAtPing ==
    /\ Open
    /\ Close /\ wsClient' = FALSE
    /\ wsDropped' = IF InFlight THEN "ping" ELSE wsDropped
    /\ UNCHANGED <<wsReq, wsLoop, wsBridge, wsStream, wsHttpOnly, wsBilled, wsShown, wsAnswers,
                   wsOwner>>

\* An event that is too large, a failed heartbeat, a client's ping that cannot be
\* forwarded, or an idle connection.
UpstreamUnusable ==
    /\ Open
    /\ FinishIncomplete /\ EndBridge
    /\ UNCHANGED <<wsReq, wsLoop, wsUp, wsLast, wsStream, wsHttpOnly, wsShown, wsHistory>>

\* A watchdog that only looks at the start of the answer.
SemanticTimeoutUnstarted ==
    /\ Open /\ InFlight /\ ~wsFlight.output /\ wsFlight.id = NoId
    /\ FinishIncomplete /\ SendError
    /\ UNCHANGED <<wsReq, wsLoop, wsUp, wsLast, wsStream, wsHttpOnly, wsShown, wsHistory>>

\* No output ten minutes after the request was sent.
SemanticTimeout ==
    /\ Open /\ InFlight /\ ~wsFlight.output
    /\ FinishIncomplete /\ SendError
    /\ UNCHANGED <<wsReq, wsLoop, wsUp, wsLast, wsStream, wsHttpOnly, wsShown, wsHistory>>

RetryableAlways == InFlight

\* retryable_disconnect_request(): nothing of the answer was produced, and the
\* request stands for itself.
RetryableDisconnect == InFlight /\ wsReq.prev = NoId /\ ~wsReq.tool /\ ~wsFlight.output

RetryFromOne == 0

\* The retry's attempts are counted after the ones made so far.
RetryOffset == wsFlight.attempt

\* The upstream closes or fails: another one is tried, or the client gets an error.
UpstreamClosed ==
    /\ Open
    /\ FinishIncomplete
    /\ \/ /\ RetryableDisconnect
          /\ wsPhase' = "Connecting" /\ wsLease' = NoCand
          /\ wsLoop' = FreshLoop("retry", RetryOffset, TRUE)
          /\ UNCHANGED wsAnswers
       \/ /\ ~RetryableDisconnect
          /\ EndBridge /\ UNCHANGED wsLoop
    /\ UNCHANGED <<wsReq, wsUp, wsLast, wsStream, wsHttpOnly, wsShown, wsHistory>>

-----------------------------------------------------------------------------
SameStream(r) == r.stream \in {NoStream, wsStream} \/ wsStream = NoStream
Stream(r) == IF wsStream = NoStream THEN r.stream ELSE wsStream

\* start_next_request() refuses a second request while one is in flight, one that
\* cannot be parsed, and another stream: the connection ends.
RefuseNextRequest ==
    /\ Open /\ wsClient
    /\ FinishIncomplete /\ EndBridge
    /\ UNCHANGED <<wsReq, wsLoop, wsUp, wsLast, wsStream, wsHttpOnly, wsShown, wsHistory>>

\* A request that continues the last response goes to the same upstream, if the
\* scheduler still selects its candidate.
ContinuesHere(r) == r.prev = wsLast /\ wsLast # NoId

NextRequest ==
    /\ Open /\ wsClient /\ ~InFlight /\ wsReq.n < WsMaxRequests
    /\ \E r \in WsClientRequests(wsReq.n + 1) :
        /\ SameStream(r) /\ wsStream' = Stream(r)
        /\ \/ /\ ~ContinuesHere(r)
              /\ Accept(r, "Connecting", "next")
              /\ UNCHANGED <<wsBridge, wsLease>>
           \/ /\ ContinuesHere(r)
              /\ Accept(r, "Open", "next")
              /\ wsLease' = wsUp
              /\ wsFlight' = [NoFlight EXCEPT !.attempt = 1, !.cand = wsUp]
              /\ UNCHANGED <<wsUp, wsLast>>
    /\ UNCHANGED <<wsHttpOnly, wsHistory>>

\* The candidate is not selected, or the send fails, which is recorded.
ContinueFails ==
    /\ Open /\ wsClient /\ ~InFlight /\ wsReq.n < WsMaxRequests
    /\ \E r \in WsClientRequests(wsReq.n + 1) :
        /\ SameStream(r) /\ ContinuesHere(r)
        /\ wsStream' = Stream(r) /\ wsReq' = r
    /\ wsBilled' \in {NoBills, [NoBills EXCEPT ![1] = 1]}
    /\ wsShown' = {} /\ wsAnswers' = 1 /\ Close
    /\ UNCHANGED <<wsLoop, wsBridge, wsHttpOnly, wsHistory>>

-----------------------------------------------------------------------------
\* bridge_http_fallback(): the HTTP executor serves the request and its events are
\* forwarded up to the terminal one; without one the client gets an error.  The
\* usage events are the executor's (GatewayExecution).
ServeFallback ==
    /\ wsPhase = "Fallback" /\ wsClient /\ wsAnswers = 0
    /\ \/ wsAnswers' = 1 /\ UNCHANGED <<wsPhase, wsLease>>
       \/ SendError
    /\ UNCHANGED <<wsReq, wsLoop, wsBridge, wsStream, wsHttpOnly, wsBilled, wsShown, wsHistory>>

NextFallback ==
    /\ wsPhase = "Fallback" /\ wsClient /\ wsAnswers = 1 /\ wsReq.n < WsMaxRequests
    /\ \E r \in WsClientRequests(wsReq.n + 1) :
        /\ wsReq' = r
        /\ \/ /\ SameStream(r) /\ wsStream' = Stream(r)
              /\ wsAnswers' = 0 /\ UNCHANGED <<wsPhase, wsLease>>
           \/ /\ ~SameStream(r)
              /\ wsAnswers' = 1 /\ Close /\ UNCHANGED wsStream
    /\ UNCHANGED <<wsLoop, wsBridge, wsHttpOnly, wsBilled, wsShown, wsHistory>>

FallbackEnds ==
    /\ wsPhase = "Fallback"
    /\ Close /\ wsClient' = FALSE
    /\ UNCHANGED <<wsReq, wsLoop, wsBridge, wsStream, wsHttpOnly, wsBilled, wsShown, wsAnswers,
                   wsOwner, wsDropped>>

-----------------------------------------------------------------------------
WsInit ==
    /\ wsPhase = "Reading" /\ wsReq = NoReq /\ wsLoop = FreshLoop("first", 0, TRUE)
    /\ wsUp = NoCand /\ wsFlight = NoFlight /\ wsLease = NoCand
    /\ wsLast = NoId /\ wsStream = NoStream /\ wsHttpOnly = {} /\ wsClient = TRUE
    /\ wsBilled = NoBills /\ wsShown = {} /\ wsAnswers = 0
    /\ wsOwner = [n \in 1..WsMaxRequests |-> NoCand] /\ wsDropped = "no"

Connecting ==
    \/ \E c \in WsCands : \/ TryNoRoute(c) \/ TryHttpOnly(c) \/ TryUnsupported(c) \/ TryFails(c)
                          \/ TryAffinityMiss(c) \/ TryRepair(c) \/ TryRejected(c) \/ Connect(c)
    \/ ResetPrevious \/ FallBack \/ GiveUp

WsNext ==
    \/ ReadInitialRequest \/ RefuseInitialRequest \/ Connecting
    \/ ForwardEvent \/ ForwardTerminal \/ ClientLost \/ ClientLostAtPing
    \/ UpstreamUnusable \/ SemanticTimeout \/ UpstreamClosed
    \/ RefuseNextRequest \/ NextRequest \/ ContinueFails
    \/ ServeFallback \/ NextFallback \/ FallbackEnds

WsSpec == WsInit /\ [][WsNext]_wsVars

-----------------------------------------------------------------------------
WsTypeOK ==
    /\ wsPhase \in {"Reading", "Connecting", "Open", "Fallback", "Closed"}
    /\ wsReq.n \in 0..WsMaxRequests
    /\ wsLoop.count \in 0..WsMaxAttempts /\ wsLoop.repairs \subseteq Repairs
    /\ {wsUp, wsLease} \subseteq WsCands \cup {NoCand}
    /\ wsFlight.attempt \in 0..WsMaxAttempts
    /\ wsBilled \in [Attempts -> Nat] /\ wsShown \subseteq Attempts

\* However upstreams break and are replaced, the client sees output of at most one
\* attempt of a request and gets at most one terminal event or error for it; and as
\* long as it is there itself, the connection is not closed before it has got one.
OneAnswer ==
    /\ Cardinality(wsShown) <= 1 /\ wsAnswers <= 1
    /\ wsPhase = "Closed" /\ wsClient /\ wsReq # NoReq => wsAnswers = 1

\* No attempt is recorded twice although retries continue the numbering of the
\* attempts before them, and when a request is over every attempt whose output the
\* client has seen is recorded.  The exception is a client that is found to be gone
\* while a ping is forwarded: then the usage event is not emitted.
AttemptsRecorded ==
    /\ \A a \in Attempts : wsBilled[a] <= 1
    /\ (wsPhase = "Closed" \/ ~InFlight) /\ wsDropped = "no" => \A a \in wsShown : wsBilled[a] = 1

\* A WebSocket connection answers each request once and records each attempt
\* once, whatever breaks and is replaced (responses_websocket.rs).
SocketSafe == WsTypeOK /\ OneAnswer /\ AttemptsRecorded
=============================================================================
