---------------------------- MODULE ResponseStream ----------------------------
(***************************************************************************)
(* One streamed answer (gateway/streaming.rs): the first bytes are held    *)
(* back while another candidate may still be tried (bootstrap_stream), then *)
(* the stream is committed to the client (StreamExecution) and every chunk *)
(* is inspected and forwarded (UsageStream) until a terminal event, the end *)
(* of the upstream, a watchdog or the client ends it.                      *)
(*                                                                         *)
(* Chunks do not respect the boundaries of events: an event is sent whole, *)
(* or its head ends one chunk and its tail begins the next.  The client is *)
(* an SSE parser: bytes that arrive between head and tail end up in the    *)
(* event.                                                                  *)
(***************************************************************************)
EXTENDS Integers, Sequences, SequencesExt

CONSTANTS
    RsApis,     \* subset of {"responses", "messages", "gemini", "bridged"}
    RsMaxEvents \* bound: events the upstream begins

ASSUME RsAssumption ==
    /\ RsApis \subseteq {"responses", "messages", "gemini", "bridged"}
    /\ RsMaxEvents \in Nat

VARIABLES
    rsPhase,   \* "boot", "first", "open", "retry", "ended"
    rsApi,     \* the protocol of the stream
    rsWait,    \* wait_for_native_replay_error
    rsBuffer,  \* pieces held back by bootstrap_stream()
    rsHead,    \* the event whose head the upstream has sent, or NoEvent
    rsSent,    \* the events the upstream has completed since the commit
    rsCount,   \* events begun
    rsSeen,    \* the events the client has parsed
    rsHalf,    \* the event the client has the head of, or NoEvent
    rsBroken,  \* whether an event was broken by bytes in the middle of it
    rsClient,  \* whether the client is there
    rsOutcome, \* the usage event that was emitted, or "none"
    rsBills,   \* how many were
    rsLease,   \* whether the candidate is reserved
    rsSaved    \* whether affinity and continuation were stored

rsVars == <<rsPhase, rsApi, rsWait, rsBuffer, rsHead, rsSent, rsCount, rsSeen, rsHalf, rsBroken,
            rsClient, rsOutcome, rsBills, rsLease, rsSaved>>

-----------------------------------------------------------------------------
NoEvent == "no event"
Terminals == {"completed", "incomplete", "failed"}
Kinds == {"created", "delta", "invalid"} \cup Terminals

Whole(k) == [kind |-> k, part |-> "whole"]
Head0(k) == [kind |-> k, part |-> "head"]
Tail0(k) == [kind |-> k, part |-> "tail"]

\* The chunks the upstream may send next.  A bridge produces whole frames.
Chunks ==
    IF rsHead = NoEvent
    THEN {<<Whole(k)>> : k \in Kinds}
         \cup (IF rsApi = "bridged" THEN {}
               ELSE {<<Head0(k)>> : k \in Kinds} \cup {<<Whole(k), Head0(j)>> : k \in Kinds, j \in Kinds})
    ELSE {<<Tail0(rsHead)>>} \cup {<<Tail0(rsHead), Whole(k)>> : k \in Kinds}

\* The upstream sends the chunk.
Receive(c) ==
    /\ c \in Chunks
    /\ LET begun == Len(SelectSeq(c, LAMBDA p : p.part # "tail"))
       IN  rsCount + begun <= RsMaxEvents /\ rsCount' = rsCount + begun
    /\ rsHead' = IF Last(c).part = "head" THEN Last(c).kind ELSE NoEvent

\* parse_sse_event() of the events that a chunk completes.
Completed(c) == LET done == SelectSeq(c, LAMBDA p : p.part # "head")
                IN  [i \in 1..Len(done) |-> done[i].kind]

\* The client's parser.
Parse(view, p) ==
    CASE p.part = "whole" /\ view.half = NoEvent -> [view EXCEPT !.seen = Append(@, p.kind)]
      [] p.part = "head" /\ view.half = NoEvent -> [view EXCEPT !.half = p.kind]
      [] p.part = "tail" /\ view.half = p.kind ->
            [view EXCEPT !.seen = Append(@, p.kind), !.half = NoEvent]
      [] OTHER -> [view EXCEPT !.broken = TRUE]

Deliver(pieces) ==
    LET view == FoldLeft(Parse, [seen |-> rsSeen, half |-> rsHalf, broken |-> rsBroken], pieces)
    IN  rsSeen' = view.seen /\ rsHalf' = view.half /\ rsBroken' = view.broken

DeliverNothing == UNCHANGED <<rsSeen, rsHalf, rsBroken>>

-----------------------------------------------------------------------------
(***************************************************************************)
(* bootstrap_stream()                                                      *)
(***************************************************************************)
rsCommitted == <<rsSeen, rsHalf, rsBroken, rsOutcome, rsBills, rsSaved>>

\* An invalid or failed event lets the executor try another candidate.  Otherwise
\* the stream is committed with what was buffered, at once or, when a replay may
\* still be refused, once there is output or a terminal event.
BootChunk ==
    /\ rsPhase = "boot"
    /\ \E c \in Chunks :
        /\ Receive(c)
        /\ LET done == Range(Completed(c))
           IN  \/ done \cap {"invalid", "failed"} # {} /\ rsPhase' = "retry" /\ rsBuffer' = <<>>
               \/ /\ done \cap {"invalid", "failed"} = {}
                  /\ rsBuffer' = rsBuffer \o c
                  /\ rsPhase' = IF rsWait /\ done \cap {"delta", "completed", "incomplete"} = {}
                                THEN "boot" ELSE "first"
    /\ rsLease' = (rsPhase' # "retry")
    /\ UNCHANGED <<rsApi, rsWait, rsSent, rsClient, rsCommitted>>

\* The two seconds of the replay probe are over, or the buffer is full.
BootProbeEnds ==
    /\ rsPhase = "boot" /\ rsWait /\ rsBuffer # <<>>
    /\ rsPhase' = "first"
    /\ UNCHANGED <<rsApi, rsWait, rsBuffer, rsHead, rsSent, rsCount, rsClient, rsLease, rsCommitted>>

\* No first byte in time, a transport error, or the end of the upstream.
BootFails ==
    /\ rsPhase = "boot"
    /\ rsPhase' = "retry" /\ rsBuffer' = <<>> /\ rsLease' = FALSE
    /\ UNCHANGED <<rsApi, rsWait, rsHead, rsSent, rsCount, rsClient, rsCommitted>>

-----------------------------------------------------------------------------
(***************************************************************************)
(* UsageStream                                                             *)
(***************************************************************************)
\* finish(): the usage event leaves once, the completion callback releases the
\* lease, and only a success warms affinity and stores the continuation.
Finish(outcome) ==
    IF rsOutcome # "none" THEN UNCHANGED <<rsOutcome, rsBills, rsLease, rsSaved>>
    ELSE /\ rsOutcome' = outcome /\ rsBills' = rsBills + 1
         /\ rsLease' = FALSE /\ rsSaved' = (outcome = "success")

\* queue_responses_failure(): a client of the Responses protocol gets a frame.
FramesFailure == rsApi \in {"responses", "bridged"}
DeliverFailure == IF FramesFailure THEN Deliver(<<Whole("failed")>>) ELSE DeliverNothing

\* fail_stream(): the stream ends.
FailStream == DeliverFailure /\ Finish("failure") /\ rsPhase' = "ended"

\* The first event that decides the stream's outcome.  Gemini's own stream has none.
Deciding(c) ==
    IF rsApi = "gemini" THEN <<>>
    ELSE SelectSeq(Completed(c), LAMBDA k : k \in Terminals \cup {"invalid"})

OutcomeOf(k) == CASE k = "completed" -> "success"
                  [] k = "incomplete" -> "incomplete"
                  [] k = "failed" -> "failure"

\* ingest_sse() or ingest_native_gemini(), then the chunk is forwarded.  When it made
\* the stream fail, the failure frame takes its place.
Ingest(c) ==
    LET d == Deciding(c)
    IN  \/ d = <<>> /\ Deliver(c) /\ rsPhase' = "open"
           /\ UNCHANGED <<rsOutcome, rsBills, rsLease, rsSaved>>
        \/ /\ d # <<>> /\ Head(d) = "invalid"
           /\ IF FramesFailure THEN Deliver(<<Whole("failed")>>) ELSE Deliver(c)
           /\ Finish("failure") /\ rsPhase' = "ended"
        \/ /\ d # <<>> /\ Head(d) # "invalid"
           /\ Deliver(c) /\ Finish(OutcomeOf(Head(d))) /\ rsPhase' = "ended"

FirstChunk ==
    /\ rsPhase = "first"
    /\ Ingest(rsBuffer)
    /\ rsSent' = Completed(rsBuffer) /\ rsBuffer' = <<>>
    /\ UNCHANGED <<rsApi, rsWait, rsHead, rsCount, rsClient>>

NextChunk ==
    /\ rsPhase = "open"
    /\ \E c \in Chunks :
        /\ Receive(c) /\ Ingest(c)
        /\ rsSent' = rsSent \o Completed(c)
    /\ UNCHANGED <<rsApi, rsWait, rsBuffer, rsClient>>

\* An event is too large.
Oversized ==
    /\ rsPhase = "open" /\ rsApi # "bridged"
    /\ FailStream
    /\ UNCHANGED <<rsApi, rsWait, rsBuffer, rsHead, rsSent, rsCount, rsClient>>

\* bridge_messages_stream(), bridge_gemini_stream(): the bridge turns the end of its
\* upstream into a failed frame, which is then inspected like any other.
BridgeEnds ==
    /\ rsPhase = "open" /\ rsApi = "bridged"
    /\ Ingest(<<Whole("failed")>>)
    /\ rsSent' = Append(rsSent, "failed")
    /\ UNCHANGED <<rsApi, rsWait, rsBuffer, rsHead, rsCount, rsClient>>

\* The upstream fails: the frame, or the error itself.
UpstreamFails ==
    /\ rsPhase = "open" /\ rsApi # "bridged"
    /\ FailStream
    /\ UNCHANGED <<rsApi, rsWait, rsBuffer, rsHead, rsSent, rsCount, rsClient>>

EofAsStarted ==
    /\ rsPhase = "open" /\ rsApi # "bridged"
    /\ DeliverNothing /\ Finish("success") /\ rsPhase' = "ended"
    /\ UNCHANGED <<rsApi, rsWait, rsBuffer, rsHead, rsSent, rsCount, rsClient>>

\* The upstream ends.  For Gemini that is how an answer is completed, for the others
\* the terminal event is missing.
UpstreamEnds ==
    /\ rsPhase = "open" /\ rsApi # "bridged"
    /\ IF rsApi = "gemini" THEN DeliverNothing /\ Finish("success") /\ rsPhase' = "ended"
       ELSE FailStream
    /\ UNCHANGED <<rsApi, rsWait, rsBuffer, rsHead, rsSent, rsCount, rsClient>>

\* Ten minutes without a byte.
IdleTimeout ==
    /\ rsPhase = "open"
    /\ FailStream
    /\ UNCHANGED <<rsApi, rsWait, rsBuffer, rsHead, rsSent, rsCount, rsClient>>

\* Ten seconds without a byte: a comment and an empty line.
Heartbeat ==
    /\ rsPhase = "open"
    /\ rsBroken' = (rsBroken \/ rsHalf # NoEvent)
    /\ UNCHANGED <<rsPhase, rsApi, rsWait, rsBuffer, rsHead, rsSent, rsCount, rsSeen, rsHalf, rsClient,
                   rsOutcome, rsBills, rsLease, rsSaved>>

\* The client goes away: the stream is dropped.
DropStream ==
    /\ rsPhase \in {"first", "open", "ended"} /\ rsClient
    /\ rsClient' = FALSE /\ rsPhase' = "ended" /\ rsBuffer' = <<>>
    /\ Finish("cancelled") /\ DeliverNothing
    /\ UNCHANGED <<rsApi, rsWait, rsHead, rsSent, rsCount>>

-----------------------------------------------------------------------------
RsInit ==
    /\ rsPhase = "boot" /\ rsApi \in RsApis /\ rsWait \in BOOLEAN
    /\ rsWait => rsApi = "responses"
    /\ rsBuffer = <<>> /\ rsHead = NoEvent /\ rsSent = <<>> /\ rsCount = 0
    /\ rsSeen = <<>> /\ rsHalf = NoEvent /\ rsBroken = FALSE /\ rsClient = TRUE
    /\ rsOutcome = "none" /\ rsBills = 0 /\ rsLease = TRUE /\ rsSaved = FALSE

RsNext ==
    \/ BootChunk \/ BootProbeEnds \/ BootFails \/ FirstChunk \/ NextChunk \/ Oversized \/ BridgeEnds
    \/ UpstreamFails \/ UpstreamEnds \/ IdleTimeout \/ Heartbeat \/ DropStream

RsSpec == RsInit /\ [][RsNext]_rsVars

-----------------------------------------------------------------------------
RsTypeOK ==
    /\ rsPhase \in {"boot", "first", "open", "retry", "ended"}
    /\ rsHead \in Kinds \cup {NoEvent} /\ rsHalf \in Kinds \cup {NoEvent}
    /\ rsSeen \in Seq(Kinds) /\ rsSent \in Seq(Kinds) /\ rsCount \in 0..RsMaxEvents
    /\ rsOutcome \in {"none", "success", "incomplete", "failure", "cancelled"}

\* Affinity and the continuation are stored only for an answer that was completed
\* and that the client was sent from its first event to the terminal one; whatever
\* ends the stream, one usage event leaves and the candidate is released.
CompletedIsWhole ==
    /\ rsSaved /\ rsApi # "gemini" =>
           /\ "completed" \in Range(rsSent)
           /\ rsBroken \/ rsSeen = rsSent
    /\ rsBills <= 1
    /\ rsPhase = "ended" => rsBills = 1 /\ ~rsLease

\* A client of the Responses protocol that stays gets a terminal event before its
\* stream ends, however it ends.  (Unless the failure frame arrives behind the head
\* of an event, or a heartbeat broke one.)
EndsWithTerminal ==
    rsPhase = "ended" /\ rsClient /\ FramesFailure /\ ~rsBroken => Range(rsSeen) \cap Terminals # {}

\* A streamed answer is stored only when it was whole, is billed once and ends
\* with a terminal event (the stream of gateway/responses).
StreamSafe == RsTypeOK /\ CompletedIsWhole /\ EndsWithTerminal
=============================================================================
