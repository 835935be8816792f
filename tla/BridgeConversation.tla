------------------------- MODULE BridgeConversation -------------------------
(***************************************************************************)
(* Multi-turn conversations of Responses clients over routes that have to  *)
(* keep the history themselves.  A Messages or a Gemini bridge translates  *)
(* every request into a stateless upstream call, so relay keeps the native *)
(* turn in a bounded volatile store and continues it when a client names   *)
(* it by previous_response_id; a native route forwards the id and replays  *)
(* the previous turn only after the upstream refused it.  A client may     *)
(* also send the whole history itself (Codex does).                        *)
(*                                                                         *)
(* An item of a conversation is a user message, an assistant text, a tool  *)
(* call or a tool result; what it says is left out.  Every request of the  *)
(* model comes from one local key: the store's key contains it.            *)
(***************************************************************************)
EXTENDS Naturals, SequencesExt, FiniteSetsExt

CONSTANTS
    BcMessages,     \* candidates behind the Responses-to-Messages bridge
    BcGemini,       \* candidates behind the Responses-to-Gemini bridge
    BcNative,       \* candidates that speak Responses themselves
    BcTools,        \* names of client tools
    BcCatalogs,     \* tool catalogs a request may declare, NoCatalog included
    BcChoices,      \* allowed_tools choices, Unchosen included
    BcMaxEntries,   \* DEFAULT_MAX_ENTRIES
    BcMaxSize,      \* the byte limits, in items
    BcTtl,          \* an hour, in ticks
    BcMaxNow,       \* bound on the clock
    BcMaxTurns,     \* bound on requests; the last one is not answered
    BcMaxFlights    \* bound on requests in flight

NoCatalog == {"no catalog"}
Unchosen == {"no choice"}
Nobody == 0
NoTool == "no tool"

ASSUME BcAssumption ==
    /\ BcMaxEntries \in Nat \ {0} /\ BcMaxSize \in Nat \ {0}
    /\ BcTtl \in Nat /\ BcMaxNow \in Nat /\ BcMaxTurns \in Nat
    /\ BcMaxFlights \in Nat \ {0}
    /\ BcCatalogs \subseteq ({NoCatalog} \cup SUBSET BcTools)
    /\ BcChoices \subseteq ({Unchosen} \cup SUBSET BcTools)

VARIABLES
    bcStore,     \* response id -> [cand, state, at, size], the bridges' store
    bcReplay,    \* response id -> [cand, input, output, at], the native store
    bcResps,     \* the responses clients hold, in the order they got them
    bcFlights,   \* requests sent upstream and not answered yet
    bcLast,      \* what became of the request prepared last
    bcTurns, bcNow

bcVars == <<bcStore, bcReplay, bcResps, bcFlights, bcLast, bcTurns, bcNow>>

BcCandidates == BcMessages \cup BcGemini \cup BcNative

(***************************************************************************)
(* Items and the state of a bridged conversation                           *)
(***************************************************************************)
\* "carried": an upstream call whose own id is kept with it
Entry(kind, id, tool, carried) ==
    [kind |-> kind, id |-> id, tool |-> tool, carried |-> carried]
UserMessage(n) == Entry("user", n, NoTool, TRUE)
ToolResult(id) == Entry("result", id, NoTool, TRUE)

NewState == [messages |-> << >>, tools |-> {}, allow |-> BcTools]

Offered(state) == state.tools \cap state.allow

Message(role, items) == [role |-> role, items |-> items]

Flat(messages) == FlattenSeq([i \in DOMAIN messages |-> messages[i].items])

CallsIn(items) == {x \in Range(items) : x.kind = "call"}

\* a new catalog returns to automatic selection
DeclareTools(state, catalog) ==
    IF catalog = NoCatalog THEN state
    ELSE [state EXCEPT !.tools = catalog, !.allow = BcTools]

\* an allowed_tools choice without any tool on offer is dropped
ChooseTools(state, choice) ==
    IF choice = Unchosen THEN state
    ELSE [state EXCEPT !.allow =
              IF choice \cap Offered(state) = {} THEN BcTools ELSE choice \cap Offered(state)]

(***************************************************************************)
(* Messages: results are gathered into one user message that answers the   *)
(* assistant message before it; every other item is a message of its own   *)
(***************************************************************************)
Reject(acc, error) == [acc EXCEPT !.error = error]

CallsOfLast(messages) == IF messages = << >> THEN {} ELSE CallsIn(Last(messages).items)


GatherResult(acc, item) ==
    IF \E call \in CallsOfLast(acc.state.messages) :
            call.id = item.id /\ call.tool \in Offered(acc.state)
    THEN [acc EXCEPT !.results = Append(@, item)]
    ELSE Reject(acc, "mismatch")

FlushResults(acc) ==
    IF acc.results = << >> THEN acc
    ELSE IF Cardinality(Range(acc.results)) # Len(acc.results) THEN Reject(acc, "mismatch")
    ELSE [acc EXCEPT !.state.messages = Append(@, Message("user", acc.results)),
                     !.results = << >>]

PushMessage(acc, role, item) ==
    IF acc.error # "" THEN acc
    ELSE IF item.kind = "call" /\ item.tool \notin Offered(acc.state)
    THEN Reject(acc, "invalid")
    ELSE [acc EXCEPT !.state.messages = Append(@, Message(role, <<item>>))]

MessagesItem(acc, item) ==
    IF acc.error # "" THEN acc
    ELSE IF item.kind = "result" THEN GatherResult(acc, item)
    ELSE PushMessage(FlushResults(acc), IF item.kind = "user" THEN "user" ELSE "assistant", item)

MessagesInput(state, input) ==
    LET end == FoldLeft(MessagesItem, [state |-> state, results |-> << >>, error |-> ""], input)
    IN  IF end.error # "" THEN end ELSE FlushResults(end)

(***************************************************************************)
(* Gemini: adjacent messages of one role are merged; a result needs the    *)
(* name of its call, looked up by the id the call was stored with          *)
(***************************************************************************)
Merge(messages, role, items) ==
    IF messages # << >> /\ Last(messages).role = role
    THEN [messages EXCEPT ![Len(messages)].items = @ \o items]
    ELSE Append(messages, Message(role, items))

NamedAnyway(state, id) == TRUE
NamesCall(state, id) == \E call \in CallsIn(Flat(state.messages)) : call.id = id /\ call.carried

GeminiItem(acc, item) ==
    IF acc.error # "" THEN acc
    ELSE IF \/ item.kind = "result" /\ ~NamesCall(acc.state, item.id)
            \/ item.kind = "call" /\ item.tool \notin Offered(acc.state)
    THEN Reject(acc, "invalid")
    ELSE [acc EXCEPT !.state.messages =
              Merge(@, IF item.kind \in {"user", "result"} THEN "user" ELSE "model", <<item>>)]

GeminiInput(state, input) ==
    FoldLeft(GeminiItem, [state |-> state, results |-> << >>, error |-> ""], input)

Translate(c, state, request) ==
    LET ready == ChooseTools(DeclareTools(state, request.catalog), request.choice)
    IN  IF c \in BcMessages THEN MessagesInput(ready, request.input)
        ELSE GeminiInput(ready, request.input)

KeepQuestionOnly(c, state, output) == state

\* the assistant turn that is kept with the state
KeepTurn(c, state, output) ==
    [state EXCEPT !.messages =
        IF c \in BcMessages THEN Append(@, Message("assistant", output))
        ELSE Merge(@, "model", output)]

(***************************************************************************)
(* The bounded store                                                       *)
(***************************************************************************)
\* a bridged id is derived from the route and the upstream's own id
IdWithoutRoute(c, n) == <<n>>
BridgedId(c, n) == <<c, n>>

Live(store) == {k \in DOMAIN store : bcNow - store[k].at <= BcTtl}

SizeOf(store, keys) == MapThenSumSet(LAMBDA k : store[k].size, keys)

Fits(store, keys, size) ==
    Cardinality(keys) < BcMaxEntries /\ SizeOf(store, keys) + size <= BcMaxSize

\* what is left once the oldest entries made room
Survivors(store, id, size) ==
    LET others == Live(store) \ {id}
    IN  {keep \in SUBSET others :
            /\ Fits(store, keep, size)
            /\ \A out \in others \ keep, k \in keep : store[out].at <= store[k].at
            /\ \/ keep = others
               \/ \E out \in others \ keep : ~Fits(store, keep \cup {out}, size)}

Insert(store, id, entry, after) ==
    IF entry.size > BcMaxSize
    THEN after = [k \in Live(store) |-> store[k]]
    ELSE \E keep \in Survivors(store, id, entry.size) :
            after = [k \in keep \cup {id} |-> IF k = id THEN entry ELSE store[k]]

(***************************************************************************)
(* A request                                                               *)
(***************************************************************************)
BcInit ==
    /\ bcStore = << >> /\ bcReplay = << >> /\ bcResps = << >> /\ bcFlights = {}
    /\ bcLast = [fate |-> "none"] /\ bcTurns = 0 /\ bcNow = 0

\* what the client believes was said before its new input
Said(request) == IF request.parent = Nobody THEN << >> ELSE bcResps[request.parent].said

\* a client continues the calls of its last response, or talks on; some answer
\* only the first call, some a call nobody made
NewInputs(parent) ==
    LET calls == IF parent = Nobody THEN << >>
                 ELSE SelectSeq(bcResps[parent].output, LAMBDA x : x.kind = "call")
        answers == [i \in DOMAIN calls |-> ToolResult(calls[i].id)]
    IN  {<<UserMessage(bcTurns + 1)>>, <<ToolResult(Nobody)>>}
            \cup {SubSeq(answers, 1, n) : n \in {1, Len(answers)} \cap DOMAIN answers}

ClientRequests ==
    UNION {{[parent |-> parent, replays |-> replays, input |-> fresh,
             new |-> fresh, catalog |-> catalog, choice |-> choice] :
                replays \in IF parent = Nobody THEN {FALSE} ELSE BOOLEAN,
                fresh \in NewInputs(parent), catalog \in BcCatalogs, choice \in BcChoices} :
             parent \in 0..Len(bcResps)}

\* the input as it arrives: a client that replays sends what was said as well
Arrives(request) ==
    IF request.replays THEN [request EXCEPT !.input = Said(request) \o request.new] ELSE request

ByPrevious(request) == request.parent # Nobody /\ ~request.replays

PreviousId(request) == bcResps[request.parent].id

Outcome(c, request, fate, items) ==
    [fate |-> fate, cand |-> c, parent |-> request.parent, replays |-> request.replays,
     new |-> request.new, changed |-> request.catalog # NoCatalog \/ request.choice # Unchosen,
     items |-> items]

SendUpstream(c, request, how, state, items) ==
    /\ bcFlights' = bcFlights \cup {[cand |-> c, request |-> request, how |-> how,
                                     state |-> state, turn |-> bcTurns']}
    /\ bcLast' = Outcome(c, request, how, items)

Refuse(c, request, error) ==
    /\ bcLast' = Outcome(c, request, error, << >>)
    /\ UNCHANGED bcFlights

\* a bridge loads the turn its client names, or refuses
LoadedState(c, request) ==
    IF ~ByPrevious(request) THEN [error |-> "", state |-> NewState]
    ELSE IF PreviousId(request) \notin Live(bcStore) THEN [error |-> "missing", state |-> NewState]
    ELSE IF bcStore[PreviousId(request)].cand # c THEN [error |-> "other route", state |-> NewState]
    ELSE [error |-> "", state |-> bcStore[PreviousId(request)].state]

AskBridge(c, request) ==
    LET loaded == LoadedState(c, request)
        done   == Translate(c, loaded.state, request)
    IN  /\ IF loaded.error # "" THEN Refuse(c, request, loaded.error)
           ELSE IF done.error # "" THEN Refuse(c, request, done.error)
           ELSE SendUpstream(c, request, "bridged", done.state, Flat(done.state.messages))
        /\ bcStore' = [k \in Live(bcStore) |-> bcStore[k]]
        /\ UNCHANGED <<bcReplay, bcResps, bcNow>>

\* a native upstream takes the request as it is
AskNative(c, request) ==
    /\ ByPrevious(request) => bcResps[request.parent].cand = c
    /\ SendUpstream(c, request, "native", NewState,
                    (IF ByPrevious(request) THEN Said(request) ELSE << >>) \o request.input)
    /\ UNCHANGED <<bcStore, bcReplay, bcResps, bcNow>>

\* it refuses the previous id, and the previous turn is sent along instead
ReplayNative(c, request) ==
    LET id == PreviousId(request)
    IN  /\ ByPrevious(request)
        /\ IF id \notin Live(bcReplay) \/ bcReplay[id].cand # c
           THEN Refuse(c, request, "refused upstream")
           ELSE SendUpstream(c, [request EXCEPT !.input = bcReplay[id].input \o bcReplay[id].output \o @],
                             "replayed", NewState,
                             bcReplay[id].input \o bcReplay[id].output \o request.input)
        /\ bcReplay' = [k \in Live(bcReplay) |-> bcReplay[k]]
        /\ UNCHANGED <<bcStore, bcResps, bcNow>>

Ask ==
    \E c \in BcCandidates, shape \in ClientRequests :
        LET request == Arrives(shape)
        IN  /\ bcTurns < BcMaxTurns /\ Cardinality(bcFlights) < BcMaxFlights
            /\ bcTurns' = bcTurns + 1
            /\ \/ c \notin BcNative /\ AskBridge(c, request)
               \/ c \in BcNative /\ (AskNative(c, request) \/ ReplayNative(c, request))

(***************************************************************************)
(* The answer                                                              *)
(***************************************************************************)
\* external: a text, one call or two calls; Gemini's JSON answers may carry no ids
Answers(flight) ==
    LET call(i, tool, carried) == Entry("call", 10 * flight.turn + i, tool, carried)
        withIds == IF flight.cand \in BcGemini THEN BOOLEAN ELSE {TRUE}
    IN  {<<Entry("text", flight.turn, NoTool, TRUE)>>}
            \cup {<<call(1, t, b)>> : t \in BcTools, b \in withIds}
            \cup {<<call(1, t, b), call(2, u, b)>> : t \in BcTools, u \in BcTools, b \in withIds}

\* only calls of tools that were sent upstream reach the client
ValidateCalls(state, output) == \A call \in CallsIn(output) : call.tool \in Offered(state)

\* the client always gets an id to answer with
ForClient(output) == [i \in DOMAIN output |-> [output[i] EXCEPT !.carried = TRUE]]

\* Messages: the upstream's id, unique on its own route only; Gemini: the request's id
UpstreamId(flight) ==
    IF flight.cand \in BcMessages
    THEN Len(SelectSeq(bcResps, LAMBDA r : r.cand = flight.cand)) + 1
    ELSE flight.turn + 100

Held(flight, id, output, size) ==
    Append(bcResps, [id |-> id, cand |-> flight.cand, at |-> bcNow, size |-> size, lost |-> FALSE,
                     said |-> Said(flight.request) \o flight.request.new \o ForClient(output),
                     output |-> ForClient(output),
                     byId |-> flight.how = "native" /\ ByPrevious(flight.request),
                     carried |-> \A call \in CallsIn(output) : call.carried])

SaveTurn(flight, id, output) ==
    LET kept == KeepTurn(flight.cand, flight.state, output)
        size == Len(Flat(kept.messages))
    IN  /\ Insert(bcStore, id, [cand |-> flight.cand, state |-> kept, at |-> bcNow, size |-> size], bcStore')
        /\ bcResps' = Held(flight, id, output, size)
        /\ UNCHANGED bcReplay

SaveReplay(flight, id, output) ==
    LET size == Len(flight.request.input \o output)
    IN  /\ Insert(bcReplay, id, [cand |-> flight.cand, input |-> flight.request.input,
                                 output |-> output, at |-> bcNow, size |-> size], bcReplay')
        /\ bcResps' = Held(flight, id, output, size)
        /\ UNCHANGED bcStore

Answer ==
    \E flight \in bcFlights : \E output \in Answers(flight) :
        LET id == BridgedId(flight.cand, UpstreamId(flight))
        IN  /\ bcTurns < BcMaxTurns
            /\ bcFlights' = bcFlights \ {flight}
            /\ UNCHANGED <<bcLast, bcTurns, bcNow>>
            /\ IF flight.cand \in BcNative THEN SaveReplay(flight, id, output)
               ELSE IF ValidateCalls(flight.state, output) THEN SaveTurn(flight, id, output)
               ELSE UNCHANGED <<bcStore, bcReplay, bcResps>>

\* nothing of this survives the process
Restart ==
    /\ bcStore' = << >> /\ bcReplay' = << >> /\ bcFlights' = {}
    /\ bcResps' = [i \in DOMAIN bcResps |-> [bcResps[i] EXCEPT !.lost = TRUE]]
    /\ bcResps # << >> /\ bcTurns < BcMaxTurns
    /\ UNCHANGED <<bcLast, bcTurns, bcNow>>

BcTick ==
    /\ bcNow < BcMaxNow /\ bcTurns < BcMaxTurns /\ bcNow' = bcNow + 1
    /\ UNCHANGED <<bcStore, bcReplay, bcResps, bcFlights, bcLast, bcTurns>>

BcNext == Ask \/ Answer \/ Restart \/ BcTick

BcSpec == BcInit /\ [][BcNext]_bcVars

-----------------------------------------------------------------------------
(***************************************************************************)
(* Properties                                                              *)
(***************************************************************************)
\* The state of the store and of the requests is well formed, and the store
\* keeps within its limits on entries and bytes (insert, store.rs).
BcTypeOK ==
    /\ \A store \in {bcStore, bcReplay} :
        /\ Cardinality(DOMAIN store) <= BcMaxEntries
        /\ SizeOf(store, DOMAIN store) <= BcMaxSize
    /\ \A k \in DOMAIN bcStore : bcStore[k].cand \in BcMessages \cup BcGemini
    /\ \A f \in bcFlights : f.cand \in BcCandidates /\ f.turn \in 1..BcMaxTurns
    /\ bcTurns \in 0..BcMaxTurns /\ bcNow \in 0..BcMaxNow

Parent == bcResps[bcLast.parent]

Conversation == (IF bcLast.parent = Nobody THEN << >> ELSE Parent.said) \o bcLast.new

Untagged(items) == [i \in DOMAIN items |-> [items[i] EXCEPT !.carried = TRUE]]

\* A bridged request carries the whole conversation its client means, every
\* item once and in order, or it is refused: losing the volatile state "is
\* surfaced as a clear continuation error instead of silently sending a
\* context-free tool output upstream" (store.rs).  So does a native replay,
\* unless the turn before it was itself sent by previous_response_id.
ContextIsWhole ==
    \/ bcLast.fate = "bridged"
    \/ bcLast.fate = "replayed" /\ ~Parent.byId
    => Untagged(bcLast.items) = Conversation

\* Every tool result sent upstream over a bridge answers a call that precedes
\* it, and no call is answered twice in a row by one request.
ResultsHaveCalls ==
    bcLast.fate = "bridged" =>
        \A i \in DOMAIN bcLast.items : bcLast.items[i].kind = "result" =>
            \E j \in 1..(i - 1) :
                bcLast.items[j].kind = "call" /\ bcLast.items[j].id = bcLast.items[i].id

\* The responses a live entry could have been evicted for.
Younger(r) ==
    {i \in DOMAIN bcResps : /\ bcResps[i] # r /\ bcResps[i].at >= r.at /\ ~bcResps[i].lost
                            /\ bcResps[i].size <= BcMaxSize /\ bcResps[i].cand \notin BcNative}

\* A continuation is refused for want of its state only when the state expired,
\* was too large, was lost with the process, made room for younger turns, or
\* belongs to another route: two routes whose upstreams use the same id never
\* take each other's turn (bridged_response_id_scoped, MessagesBridgeStore).
TurnIsKept ==
    bcLast.fate \in {"missing", "other route"} =>
        \/ Parent.cand # bcLast.cand
        \/ bcNow - Parent.at > BcTtl \/ Parent.lost \/ Parent.size > BcMaxSize
        \/ Cardinality(Younger(Parent)) >= BcMaxEntries
        \/ MapThenSumSet(LAMBDA i : bcResps[i].size, Younger(Parent)) + Parent.size > BcMaxSize

\* The new items answer exactly the calls the parent response made.
AnswersCalls ==
    /\ bcLast.fate # "none" /\ bcLast.parent # Nobody
    /\ ~bcLast.changed /\ bcLast.cand = Parent.cand
    /\ CallsIn(Parent.output) # {}
    /\ [i \in DOMAIN bcLast.new |-> bcLast.new[i].id]
            = [i \in DOMAIN Parent.output |-> Parent.output[i].id]

\* A client that answers all calls of a response by its previous_response_id,
\* on the route that made them and with the catalog unchanged, is understood
\* unless a Gemini upstream sent the call without an id.
AnswerUnderstood ==
    AnswersCalls /\ ~bcLast.replays /\ Parent.carried
        => bcLast.fate \notin {"mismatch", "invalid"}

=============================================================================
