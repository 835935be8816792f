--------------------------- MODULE BridgeStreams ----------------------------
(***************************************************************************)
(* The client of a bridged Responses stream.  It keeps the items it has    *)
(* been told of, what it has received of each, and the output of           *)
(* response.completed.  Every operator is one event of the stream; ok is   *)
(* FALSE once an event spoke of something the client does not know, or of  *)
(* something that is done, and argsOk once the arguments of a finished     *)
(* call were not the concatenation of their deltas.                        *)
(***************************************************************************)
EXTENDS Integers, Sequences, SequencesExt, FiniteSetsExt

Tools == {"function", "custom"}

NewClient ==
    [created |-> FALSE, items |-> <<>>, end |-> "none", output |-> <<>>, ok |-> TRUE, argsOk |-> TRUE]

Item(type, id) == [type |-> type, id |-> id, parts |-> <<>>, args |-> <<>>, done |-> FALSE]

FullItem(type, id, texts, args) == [type |-> type, id |-> id, texts |-> texts, args |-> args]

Shown(item) == FullItem(item.type, item.id, [k \in DOMAIN item.parts |-> item.parts[k].text], item.args)

Allow(c, legal, d) == IF legal /\ c.ok /\ c.end = "none" THEN d ELSE [c EXCEPT !.ok = FALSE]

IsOpen(c, out) == c.created /\ out + 1 \in DOMAIN c.items /\ ~c.items[out + 1].done

PartOpen(c, out, part) ==
    IsOpen(c, out) /\ part + 1 \in DOMAIN c.items[out + 1].parts /\ ~c.items[out + 1].parts[part + 1].done

\* response.output_item.added
AddItem(c, out, type, id) ==
    Allow(c, c.created /\ out = Len(c.items), [c EXCEPT !.items = Append(@, Item(type, id))])

\* response.content_part.added
AddPart(c, out, part) ==
    Allow(c, IsOpen(c, out) /\ part = Len(c.items[out + 1].parts),
          [c EXCEPT !.items[out + 1].parts = Append(@, [text |-> 0, done |-> FALSE])])

\* response.output_text.delta
TextDelta(c, out, part, n) ==
    Allow(c, PartOpen(c, out, part), [c EXCEPT !.items[out + 1].parts[part + 1].text = @ + n])

\* response.output_text.done and response.content_part.done
PartDone(c, out, part, text) ==
    Allow(c, PartOpen(c, out, part) /\ c.items[out + 1].parts[part + 1].text = text,
          [c EXCEPT !.items[out + 1].parts[part + 1].done = TRUE])

\* response.function_call_arguments.delta
ArgsDelta(c, out, more) ==
    Allow(c, IsOpen(c, out) /\ c.items[out + 1].type = "function",
          [c EXCEPT !.items[out + 1].args = @ \o more])

\* response.reasoning_summary_text.delta
SummaryDelta(c, out) == Allow(c, IsOpen(c, out) /\ c.items[out + 1].type = "reasoning", c)

\* response.output_item.done carries the whole item, which must agree with what was streamed of it.
ItemDone(c, out, item) ==
    LET known == c.items[out + 1] IN
    Allow(c, /\ IsOpen(c, out)
             /\ known.type = item.type
             /\ known.type # "reasoning" => known.id = item.id
             /\ [k \in DOMAIN known.parts |-> known.parts[k].text] = item.texts
             /\ \A k \in DOMAIN known.parts : known.parts[k].done,
          [c EXCEPT !.items[out + 1].args = item.args, !.items[out + 1].done = TRUE,
                    !.argsOk = @ /\ (known.type = "function" => known.args = item.args)])

-----------------------------------------------------------------------------
(***************************************************************************)
(* The bridge that turns the event stream of an Anthropic Messages source  *)
(* into a Responses stream, MessagesStreamBridge of                        *)
(* protocol/adapter/stream.rs, together with the translation of the whole  *)
(* message that its last event carries (protocol/adapter/messages.rs).     *)
(*                                                                         *)
(* The upstream sends content blocks: each has an index, starts, grows and *)
(* stops.  The client is sent output items: each has an output index, is   *)
(* added, grows and is done, and response.completed lists all of them once *)
(* more.  Several text blocks in a row share one message item, thinking    *)
(* blocks are kept for the next turn and not shown, and a tool block is an *)
(* item of its own.  The two numberings are assigned at different times:   *)
(* the output index when an item is first shown, the place in              *)
(* response.completed from the order of the block indices.                 *)
(*                                                                         *)
(* Text and arguments are counted in pieces.  Byte boundaries of events,   *)
(* usage numbers and the namespaces of tools are left out.                 *)
(***************************************************************************)

CONSTANTS
    MbIndices,    \* block indices the upstream uses, an initial part of Nat
    MbIds,        \* ids of tool calls
    MbMaxEvents   \* bound on the events of a stream

ASSUME MbAssumption == MbIndices \subseteq Nat /\ MbMaxEvents \in Nat

VARIABLES
    mb,        \* the bridge, with what it has sent to the client
    mbSerial,  \* whether the upstream has kept its blocks in order, one at a time
    mbEvents   \* events received

mbVars == <<mb, mbSerial, mbEvents>>

BlockKinds == Tools \cup {"text", "thinking"}
Pieces(n) == [k \in 1 .. n |-> 1]
NoText == [out |-> -1, parts |-> 0, msg |-> -1]
NoIndex == -1

(***************************************************************************)
(* The bridge.                                                             *)
(***************************************************************************)
NewBridge ==
    [started |-> FALSE, blocks |-> <<>>, closed |-> {}, text |-> NoText, nextOut |-> 0, nextMsg |-> 0,
     terminal |-> FALSE, client |-> NewClient]

Failed(b) ==
    [b EXCEPT !.terminal = TRUE, !.client.end = IF @ = "none" THEN "failed" ELSE @]

\* ensure_text_output and begin_text_content: the open message, and a new part of it.
BeginText(b) ==
    LET fresh == b.text = NoText
        t == IF fresh THEN [out |-> b.nextOut, parts |-> 0, msg |-> b.nextMsg] ELSE b.text
        c == IF fresh THEN AddItem(b.client, t.out, "message", t.msg) ELSE b.client IN
    [b EXCEPT !.text = [t EXCEPT !.parts = @ + 1],
              !.nextOut = IF fresh THEN @ + 1 ELSE @,
              !.nextMsg = IF fresh THEN @ + 1 ELSE @,
              !.client = AddPart(c, t.out, t.parts)]

TextParts(b, out) == {i \in DOMAIN b.blocks : b.blocks[i].kind = "text" /\ b.blocks[i].out = out}

TextSizes(b, parts) ==
    [k \in 1 .. Cardinality(parts) |-> b.blocks[CHOOSE i \in parts : b.blocks[i].part = k - 1].size]

MessageDone(b) ==
    [b EXCEPT !.text = NoText,
              !.client = ItemDone(@, b.text.out,
                                  FullItem("message", b.text.msg, TextSizes(b, TextParts(b, b.text.out)), <<>>))]

\* Mutant: the message is ended although a block of it is open.
FinishOpenText(b) == IF b.text = NoText THEN b ELSE MessageDone(b)

\* finish_active_text_output: fails while a block of the message is still open.
FinishText(b) ==
    LET parts == TextParts(b, b.text.out) IN
    CASE b.text = NoText -> b
      [] b.text # NoText /\ (parts = {} \/ ~(parts \subseteq b.closed)) -> Failed([b EXCEPT !.text = NoText])
      [] OTHER -> MessageDone(b)

Put(b, i, block) == [b EXCEPT !.blocks = [j \in DOMAIN @ \cup {i} |-> IF j = i THEN block ELSE @[j]]]

Block(kind, id, size, out, part) == [kind |-> kind, id |-> id, size |-> size, out |-> out, part |-> part]

\* handle_block_start of a text block, with or without a first piece of text.
StartText(b, i, first) ==
    IF first = 0 THEN Put(b, i, Block("text", NoIndex, 0, NoIndex, NoIndex))
    ELSE LET n == BeginText(b) IN
         Put([n EXCEPT !.client = TextDelta(@, n.text.out, n.text.parts - 1, 1)], i,
             Block("text", NoIndex, 1, n.text.out, n.text.parts - 1))

\* handle_block_start of a tool block; a call of a tool that was not offered is a failure.
StartTool(b, i, kind, id, first, offered) ==
    LET n == FinishText(b)
        twice == \E j \in DOMAIN n.blocks : n.blocks[j].kind \in Tools /\ n.blocks[j].id = id
        added == AddItem(n.client, n.nextOut, kind, id)
        sent == IF kind = "function" /\ first > 0 THEN ArgsDelta(added, n.nextOut, <<1>>) ELSE added IN
    CASE n.terminal -> n
      [] ~n.terminal /\ (~offered \/ twice) -> Failed(n)
      [] OTHER -> Put([n EXCEPT !.nextOut = @ + 1, !.client = sent], i, Block(kind, id, first, n.nextOut, NoIndex))

BlockStart(b, i, kind, id, first, offered) ==
    CASE ~b.started \/ i \in DOMAIN b.blocks \cup b.closed -> Failed(b)
      [] b.started /\ i \notin DOMAIN b.blocks \cup b.closed /\ kind = "text" -> StartText(b, i, first)
      [] b.started /\ i \notin DOMAIN b.blocks \cup b.closed /\ kind \in Tools ->
            StartTool(b, i, kind, id, first, offered)
      [] OTHER -> Put(b, i, Block("thinking", NoIndex, first, NoIndex, NoIndex))

\* handle_block_delta of a text block; a part is begun with its first text.
DeltaText(b, i) ==
    LET begin == b.blocks[i].part = NoIndex
        n == IF begin THEN BeginText(b) ELSE b
        out == IF begin THEN n.text.out ELSE b.blocks[i].out
        part == IF begin THEN n.text.parts - 1 ELSE b.blocks[i].part
        grown == Put(n, i, Block("text", NoIndex, b.blocks[i].size + 1, out, part)) IN
    IF n.text = NoText \/ n.text.out # out THEN Failed(grown)
    ELSE [grown EXCEPT !.client = TextDelta(@, out, part, 1)]

BlockDelta(b, i, kind) ==
    CASE i \in b.closed \/ i \notin DOMAIN b.blocks -> Failed(b)
      [] i \in DOMAIN b.blocks \ b.closed /\ b.blocks[i].kind # kind -> Failed(b)
      [] i \in DOMAIN b.blocks \ b.closed /\ b.blocks[i].kind = kind /\ kind = "text" -> DeltaText(b, i)
      [] OTHER ->
            LET grown == [b EXCEPT !.blocks[i].size = @ + 1] IN
            IF kind = "function" THEN [grown EXCEPT !.client = ArgsDelta(@, b.blocks[i].out, <<1>>)] ELSE grown

\* handle_block_stop; parsed says whether the arguments received are an object the tool can take.
StopTool(b, i, parsed) ==
    LET x == b.blocks[i] IN
    IF ~parsed \/ (x.kind = "custom" /\ x.size = 0) THEN Failed(b)
    ELSE [b EXCEPT !.client = ItemDone(@, x.out, FullItem(x.kind, x.id, <<>>, Pieces(x.size)))]

StopText(b, i) ==
    LET x == b.blocks[i] IN
    CASE x.part = NoIndex -> b
      [] x.part # NoIndex /\ (b.text = NoText \/ b.text.out # x.out) -> Failed(b)
      [] OTHER -> [b EXCEPT !.client = PartDone(@, x.out, x.part, x.size)]

BlockStop(b, i, parsed) ==
    LET n == [b EXCEPT !.closed = @ \cup {i}] IN
    CASE i \in b.closed \/ i \notin DOMAIN b.blocks -> Failed(n)
      [] i \in DOMAIN b.blocks \ b.closed /\ b.blocks[i].kind \in Tools -> StopTool(n, i, parsed)
      [] i \in DOMAIN b.blocks \ b.closed /\ b.blocks[i].kind = "text" -> StopText(n, i)
      [] OTHER -> n

(***************************************************************************)
(* responses_output_from_messages_content and set_message_output_id: the   *)
(* items of the whole message, in the order of the block indices.          *)
(***************************************************************************)
InOrder(b) == SetToSortSeq(DOMAIN b.blocks, LAMBDA i, j : i < j)

\* Mutant: a tool call is listed before the text that precedes it.
GatherLate(acc, x) ==
    CASE x.kind = "text" /\ x.size > 0 -> [acc EXCEPT !.texts = Append(@, x.size)]
      [] x.kind \in Tools -> [acc EXCEPT !.out = Append(@, FullItem(x.kind, x.id, <<>>, Pieces(x.size)))]
      [] OTHER -> acc

Gather(acc, x) ==
    CASE x.kind = "text" /\ x.size > 0 -> [acc EXCEPT !.texts = Append(@, x.size)]
      [] x.kind \in Tools ->
            LET flushed == IF acc.texts = <<>> THEN acc.out
                           ELSE Append(acc.out, FullItem("message", acc.msg, acc.texts, <<>>)) IN
            [out |-> Append(flushed, FullItem(x.kind, x.id, <<>>, Pieces(x.size))), texts |-> <<>>,
             msg |-> IF acc.texts = <<>> THEN acc.msg ELSE acc.msg + 1]
      [] OTHER -> acc

FullOutput(b) ==
    LET all == FoldLeft(LAMBDA acc, i : Gather(acc, b.blocks[i]), [out |-> <<>>, texts |-> <<>>, msg |-> 0],
                        InOrder(b)) IN
    IF all.texts = <<>> THEN all.out ELSE Append(all.out, FullItem("message", all.msg, all.texts, <<>>))

Complete(b) ==
    LET n == FinishText(b) IN
    CASE ~b.started \/ b.blocks = <<>> \/ Cardinality(b.closed) # Cardinality(DOMAIN b.blocks) -> Failed(b)
      [] b.started /\ b.blocks # <<>> /\ Cardinality(b.closed) = Cardinality(DOMAIN b.blocks) /\ n.terminal -> n
      [] OTHER ->
            IF FullOutput(n) = <<>> THEN Failed(n)
            ELSE [n EXCEPT !.terminal = TRUE, !.client.end = "completed", !.client.output = FullOutput(n)]

MessageStart(b) == IF b.started THEN Failed(b) ELSE [b EXCEPT !.started = TRUE, !.client.created = TRUE]

(***************************************************************************)
(* The stream: any order of events, until the bridge has ended it.         *)
(***************************************************************************)
MbInit == mb = NewBridge /\ mbSerial = TRUE /\ mbEvents = 0

Handle(b) ==
    /\ ~mb.terminal
    /\ mbEvents < MbMaxEvents
    /\ mb' = b
    /\ mbEvents' = mbEvents + 1

InTurn(i) == DOMAIN mb.blocks \subseteq mb.closed /\ \A j \in DOMAIN mb.blocks : j < i

ReceiveMessageStart == Handle(MessageStart(mb)) /\ UNCHANGED mbSerial

ReceiveBlockStart ==
    \E i \in MbIndices, kind \in BlockKinds, id \in MbIds, first \in 0 .. 1, offered \in BOOLEAN :
        /\ kind \notin Tools => offered /\ id = CHOOSE x \in MbIds : TRUE
        /\ Handle(BlockStart(mb, i, kind, id, first, offered))
        /\ mbSerial' = (mbSerial /\ InTurn(i))

ReceiveBlockDelta ==
    \E i \in MbIndices, kind \in BlockKinds : Handle(BlockDelta(mb, i, kind)) /\ UNCHANGED mbSerial

ReceiveBlockStop ==
    \E i \in MbIndices, parsed \in BOOLEAN : Handle(BlockStop(mb, i, parsed)) /\ UNCHANGED mbSerial

ReceiveMessageStop == Handle(Complete(mb)) /\ UNCHANGED mbSerial

\* ping, metadata, citations and usage: nothing the client sees.
ReceiveMetadata == Handle(mb) /\ UNCHANGED mbSerial

\* An error event, an event that cannot be parsed, or the end of the stream.
ReceiveError == Handle(Failed(mb)) /\ UNCHANGED mbSerial

MbNext ==
    \/ ReceiveMessageStart
    \/ ReceiveBlockStart
    \/ ReceiveBlockDelta
    \/ ReceiveBlockStop
    \/ ReceiveMessageStop
    \/ ReceiveMetadata
    \/ ReceiveError

MbSpec == MbInit /\ [][MbNext]_mbVars

(***************************************************************************)
(* Properties                                                              *)
(***************************************************************************)
\* The values the bridge of a Messages stream takes.
MbTypeOK ==
    /\ mbSerial \in BOOLEAN /\ mbEvents \in 0 .. MbMaxEvents
    /\ mb.terminal = (mb.client.end # "none")
    /\ mb.closed \subseteq MbIndices /\ DOMAIN mb.blocks \subseteq MbIndices
    /\ \A i \in DOMAIN mb.blocks : mb.blocks[i].kind \in BlockKinds

\* Whatever the order of the upstream's events, the client is only sent events about items and parts
\* that were added and are not done, a done event repeats what was streamed, and every item is done
\* before response.completed (MessagesStreamBridge, stream.rs).
ItemsWellFormed ==
    /\ mb.client.ok /\ mb.client.argsOk
    /\ mb.client.end = "completed" => \A k \in DOMAIN mb.client.items : mb.client.items[k].done

\* When the upstream sends its blocks in order and one at a time, the items streamed are the ones
\* response.completed lists, at the same places and with the same ids: the output index assigned when
\* an item is first shown is its place in the translation of the whole message (complete(), stream.rs).
ItemsAreTheOutput ==
    mb.client.end = "completed" /\ mbSerial =>
        mb.client.output = [k \in DOMAIN mb.client.items |-> Shown(mb.client.items[k])]

-----------------------------------------------------------------------------
(***************************************************************************)
(* The bridge that turns a Gemini stream into a Responses stream,          *)
(* GeminiStreamBridge of protocol/adapter/stream.rs, with the translation  *)
(* of the collected parts at its end (protocol/adapter/gemini.rs).         *)
(*                                                                         *)
(* The upstream sends chunks of parts: text, thought, and calls, of which  *)
(* one may be spread over several parts.  The bridge has one text item,    *)
(* one reasoning item and one item per call, and has to find out which     *)
(* call a part belongs to from its id, its name and its place in the       *)
(* chunk.  A text that begins with everything received so far is taken as  *)
(* a repetition with an addition.                                          *)
(*                                                                         *)
(* The upstream of the model makes a bounded number of calls, each with an *)
(* id of its own or none, and ends one before it goes on.  Texts are    *)
(* sequences of letters; the arguments of a call are the number of fields  *)
(* received, and their serialized form is a sequence that starts alike for *)
(* no two numbers.  Usage, signatures and partial argument paths are left  *)
(* out.                                                                    *)
(***************************************************************************)

CONSTANTS
    GbPieces,     \* texts the upstream sends
    GbNames,      \* tools the request offers
    GbMaxParts    \* bound on the parts of a stream

ASSUME GbAssumption == GbMaxParts \in Nat

VARIABLES
    gb,        \* the bridge, with what it has sent to the client
    gbUp,      \* what the upstream has sent: its calls, and whether the last will continue
    gbPlace,   \* parts received of the current chunk
    gbSent     \* parts received in all

gbVars == <<gb, gbUp, gbPlace, gbSent>>

NoName == "none"
NoCall == -1
\* Entries of the order of items that are not the key of a call.
TheText == -2
TheThinking == -3
Unoffered == "unoffered"

NewGemini ==
    [started |-> FALSE, text |-> <<>>, thinking |-> <<>>, calls |-> <<>>, active |-> NoCall, order |-> <<>>,
     textOut |-> 0, thinkOut |-> NoCall, nextOut |-> 0, terminal |-> FALSE, client |-> NewClient]

GbInit == gb = NewGemini /\ gbUp = [calls |-> 0, more |-> FALSE] /\ gbPlace = 0 /\ gbSent = 0

(***************************************************************************)
(* The bridge.                                                             *)
(***************************************************************************)
GeminiFails(g) == [g EXCEPT !.terminal = TRUE, !.client.end = "failed"]

EnsureStarted(g) == [g EXCEPT !.started = TRUE, !.client.created = TRUE]

\* incremental_delta: what incoming adds to previous, if it repeats it, and all of it otherwise.
Increment(previous, incoming) ==
    IF IsPrefix(previous, incoming) THEN SubSeq(incoming, Len(previous) + 1, Len(incoming)) ELSE incoming


\* A thought part. The reasoning item is added with the first one, always as number 0.
AddThought(g0, piece) ==
    LET g == EnsureStarted(g0)
        delta == Increment(g.thinking, piece)
        fresh == g.thinking = <<>>
        out == IF fresh THEN g.nextOut ELSE g.thinkOut
        c == IF fresh THEN AddItem(g.client, out, "reasoning", 0) ELSE g.client IN
    IF delta = <<>> THEN g
    ELSE [g EXCEPT !.thinking = @ \o delta, !.thinkOut = out,
                   !.order = IF fresh THEN Append(@, TheThinking) ELSE @,
                   !.nextOut = IF fresh THEN @ + 1 ELSE @,
                   !.client = SummaryDelta(c, out)]

\* A text part: all text of the response is one part of one message.
AddText(g0, piece) ==
    LET g == EnsureStarted(g0)
        delta == Increment(g.text, piece)
        fresh == g.text = <<>>
        out == IF fresh THEN g.nextOut ELSE g.textOut
        c == IF fresh THEN AddPart(AddItem(g.client, out, "message", out), out, 0) ELSE g.client IN
    IF delta = <<>> THEN g
    ELSE [g EXCEPT !.text = @ \o delta, !.textOut = out,
                   !.order = IF fresh THEN Append(@, TheText) ELSE @,
                   !.nextOut = IF fresh THEN @ + 1 ELSE @,
                   !.client = TextDelta(c, out, 0, Len(delta))]

\* Keys a call part may belong to, in the order handle_function_call looks for them.
ById(g, id) == {k \in DOMAIN g.calls : id # NoCall /\ g.calls[k].id = <<"given", id>>}
ByPlace(g, name, place) == {k \in DOMAIN g.calls : k = place /\ g.calls[k].name = name}
ByActive(g, name) == {k \in DOMAIN g.calls : k = g.active /\ name \in {NoName, g.calls[k].name}}
NewKey(g, place) == IF place \in DOMAIN g.calls THEN Max(DOMAIN g.calls) + 1 ELSE place

CallKey(g, name, id, place) ==
    CASE ById(g, id) # {} -> Min(ById(g, id))
      [] ById(g, id) = {} /\ ByPlace(g, name, place) # {} -> place
      [] ById(g, id) = {} /\ ByPlace(g, name, place) = {} /\ ByActive(g, name) # {} -> g.active
      [] OTHER -> IF name = NoName THEN NoCall ELSE NewKey(g, place)

\* emit_call_arguments_delta: nothing for an empty object, and nothing that was already sent.
Serialized(fields) == IF fields = 0 THEN <<>> ELSE <<fields>>
EmitArguments(g, k) ==
    LET x == g.calls[k]
        delta == Increment(x.sent, Serialized(x.args)) IN
    IF x.kind # "function" \/ delta = <<>> THEN g
    ELSE [g EXCEPT !.calls[k].sent = Serialized(x.args), !.client = ArgsDelta(@, x.out, delta)]

BeginCall(g0, k, name, kind, id, fields) ==
    LET g == EnsureStarted(g0)
        callId == IF id = NoCall THEN <<"made", k>> ELSE <<"given", id>>
        x == [id |-> callId, name |-> name, kind |-> kind, args |-> fields, out |-> g.nextOut, sent |-> <<>>] IN
    EmitArguments([g EXCEPT !.calls = [j \in DOMAIN @ \cup {k} |-> IF j = k THEN x ELSE @[j]],
                            !.order = Append(@, k), !.nextOut = @ + 1,
                            !.client = AddItem(@, g.nextOut, kind, callId)], k)

\* Further arguments replace the ones received (args) or add to them (partialArgs).
ExtendCall(g, k, fields, full) ==
    EmitArguments([g EXCEPT !.calls[k].args = IF full /\ fields > 0 THEN fields ELSE @ + fields], k)

NoteActive(g, k, more) == [g EXCEPT !.active = IF more THEN k ELSE IF @ = k THEN NoCall ELSE @]

AddCall(g, name, kind, id, place, fields, more) ==
    LET k == CallKey(g, name, id, place) IN
    CASE k = NoCall \/ name = Unoffered -> GeminiFails(g)
      [] k # NoCall /\ name # Unoffered /\ k \in DOMAIN g.calls -> 
            NoteActive(ExtendCall(g, k, fields, name # NoName), k, more)
      [] OTHER -> NoteActive(BeginCall(g, k, name, kind, id, fields), k, more)

AddGeminiPart(g, part, place) ==
    CASE g.terminal -> g
      [] ~g.terminal /\ part.is = "text" -> AddText(g, part.piece)
      [] ~g.terminal /\ part.is = "thought" -> AddThought(g, part.piece)
      [] ~g.terminal /\ part.is = "call" ->
            AddCall(g, part.name, part.kind, part.id, place, part.fields, part.more)
      [] OTHER -> GeminiFails(g)

\* responses_output_from_gemini_parts of the parts in their order: the n-th part is the n-th item.
OutputOf(g) ==
    [n \in DOMAIN g.order |->
        CASE g.order[n] = TheText -> FullItem("message", n - 1, <<Len(g.text)>>, <<>>)
          [] g.order[n] = TheThinking -> FullItem("reasoning", n - 1, <<>>, <<>>)
          [] OTHER -> FullItem(g.calls[g.order[n]].kind, g.calls[g.order[n]].id, <<>>,
                               Serialized(g.calls[g.order[n]].args))]

DoneEvents(c, n, item) ==
    ItemDone(IF item.type = "message" THEN PartDone(c, n - 1, 0, item.texts[1]) ELSE c, n - 1, item)

\* complete: a custom tool needs its input, and a response needs an item.
GeminiCompletes(g) ==
    LET output == OutputOf(g)
        noInput == \E k \in DOMAIN g.calls : g.calls[k].kind = "custom" /\ g.calls[k].args = 0
        c == FoldLeft(LAMBDA acc, n : DoneEvents(acc, n, output[n]), g.client, [n \in DOMAIN output |-> n]) IN
    IF g.order = <<>> \/ noInput THEN GeminiFails(g)
    ELSE [g EXCEPT !.terminal = TRUE, !.client = [c EXCEPT !.end = "completed", !.output = output]]

(***************************************************************************)
(* The upstream.  Its calls are numbered; a call keeps its name, and its   *)
(* id if it has one.                                                       *)
(***************************************************************************)
KindOf(name) == IF name = CHOOSE n \in GbNames : TRUE THEN "function" ELSE "custom"

TextPart(piece, is) == [is |-> is, piece |-> piece, name |-> NoName, kind |-> "function", id |-> NoCall,
                        fields |-> 0, more |-> FALSE]
CallPart(name, id, fields, more) ==
    [is |-> "call", piece |-> <<>>, name |-> name, kind |-> KindOf(name), id |-> id, fields |-> fields,
     more |-> more]

\* The parts the upstream may send next, with what it has sent after them.
NextParts(up) ==
    IF up.more
    THEN {[part |-> CallPart(NoName, NoCall, 1, more), up |-> [up EXCEPT !.more = more]] : more \in BOOLEAN}
    ELSE {[part |-> TextPart(p, is), up |-> up] : p \in GbPieces, is \in {"text", "thought"}}
         \cup {[part |-> CallPart(name, id, fields, more), up |-> [calls |-> up.calls + 1, more |-> more]] :
                 name \in GbNames, id \in {NoCall, up.calls}, fields \in 0 .. 1, more \in BOOLEAN}
         \cup {[part |-> CallPart(Unoffered, NoCall, 0, FALSE), up |-> up]}

(***************************************************************************)
(* The stream.  A chunk is handled part by part and then ends.             *)
(***************************************************************************)
ReceivePart ==
    /\ ~gb.terminal
    /\ gbSent < GbMaxParts
    /\ \E x \in NextParts(gbUp) :
        /\ gb' = AddGeminiPart(gb, x.part, gbPlace)
        /\ gbUp' = x.up
    /\ gbPlace' = gbPlace + 1
    /\ gbSent' = gbSent + 1

\* The end of a chunk; one with a finish reason completes the response.
EndChunk ==
    /\ ~gb.terminal
    /\ gbPlace > 0
    /\ gbPlace' = 0
    /\ UNCHANGED <<gb, gbUp, gbSent>>

FinishChunk ==
    /\ ~gb.terminal
    /\ gb' = GeminiCompletes(gb)
    /\ gbPlace' = 0
    /\ UNCHANGED <<gbUp, gbSent>>

\* An error, a chunk that cannot be read, [DONE] or the end of the stream without a finish reason.
StreamBreaks ==
    /\ ~gb.terminal
    /\ gbPlace = 0
    /\ gb' = GeminiFails(gb)
    /\ UNCHANGED <<gbUp, gbPlace, gbSent>>

GbNext == ReceivePart \/ EndChunk \/ FinishChunk \/ StreamBreaks

GbSpec == GbInit /\ [][GbNext]_gbVars

(***************************************************************************)
(* Properties                                                              *)
(***************************************************************************)
\* The values the bridge of a Gemini stream takes.
GbTypeOK ==
    /\ gbPlace \in 0 .. GbMaxParts /\ gbSent \in 0 .. GbMaxParts
    /\ gb.terminal = (gb.client.end # "none")
    /\ gb.active \in DOMAIN gb.calls \cup {NoCall}

\* The items a Gemini stream shows are the ones response.completed lists: the same kinds, ids and texts
\* at the places where they were added, each done once (complete(), stream.rs, numbers the done events
\* by their place in the translated output and the added events by a counter).
GeminiItemsMatch ==
    /\ gb.client.ok
    /\ gb.client.end = "completed" =>
        /\ Len(gb.client.items) = Len(gb.client.output)
        /\ \A k \in DOMAIN gb.client.items : gb.client.items[k].done

=============================================================================
