------------------------------- MODULE MCStreams -------------------------------
(***************************************************************************)
(* What the gateway answers with, what its bridges remember of the         *)
(* conversation, and what it learns from the catalogs of its sources:      *)
(* eight components side by side.  They share no state, and a behaviour    *)
(* moves only the one that part names.                                     *)
(***************************************************************************)
EXTENDS WebSocketBridge, ResponseStream, ImageExecution, BridgeStreams, BridgeConversation,
        SourceCatalog, TLC

VARIABLE part

Catalog == {"crowd", "catalogs", "clock"}
Parts == {"socket", "stream", "image", "messages", "gemini", "bridge", "routes", "discovery"}
         \cup Catalog

\* BridgeStreams: texts that repeat what was sent, with an addition.
MCPieces == {<<1>>, <<1, 2>>}

\* BridgeConversation: tools are offered or not, and none is required.
MCCatalogs == {NoCatalog, {"t"}}
MCChoices == {Unchosen}

\* SourceCatalog: a native route that comes to declare that it has no efforts, and
\* a bridged one that declares an effort it cannot express; sources with one route
\* or several, with and without lists, and answers with and without prices.
MCSays == <<<<{<<2, 1>>}, {<<>>}>>, <<{<<3, 5>>}, {<<5>>}>>>>
Native(api, models) == [api |-> api, native |-> TRUE, models |-> models]
Bridge(models) == [api |-> "responses", native |-> FALSE, models |-> models]
Source(models, bindings, base) == [models |-> models, bindings |-> bindings, base |-> base]
NewSource == Source({}, <<>>, "root")
MCRecords ==
    {NewSource, Source({"a"}, <<Native("responses", {})>>, "v1"),
     Source({"a"}, <<Bridge({"a"})>>, "v1"),
     Source({}, <<Native("responses", {}), Bridge({})>>, "root"),
     Source({"a", "b"}, <<Bridge({"a", "b"}), Native("messages", {"a"})>>, "root"),
     Source({"a", "b"}, <<Native("responses", {"a"}), Bridge({"b"}), Native("messages", {"b"})>>,
            "root"),
     Source({"a"}, <<Native("responses", {"a"}), Native("messages", {"a"}), Native("chat", {"a"})>>,
            "v1")}
MCAnswers ==
    {<<>>, "a" :> {}, "a" :> {1}, "a" :> {2}, "b" :> {}, ("a" :> {}) @@ ("b" :> {}),
     ("a" :> {1}) @@ ("b" :> {2})}

-----------------------------------------------------------------------------
\* The parts that do not move rest in one of their initial states.
MCInit ==
    /\ part \in Parts
    /\ WsInit /\ MbInit /\ GbInit /\ BcInit
    /\ RsInit
    /\ part # "stream" => rsApi = "bridged"
    /\ ImInit
    /\ part # "image" => imReq = CHOOSE x \in ImRequests : TRUE
    /\ ScInit /\ SdInit
    /\ part # "discovery" => sdRecord = NewSource

Rests(p, v) == IF part = p THEN TRUE ELSE UNCHANGED v

\* A conversation moves between the protocols, or between two routes of one.
Asked == {f.cand : f \in bcFlights'} \cup (IF bcLast'.fate = "none" THEN {} ELSE {bcLast'.cand})
BridgeScene == Asked \cap (IF part = "routes" THEN BcGemini \cup BcNative ELSE {"m2"}) = {}

\* Three callers of one route at once, two of two routes, or callers that follow
\* each other until manifests and throttle expire.
CatalogScene ==
    /\ part = "catalogs" \/ \A k \in ScCallers : scCall'[k].route[2].pc = "off"
    /\ part = "clock" \/ scWorld'.now = 0
    /\ part = "catalogs" => scWorld'.begun <= 2
    /\ part = "clock" => scWorld'.version = 1 /\ (scGate'.pending => scWorld'.begun <= 2)

OthersRest ==
    /\ UNCHANGED part
    /\ Rests("socket", wsVars) /\ Rests("stream", rsVars) /\ Rests("image", imVars)
    /\ Rests("messages", mbVars) /\ Rests("gemini", gbVars)
    /\ part \notin {"bridge", "routes"} => UNCHANGED bcVars
    /\ Rests("discovery", sdVars)
    /\ part \notin Catalog => UNCHANGED scVars

MCNext ==
    \/ part = "socket" /\ WsNext /\ OthersRest
    \/ part = "stream" /\ RsNext /\ OthersRest
    \/ part = "image" /\ ImNext /\ OthersRest
    \/ part = "messages" /\ MbNext /\ OthersRest
    \/ part = "gemini" /\ GbNext /\ OthersRest
    \/ part \in {"bridge", "routes"} /\ BcNext /\ BridgeScene /\ OthersRest
    \/ part \in Catalog /\ ScNext /\ CatalogScene /\ OthersRest
    \/ part = "discovery" /\ SdNext /\ OthersRest

-----------------------------------------------------------------------------
\* What a provider answers is kept and used once: an image is delivered and billed
\* as ImageSafe says; no route of a source is asked for its catalog twice at a time,
\* and none is forgotten or replaced by an older one (runtime/source_metadata.rs);
\* discovery keeps the routes of a source apart and reports the prices they agree on
\* (sources/discovery.rs).
ProviderAnswersSafe ==
    /\ part = "image" => ImageSafe
    /\ part \in Catalog => ScInv /\ CatalogSafe /\ LevelsAreDeclared
    /\ part = "discovery" => RoutesStayApart /\ PricesAgree
===============================================================================
