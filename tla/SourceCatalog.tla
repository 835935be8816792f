--------------------------- MODULE SourceCatalog ---------------------------
(* What the gateway learns from the model catalogs of its API sources        *)
(* (relay-core, runtime/source_metadata.rs and sources/discovery.rs).        *)
(*                                                                           *)
(* The running gateway asks `/models` of each route for the reasoning        *)
(* efforts it declares: for a catalog request, for an operator's explicit    *)
(* refresh, and ahead of time for the management pages.  The answers are     *)
(* cached; one lock and one throttle, `prefetch_not_before_ms`, keep callers *)
(* from asking twice.  Management asks the same endpoint to find out which   *)
(* models a source has and which of its routes serves each of them.          *)
(*                                                                           *)
(* A manifest is the version of the provider's catalog it was read from, and *)
(* one public model stands for all.  Context windows, image support and      *)
(* reasoning summaries are left out.                                         *)
EXTENDS Integers, SequencesExt, FiniteSetsExt, TLAPS

CONSTANTS
    ScRoutes,      \* routes of API sources, numbered in the order of their ids
    ScBridged,     \* those behind a protocol bridge
    ScSays,        \* ScSays[c][v]: {} or the efforts that version v declares for c
    ScMapped,      \* efforts a bridge can express
    ScMax,         \* the effort that implies ...
    ScUltra,       \* ... this one
    ScPrefetches,  \* callers: prefetches of the management pages,
    ScForced,      \* explicit refreshes,
    ScRequests,    \* and catalog requests
    ScTtl,         \* how long a manifest is fresh, and the throttle
    ScMaxNow,      \* bound on the clock
    ScMaxVersion,  \* bound on the provider's changes
    ScMaxBegun,    \* bound on the calls
    SdModels,      \* models of a source
    SdPrices,      \* prices a catalog may declare
    SdAnswers,     \* catalogs a binding may answer: model -> {} or its price
    SdRecords      \* source records as they may be stored

ASSUME ScAssumption == ScTtl \in Nat /\ "free" \notin ScPrefetches \cup ScForced \cup ScRequests

VARIABLES
    scManifest,    \* source_manifests
    scDeclared,    \* declared_reasoning
    scGate,        \* refresh_lock, prefetch_pending and prefetch_not_before_ms
    scCall,        \* the callers
    scWorld,       \* clock, version of the provider's catalog, calls so far
    sdRecord,      \* a stored source: its models, its bindings and its base URL
    sdRun          \* the discovery of its models

scVars == <<scManifest, scDeclared, scGate, scCall, scWorld>>
sdVars == <<sdRecord, sdRun>>

ScCallers == ScPrefetches \cup ScForced \cup ScRequests
Free == "free"

NoManifest == [v |-> 0, at |-> 0]

(* One route within a call: not part of it, to be read, asked with the       *)
(* manifest v to fall back on, told a new one, or done with v.               *)
RouteStates == {"off", "todo", "asked", "told", "got"}

ScNoCall ==
    [pc |-> "idle", now |-> 0, before |-> 0, allowed |-> FALSE, required |-> FALSE,
     forced |-> FALSE, route |-> [c \in ScRoutes |-> [pc |-> "off", v |-> 0]],
     known |-> [c \in ScRoutes |-> 0]]

ScInit ==
    /\ scManifest = [c \in ScRoutes |-> NoManifest]
    /\ scDeclared = [efforts |-> [c \in ScRoutes |-> {}], empty |-> {}, levels |-> <<>>]
    /\ scGate = [lock |-> Free, pending |-> FALSE, before |-> 0]
    /\ scCall = [k \in ScCallers |-> ScNoCall]
    /\ scWorld = [now |-> 0, version |-> 1, begun |-> 0]

-----------------------------------------------------------------------------
(* Callers.                                                                  *)

Call(k, call) == scCall' = [scCall EXCEPT ![k] = call]

RouteDone(k, c, st, v) == Call(k, [scCall[k] EXCEPT !.route[c] = [pc |-> st, v |-> v]])

Begun == /\ scWorld.begun < ScMaxBegun
         /\ scWorld' = [scWorld EXCEPT !.begun = @ + 1]

PrefetchUnmarked(k) ==
    /\ scCall[k].pc = "idle"
    /\ scWorld.now >= scGate.before
    /\ ~scGate.pending
    /\ Call(k, [ScNoCall EXCEPT !.pc = "spawned"])
    /\ Begun
    /\ UNCHANGED <<scManifest, scDeclared, scGate>>

(* prefetch_source_model_metadata: at most one at a time, not before the     *)
(* throttle allows it.                                                       *)
Prefetch(k) ==
    /\ scCall[k].pc = "idle"
    /\ scWorld.now >= scGate.before
    /\ ~scGate.pending
    /\ scGate' = [scGate EXCEPT !.pending = TRUE]
    /\ Call(k, [ScNoCall EXCEPT !.pc = "spawned"])
    /\ Begun
    /\ UNCHANGED <<scManifest, scDeclared>>

(* source_metadata_routes: the routes the caller's scope and the candidates' *)
(* health leave visible.                                                     *)
Opened(k, routes) ==
    [ScNoCall EXCEPT !.pc = "open", !.now = scWorld.now, !.forced = k \in ScForced,
                   !.route = [c \in ScRoutes |->
                                 [pc |-> IF c \in routes THEN "todo" ELSE "off", v |-> 0]],
                   !.known = [c \in ScRoutes |-> scManifest[c].v]]

(* The spawned prefetch: every source a gateway key reaches. *)
OpenPrefetch(k, routes) ==
    /\ scCall[k].pc = "spawned"
    /\ Call(k, Opened(k, routes))
    /\ UNCHANGED <<scManifest, scDeclared, scGate, scWorld>>

(* refresh_source_model_metadata(_for_source), or a catalog request. *)
OpenCall(k, routes) ==
    /\ k \notin ScPrefetches
    /\ scCall[k].pc = "idle"
    /\ Call(k, Opened(k, routes))
    /\ Begun
    /\ UNCHANGED <<scManifest, scDeclared, scGate>>

Fresh(call, c) == /\ scManifest[c].v # 0
                  /\ call.now - scManifest[c].at <= ScTtl

(* source_metadata_manifests, up to the lock: who finds fresh manifests, or  *)
(* is throttled, does not wait for a refresh.                                *)
Decide(k) ==
    LET call == scCall[k]
        allowed == call.forced \/ call.now >= scGate.before
        required == /\ allowed
                    /\ \E c \in ScRoutes : /\ call.route[c].pc = "todo"
                                           /\ call.forced \/ ~Fresh(call, c)
    IN  /\ call.pc = "open"
        /\ Call(k, [call EXCEPT !.before = scGate.before, !.allowed = allowed,
                                !.required = required,
                                !.pc = IF required THEN "wait" ELSE "collect"])
        /\ UNCHANGED <<scManifest, scDeclared, scGate, scWorld>>

(* The lock is taken.  An explicit refresh that finds the throttle moved     *)
(* while it waited is content with what another one has cached.              *)
TakeLock(k) ==
    LET call == scCall[k]
        moved == call.forced /\ scGate.before # call.before
    IN  /\ call.pc = "wait"
        /\ scGate.lock = Free
        /\ scGate' = [scGate EXCEPT !.lock = k]
        /\ Call(k, [call EXCEPT !.pc = "collect",
                                !.allowed = IF moved THEN call.now >= scGate.before ELSE @,
                                !.forced = @ /\ ~moved])
        /\ UNCHANGED <<scManifest, scDeclared, scWorld>>

(* source_metadata_manifest: the cached manifest serves unless this call may *)
(* ask and must.                                                             *)
ReadCached(k, c) ==
    LET call == scCall[k]
        cached == ~call.allowed \/ (~call.forced /\ Fresh(call, c))
    IN  /\ call.pc = "collect"
        /\ call.route[c].pc = "todo"
        /\ RouteDone(k, c, IF cached THEN "got" ELSE "asked", scManifest[c].v)
        /\ UNCHANGED <<scManifest, scDeclared, scGate, scWorld>>

(* No answer in ten seconds, an error status, an oversized or unreadable     *)
(* body: the manifest that was cached when the route was asked serves.       *)
ProviderFails(k, c) ==
    /\ scCall[k].route[c].pc = "asked"
    /\ RouteDone(k, c, "got", scCall[k].route[c].v)
    /\ UNCHANGED <<scManifest, scDeclared, scGate, scWorld>>

ProviderAnswers(k, c) ==
    /\ scCall[k].route[c].pc = "asked"
    /\ RouteDone(k, c, "told", scWorld.version)
    /\ UNCHANGED <<scManifest, scDeclared, scGate, scWorld>>

(* remember_source_model_manifest: dated by the beginning of the call.  The  *)
(* candidates of API sources stay for as long as the runtime does.           *)
RememberManifest(k, c) ==
    LET call == scCall[k]
    IN  /\ call.route[c].pc = "told"
        /\ scManifest' = [scManifest EXCEPT ![c] = [v |-> call.route[c].v, at |-> call.now]]
        /\ RouteDone(k, c, "got", call.route[c].v)
        /\ UNCHANGED <<scDeclared, scGate, scWorld>>

Unlocked(k) == [scGate EXCEPT !.lock = IF @ = k THEN Free ELSE @]

(* All routes have answered: the lock is released, and only then the         *)
(* throttle moves.                                                           *)
ReleaseLock(k) ==
    /\ scCall[k].pc = "collect"
    /\ \A c \in ScRoutes : scCall[k].route[c].pc \in {"off", "got"}
    /\ scGate' = Unlocked(k)
    /\ Call(k, [scCall[k] EXCEPT !.pc = IF scCall[k].required THEN "throttle" ELSE "declare"])
    /\ UNCHANGED <<scManifest, scDeclared, scWorld>>

MoveThrottle(k) ==
    /\ scCall[k].pc = "throttle"
    /\ scGate' = [scGate EXCEPT !.before = scCall[k].now + ScTtl]
    /\ Call(k, [scCall[k] EXCEPT !.pc = "declare"])
    /\ UNCHANGED <<scManifest, scDeclared, scWorld>>

(* The client or the operator goes away at one of the waits; a prefetch is a *)
(* task of its own.                                                          *)
AbandonCall(k) ==
    LET call == scCall[k]
    IN  /\ k \notin ScPrefetches
        /\ \/ call.pc = "wait"
           \/ call.pc = "collect" /\ \E c \in ScRoutes : call.route[c].pc = "asked"
        /\ scGate' = Unlocked(k)
        /\ Call(k, ScNoCall)
        /\ UNCHANGED <<scManifest, scDeclared, scWorld>>

-----------------------------------------------------------------------------
(* Declared efforts.                                                         *)

(* source_reasoning_for_route: a bridge keeps the efforts it can express; if *)
(* none is left the route declares nothing, which is not the same as         *)
(* declaring that there are none.                                            *)
RouteReasoning(c, efforts) ==
    LET kept == SelectSeq(efforts, LAMBDA e : e \in ScMapped)
    IN  IF efforts = <<>> \/ c \notin ScBridged THEN {efforts}
        ELSE IF kept = <<>> THEN {} ELSE {kept}

(* apply_model_implied_efforts *)
Implied(efforts) ==
    IF ScMax \in ToSet(efforts) /\ ScUltra \notin ToSet(efforts)
    THEN Append(efforts, ScUltra) ELSE efforts

(* What a manifest says of a route: {} or {capabilities}, where the          *)
(* capabilities are themselves {} or {efforts}.                              *)
Says(c, v) ==
    IF v = 0 THEN {}
    ELSE {{Implied(r) : r \in RouteReasoning(c, e)} : e \in ScSays[c][v]}

Extend(levels, more) == levels \o SelectSeq(more, LAMBDA e : e \notin ToSet(levels))

(* union_source_reasoning_capabilities, over the routes in order. *)
UnionLevels(caps) ==
    FoldLeft(LAMBDA levels, c : IF caps[c] = {} THEN levels
                                ELSE Extend(levels, CHOOSE e \in caps[c] : TRUE),
             <<>>, SetToSortSeq(DOMAIN caps, <))

(* declared_source_reasoning_levels: the efforts some route declares, first  *)
(* in the order of this call, then as they were, then by name.               *)
MergedLevels(efforts, previous, preferred) ==
    LET supported == UNION {efforts[c] : c \in ScRoutes}
        Known(levels) == SelectSeq(levels, LAMBDA e : e \in supported)
    IN  Extend(Extend(Known(preferred), Known(previous)), SetToSortSeq(supported, <))

(* update_declared_source_reasoning, for the routes that say anything. *)
UpdatedDeclared(declared, caps, preferred) ==
    LET efforts == [c \in ScRoutes |->
                       IF c \in DOMAIN caps THEN UNION {ToSet(e) : e \in caps[c]}
                       ELSE declared.efforts[c]]
    IN  [efforts |-> efforts,
         empty |-> (declared.empty \ DOMAIN caps) \cup {c \in DOMAIN caps : caps[c] = {<<>>}},
         levels |-> MergedLevels(efforts, declared.levels, preferred)]

(* The end of source_model_metadata_with_refresh.  A prefetch still has to   *)
(* move the throttle itself.                                                 *)
DeclareEfforts(k) ==
    LET call == scCall[k]
        saying == {c \in ScRoutes : Says(c, call.route[c].v) # {}}
        caps == [c \in saying |-> CHOOSE s \in Says(c, call.route[c].v) : TRUE]
    IN  /\ call.pc = "declare"
        /\ scDeclared' = UpdatedDeclared(scDeclared, caps, UnionLevels(caps))
        /\ Call(k, IF k \in ScPrefetches THEN [ScNoCall EXCEPT !.pc = "spent"] ELSE ScNoCall)
        /\ UNCHANGED <<scManifest, scGate, scWorld>>

FinishPrefetch(k) ==
    /\ scCall[k].pc = "spent"
    /\ scGate' = [scGate EXCEPT !.before = scWorld.now + ScTtl, !.pending = FALSE]
    /\ Call(k, ScNoCall)
    /\ UNCHANGED <<scManifest, scDeclared, scWorld>>

-----------------------------------------------------------------------------
(* The provider changes its catalog. *)
CatalogChanges ==
    /\ scWorld.version < ScMaxVersion
    /\ scWorld' = [scWorld EXCEPT !.version = @ + 1]
    /\ UNCHANGED <<scManifest, scDeclared, scGate, scCall>>

(* Time passes; a request to a provider is given up after ten seconds, so no *)
(* call lasts as long as a manifest stays fresh.                             *)
ScTick ==
    /\ scWorld.now < ScMaxNow
    /\ \A k \in ScCallers : scCall[k].pc \notin {"idle", "spawned", "spent"}
                               => scWorld.now < scCall[k].now + ScTtl
    /\ scWorld' = [scWorld EXCEPT !.now = @ + 1]
    /\ UNCHANGED <<scManifest, scDeclared, scGate, scCall>>

ScNext ==
    \/ \E k \in ScPrefetches : Prefetch(k) \/ FinishPrefetch(k)
    \/ \E k \in ScPrefetches, routes \in SUBSET ScRoutes : OpenPrefetch(k, routes)
    \/ \E k \in ScCallers, routes \in SUBSET ScRoutes : OpenCall(k, routes)
    \/ \E k \in ScCallers : \/ Decide(k) \/ TakeLock(k) \/ ReleaseLock(k) \/ MoveThrottle(k)
                            \/ AbandonCall(k) \/ DeclareEfforts(k)
    \/ \E k \in ScCallers, c \in ScRoutes :
          ReadCached(k, c) \/ ProviderFails(k, c) \/ ProviderAnswers(k, c) \/ RememberManifest(k, c)
    \/ CatalogChanges \/ ScTick

ScSpec == ScInit /\ [][ScNext]_scVars

-----------------------------------------------------------------------------
(* Discovery of the models of one source (sources/discovery.rs).  A binding  *)
(* is a client protocol, an adapter (native, or the bridge to Messages) and  *)
(* the models assigned to it.                                                *)

Key(b) == <<b.api, b.native>>

Elsewhere(bindings, b) ==
    UNION {x.models : x \in {y \in ToSet(bindings) : y.api = b.api /\ Key(y) # Key(b)}}

(* normalize_source_protocol_bindings: {} when it is refused.  Only a single *)
(* native route without a list stands for all the models of its source.      *)
Normalized(bindings, models) ==
    LET given == IF bindings = <<>> THEN <<[api |-> "responses", native |-> TRUE,
                                            models |-> models]>>
                 ELSE bindings
        filled == [i \in DOMAIN given |->
                      IF given[i].models = {} /\ Len(given) = 1 /\ given[i].native
                      THEN [given[i] EXCEPT !.models = models] ELSE given[i]]
        refused == \/ models # {} /\ \E i \in DOMAIN filled : ~(filled[i].models \subseteq models)
                   \/ \E i, j \in DOMAIN filled :
                         /\ i # j
                         /\ \/ Key(filled[i]) = Key(filled[j])
                            \/ /\ filled[i].api = filled[j].api
                               /\ filled[i].models \cap filled[j].models # {}
    IN  IF refused THEN {} ELSE {filled}

(* automatic_catalog_routes: a single route whose list is empty or the whole *)
(* catalog, or a native one with all that its bridge leaves over.            *)
AutomaticRoutes(configured, bindings, models) ==
    IF \/ configured = <<>>
       \/ /\ Len(configured) = 1
          /\ configured[1].models = {} \/ (models # {} /\ configured[1].models = models)
    THEN {Key(bindings[1])}
    ELSE {Key(b) : b \in {x \in ToSet(bindings) : /\ x.native
                                                  /\ models \ Elsewhere(bindings, x) # {}
                                                  /\ x.models = models \ Elsewhere(bindings, x)}}

SdIdle ==
    [pc |-> "idle", i |-> 0, bindings |-> <<>>, auto |-> {}, base |-> "root", resolved |-> FALSE,
     models |-> {}, found |-> <<>>, price |-> [m \in SdModels |-> {}], conflict |-> {}, said |-> {}]

SdInit == sdRecord \in SdRecords /\ sdRun = SdIdle

(* discover_source_models_and_protocol_bindings, up to the first request. *)
BeginDiscovery ==
    /\ sdRun.pc # "ask"
    /\ \E bindings \in Normalized(sdRecord.bindings, sdRecord.models) :
          sdRun' = [SdIdle EXCEPT !.pc = "ask", !.i = 1, !.bindings = bindings,
                                  !.base = sdRecord.base,
                                  !.auto = AutomaticRoutes(sdRecord.bindings, bindings,
                                                           sdRecord.models)]
    /\ UNCHANGED sdRecord

(* One binding without a catalog: it is left out of the result. *)
BindingFails ==
    /\ sdRun.pc = "ask" /\ sdRun.i <= Len(sdRun.bindings)
    /\ sdRun' = [sdRun EXCEPT !.i = @ + 1]
    /\ UNCHANGED sdRecord

(* The models this route keeps of an answer. *)
KeptModelsShared(run, b, models) ==
    LET listed == UNION {x.models : x \in {y \in ToSet(sdRecord.bindings) : Key(y) = Key(b)}}
    IN  IF Key(b) \in run.auto \/ listed = {} THEN models ELSE models \cap listed

KeptModels(run, b, models) ==
    LET listed == UNION {x.models : x \in {y \in ToSet(sdRecord.bindings) : Key(y) = Key(b)}}
    IN  IF Key(b) \in run.auto THEN models \ Elsewhere(run.bindings, b)
        ELSE IF listed = {} THEN models ELSE models \cap listed

(* The prices of the kept models; two that differ drop each other for good.  *)
PricesForgetConflict(run, kept, price) ==
    [price |-> [m \in SdModels |->
                   IF m \notin kept \/ price[m] = {} THEN run.price[m]
                   ELSE IF run.price[m] = {} THEN price[m]
                   ELSE IF run.price[m] = price[m] THEN price[m] ELSE {}],
     conflict |-> run.conflict]

PricesAfter(run, kept, price) ==
    LET priced == {m \in kept : price[m] # {} /\ m \notin run.conflict}
        clash == {m \in priced : run.price[m] # {} /\ run.price[m] # price[m]}
    IN  [price |-> [m \in SdModels |-> IF m \in clash THEN {}
                                       ELSE IF m \in priced THEN price[m] ELSE run.price[m]],
         conflict |-> run.conflict \cup clash]

(* A catalog for one binding.  It may come from below /v1 when the root has  *)
(* none: from then on the others are asked there too.                        *)
BindingAnswers(answer, below) ==
    LET b == sdRun.bindings[sdRun.i]
        kept == KeptModels(sdRun, b, DOMAIN answer)
        prices == PricesAfter(sdRun, kept, answer)
    IN  /\ sdRun.pc = "ask" /\ sdRun.i <= Len(sdRun.bindings)
        /\ below => /\ sdRun.base = "root" /\ ~sdRun.resolved
                    /\ b.native /\ b.api # "messages"
        /\ sdRun' = [sdRun EXCEPT !.i = @ + 1,
                                  !.base = IF below THEN "v1" ELSE @,
                                  !.resolved = @ \/ below,
                                  !.models = @ \cup kept,
                                  !.found = Append(@, [b EXCEPT !.models = kept]),
                                  !.price = prices.price,
                                  !.conflict = prices.conflict,
                                  !.said = @ \cup {x \in kept \X SdPrices : x[2] \in answer[x[1]]}]
        /\ UNCHANGED sdRecord

(* The bindings of the result: a single automatic one keeps no list. *)
Discovered(run) ==
    IF Len(run.bindings) = 1 /\ Key(run.bindings[1]) \in run.auto
    THEN [i \in DOMAIN run.found |-> [run.found[i] EXCEPT !.models = {}]]
    ELSE run.found

(* No binding answered: the record stays as it is.  Otherwise the server's   *)
(* health probe stores the result as it comes; the commands of operator and  *)
(* user store it if it can be normalised.                                    *)
EndDiscovery(checked) ==
    LET result == [models |-> sdRun.models, bindings |-> Discovered(sdRun), base |-> sdRun.base]
        stored == /\ sdRun.found # <<>>
                  /\ checked => Normalized(result.bindings, result.models) # {}
    IN  /\ sdRun.pc = "ask" /\ sdRun.i > Len(sdRun.bindings)
        /\ sdRecord' = IF stored THEN result ELSE sdRecord
        /\ sdRun' = [sdRun EXCEPT !.pc = IF stored THEN "stored" ELSE "refused"]

SdNext ==
    \/ BeginDiscovery \/ BindingFails
    \/ \E answer \in SdAnswers, below \in BOOLEAN : BindingAnswers(answer, below)
    \/ \E checked \in BOOLEAN : EndDiscovery(checked)

SdSpec == SdInit /\ [][SdNext]_sdVars

-----------------------------------------------------------------------------
ScWaiting == {"open", "wait", "collect", "throttle", "declare"}

ScGateType == [lock : ScCallers \cup {Free}, pending : BOOLEAN, before : Nat]
ScCallType ==
    [pc : ScWaiting \cup {"idle", "spawned", "spent"}, now : Nat, before : Nat, allowed : BOOLEAN,
     required : BOOLEAN, forced : BOOLEAN, route : [ScRoutes -> [pc : RouteStates, v : Nat]],
     known : [ScRoutes -> Nat]]

(* The books have their types. *)
ScTypeOK ==
    /\ scManifest \in [ScRoutes -> [v : Nat, at : Nat]]
    /\ scGate \in ScGateType
    /\ scCall \in [ScCallers -> ScCallType]
    /\ scWorld \in [now : Nat, version : Nat \ {0}, begun : Nat]

(* refresh_lock "serializes generic discovery": no route is asked by two     *)
(* callers at a time, although those with fresh manifests do not take the    *)
(* lock and an explicit refresh may change its mind under it.                *)
Asking(k, c) == scCall[k].route[c].pc \in {"asked", "told"}

OneDiscovery ==
    \A c \in ScRoutes, k, l \in ScCallers : Asking(k, c) /\ Asking(l, c) => k = l

(* prefetch_pending is set exactly while a prefetch runs, and one runs at a  *)
(* time.                                                                     *)
PendingWhilePrefetch ==
    /\ scGate.pending <=> \E k \in ScPrefetches : scCall[k].pc # "idle"
    /\ \A k, l \in ScPrefetches : scCall[k].pc # "idle" /\ scCall[l].pc # "idle" => k = l

(* An answer in hand is never older than the cached manifest it is about to  *)
(* replace, and a call ends with a manifest at least as new as the one that  *)
(* was cached when it began, whatever failed in between                      *)
(* (source_metadata.rs:511-515).                                             *)
NothingForgotten ==
    \A k \in ScCallers, c \in ScRoutes :
        LET route == scCall[k].route[c]
        IN  /\ route.pc = "told" => route.v >= scManifest[c].v
            /\ route.pc = "got" => route.v >= scCall[k].known[c]

(* The cache of the catalogs is safe. *)
CatalogSafe == OneDiscovery /\ PendingWhilePrefetch /\ NothingForgotten

(* Why it is.  Who asks holds the lock: without it a call that may ask has    *)
(* found every manifest fresh, and they stay fresh for it, because no call    *)
(* outlasts ScTtl and so none is dated far behind another.  Versions only     *)
(* grow: what is cached is behind the provider, and what a call began with is *)
(* behind what is cached.                                                     *)
InTime(call) ==
    call.pc \in ScWaiting => call.now <= scWorld.now /\ scWorld.now <= call.now + ScTtl

AsksLocked(call) ==
    /\ call.pc = "wait" => call.required
    /\ \A c \in ScRoutes :
          /\ call.route[c].pc \in {"asked", "told"} => call.pc = "collect" /\ call.required
          /\ call.pc = "collect" /\ ~call.required /\ call.allowed /\ call.route[c].pc = "todo"
             => ~call.forced /\ Fresh(call, c)

VersionsGrow(call) ==
    \A c \in ScRoutes :
        LET route == call.route[c]
        IN  /\ call.known[c] <= scManifest[c].v
            /\ route.pc \in {"asked", "got"} => call.known[c] <= route.v
            /\ route.pc = "told" => /\ scManifest[c].v <= route.v
                                    /\ route.v # 0 /\ route.v <= scWorld.version

Sound(call) == InTime(call) /\ AsksLocked(call) /\ VersionsGrow(call)

LockHeld ==
    \A k \in ScCallers : scGate.lock = k <=> scCall[k].pc = "collect" /\ scCall[k].required

ScInv ==
    /\ ScTypeOK /\ PendingWhilePrefetch /\ LockHeld
    /\ \A c \in ScRoutes : scManifest[c].v <= scWorld.version
    /\ \A k \in ScCallers : Sound(scCall[k])

(* The picker lists every declared effort once and no other, and no route is *)
(* both declared and explicitly without efforts.                             *)
LevelsAreDeclared ==
    /\ ToSet(scDeclared.levels) = UNION {scDeclared.efforts[c] : c \in ScRoutes}
    /\ IsInjective(scDeclared.levels)
    /\ \A c \in scDeclared.empty : scDeclared.efforts[c] = {}

(* A discovery that finds every route with a list of its own, or one native  *)
(* route, leaves bindings that can be built and that serve the models of the *)
(* source between them: the catalogs stay apart, and the remainder a native  *)
(* route takes never reaches into what is assigned to its bridge.            *)
RoutesStayApart ==
    /\ sdRun.pc = "stored"
    /\ IF Len(sdRun.bindings) = 1 THEN sdRun.bindings[1].native
       ELSE \A b \in ToSet(sdRun.bindings) : b.models # {}
    => \E bindings \in Normalized(sdRecord.bindings, sdRecord.models) :
              UNION {b.models : b \in ToSet(bindings)} = sdRecord.models

(* A price is reported exactly when the catalogs that name one agree, however *)
(* many of them there are and in whatever order they answer.                 *)
PricesAgree ==
    \A m \in SdModels :
        LET named == {p \in SdPrices : <<m, p>> \in sdRun.said}
        IN  sdRun.price[m] = IF Cardinality(named) = 1 THEN named ELSE {}


-----------------------------------------------------------------------------
(* Proof that the cache is safe, for any routes, callers and versions.       *)

(* What a handler makes of a call's record is a call's record. *)
LEMMA ScRecords ==
    ASSUME NEW call \in ScCallType
    PROVE  /\ \A pc \in ScWaiting \cup {"idle", "spawned", "spent"} :
                 [call EXCEPT !.pc = pc] \in ScCallType
           /\ \A before \in Nat, allowed, required \in BOOLEAN, pc \in ScWaiting :
                 [call EXCEPT !.before = before, !.allowed = allowed, !.required = required,
                              !.pc = pc] \in ScCallType
           /\ \A allowed, forced \in BOOLEAN, pc \in ScWaiting :
                 [call EXCEPT !.pc = pc, !.allowed = allowed, !.forced = forced] \in ScCallType
           /\ \A pc \in ScWaiting, now \in Nat, forced \in BOOLEAN, known \in [ScRoutes -> Nat],
                 route \in [ScRoutes -> [pc : RouteStates, v : Nat]] :
                 [call EXCEPT !.pc = pc, !.now = now, !.forced = forced, !.route = route,
                              !.known = known] \in ScCallType
           /\ \A c \in ScRoutes, st \in RouteStates, v \in Nat :
                 [call EXCEPT !.route[c] = [pc |-> st, v |-> v]] \in ScCallType
<1>1. ASSUME NEW pc \in ScWaiting \cup {"idle", "spawned", "spent"}
      PROVE  [call EXCEPT !.pc = pc] \in ScCallType
  BY DEF ScCallType
<1>2. ASSUME NEW before \in Nat, NEW allowed \in BOOLEAN, NEW required \in BOOLEAN, NEW pc \in ScWaiting
      PROVE  [call EXCEPT !.before = before, !.allowed = allowed, !.required = required,
                          !.pc = pc] \in ScCallType
  BY DEF ScCallType
<1>3. ASSUME NEW allowed \in BOOLEAN, NEW forced \in BOOLEAN, NEW pc \in ScWaiting
      PROVE  [call EXCEPT !.pc = pc, !.allowed = allowed, !.forced = forced] \in ScCallType
  BY DEF ScCallType
<1>4. ASSUME NEW c \in ScRoutes, NEW st \in RouteStates, NEW v \in Nat
      PROVE  [call EXCEPT !.route[c] = [pc |-> st, v |-> v]] \in ScCallType
  <2>1. call.route \in [ScRoutes -> [pc : RouteStates, v : Nat]]
    BY DEF ScCallType
  <2>2. [call.route EXCEPT ![c] = [pc |-> st, v |-> v]] \in [ScRoutes -> [pc : RouteStates, v : Nat]]
    BY <2>1
  <2> QED
    BY <2>2 DEF ScCallType
<1>5. ASSUME NEW pc \in ScWaiting, NEW now \in Nat, NEW forced \in BOOLEAN,
             NEW known \in [ScRoutes -> Nat], NEW route \in [ScRoutes -> [pc : RouteStates, v : Nat]]
      PROVE  [call EXCEPT !.pc = pc, !.now = now, !.forced = forced, !.route = route,
                          !.known = known] \in ScCallType
  BY DEF ScCallType
<1> QED
  BY <1>1, <1>2, <1>3, <1>4, <1>5

(* The fields of a call's record, and a call that begins. *)
LEMMA ScFields ==
    ASSUME ScTypeOK, NEW k \in ScCallers
    PROVE  /\ scCall[k] \in ScCallType
           /\ scCall[k].now \in Nat /\ scCall[k].before \in Nat
           /\ scCall[k].allowed \in BOOLEAN /\ scCall[k].required \in BOOLEAN
           /\ scCall[k].forced \in BOOLEAN
           /\ \A c \in ScRoutes : /\ scCall[k].route[c].pc \in RouteStates
                                  /\ scCall[k].route[c].v \in Nat /\ scCall[k].known[c] \in Nat
                                  /\ scManifest[c].v \in Nat /\ scManifest[c].at \in Nat
           /\ ScNoCall \in ScCallType
           /\ \A routes \in SUBSET ScRoutes : Opened(k, routes) \in ScCallType
<1>1. scCall[k] \in ScCallType /\ scManifest \in [ScRoutes -> [v : Nat, at : Nat]] /\ scWorld.now \in Nat
  BY DEF ScTypeOK
<1>2. ScNoCall \in ScCallType
  BY DEF ScNoCall, ScCallType, RouteStates
<1>3. ASSUME NEW routes \in SUBSET ScRoutes PROVE Opened(k, routes) \in ScCallType
  <2>1. [c \in ScRoutes |-> [pc |-> IF c \in routes THEN "todo" ELSE "off", v |-> 0]]
           \in [ScRoutes -> [pc : RouteStates, v : Nat]]
    BY DEF RouteStates
  <2>2. [c \in ScRoutes |-> scManifest[c].v] \in [ScRoutes -> Nat]
    BY <1>1
  <2>3. (k \in ScForced) \in BOOLEAN /\ "open" \in ScWaiting
    BY DEF ScWaiting
  <2> QED
    BY <1>1, <1>2, <2>1, <2>2, <2>3, ScRecords DEF Opened
<1> QED
  BY <1>1, <1>2, <1>3 DEF ScCallType

(* Who does not collect asks nothing. *)
LEMMA ScResting ==
    ASSUME ScTypeOK, NEW pc \in {"idle", "spawned", "spent"}
    PROVE  Sound([ScNoCall EXCEPT !.pc = pc]) /\ Sound(ScNoCall)
<1>1. \A c \in ScRoutes : 0 <= scManifest[c].v
  BY DEF ScTypeOK
<1> QED
  BY <1>1 DEF Sound, InTime, AsksLocked, VersionsGrow, ScNoCall, ScWaiting

(* What the invariant says is enough (source_metadata.rs:401-525). *)
LEMMA ScInvIsSafe == ScInv => ScTypeOK /\ CatalogSafe
<1> SUFFICES ASSUME ScInv PROVE OneDiscovery /\ NothingForgotten
  BY DEF ScInv, CatalogSafe
<1>1. ASSUME NEW c \in ScRoutes, NEW k \in ScCallers, NEW l \in ScCallers,
             Asking(k, c), Asking(l, c)
      PROVE  k = l
  BY <1>1 DEF ScInv, Sound, AsksLocked, LockHeld, Asking
<1>2. ASSUME NEW k \in ScCallers, NEW c \in ScRoutes
      PROVE  /\ scCall[k].route[c].pc = "told" => scCall[k].route[c].v >= scManifest[c].v
             /\ scCall[k].route[c].pc = "got" => scCall[k].route[c].v >= scCall[k].known[c]
  BY ScFields DEF ScInv, Sound, VersionsGrow
<1> QED
  BY <1>1, <1>2 DEF OneDiscovery, NothingForgotten

(* Nobody calls before the first call (runtime.rs). *)
LEMMA ScInitInv == ScInit => ScInv
<1> SUFFICES ASSUME ScInit PROVE ScInv
  OBVIOUS
<1> USE DEF ScInit, NoManifest
<1>1. ScTypeOK
  BY DEF ScTypeOK, ScGateType, ScCallType, RouteStates, ScWaiting, Free, ScNoCall
<1>2. \A k \in ScCallers : Sound(scCall[k])
  BY ScResting, <1>1
<1>3. LockHeld
  BY ScAssumption DEF LockHeld, Free, ScCallers, ScNoCall
<1>4. PendingWhilePrefetch
  BY DEF PendingWhilePrefetch, ScCallers, ScNoCall
<1> QED
  BY <1>1, <1>2, <1>3, <1>4 DEF ScInv

(* Every handler leaves records of their types behind. *)
LEMMA ScTypeStep == ASSUME ScTypeOK, [ScNext]_scVars PROVE ScTypeOK'
<1> USE DEF Call
<1>0. ScTtl \in Nat /\ scWorld.now \in Nat /\ scWorld.version \in Nat \ {0} /\ scGate.before \in Nat
  BY ScAssumption DEF ScTypeOK, ScGateType
<1>1. ASSUME NEW k \in ScCallers, NEW call \in ScCallType, scCall' = [scCall EXCEPT ![k] = call]
      PROVE  scCall' \in [ScCallers -> ScCallType]
  BY <1>1 DEF ScTypeOK
<1>2. ASSUME NEW k \in ScPrefetches, Prefetch(k) \/ FinishPrefetch(k) PROVE ScTypeOK'
  <2>1. k \in ScCallers /\ [ScNoCall EXCEPT !.pc = "spawned"] \in ScCallType /\ ScNoCall \in ScCallType
    BY ScFields, ScRecords DEF ScCallers
  <2>2. scCall' \in [ScCallers -> ScCallType]
    BY <1>1, <1>2, <2>1 DEF Prefetch, FinishPrefetch
  <2>3. scGate \in ScGateType
    BY DEF ScTypeOK
  <2>4. [scGate EXCEPT !.pending = TRUE] \in ScGateType
    BY <2>3 DEF ScGateType
  <2>5. [scGate EXCEPT !.before = scWorld.now + ScTtl, !.pending = FALSE] \in ScGateType
    <3> DEFINE before == scWorld.now + ScTtl
    <3>1. before \in Nat
      BY <1>0
    <3> HIDE DEF before
    <3>2. [scGate EXCEPT !.before = before] \in ScGateType
      BY <2>3, <3>1 DEF ScGateType
    <3>3. [scGate EXCEPT !.before = before, !.pending = FALSE] \in ScGateType
      BY <3>2 DEF ScGateType
    <3> QED
      BY <3>3 DEF before
  <2>6. scGate' \in ScGateType
    BY <1>2, <2>4, <2>5 DEF Prefetch, FinishPrefetch
  <2>7. scWorld' \in [now : Nat, version : Nat \ {0}, begun : Nat]
    BY <1>2 DEF ScTypeOK, Prefetch, FinishPrefetch, Begun
  <2> QED
    BY <1>2, <2>2, <2>6, <2>7 DEF ScTypeOK, Prefetch, FinishPrefetch
<1>3. ASSUME NEW k \in ScCallers, NEW routes \in SUBSET ScRoutes,
             OpenPrefetch(k, routes) \/ OpenCall(k, routes)
      PROVE  ScTypeOK'
  <2>1. scCall' \in [ScCallers -> ScCallType]
    BY <1>1, <1>3, ScFields DEF OpenPrefetch, OpenCall
  <2> QED
    BY <1>3, <2>1 DEF ScTypeOK, OpenPrefetch, OpenCall, Begun
<1>4. ASSUME NEW k \in ScCallers, Decide(k) PROVE ScTypeOK'
  <2> DEFINE call == scCall[k]
             allowed == call.forced \/ call.now >= scGate.before
             required == /\ allowed
                         /\ \E c \in ScRoutes : /\ call.route[c].pc = "todo"
                                                /\ call.forced \/ ~Fresh(call, c)
             pc == IF required THEN "wait" ELSE "collect"
             new == [call EXCEPT !.before = scGate.before, !.allowed = allowed,
                                 !.required = required, !.pc = pc]
  <2>1. scCall' \in [ScCallers -> ScCallType]
    <3>1. call \in ScCallType /\ allowed \in BOOLEAN /\ required \in BOOLEAN /\ pc \in ScWaiting
      BY ScFields DEF ScWaiting
    <3>2. new \in ScCallType
      <4> HIDE DEF call, allowed, required, pc
      <4> QED BY <1>0, <3>1, ScRecords
    <3>3. scCall' = [scCall EXCEPT ![k] = new]
      BY <1>4 DEF Decide
    <3> HIDE DEF new
    <3> QED BY <1>1, <3>2, <3>3
  <2> QED
    BY <1>4, <2>1 DEF ScTypeOK, Decide
<1>5. ASSUME NEW k \in ScCallers, TakeLock(k) PROVE ScTypeOK'
  <2> DEFINE call == scCall[k]
             moved == call.forced /\ scGate.before # call.before
             allowed == IF moved THEN call.now >= scGate.before ELSE call.allowed
             forced == call.forced /\ ~moved
             new == [call EXCEPT !.pc = "collect", !.allowed = allowed, !.forced = forced]
  <2>1. scCall' \in [ScCallers -> ScCallType]
    <3>1. call \in ScCallType /\ allowed \in BOOLEAN /\ forced \in BOOLEAN /\ "collect" \in ScWaiting
      <4>1. call \in ScCallType /\ call.allowed \in BOOLEAN /\ "collect" \in ScWaiting
        BY ScFields DEF ScWaiting
      <4>2. (call.now >= scGate.before) \in BOOLEAN
        BY ScFields, <1>0
      <4>3. allowed \in BOOLEAN
        BY <4>1, <4>2, Zenon
      <4>4. forced \in BOOLEAN
        BY Zenon
      <4> QED BY <4>1, <4>3, <4>4
    <3>2. new \in ScCallType
      <4> HIDE DEF call, allowed, forced
      <4> QED BY <3>1, ScRecords
    <3>3. scCall' = [scCall EXCEPT ![k] = new]
      BY <1>5 DEF TakeLock
    <3> HIDE DEF new
    <3> QED BY <1>1, <3>2, <3>3
  <2> QED
    BY <1>5, <2>1 DEF ScTypeOK, ScGateType, TakeLock
<1>6. ASSUME NEW k \in ScCallers, ReleaseLock(k) \/ MoveThrottle(k) PROVE ScTypeOK'
  <2>1. scCall' \in [ScCallers -> ScCallType]
    BY <1>1, <1>6, ScFields, ScRecords DEF ReleaseLock, MoveThrottle, ScWaiting
  <2> QED
    BY <1>0, <1>6, <2>1, ScFields DEF ScTypeOK, ScGateType, ReleaseLock, MoveThrottle, Unlocked
<1>7. ASSUME NEW k \in ScCallers, AbandonCall(k) \/ DeclareEfforts(k) PROVE ScTypeOK'
  <2>1. scCall' \in [ScCallers -> ScCallType]
    BY <1>1, <1>7, ScFields, ScRecords DEF AbandonCall, DeclareEfforts
  <2> QED
    BY <1>7, <2>1 DEF ScTypeOK, ScGateType, AbandonCall, DeclareEfforts, Unlocked
<1>8. ASSUME NEW k \in ScCallers, NEW c \in ScRoutes,
             ReadCached(k, c) \/ ProviderFails(k, c) \/ ProviderAnswers(k, c) \/ RememberManifest(k, c)
      PROVE  ScTypeOK'
  <2>1. scCall' \in [ScCallers -> ScCallType]
    BY <1>0, <1>1, <1>8, ScFields, ScRecords
    DEF ReadCached, ProviderFails, ProviderAnswers, RememberManifest, RouteDone, RouteStates
  <2>2. scManifest' \in [ScRoutes -> [v : Nat, at : Nat]]
    <3>1. scManifest \in [ScRoutes -> [v : Nat, at : Nat]]
      BY DEF ScTypeOK
    <3>2. [v |-> scCall[k].route[c].v, at |-> scCall[k].now] \in [v : Nat, at : Nat]
      BY ScFields
    <3> QED
      BY <1>8, <3>1, <3>2 DEF ReadCached, ProviderFails, ProviderAnswers, RememberManifest
  <2> QED
    BY <1>8, <2>1, <2>2 DEF ScTypeOK, ReadCached, ProviderFails, ProviderAnswers, RememberManifest
<1>9. CASE CatalogChanges \/ ScTick \/ UNCHANGED scVars
  BY <1>9 DEF ScTypeOK, CatalogChanges, ScTick, scVars
<1> QED
  BY <1>2, <1>3, <1>4, <1>5, <1>6, <1>7, <1>8, <1>9 DEF ScNext, ScCallers


(* A step of one call that leaves the cache alone: what the others know      *)
(* stays true, so it is enough to look at that call and at the lock.         *)
LEMMA OneCallMoves ==
    ASSUME ScInv, ScTypeOK', NEW k \in ScCallers, NEW call \in ScCallType, Call(k, call), Sound(call),
           scManifest' = scManifest,
           scWorld'.now = scWorld.now, scWorld'.version = scWorld.version,
           scGate'.lock = k <=> call.pc = "collect" /\ call.required,
           \A l \in ScCallers \ {k} : scGate'.lock = l <=> scGate.lock = l,
           PendingWhilePrefetch'
    PROVE  ScInv'
<1>1. scCall' = [scCall EXCEPT ![k] = call] /\ scCall \in [ScCallers -> ScCallType]
  BY DEF Call, ScInv, ScTypeOK
<1>2. scWorld.version \in Nat
  BY DEF ScInv, ScTypeOK
<1>3. ASSUME NEW l \in ScCallers PROVE Sound(scCall[l])'
  <2>1. scCall'[l] \in ScCallType /\ Sound(scCall'[l])
    BY <1>1 DEF ScInv
  <2> DEFINE mine == scCall'[l]
  <2>2. mine \in ScCallType /\ InTime(mine) /\ AsksLocked(mine) /\ VersionsGrow(mine)
    BY <2>1 DEF Sound
  <2> QED
    BY <2>2 DEF Sound, InTime, AsksLocked, VersionsGrow, Fresh
<1>4. LockHeld'
  BY <1>1 DEF LockHeld, ScInv
<1>5. \A c \in ScRoutes : scManifest'[c].v <= scWorld'.version
  BY DEF ScInv
<1> QED
  BY <1>3, <1>4, <1>5 DEF ScInv

(* The prefetch flag: a step of a call that neither begins nor ends a        *)
(* prefetch leaves it right (source_metadata.rs:66-107).                     *)
LEMMA PendingStays ==
    ASSUME PendingWhilePrefetch, ScTypeOK, NEW k \in ScCallers, NEW call, Call(k, call),
           k \in ScPrefetches => (call.pc = "idle" <=> scCall[k].pc = "idle"),
           scGate'.pending = scGate.pending
    PROVE  PendingWhilePrefetch'
<1>1. scCall' = [scCall EXCEPT ![k] = call] /\ scCall \in [ScCallers -> ScCallType]
  BY DEF Call, ScTypeOK
<1>2. \A l \in ScPrefetches : scCall'[l].pc = "idle" <=> scCall[l].pc = "idle"
  BY <1>1 DEF ScCallers
<1> QED
  BY <1>2 DEF PendingWhilePrefetch

(* Beginning and ending (source_metadata.rs:66-140, 353-399). *)
LEMMA ScCallsBegin ==
    ASSUME ScInv, ScTypeOK', NEW k \in ScCallers, NEW routes \in SUBSET ScRoutes,
           \/ k \in ScPrefetches /\ (Prefetch(k) \/ OpenPrefetch(k, routes))
           \/ OpenCall(k, routes)
    PROVE  ScInv'
<1>0. ScTypeOK /\ PendingWhilePrefetch /\ LockHeld /\ scWorld.now \in Nat /\ ScTtl \in Nat
      /\ scManifest \in [ScRoutes -> [v : Nat, at : Nat]]
      /\ scCall \in [ScCallers -> ScCallType] /\ scGate \in ScGateType
  BY ScAssumption DEF ScInv, ScTypeOK
<1>1. CASE k \in ScPrefetches /\ Prefetch(k)
  <2> DEFINE call == [ScNoCall EXCEPT !.pc = "spawned"]
  <2>1. call \in ScCallType /\ Sound(call) /\ call.pc = "spawned" /\ call.required = FALSE
    BY <1>0, ScFields, ScRecords, ScResting DEF ScNoCall
  <2>2. scGate'.lock = scGate.lock /\ scGate'.pending = TRUE
    BY <1>0, <1>1 DEF Prefetch, ScGateType
  <2>3. scCall' = [scCall EXCEPT ![k] = call] /\ scCall[k].pc = "idle" /\ ~scGate.pending
    BY <1>1 DEF Prefetch, Call
  <2> HIDE DEF call
  <2>4. PendingWhilePrefetch'
    BY <1>0, <1>1, <2>1, <2>2, <2>3 DEF PendingWhilePrefetch, ScCallers
  <2>5. scGate.lock # k
    BY <1>0, <2>3 DEF LockHeld
  <2> QED
    BY <1>1, <2>1, <2>2, <2>3, <2>4, <2>5, OneCallMoves DEF Prefetch, Begun, Call, ScInv, ScTypeOK
<1>2. CASE (k \in ScPrefetches /\ OpenPrefetch(k, routes)) \/ OpenCall(k, routes)
  <2> DEFINE call == Opened(k, routes)
  <2>1. call \in ScCallType /\ Call(k, call)
    BY <1>0, <1>2, ScFields DEF OpenPrefetch, OpenCall
  <2>2. call.pc = "open" /\ call.required = FALSE /\ call.now = scWorld.now
        /\ \A c \in ScRoutes : /\ call.route[c].pc \in {"todo", "off"}
                               /\ call.known[c] = scManifest[c].v
    BY DEF Opened, ScNoCall
  <2>3. scCall[k].pc \in {"idle", "spawned"} /\ (k \in ScPrefetches => scCall[k].pc # "idle")
        /\ scGate' = scGate /\ scManifest' = scManifest
        /\ scWorld'.now = scWorld.now /\ scWorld'.version = scWorld.version
    BY <1>2 DEF OpenPrefetch, OpenCall, Begun, ScInv, ScTypeOK
  <2> HIDE DEF call
  <2>4. Sound(call)
    BY <1>0, <2>2 DEF Sound, InTime, AsksLocked, VersionsGrow
  <2>5. PendingWhilePrefetch'
    BY <1>0, <2>1, <2>2, <2>3, PendingStays
  <2>6. scGate.lock # k
    BY <1>0, <2>3 DEF LockHeld
  <2> QED
    BY <2>1, <2>2, <2>3, <2>4, <2>5, <2>6, OneCallMoves
<1> QED
  BY <1>1, <1>2

(* Deciding and taking the lock: a call that goes on without it has found    *)
(* every manifest fresh (source_metadata.rs:401-447).                        *)
LEMMA ScCallsDecide ==
    ASSUME ScInv, ScTypeOK', NEW k \in ScCallers, Decide(k) \/ TakeLock(k)
    PROVE  ScInv'
<1>0. ScTypeOK /\ PendingWhilePrefetch /\ LockHeld /\ Sound(scCall[k]) /\ scCall[k] \in ScCallType
      /\ scCall[k].required \in BOOLEAN /\ scCall[k].forced \in BOOLEAN
      /\ scCall \in [ScCallers -> ScCallType] /\ scGate \in ScGateType /\ "free" \notin ScCallers
  BY ScAssumption, ScFields DEF ScInv, ScTypeOK, ScCallers
<1> DEFINE new == scCall'[k]
<1>1. Call(k, new) /\ new \in ScCallType /\ scManifest' = scManifest /\ scWorld' = scWorld
  BY <1>0 DEF Decide, TakeLock, Call, ScTypeOK
<1>2. new.route = scCall[k].route /\ new.known = scCall[k].known /\ new.now = scCall[k].now
      /\ new.pc \in {"wait", "collect"} /\ scCall[k].pc \in {"open", "wait"}
  <2>1. CASE Decide(k)
    BY <1>0, <2>1 DEF Decide, Call, ScCallType
  <2>2. CASE TakeLock(k)
    BY <1>0, <2>2 DEF TakeLock, Call, ScCallType
  <2> QED BY <2>1, <2>2
<1>3. InTime(new) /\ VersionsGrow(new)
  BY <1>0, <1>2 DEF Sound, InTime, VersionsGrow, ScWaiting
<1>4. \A c \in ScRoutes : scCall[k].route[c].pc \notin {"asked", "told"}
  BY <1>0, <1>2 DEF Sound, AsksLocked
<1>5. scGate.lock # k
  BY <1>0, <1>2 DEF LockHeld
<1>6. CASE Decide(k)
  <2> DEFINE call == scCall[k]
             allowed == call.forced \/ call.now >= scGate.before
             required == /\ allowed
                         /\ \E c \in ScRoutes : /\ call.route[c].pc = "todo"
                                                /\ call.forced \/ ~Fresh(call, c)
  <2>1. new = [call EXCEPT !.before = scGate.before, !.allowed = allowed, !.required = required,
                           !.pc = IF required THEN "wait" ELSE "collect"]
    BY <1>0, <1>6 DEF Decide, Call
  <2>2. new.allowed = allowed /\ new.required = required /\ new.forced = call.forced
        /\ new.pc = IF required THEN "wait" ELSE "collect"
    BY <1>0, <2>1 DEF ScCallType
  <2>3. \A c \in ScRoutes : Fresh(new, c) <=> Fresh(call, c)
    BY <1>2 DEF Fresh
  <2>4. ASSUME NEW c \in ScRoutes, new.pc = "collect", ~new.required, new.allowed,
               new.route[c].pc = "todo"
        PROVE  ~new.forced /\ Fresh(new, c)
    <3>1. ~required /\ allowed /\ call.route[c].pc = "todo"
      BY <1>2, <2>2, <2>4
    <3> QED BY <2>2, <2>3, <3>1
  <2>5. AsksLocked(new)
    <3> HIDE DEF new
    <3> QED BY <1>2, <1>4, <2>2, <2>4 DEF AsksLocked
  <2>6. ~(new.pc = "collect" /\ new.required) /\ scGate' = scGate
    BY <1>6, <2>2 DEF Decide
  <2> HIDE DEF new
  <2>7. PendingWhilePrefetch'
    BY <1>0, <1>1, <1>2, <2>6, PendingStays
  <2> QED
    BY <1>1, <1>3, <1>5, <2>5, <2>6, <2>7, OneCallMoves DEF Sound
<1>7. CASE TakeLock(k)
  <2>1. scCall[k].required
    BY <1>0, <1>7 DEF Sound, AsksLocked, TakeLock
  <2>2. new.required = scCall[k].required /\ new.pc = "collect"
    BY <1>0, <1>7 DEF TakeLock, Call, ScCallType
  <2>3. scGate'.lock = k /\ scGate.lock = "free" /\ scGate'.pending = scGate.pending
    BY <1>0, <1>7 DEF TakeLock, ScGateType, Free
  <2> HIDE DEF new
  <2>4. AsksLocked(new)
    BY <1>2, <1>4, <2>1, <2>2 DEF AsksLocked
  <2>5. PendingWhilePrefetch'
    BY <1>0, <1>1, <1>2, <2>3, PendingStays
  <2> QED
    BY <1>0, <1>1, <1>3, <2>1, <2>2, <2>3, <2>4, <2>5, OneCallMoves DEF Sound
<1> QED
  BY <1>6, <1>7

(* One route of a call: only the holder of the lock asks, and what it is      *)
(* told or falls back on is not behind what it began with                    *)
(* (source_metadata.rs:462-525).                                             *)
LEMMA ScRouteMoves ==
    ASSUME ScInv, ScTypeOK', NEW k \in ScCallers, NEW c \in ScRoutes,
           ReadCached(k, c) \/ ProviderFails(k, c) \/ ProviderAnswers(k, c)
    PROVE  ScInv'
<1>0. ScTypeOK /\ PendingWhilePrefetch /\ LockHeld /\ Sound(scCall[k]) /\ scCall[k] \in ScCallType
      /\ scCall \in [ScCallers -> ScCallType] /\ scWorld.version \in Nat \ {0}
      /\ \A d \in ScRoutes : scManifest[d].v <= scWorld.version
  BY ScFields DEF ScInv, ScTypeOK
<1>1. \A d \in ScRoutes : /\ scManifest[d].v \in Nat /\ scCall[k].known[d] \in Nat
                          /\ scCall[k].route[d].v \in Nat
  BY <1>0, ScFields
<1> DEFINE call == scCall[k]
           new == scCall'[k]
           route == new.route[c]
<1>2. Call(k, new) /\ new \in ScCallType /\ scManifest' = scManifest /\ scWorld' = scWorld
      /\ scGate' = scGate
  BY <1>0 DEF ReadCached, ProviderFails, ProviderAnswers, RouteDone, Call, ScTypeOK
<1>3. new.pc = call.pc /\ new.known = call.known /\ new.now = call.now
      /\ new.required = call.required /\ new.allowed = call.allowed /\ new.forced = call.forced
      /\ \A d \in ScRoutes \ {c} : new.route[d] = call.route[d]
  BY <1>0 DEF ReadCached, ProviderFails, ProviderAnswers, RouteDone, Call, ScCallType
<1>4. call.pc = "collect"
  BY <1>0 DEF Sound, AsksLocked, ReadCached, ProviderFails, ProviderAnswers
<1>5. /\ route.pc \in {"asked", "told", "got"}
      /\ route.pc \in {"asked", "told"} => call.required
      /\ route.pc \in {"asked", "got"} => call.known[c] <= route.v
      /\ route.pc = "told" => route.v = scWorld.version
  <2>1. CASE ReadCached(k, c)
    <3>1. route = [pc |-> IF ~call.allowed \/ (~call.forced /\ Fresh(call, c)) THEN "got" ELSE "asked",
                   v |-> scManifest[c].v]
      BY <1>0, <2>1 DEF ReadCached, RouteDone, Call, ScCallType
    <3>2. call.known[c] <= scManifest[c].v
      BY <1>0 DEF Sound, VersionsGrow
    <3>3. route.pc = "asked" => call.required
      <4>1. call.route[c].pc = "todo"
        BY <2>1 DEF ReadCached
      <4> QED BY <1>0, <1>4, <3>1, <4>1 DEF Sound, AsksLocked
    <3> QED BY <3>1, <3>2, <3>3
  <2>2. CASE ProviderFails(k, c)
    <3>1. route = [pc |-> "got", v |-> call.route[c].v] /\ call.route[c].pc = "asked"
      BY <1>0, <2>2 DEF ProviderFails, RouteDone, Call, ScCallType
    <3> QED BY <1>0, <3>1 DEF Sound, VersionsGrow
  <2>3. CASE ProviderAnswers(k, c)
    <3>1. route = [pc |-> "told", v |-> scWorld.version] /\ call.route[c].pc = "asked"
      BY <1>0, <2>3 DEF ProviderAnswers, RouteDone, Call, ScCallType
    <3> QED BY <1>0, <3>1 DEF Sound, AsksLocked
  <2> QED BY <2>1, <2>2, <2>3
<1>6. \A d \in ScRoutes : Fresh(new, d) <=> Fresh(call, d)
  BY <1>3 DEF Fresh
<1> HIDE DEF new
<1>7. InTime(new)
  BY <1>0, <1>3 DEF Sound, InTime
<1>8. AsksLocked(new)
  BY <1>0, <1>3, <1>4, <1>5, <1>6 DEF Sound, AsksLocked
<1>9. VersionsGrow(new)
  <2> SUFFICES ASSUME NEW d \in ScRoutes
               PROVE  /\ new.known[d] <= scManifest[d].v
                      /\ new.route[d].pc \in {"asked", "got"} => new.known[d] <= new.route[d].v
                      /\ new.route[d].pc = "told" =>
                            /\ scManifest[d].v <= new.route[d].v
                            /\ new.route[d].v # 0 /\ new.route[d].v <= scWorld.version
    BY DEF VersionsGrow
  <2>1. CASE d = c
    BY <1>0, <1>3, <1>5, <2>1 DEF Sound, VersionsGrow
  <2>2. CASE d # c
    BY <1>0, <1>3, <2>2 DEF Sound, VersionsGrow
  <2> QED BY <2>1, <2>2
<1>10. PendingWhilePrefetch'
  BY <1>0, <1>2, <1>3, PendingStays
<1> QED
  BY <1>0, <1>2, <1>3, <1>7, <1>8, <1>9, <1>10, OneCallMoves DEF Sound, LockHeld

(* A new manifest: nobody else has an answer in hand for its route, and for   *)
(* every call under way it is fresh (source_metadata.rs:507-548).            *)
LEMMA ScRemembers ==
    ASSUME ScInv, ScTypeOK', NEW k \in ScCallers, NEW c \in ScRoutes, RememberManifest(k, c)
    PROVE  ScInv'
<1>0. ScTypeOK /\ PendingWhilePrefetch /\ LockHeld /\ scCall \in [ScCallers -> ScCallType]
      /\ scManifest \in [ScRoutes -> [v : Nat, at : Nat]] /\ ScTtl \in Nat /\ scWorld.now \in Nat
      /\ scWorld.version \in Nat /\ \A l \in ScCallers : Sound(scCall[l])
      /\ \A d \in ScRoutes : scManifest[d].v <= scWorld.version
  BY ScAssumption DEF ScInv, ScTypeOK
<1>1. \A l \in ScCallers : /\ scCall[l].now \in Nat
                           /\ \A d \in ScRoutes : /\ scCall[l].known[d] \in Nat
                                                  /\ scCall[l].route[d].v \in Nat
  BY <1>0, ScFields
<1> DEFINE answer == scCall[k].route[c].v
           new == scCall'[k]
<1>2. scCall[k].route[c].pc = "told" /\ scWorld' = scWorld /\ scGate' = scGate
  BY DEF RememberManifest
<1>3. /\ scManifest[c].v <= answer /\ answer # 0 /\ answer <= scWorld.version
      /\ scCall[k].known[c] <= answer
      /\ scCall[k].pc = "collect" /\ scCall[k].required
      /\ scWorld.now <= scCall[k].now + ScTtl
  BY <1>0, <1>1, <1>2, SMTT(30) DEF Sound, VersionsGrow, AsksLocked, InTime, ScWaiting
<1>4. scManifest' = [scManifest EXCEPT ![c] = [v |-> answer, at |-> scCall[k].now]]
  BY DEF RememberManifest
<1>5. /\ scManifest'[c].v = answer /\ scManifest'[c].at = scCall[k].now
      /\ \A d \in ScRoutes \ {c} : scManifest'[d] = scManifest[d]
      /\ \A d \in ScRoutes : scManifest[d].v <= scManifest'[d].v /\ scManifest'[d].v <= scWorld.version
      /\ \A d \in ScRoutes : scManifest'[d].v \in Nat
  BY <1>0, <1>1, <1>3, <1>4, SMTT(30)
<1>6. /\ new.pc = scCall[k].pc /\ new.known = scCall[k].known /\ new.now = scCall[k].now
      /\ new.required = scCall[k].required /\ new.allowed = scCall[k].allowed
      /\ new.forced = scCall[k].forced /\ new.route[c] = [pc |-> "got", v |-> answer]
      /\ \A d \in ScRoutes \ {c} : new.route[d] = scCall[k].route[d]
      /\ \A l \in ScCallers \ {k} : scCall'[l] = scCall[l]
  BY <1>0 DEF RememberManifest, RouteDone, Call, ScCallType
<1>7. ASSUME NEW l \in ScCallers, l # k PROVE scCall[l].route[c].pc # "told"
  BY <1>0, <1>3, <1>7 DEF Sound, AsksLocked, LockHeld
<1> HIDE DEF answer, new
<1>8. ASSUME NEW l \in ScCallers PROVE InTime(scCall[l])'
  BY <1>0, <1>2, <1>6 DEF Sound, InTime, new
<1>9. ASSUME NEW l \in ScCallers PROVE VersionsGrow(scCall[l])'
  <2> SUFFICES ASSUME NEW d \in ScRoutes
               PROVE  /\ scCall'[l].known[d] <= scManifest'[d].v
                      /\ scCall'[l].route[d].pc \in {"asked", "got"} =>
                            scCall'[l].known[d] <= scCall'[l].route[d].v
                      /\ scCall'[l].route[d].pc = "told" =>
                            /\ scManifest'[d].v <= scCall'[l].route[d].v
                            /\ scCall'[l].route[d].v # 0
                            /\ scCall'[l].route[d].v <= scWorld'.version
    BY DEF VersionsGrow
  <2>1. VersionsGrow(scCall[l])
    BY <1>0 DEF Sound
  <2>2. scCall'[l].known[d] = scCall[l].known[d]
    BY <1>6 DEF new
  <2>3. scCall'[l].known[d] <= scManifest'[d].v
    <3>1. scCall[l].known[d] <= scManifest[d].v
      BY <2>1 DEF VersionsGrow
    <3>2. scManifest[d].v <= scManifest'[d].v
      BY <1>5
    <3>3. scCall[l].known[d] \in Nat /\ scManifest[d].v \in Nat /\ scManifest'[d].v \in Nat
      BY <1>0, <1>1, <1>5
    <3> QED BY ONLY <2>2, <3>1, <3>2, <3>3, SMTT(30)
  <2>4. CASE l = k /\ d = c
    <3>1. scCall'[l].route[d] = [pc |-> "got", v |-> answer]
      BY <1>6, <2>4 DEF new
    <3>2. scCall'[l].route[d].pc = "got" /\ scCall'[l].route[d].v = answer
      BY ONLY <3>1, SMTT(30)
    <3>3. scCall'[l].known[d] <= answer
      BY <1>3, <2>2, <2>4
    <3> QED BY ONLY <2>3, <3>2, <3>3, SMTT(30)
  <2>5. CASE l # k \/ d # c
    <3>1. scCall'[l].route[d] = scCall[l].route[d]
      BY <1>6, <2>5 DEF new
    <3>2. scCall[l].route[d].pc = "told" => scManifest'[d] = scManifest[d]
      BY <1>5, <1>7, <2>5
    <3> QED BY <1>2, <2>1, <2>2, <2>3, <3>1, <3>2 DEF VersionsGrow
  <2> QED BY <2>4, <2>5
<1>10. ASSUME NEW l \in ScCallers PROVE AsksLocked(scCall[l])'
  <2>1. CASE l = k
    BY <1>0, <1>3, <1>6, <2>1 DEF Sound, AsksLocked, new
  <2>2. CASE l # k
    <3>1. AsksLocked(scCall[l]) /\ scCall'[l] = scCall[l]
      BY <1>0, <1>6, <2>2 DEF Sound
    <3>2. ASSUME NEW d \in ScRoutes, scCall[l].pc = "collect", Fresh(scCall[l], d)
          PROVE  scManifest'[d].v # 0 /\ scCall[l].now - scManifest'[d].at <= ScTtl
      <4>1. scCall[l].now <= scWorld.now
        BY <1>0, <3>2 DEF Sound, InTime, ScWaiting
      <4>2. CASE d = c
        BY <1>0, <1>1, <1>3, <1>5, <4>1, <4>2
      <4>3. CASE d # c
        BY <1>5, <3>2, <4>3 DEF Fresh
      <4> QED BY <4>2, <4>3
    <3> QED BY <3>1, <3>2 DEF AsksLocked, Fresh
  <2> QED BY <2>1, <2>2
<1>11. LockHeld'
  BY <1>0, <1>2, <1>6 DEF LockHeld, new
<1>12. PendingWhilePrefetch'
  <2>1. \A l \in ScPrefetches : scCall'[l].pc = scCall[l].pc
    BY <1>6 DEF new, ScCallers
  <2> QED BY <1>0, <1>2, <2>1 DEF PendingWhilePrefetch
<1> QED
  BY <1>2, <1>5, <1>8, <1>9, <1>10, <1>11, <1>12 DEF ScInv, Sound

(* Letting go of the lock, moving the throttle, declaring and going away      *)
(* (source_metadata.rs:102-105, 184-298, 452-460).                           *)
LEMMA ScCallsEnd ==
    ASSUME ScInv, ScTypeOK', NEW k \in ScCallers,
           \/ ReleaseLock(k) \/ MoveThrottle(k) \/ AbandonCall(k) \/ DeclareEfforts(k)
           \/ k \in ScPrefetches /\ FinishPrefetch(k)
    PROVE  ScInv'
<1>0. ScTypeOK /\ PendingWhilePrefetch /\ LockHeld /\ Sound(scCall[k]) /\ scCall[k] \in ScCallType
      /\ scCall \in [ScCallers -> ScCallType] /\ scGate \in ScGateType /\ "free" \notin ScCallers
  BY ScAssumption, ScFields DEF ScInv, ScTypeOK, ScCallers
<1> DEFINE new == scCall'[k]
<1>1. Call(k, new) /\ new \in ScCallType /\ scManifest' = scManifest /\ scWorld' = scWorld
  BY <1>0 DEF ReleaseLock, MoveThrottle, AbandonCall, DeclareEfforts, FinishPrefetch, Call, ScTypeOK
<1>2. scGate'.lock = IF scGate.lock = k THEN "free" ELSE scGate.lock
  <2>1. CASE ReleaseLock(k) \/ AbandonCall(k)
    BY <1>0, <2>1 DEF ReleaseLock, AbandonCall, Unlocked, ScGateType, Free
  <2>2. CASE MoveThrottle(k) \/ DeclareEfforts(k) \/ FinishPrefetch(k)
    <3>1. scGate.lock # k
      BY <1>0, <2>2 DEF LockHeld, MoveThrottle, DeclareEfforts, FinishPrefetch
    <3> QED BY <1>0, <2>2, <3>1 DEF MoveThrottle, DeclareEfforts, FinishPrefetch, ScGateType
  <2> QED BY <2>1, <2>2
<1>3. CASE ReleaseLock(k) \/ MoveThrottle(k)
  <2>1. new.route = scCall[k].route /\ new.known = scCall[k].known /\ new.now = scCall[k].now
        /\ new.pc \in {"throttle", "declare"} /\ scCall[k].pc \in {"collect", "throttle"}
        /\ scGate'.pending = scGate.pending
    BY <1>0, <1>3 DEF ReleaseLock, MoveThrottle, Unlocked, Call, ScCallType, ScGateType
  <2>2. \A c \in ScRoutes : scCall[k].route[c].pc \notin {"asked", "told"}
    BY <1>0, <1>3 DEF ReleaseLock, MoveThrottle, Sound, AsksLocked
  <2> HIDE DEF new
  <2>3. Sound(new)
    BY <1>0, <2>1, <2>2 DEF Sound, InTime, AsksLocked, VersionsGrow, ScWaiting
  <2>4. PendingWhilePrefetch'
    BY <1>0, <1>1, <2>1, PendingStays
  <2> QED
    BY <1>0, <1>1, <1>2, <2>1, <2>3, <2>4, OneCallMoves
<1>4. CASE AbandonCall(k) \/ DeclareEfforts(k) \/ (k \in ScPrefetches /\ FinishPrefetch(k))
  <2>1. new \in {ScNoCall, [ScNoCall EXCEPT !.pc = "spent"]}
    BY <1>0, <1>4 DEF AbandonCall, DeclareEfforts, FinishPrefetch, Call
  <2>2. Sound(new) /\ new.pc # "collect"
    <3>1. Sound(ScNoCall) /\ Sound([ScNoCall EXCEPT !.pc = "spent"])
      BY <1>0, ScResting
    <3>2. ScNoCall.pc # "collect" /\ [ScNoCall EXCEPT !.pc = "spent"].pc # "collect"
      BY DEF ScNoCall
    <3> HIDE DEF new
    <3> QED BY <2>1, <3>1, <3>2
  <2>3. PendingWhilePrefetch'
    <3>1. CASE AbandonCall(k) \/ DeclareEfforts(k)
      <4>1. scGate'.pending = scGate.pending
        BY <1>0, <3>1 DEF AbandonCall, DeclareEfforts, Unlocked, ScGateType
      <4>2. k \in ScPrefetches => new.pc = "spent" /\ scCall[k].pc = "declare"
        BY <1>0, <3>1 DEF AbandonCall, DeclareEfforts, Call, ScNoCall
      <4> HIDE DEF new
      <4> QED BY <1>0, <1>1, <4>1, <4>2, PendingStays
    <3>2. CASE k \in ScPrefetches /\ FinishPrefetch(k)
      <4>1. scGate'.pending = FALSE /\ scCall[k].pc = "spent"
        BY <1>0, <3>2 DEF FinishPrefetch, ScGateType
      <4>2. new.pc = "idle" /\ \A l \in ScCallers \ {k} : scCall'[l] = scCall[l]
        BY <1>0, <3>2 DEF FinishPrefetch, Call, ScNoCall
      <4>3. \A l \in ScPrefetches : scCall'[l].pc = "idle"
        BY <1>0, <3>2, <4>1, <4>2 DEF PendingWhilePrefetch, ScCallers
      <4> QED BY <4>1, <4>3 DEF PendingWhilePrefetch
    <3> QED BY <1>4, <3>1, <3>2
  <2> HIDE DEF new
  <2> QED
    BY <1>0, <1>1, <1>2, <2>2, <2>3, OneCallMoves
<1> QED
  BY <1>3, <1>4

(* The provider changes its catalog, and time passes while no call outlasts a *)
(* manifest (the ten seconds of source_metadata.rs:494).                     *)
LEMMA ScWorldMoves ==
    ASSUME ScInv, ScTypeOK', CatalogChanges \/ ScTick \/ UNCHANGED scVars
    PROVE  ScInv'
<1>0. ScTypeOK /\ scWorld.now \in Nat /\ scWorld.version \in Nat /\ ScTtl \in Nat
      /\ scManifest' = scManifest /\ scGate' = scGate /\ scCall' = scCall
      /\ scWorld \in [now : Nat, version : Nat \ {0}, begun : Nat]
  BY ScAssumption DEF ScInv, ScTypeOK, CatalogChanges, ScTick, scVars
<1>1. PendingWhilePrefetch' /\ LockHeld'
  BY <1>0 DEF ScInv, PendingWhilePrefetch, LockHeld
<1>2. scWorld'.version \in Nat /\ scWorld.version <= scWorld'.version
  BY <1>0 DEF CatalogChanges, ScTick, scVars
<1>3. \A c \in ScRoutes : scManifest'[c].v <= scWorld'.version
  BY <1>0, <1>2 DEF ScInv, ScTypeOK
<1>4. ASSUME NEW k \in ScCallers PROVE Sound(scCall[k])'
  <2>1. Sound(scCall[k]) /\ scCall[k].now \in Nat /\ \A c \in ScRoutes : scCall[k].route[c].v \in Nat
    BY <1>0, ScFields DEF ScInv
  <2>2. InTime(scCall[k])'
    <3>1. CASE ScTick
      BY <1>0, <2>1, <3>1 DEF ScTick, Sound, InTime, ScWaiting
    <3>2. CASE CatalogChanges \/ UNCHANGED scVars
      BY <1>0, <2>1, <3>2 DEF CatalogChanges, scVars, Sound, InTime
    <3> QED BY <3>1, <3>2
  <2>3. AsksLocked(scCall[k])'
    BY <1>0, <2>1 DEF Sound, AsksLocked, Fresh
  <2>4. VersionsGrow(scCall[k])'
    <3>1. VersionsGrow(scCall[k])
      BY <2>1 DEF Sound
    <3>2. \A c \in ScRoutes :
             scCall[k].route[c].v <= scWorld.version => scCall[k].route[c].v <= scWorld'.version
      BY <1>0, <1>2, <2>1
    <3> QED BY <1>0, <3>1, <3>2 DEF VersionsGrow
  <2> QED BY <2>2, <2>3, <2>4 DEF Sound
<1> QED
  BY <1>1, <1>3, <1>4 DEF ScInv

(* However prefetches, explicit refreshes and catalog requests meet, give up  *)
(* and fail, no route is asked twice at a time, one prefetch runs at a time,  *)
(* and no manifest is lost to a failure or to an older answer, for any routes *)
(* and callers (source_metadata.rs:66-140, 401-548).                         *)
THEOREM SpecCatalogSafe == ScSpec => [](ScTypeOK /\ CatalogSafe)
<1>1. ScInv /\ [ScNext]_scVars => ScInv'
  <2> SUFFICES ASSUME ScInv, [ScNext]_scVars PROVE ScInv'
    OBVIOUS
  <2>1. ScTypeOK'
    BY ScTypeStep DEF ScInv
  <2>2. CASE ScNext
    <3>1. CASE \E k \in ScPrefetches : Prefetch(k) \/ FinishPrefetch(k)
      <4>1. PICK k \in ScPrefetches : Prefetch(k) \/ FinishPrefetch(k)
        BY <3>1
      <4>2. k \in ScCallers
        BY DEF ScCallers
      <4>3. CASE Prefetch(k)
        <5>1. PICK routes \in SUBSET ScRoutes : TRUE
          OBVIOUS
        <5> QED BY <2>1, <4>2, <4>3, <5>1, ScCallsBegin
      <4>4. CASE FinishPrefetch(k)
        BY <2>1, <4>2, <4>4, ScCallsEnd
      <4> QED BY <4>1, <4>3, <4>4
    <3>2. CASE \E k \in ScPrefetches, routes \in SUBSET ScRoutes : OpenPrefetch(k, routes)
      BY <2>1, <3>2, ScCallsBegin DEF ScCallers
    <3>3. CASE \E k \in ScCallers, routes \in SUBSET ScRoutes : OpenCall(k, routes)
      BY <2>1, <3>3, ScCallsBegin
    <3>4. CASE \E k \in ScCallers : \/ Decide(k) \/ TakeLock(k) \/ ReleaseLock(k) \/ MoveThrottle(k)
                                    \/ AbandonCall(k) \/ DeclareEfforts(k)
      <4>1. PICK k \in ScCallers : \/ Decide(k) \/ TakeLock(k) \/ ReleaseLock(k) \/ MoveThrottle(k)
                                   \/ AbandonCall(k) \/ DeclareEfforts(k)
        BY <3>4
      <4>2. CASE Decide(k) \/ TakeLock(k)
        BY <2>1, <4>2, ScCallsDecide
      <4>3. CASE ReleaseLock(k)
        BY <2>1, <4>3, ScCallsEnd
      <4>4. CASE MoveThrottle(k)
        BY <2>1, <4>4, ScCallsEnd
      <4>5. CASE AbandonCall(k)
        BY <2>1, <4>5, ScCallsEnd
      <4>6. CASE DeclareEfforts(k)
        BY <2>1, <4>6, ScCallsEnd
      <4> QED BY <4>1, <4>2, <4>3, <4>4, <4>5, <4>6
    <3>5. CASE \E k \in ScCallers, c \in ScRoutes :
                  \/ ReadCached(k, c) \/ ProviderFails(k, c) \/ ProviderAnswers(k, c)
                  \/ RememberManifest(k, c)
      BY <2>1, <3>5, ScRouteMoves, ScRemembers
    <3>6. CASE CatalogChanges \/ ScTick
      BY <2>1, <3>6, ScWorldMoves
    <3> QED
      BY <2>2, <3>1, <3>2, <3>3, <3>4, <3>5, <3>6 DEF ScNext
  <2>3. CASE UNCHANGED scVars
    BY <2>1, <2>3, ScWorldMoves
  <2> QED BY <2>2, <2>3
<1>2. QED
  BY <1>1, ScInitInv, ScInvIsSafe, PTL DEF ScSpec
=============================================================================
