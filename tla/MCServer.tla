------------------------------- MODULE MCServer --------------------------------
(***************************************************************************)
(* The relay server's requests, its usage writer, its price catalog, its   *)
(* data directory and the books of its scheduler: components side by side. *)
(* They share no state, and a behaviour moves only the one that part names.*)
(***************************************************************************)
EXTENDS ServerAdmin, ServerUsage, PricingCatalog, ServerData, PoolScheduler

VARIABLE part

Parts == {"admin", "usage", "prices", "quotes", "restore", "upgrade", "leases"}

\* ServerAdmin: requests that meet on the same records.
MCScenes == {{"update_account", "refresh", "delete_account"},
             {"update_account", "membership", "route_account", "setting"},
             {"assign", "delete_account", "live_setting"},
             {"create_source", "update_source", "delete_source"},
             {"update_source", "test_source", "probe", "live_setting"},
             {"preview", "confirm", "confirm_probed", "sweep"},
             {"confirm", "preview", "delete_account"},
             {"preset", "update_account", "delete_account"}, {"preset", "setting"},
             {"stop", "setting", "update_account"},
             {"stop"}, {"setting"}, {"preset"}}
Quiet == {"stop", "setting", "update_account"}

\* PricingCatalog: the backoff grows, and two tariffs of which one is partial.
MCPrDelays == <<1, 2, 3>>
MCPriceA == {[input |-> 3, read |-> 1, write5m |-> 2, write1h |-> 5, output |-> 4]}
MCPriceB == {[input |-> 2, read |-> Absent, write5m |-> 6, write1h |-> Absent, output |-> 4]}
MCRecords ==
    {[id |-> <<"", "m">>, case |-> k, provider |-> "openai", price |-> q] :
        k \in 1..2, q \in {MCPriceA, MCPriceB}}
    \cup {[id |-> <<f, "m">>, case |-> 1, provider |-> p, price |-> MCPriceA] :
        f \in {"", "openai"}, p \in {"openai", "other"}}
    \cup {[id |-> <<"", "m">>, case |-> 3, provider |-> p, price |-> {}] : p \in {"openai", "other"}}
MCUsages ==
    {[input |-> u[1], read |-> 2, write5m |-> 1, write1h |-> u[2], unknown |-> 1, output |-> 2,
      total |-> u[3]] : u \in {<<5, 1, 8>>, <<Absent, 1, 8>>, <<5, Absent, Absent>>}}
MCContexts ==
    {[kind |-> k, provider |-> p, family |-> f, evidence |-> e, manual |-> MCPriceB] :
        k \in {"account", "source"}, p \in {"", "openai", "other"}, f \in {"", "openai"}, e \in {{}, MCPriceB}}
MCModels == {<<"", "m">>, <<"openai", "m">>}

\* PoolScheduler: one account that administrators drain, disable and revive.
MCServes == [c \in PoolCandidates |-> Models]
MCPolicies == {<<TRUE, FALSE>>, <<FALSE, TRUE>>}
MCAvailabilities == {<<TRUE, TRUE>>, <<TRUE, FALSE>>}
MCBlockable == PoolCandidates \X Models

-----------------------------------------------------------------------------
\* The parts that do not move rest in one of their initial states.
MCInit ==
    /\ part \in Parts
    /\ AdmInit
    /\ part # "admin" => /\ admScene = Quiet /\ ~adm.set["common"]
                         /\ \A i \in AdmIds : ~adm.rec[i].there
    /\ part = "admin" => \/ admScene \cap {"create_source", "confirm", "delete_account"} # {}
                         \/ \A i \in AdmIds : adm.rec[i].there
    /\ SuInit
    /\ PrInit
    /\ part # "prices" => prSide = "server" /\ prDisk = {}
    /\ IF part = "quotes" THEN EqInit
       ELSE /\ eqDoc = <<>> /\ eqEntries = {} /\ eqUnique = <<>> /\ eqConflicts = {}
            /\ eqRows = 0 /\ eqLast = {} /\ eqValue = NoValue /\ eqTokens = 0
    /\ BkInit
    /\ SmInit
    /\ part # "upgrade" => smSchema = 1
    /\ PoolInit

Rests(p, v) == IF part = p THEN TRUE ELSE UNCHANGED v

OthersRest ==
    /\ UNCHANGED part
    /\ Rests("admin", admVars) /\ Rests("usage", suVars) /\ Rests("prices", prVars)
    /\ Rests("quotes", eqVars) /\ Rests("restore", bkVars) /\ Rests("upgrade", smVars)
    /\ Rests("leases", schedVars)

\* Faults meet the smaller scenes, and settings and presets by themselves.
AdminScene ==
    admScene \cap {"setting", "preset"} = {} \/ Cardinality(admScene) = 1 \/ admFaults' = 0

MCNext ==
    \/ part = "admin" /\ AdmNext /\ AdminScene /\ OthersRest
    \/ part = "usage" /\ SuNext /\ OthersRest
    \/ part = "prices" /\ PrNext /\ OthersRest
    \/ part = "quotes" /\ EqNext /\ OthersRest
    \/ part = "restore" /\ BkNext /\ OthersRest
    \/ part = "upgrade" /\ SmNext /\ OthersRest
    \/ part = "leases" /\ PoolNext /\ OthersRest

-----------------------------------------------------------------------------
\* A part's invariants are evaluated where the part moves.
Moving(p, inv) == IF part = p THEN inv ELSE TRUE


\* The writer behind the gateway charges every request once, and a stopped
\* server has recorded what it had accepted (usage_writer.rs, store/usage.rs).
ServerUsageSafe ==
    Moving("usage", SuTypeOK /\ ServerChargedOnce /\ DeletedStaysDeleted /\ JoinedIsFlushed)

\* The catalog is refreshed when due and never lost by a failure, and a request
\* is priced from its own tariff, every token once (pricing).
PricingSafe ==
    /\ Moving("prices", PrTypeOK /\ LoopMeetsDeadline /\ LastGoodIsKept)
    /\ Moving("quotes", EqTypeOK /\ IndexIsOrderFree /\ QuoteIsOwn /\ TokensAccounted)


===============================================================================
