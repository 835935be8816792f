------------------------------- MODULE MCGateway -------------------------------
(***************************************************************************)
(* How the gateway chooses, and what it remembers of its candidates: six   *)
(* components side by side.  They share no state, and a behaviour moves    *)
(* only the one that part names, in one of its scenes.                     *)
(***************************************************************************)
EXTENDS PoolScheduler, TokenAuthority, AccountEndpoint, SessionAffinity, RoutingPolicy,
        AgentIdentity, TLC

CONSTANTS c1, c2

VARIABLE part

Parts == {"token", "turn"} \X {"all"} \cup {"pool"} \X {"one", "two"}
         \cup {"endpoint"} \X {"solo", "pair"} \cup {"agent"} \X {"requests", "writers", "models"}
         \cup {"affinity"} \X {"expiry", "removal", "rebuild", "prompt"}
         \cup {"routing"} \X {"quota", "storm", "session"}

\* PoolScheduler: two accounts of which only the first serves the second model.
MCServes == (c1 :> {"m1", "m2"}) @@ (c2 :> {"m1"})
MCPolicies == {<<TRUE, FALSE>>}

\* AccountEndpoint: a refusal of each kind the policy tells apart, and requests
\* with a known, an unknown and no earlier response.
Say(status, says, after, header, workspace) ==
    [status |-> status, says |-> says, after |-> after, header |-> header, global |-> FALSE,
     workspace |-> workspace]
MCRefusals ==
    {Say(429, {"quota_exhausted"}, 2, -1, FALSE), Say(429, {}, -1, 1, FALSE),
     Say(402, {"account_disabled"}, -1, -1, TRUE), Say(403, {"zenith"}, -1, -1, FALSE),
     Say(400, {"encrypted_content_invalid"}, -1, -1, FALSE),
     Say(404, {"previous_response_not_found"}, -1, -1, FALSE),
     Say(503, {}, -1, -1, FALSE), Say(503, {}, -1, -1, TRUE)}
Asks(prev, from, sealed, broken) ==
    [model |-> "m1", prev |-> prev, owner |-> from, sealed |-> sealed, broken |-> broken]
MCInputs ==
    {Asks(FALSE, AeNobody, FALSE, {}), Asks(TRUE, "a1", FALSE, {}), Asks(TRUE, AeNobody, FALSE, {}),
     Asks(FALSE, AeNobody, TRUE, {"fc"})}

\* RoutingPolicy: three accounts and two connections of one source.
MCKind == <<"account", "account", "account", "source", "source">>
MCSource == <<"x1", "x2", "x3", "s", "s">>
MCPriority == <<0, 0, 0, 0, 1>>
MCExpiry == <<2, RpNone, 2, RpNone, RpNone>>
MCRank == <<1, 0, 1, 9, 9>>
MCResets == {RpNone, 1}
MCQuotas == {2, ExhaustedQuota, Stale}
Spent == ExhaustedQuota
NoResets == [x \in 1..5 |-> RpNone]
MCStarts ==
    {<<q \o <<Unknown, Unknown>>, t \o <<RpNone, RpNone>> >> :
        q \in [1..3 -> {1, 3, 5}], t \in {<<1, 3, 1>>, <<3, 1, 1>>, <<3, 1, 3>>}}
    \cup {<<q, NoResets>> : q \in {<<Stale, Spent, Spent, Unknown, Unknown>>,
                                   <<Spent, Spent, Spent, Unknown, Unknown>>,
                                   <<Spent, Spent, Spent, Unknown, Spent>>}}

-----------------------------------------------------------------------------
\* The parts that do not move rest in one of their initial states.
MCInit ==
    /\ part \in Parts
    /\ PoolInit /\ AeInit /\ SaInit /\ TuInit
    /\ AgInit /\ (part[1] # "agent" => agSide = "desktop" /\ agStored.task = 0)
    /\ AuthInit /\ admin = NoOperation
    /\ part[1] # "token" => vault.refresh /\ record.auth = "Unknown"
    /\ RpInit
    /\ part[1] # "routing" => rpQuota = <<Stale, Spent, Spent, Unknown, Unknown>>
    /\ (part[2] = "quota" <=> rpQuota[3] > 0)
    /\ (part[2] = "storm" => rpQuota[1] = Spent /\ rpQuota[5] = Unknown)
    /\ (part[2] # "quota" => rpStrategy = "adaptive")

Rests(p, v) == IF part[1] = p THEN TRUE ELSE UNCHANGED v

OthersRest ==
    /\ UNCHANGED <<part, admin>>
    /\ Rests("pool", schedVars) /\ Rests("token", authVars) /\ Rests("endpoint", aeVars)
    /\ Rests("affinity", saVars) /\ Rests("turn", tuVars) /\ Rests("routing", rpVars)
    /\ Rests("agent", agVars)

\* The candidates stay, so that failures and probes are all that happens: on
\* one of them for longer, or on both.
PoolScene ==
    /\ UNCHANGED retired /\ \A x \in PoolCandidates : cand'[x].present
    /\ IF part[2] = "one" THEN \A r \in Requests : lease'[r].c # c2 ELSE poolNow' <= 1

\* One request with every refusal, or three that meet an exhausted quota.
EndpointScene ==
    CASE part[2] = "solo" -> aeReq'["r2"].pc = "idle" /\ aeReq'["r3"].pc = "idle"
      [] part[2] = "pair" ->
            /\ aeReq'["r2"].pc # "idle" => aeReq["r1"].pc # "idle"
            /\ aeReq'["r3"].pc # "idle" => aeReq["r2"].pc # "idle"
            /\ \A r \in AeRequests :
                  /\ aeReq'[r].broken = {} /\ ~aeReq'[r].prev /\ ~aeReq'[r].blamed
                  /\ aeReq'[r].last.category \in {"no_eligible_source", "quota_exhausted"}
                  /\ aeReq'[r].attempts = Cardinality(aeReq'[r].tried)

\* What happens to the bindings while requests use them.
AffinityScene ==
    /\ part[2] = "expiry" \/ saNow' = saNow
    /\ part[2] = "removal" \/ saRemoving' = saRemoving
    /\ part[2] = "rebuild" \/ (saRun' = saRun /\ saBegun' <= 2)
    /\ part[2] = "rebuild" => saReq'["q2"].key = "none"
    /\ part[2] = "expiry" \/ saFaults' = saFaults
    /\ \A q \in SaReqs : IF part[2] = "prompt" THEN saReq'[q].key = "none" \/ saReq'[q].prompt # "none"
                         ELSE saReq'[q].prompt = "none"

Flights == rpFlight[1] + rpFlight[2] + rpFlight[3] + rpFlight[4] + rpFlight[5]

\* Requests follow each other on measured quotas, a source storms, or a session
\* has its prompt cache.
RoutingScene ==
    /\ part[2] = "storm" \/ rpNow' = 1
    /\ part[2] = "quota" =>
          /\ UNCHANGED <<rpStrategy, rpProtected, rpOwner>>
          /\ rpRefreshes' = 0 /\ Flights' <= 2
          /\ rpDispatch'[1] + rpDispatch'[2] + rpDispatch'[3] <= 3
    /\ part[2] = "storm" =>
          /\ UNCHANGED <<rpStrategy, rpProtected>>
          /\ rpOwner' = RpNone /\ rpRefreshes' = 0 /\ Flights' <= 3
    /\ part[2] = "session" =>
          /\ rpStrategy' \in {"adaptive", "quota_highest"}
          /\ rpLimits' = rpLimits /\ Flights' <= 2
          /\ \A x \in RpIds : rpDispatch'[x] <= 2

\* Two requests and a job; a job and a request beside the token authority, through
\* faults; or a request and the discovery of models.  Nothing is claimed once two
\* writes have overlapped.
AgentScene ==
    /\ ~agOverlap
    /\ agFaults' = 0 \/ part[2] = "writers"
    /\ agWriter' = {} \/ part[2] = "writers"
    /\ part[2] # "requests" => agCaller'["r2"] = AgIdle
    /\ part[2] = "models" \/ agCaller'["m"] = AgIdle
    /\ part[2] # "models" \/ agCaller'["j"] = AgIdle

MCNext ==
    \/ part[1] = "agent" /\ AgNextStep /\ AgentScene /\ OthersRest
    \/ part[1] = "pool" /\ PoolNext /\ PoolScene /\ OthersRest
    \/ part[1] = "token" /\ AuthNext /\ OthersRest
    \/ part[1] = "endpoint" /\ AeNext /\ EndpointScene /\ OthersRest
    \/ part[1] = "affinity" /\ SaNext /\ AffinityScene /\ OthersRest
    \/ part[1] = "turn" /\ TuNext /\ OthersRest
    \/ part[1] = "routing" /\ RpNext /\ RoutingScene /\ OthersRest

-----------------------------------------------------------------------------
\* Between two selections: the books have their types, a half-open scope of the
\* pool is held by a request that will reopen it (selection.rs:944-983), and a
\* session's turn state is echoed to the account it came from only
\* (gateway/turn_state.rs), and a request repeated after its agent task was refused
\* carries a task that was renewed once (runtime/authorization.rs).
ChoiceSafe ==
    /\ SchedulerTypeOK /\ HalfOpenIsHeld
    /\ SaTypeOK /\ TuTypeOK /\ SerialEchoStaysHome
    /\ RpTypeOK
    /\ AgTypeOK /\ RetryIsRenewed /\ OneRenewal
===============================================================================
