--------------------------- MODULE AccountRemoval ---------------------------
(* Deleting local accounts, one or several, and routing accounts through the  *)
(* stored proxies.  Both write several stores one after the other: the secret *)
(* store (credentials, proxy pool), the record store, the wake coordinator    *)
(* and the Codex profiles.  A failing step runs the way back; a crash leaves  *)
(* what was written.  Commands hold the setup guard, but a token refresh does *)
(* not: it reads a credential, awaits the provider and saves the credential   *)
(* it read with the new tokens.                                               *)
EXTENDS Integers, Sequences, SequencesExt, FiniteSets

CONSTANTS ArAccounts,    \* local accounts
          ArProfiles,    \* Codex profile directories
          ArUrls,        \* proxy addresses
          ArMaxEntries,  \* entries a proxy pool may hold
          ArMaxOps, ArMaxFaults, ArMaxGen

ASSUME ArBounds == {ArMaxEntries, ArMaxOps, ArMaxFaults, ArMaxGen} \subseteq Nat

VARIABLES arStore,    \* everything the commands write, see ArStoreType
          arJob,      \* the command under the setup guard
          arRefresh,  \* a token refresh that awaits the provider
          arOps, arFaults,
          arRaced     \* ghost: accounts whose credential was written over one not read

arVars == <<arStore, arJob, arRefresh, arOps, arFaults, arRaced>>

NoCredential == [there |-> FALSE]
Nobody == "nobody"
ArIdle == [name |-> "none"]
NoRefresh == [busy |-> FALSE]

\* A stored credential: the token generation and the route of the account.
CredentialOf(gen, route) == [there |-> TRUE, gen |-> gen, route |-> route]

ArRoutes == {"inherit", "direct"} \cup ArUrls

ArCredentials == {NoCredential} \cup {CredentialOf(g, r) : g \in 0..ArMaxGen, r \in ArRoutes}

----------------------------------------------------------------------------
(* The proxy pool: a function from the stored addresses to the accounts       *)
(* assigned to them.                                                          *)

\* The proxy address an account's credential carries, as a set.
ProxyOf(s, a) == IF s.creds[a].there THEN {s.creds[a].route} \cap ArUrls ELSE {}

HasRoom(pool, u) == u \in DOMAIN pool \/ Cardinality(DOMAIN pool) < ArMaxEntries

WithEntries(pool, urls) ==
    [u \in DOMAIN pool \cup urls |-> IF u \in DOMAIN pool THEN pool[u] ELSE {}]

Released(pool, a) == [u \in DOMAIN pool |-> pool[u] \ {a}]

Assigned(pool, u, a) == [Released(WithEntries(pool, {u}), a) EXCEPT ![u] = @ \cup {a}]

Holding(pool, a) == {u \in DOMAIN pool : a \in pool[u]}

\* Reconciling that keeps what it finds.
KeepsStale(s) == s.pool

\* Assignments that the credentials do not carry go.
WithoutStale(s) == [u \in DOMAIN s.pool |-> {a \in s.pool[u] \cap s.records : u \in ProxyOf(s, a)}]

\* Then the addresses the credentials carry are added while there is room.
Reconciled(s) ==
    LET Add(pool, a) ==
          IF Holding(pool, a) # {} THEN pool
          ELSE FoldLeft(LAMBDA p, u : IF HasRoom(p, u) THEN Assigned(p, u, a) ELSE p,
                        pool, SetToSeq(ProxyOf(s, a)))
    IN FoldLeft(Add, WithoutStale(s), SetToSeq(s.records))

LeastLoaded(pool) ==
    CHOOSE u \in DOMAIN pool : \A v \in DOMAIN pool : Cardinality(pool[u]) <= Cardinality(pool[v])

\* What a choice does to the pool and which route the credential gets; an
\* automatic choice without an entry changes nothing, an address without room
\* refuses the command.
AfterChoice(pool, a, choice) ==
    CASE choice \in {"inherit", "direct"} -> [pool |-> Released(pool, a), route |-> choice]
      [] choice = "automatic" /\ Holding(pool, a) # {} ->
            [pool |-> pool, route |-> CHOOSE u \in Holding(pool, a) : TRUE]
      [] choice = "automatic" /\ Holding(pool, a) = {} /\ DOMAIN pool # {} ->
            LET u == LeastLoaded(pool) IN [pool |-> Assigned(pool, u, a), route |-> u]
      [] choice \in ArUrls /\ HasRoom(pool, choice) ->
            [pool |-> Assigned(pool, choice, a), route |-> choice]
      [] OTHER -> [pool |-> pool, route |-> choice]

ArRefused(pool, choice) == choice \in ArUrls /\ ~HasRoom(pool, choice)
----------------------------------------------------------------------------
(* Commands: a sequence of steps, each for an account *)

ArStep(step, a) == [do |-> step, of |-> a]
Alone(step) == ArStep(step, Nobody)

ArCommand(name, who, arg, steps) ==
    [name |-> name, who |-> who, arg |-> arg, steps |-> steps,
     found |-> arStore,      \* what the command found
     snap |-> arStore,       \* what the preparation of the current account found
     old |-> [a \in ArAccounts |-> NoCredential],  \* credentials as they were read
     unbound |-> [a \in ArAccounts |-> {}],        \* profiles restored
     ready |-> <<>>,         \* accounts prepared
     released |-> FALSE,     \* the current account's proxy was released
     pool |-> arStore.pool, hits |-> 0]

ArIssue(job) ==
    /\ arJob = ArIdle
    /\ arOps < ArMaxOps
    /\ arOps' = arOps + 1
    /\ arJob' = job
    /\ UNCHANGED <<arStore, arRefresh, arFaults, arRaced>>

\* Preparing with the credential deleted before the profiles are restored.
CredentialFirst == <<"begin", "uncredential", "unbind", "unwake", "unproxy", "unqueue", "ready">>

\* Preparing without giving the proxy entry back.
ProxyKept == <<"begin", "unbind", "unwake", "uncredential", "unqueue", "ready">>

\* The order of prepare_delete_local_account.
PrepareOrder == <<"begin", "unbind", "unwake", "unproxy", "uncredential", "unqueue", "ready">>

PrepareSteps(a) == [i \in DOMAIN PrepareOrder |-> ArStep(PrepareOrder[i], a)]

DeleteAccount ==
    \E a \in arStore.records :
      ArIssue(ArCommand("delete_local_account", {a}, {},
                        PrepareSteps(a) \o <<Alone("forget"), Alone("detach")>>))

DeleteAccounts ==
    /\ Cardinality(arStore.records) > 1
    /\ LET order == SetToSeq(arStore.records) IN
       ArIssue(ArCommand("delete_local_accounts", arStore.records, {},
                         FlattenSeq([i \in DOMAIN order |-> PrepareSteps(order[i])])
                             \o <<Alone("forget"), Alone("detach")>>))

ImportProxies ==
    \E urls \in (SUBSET ArUrls) \ {{}} :
      ArIssue(ArCommand("import_local_proxy_pool", {}, urls,
                        <<Alone("reconcile"), Alone("import")>>))

DeleteProxies ==
    \E urls \in (SUBSET DOMAIN arStore.pool) \ {{}} :
      ArIssue(ArCommand("delete_local_stored_proxies", {}, urls,
                        <<Alone("reconcile"), Alone("drop")>>))

ApplyChoices(choice) ==
    ArIssue(ArCommand("apply_choices", DOMAIN choice, choice,
                      <<Alone("reconcile"), Alone("choose")>>))

\* One account inherits the common route, goes direct, takes a stored entry or
\* an address of its own.
SetAccountProxy ==
    \E a \in arStore.records, choice \in ArRoutes : ApplyChoices([b \in {a} |-> choice])

\* Accounts take the least loaded entries.
AssignFreeProxies ==
    \E who \in (SUBSET arStore.records) \ {{}} : ApplyChoices([a \in who |-> "automatic"])

\* An entry is to serve exactly these accounts: the others it serves inherit.
SetProxyAccounts ==
    \E u \in DOMAIN arStore.pool, who \in SUBSET arStore.records :
      ApplyChoices([a \in who \cup (Reconciled(arStore)[u] \cap arStore.records) |->
                      IF a \in who THEN u ELSE "inherit"])
----------------------------------------------------------------------------
(* Steps *)

ArAt(step) == arJob # ArIdle /\ arJob.steps # <<>> /\ Head(arJob.steps).do = step
Who == Head(arJob.steps).of
After == Tail(arJob.steps)
Only(store) == arStore' = store /\ UNCHANGED <<arRefresh, arOps>>
Keep == Only(arStore) /\ UNCHANGED arRaced

ArGo(job) == arJob' = job /\ UNCHANGED arFaults
ArGoOn == ArGo([arJob EXCEPT !.steps = After])
ArDo(store) == Only(store) /\ ArGoOn /\ UNCHANGED arRaced

ArFault(steps) ==
    /\ arFaults < ArMaxFaults
    /\ arFaults' = arFaults + 1
    /\ arJob' = [arJob EXCEPT !.steps = steps, !.hits = @ + 1]
    /\ Keep

Batch == arJob.name = "delete_local_accounts"

\* rollback_batch_delete: the accounts prepared so far, latest first, then the
\* queue, the wakes and the proxy pool as the command found them.
BatchWayBack ==
    FlattenSeq([i \in DOMAIN arJob.ready |->
                    LET a == arJob.ready[Len(arJob.ready) + 1 - i] IN
                    <<ArStep("recredential", a), ArStep("rebind", a)>>])
        \o <<Alone("requeue"), Alone("rewake"), Alone("repool"), Alone("end")>>

\* A way back that forgets the credential.
WayBackKeyless(a) ==
    <<Alone("requeue"), Alone("rewake"), ArStep("rebind", a)>>
        \o (IF arJob.released THEN <<Alone("repool")>> ELSE <<>>)

\* rollback_deleted_account_side_effects.
WayBack(a) ==
    <<ArStep("recredential", a), Alone("requeue"), Alone("rewake"), ArStep("rebind", a)>>
        \o (IF arJob.released THEN <<Alone("repool")>> ELSE <<>>)

\* Preparing an account failed after its own way back: the batch's follows.
ArAbandon == <<Alone("abandon")>>

AbandonPrepared ==
    /\ ArAt("abandon")
    /\ ArGo([arJob EXCEPT !.steps = IF Batch THEN BatchWayBack ELSE <<Alone("end")>>,
                          !.snap = arJob.found])
    /\ Keep

\* Read the credential and the state to come back to; a profile bound to an
\* account without a credential needs recovery.
BeginPrepare ==
    /\ ArAt("begin")
    /\ LET bound == {p \in ArProfiles : arStore.bound[p] = Who} IN
       IF ~arStore.creds[Who].there /\ bound # {}
       THEN ArGo([arJob EXCEPT !.steps = ArAbandon]) /\ Keep
       ELSE \/ /\ ArGo([arJob EXCEPT !.steps = After, !.snap = arStore, !.released = FALSE,
                                     !.old[Who] = arStore.creds[Who]])
               /\ Keep
            \/ ArFault(ArAbandon)

\* restore_bound_account_profiles: one profile after the other; when one cannot
\* be restored, those that were are signed in again.
Unbind ==
    /\ ArAt("unbind")
    /\ LET bound == {p \in ArProfiles : arStore.bound[p] = Who} IN
       IF bound = {} THEN ArDo(arStore)
       ELSE \/ \E p \in bound :
                 /\ ArGo([arJob EXCEPT !.unbound[Who] = @ \cup {p}])
                 /\ Only([arStore EXCEPT !.bound[p] = Nobody])
                 /\ UNCHANGED arRaced
            \/ ArFault(<<ArStep("rebind", Who)>> \o ArAbandon)

Unwake ==
    /\ ArAt("unwake")
    /\ \/ ArDo([arStore EXCEPT !.wakes = @ \ {Who}])
       \/ ArFault(WayBack(Who) \o ArAbandon)

\* release_account_proxy: nothing is saved when no entry held the account.
Unproxy ==
    /\ ArAt("unproxy")
    /\ \/ /\ ArGo([arJob EXCEPT !.steps = After,
                                !.released = Holding(arStore.pool, Who) # {}])
          /\ Only([arStore EXCEPT !.pool = Released(@, Who)])
          /\ UNCHANGED arRaced
       \/ ArFault(WayBack(Who) \o ArAbandon)

Uncredential ==
    /\ ArAt("uncredential")
    /\ \/ ArDo([arStore EXCEPT !.creds[Who] = NoCredential])
       \/ ArFault(WayBack(Who) \o ArAbandon)

\* The queue is in memory and does not fail.
Unqueue ==
    /\ ArAt("unqueue")
    /\ ArDo([arStore EXCEPT !.queue = @ \ {Who}])

Prepared ==
    /\ ArAt("ready")
    /\ ArGo([arJob EXCEPT !.steps = After, !.ready = Append(@, Who)])
    /\ Keep

\* delete_account_state: the records and the automations in one transaction.
ForgetAccounts ==
    /\ ArAt("forget")
    /\ \/ ArDo([arStore EXCEPT !.records = @ \ arJob.who, !.task = @ \ arJob.who])
       \/ ArFault((IF Batch THEN <<>> ELSE WayBack(arJob.ready[1])) \o ArAbandon)

\* The gateway loses the candidates, the token authority its slots.
DetachAccounts ==
    /\ ArAt("detach")
    /\ Only([arStore EXCEPT !.live = [a \in DOMAIN @ \ arJob.who |-> @[a]]])
    /\ ArGo(ArIdle)
    /\ UNCHANGED arRaced
----------------------------------------------------------------------------
(* The way back *)

\* A credential is saved over whatever is stored.
SaveOver(a, cred) ==
    /\ Only([arStore EXCEPT !.creds[a] = cred])
    /\ arRaced' = IF arStore.creds[a].there /\ arStore.creds[a].gen # cred.gen
                  THEN arRaced \cup {a} ELSE arRaced

\* A failed step of an account's way back ends it; the batch's still runs.
StuckWayBack ==
    ArFault(IF \E i \in DOMAIN After : After[i].do = "abandon" THEN ArAbandon ELSE <<Alone("end")>>)

Recredential ==
    /\ ArAt("recredential")
    /\ IF ~arJob.old[Who].there THEN ArDo(arStore)
       ELSE \/ SaveOver(Who, arJob.old[Who]) /\ ArGoOn
            \/ StuckWayBack

Requeue ==
    /\ ArAt("requeue")
    /\ ArDo([arStore EXCEPT !.queue = arJob.snap.queue])

Rewake ==
    /\ ArAt("rewake")
    /\ \/ ArDo([arStore EXCEPT !.wakes = arJob.snap.wakes, !.task = arJob.snap.task])
       \/ StuckWayBack

Rebind ==
    /\ ArAt("rebind")
    /\ IF arJob.unbound[Who] = {} THEN ArDo(arStore)
       ELSE \/ \E p \in arJob.unbound[Who] :
                 /\ ArGo([arJob EXCEPT !.unbound[Who] = @ \ {p}])
                 /\ Only([arStore EXCEPT !.bound[p] = Who])
                 /\ UNCHANGED arRaced
            \/ StuckWayBack

Repool ==
    /\ ArAt("repool")
    /\ \/ ArDo([arStore EXCEPT !.pool = arJob.snap.pool])
       \/ StuckWayBack

EndCommand ==
    /\ ArAt("end")
    /\ ArGo(ArIdle)
    /\ Keep
----------------------------------------------------------------------------
(* Proxy commands *)

\* load_reconciled_pool.
Reconcile ==
    /\ ArAt("reconcile")
    /\ \/ ArDo([arStore EXCEPT !.pool = Reconciled(arStore)])
       \/ ArFault(<<Alone("end")>>)

FinishWith(store) == Only(store) /\ ArGo(ArIdle) /\ UNCHANGED arRaced

\* An import past the limit saves nothing.
ImportStep ==
    /\ ArAt("import")
    /\ LET next == WithEntries(arStore.pool, arJob.arg) IN
       \/ FinishWith(IF Cardinality(DOMAIN next) <= ArMaxEntries
                     THEN [arStore EXCEPT !.pool = next] ELSE arStore)
       \/ ArFault(<<Alone("end")>>)

\* An entry in use refuses the whole command.
DropStep ==
    /\ ArAt("drop")
    /\ LET pool == arStore.pool IN
       \/ FinishWith(IF arJob.arg \subseteq DOMAIN pool /\ \A u \in arJob.arg : pool[u] = {}
                     THEN [arStore EXCEPT !.pool = [u \in DOMAIN @ \ arJob.arg |-> @[u]]]
                     ELSE arStore)
       \/ ArFault(<<Alone("end")>>)

\* The credentials are read, the new routes and the new pool computed; nothing
\* is written when nothing changed.
ChooseStep ==
    /\ ArAt("choose")
    /\ LET order == SetToSeq(arJob.who)
           Take(acc, a) ==
             LET choice == arJob.arg[a]
                 next == AfterChoice(acc.pool, a, choice)
                 route == IF next.route = "automatic" THEN arStore.creds[a].route ELSE next.route
             IN IF ~arStore.creds[a].there \/ ArRefused(acc.pool, choice)
                THEN [acc EXCEPT !.bad = TRUE]
                ELSE [acc EXCEPT !.pool = next.pool,
                                 !.todo = IF route = arStore.creds[a].route THEN @
                                          ELSE Append(@, <<a, route>>)]
           all == FoldLeft(Take, [pool |-> arStore.pool, todo |-> <<>>, bad |-> FALSE], order)
       IN ArGo(IF all.bad \/ (all.todo = <<>> /\ all.pool = arStore.pool) THEN ArIdle
               ELSE [arJob EXCEPT
                       !.old = arStore.creds, !.snap = arStore, !.pool = all.pool,
                       !.arg = [a \in {t[1] : t \in Range(all.todo)} |->
                                  CredentialOf(arStore.creds[a].gen,
                                     (CHOOSE t \in Range(all.todo) : t[1] = a)[2])],
                       !.steps = [i \in DOMAIN all.todo |-> ArStep("route", all.todo[i][1])]
                                     \o <<Alone("save pool"), Alone("restart"), Alone("enqueue")>>])
    /\ Keep

\* restore_credentials, for the accounts whose new route was saved.
RouteWayBack(who) ==
    LET order == SetToSeq(who) IN [i \in DOMAIN order |-> ArStep("reroute", order[i])]

\* Accounts of the command that were routed already.
Routed == DOMAIN arJob.arg \ {After[i].of : i \in DOMAIN After}

RouteStep ==
    /\ ArAt("route")
    /\ \/ SaveOver(Who, arJob.arg[Who]) /\ ArGoOn
       \/ ArFault(RouteWayBack(Routed \ {Who}) \o <<Alone("end")>>)

SavePool ==
    /\ ArAt("save pool")
    /\ \/ ArDo([arStore EXCEPT !.pool = arJob.pool])
       \/ ArFault(RouteWayBack(DOMAIN arJob.arg) \o <<Alone("end")>>)

\* restart_or_rollback: a stopped gateway stays stopped; a failed build or
\* start puts the credentials and the pool back.
RestartStep ==
    /\ ArAt("restart")
    /\ \/ ArDo(IF DOMAIN arStore.live = {} THEN arStore
               ELSE [arStore EXCEPT !.live = [a \in {b \in arStore.records : arStore.creds[b].there}
                                                |-> arStore.creds[a].route]])
       \/ /\ DOMAIN arStore.live # {}
          /\ ArFault(RouteWayBack(DOMAIN arJob.arg) \o <<Alone("repool"), Alone("end")>>)

Reroute ==
    /\ ArAt("reroute")
    /\ \/ SaveOver(Who, arJob.old[Who]) /\ ArGoOn
       \/ ArFault(<<Alone("end")>>)

EnqueueRouted ==
    /\ ArAt("enqueue")
    /\ FinishWith([arStore EXCEPT !.queue = @ \cup DOMAIN arJob.arg])
----------------------------------------------------------------------------
(* The token refresh of an account, beside the commands *)

RefreshStart ==
    /\ arRefresh = NoRefresh
    /\ \E a \in arStore.records :
         /\ arStore.creds[a].there
         /\ arStore.creds[a].gen < ArMaxGen
         /\ arRefresh' = [busy |-> TRUE, of |-> a, cred |-> arStore.creds[a]]
    /\ UNCHANGED <<arStore, arJob, arOps, arFaults, arRaced>>

\* The rotated pair is saved into the credential that was read before.
RefreshEnd ==
    /\ arRefresh # NoRefresh
    /\ LET a == arRefresh.of IN
       /\ arStore' = [arStore EXCEPT !.creds[a] = [arRefresh.cred EXCEPT !.gen = @ + 1]]
       /\ arRaced' = IF arStore.creds[a] = arRefresh.cred THEN arRaced ELSE arRaced \cup {a}
    /\ arRefresh' = NoRefresh
    /\ UNCHANGED <<arJob, arOps, arFaults>>

\* The application ends and starts again: the queue is rebuilt from the
\* records, the gateway from the stores.
ArCrash ==
    /\ arJob # ArIdle \/ arRefresh # NoRefresh
    /\ arFaults < ArMaxFaults
    /\ arFaults' = arFaults + 1
    /\ arStore' = [arStore EXCEPT !.queue = arStore.records,
                                  !.live = [a \in {b \in arStore.records : arStore.creds[b].there}
                                              |-> arStore.creds[a].route]]
    /\ arJob' = ArIdle
    /\ arRefresh' = NoRefresh
    /\ UNCHANGED <<arOps, arRaced>>
----------------------------------------------------------------------------

ArInit ==
    /\ \E owner \in ArAccounts \cup {Nobody}, used \in SUBSET ArAccounts :
         LET url == CHOOSE u \in ArUrls : TRUE
             creds == [a \in ArAccounts |->
                         CredentialOf(0, IF a \in used THEN url ELSE "inherit")]
         IN arStore = [records |-> ArAccounts, creds |-> creds,
                       bound |-> [p \in ArProfiles |-> owner],
                       queue |-> ArAccounts, wakes |-> ArAccounts, task |-> ArAccounts,
                       pool |-> [u \in {url} |-> used],
                       live |-> [a \in ArAccounts |-> creds[a].route]]
    /\ arJob = ArIdle
    /\ arRefresh = NoRefresh
    /\ arOps = 0 /\ arFaults = 0
    /\ arRaced = {}

ArCommands ==
    \/ DeleteAccount \/ DeleteAccounts \/ ImportProxies \/ DeleteProxies
    \/ SetAccountProxy \/ AssignFreeProxies \/ SetProxyAccounts

ArPrepare ==
    \/ BeginPrepare \/ Unbind \/ Unwake \/ Unproxy \/ Uncredential \/ Unqueue \/ Prepared
    \/ ForgetAccounts \/ DetachAccounts

ArWayBack == AbandonPrepared \/ Recredential \/ Requeue \/ Rewake \/ Rebind \/ Repool \/ EndCommand

ArProxy ==
    \/ Reconcile \/ ImportStep \/ DropStep \/ ChooseStep \/ RouteStep \/ SavePool \/ RestartStep
    \/ Reroute \/ EnqueueRouted

ArNext ==
    \/ ArCommands \/ ArPrepare \/ ArWayBack \/ ArProxy
    \/ RefreshStart \/ RefreshEnd \/ ArCrash

ArSpec == ArInit /\ [][ArNext]_arVars
----------------------------------------------------------------------------
(* Properties *)

\* The stores hold values of their types.
ArTypeOK ==
    /\ arStore.records \subseteq ArAccounts
    /\ arStore.creds \in [ArAccounts -> ArCredentials]
    /\ arStore.bound \in [ArProfiles -> ArAccounts \cup {Nobody}]
    /\ {arStore.queue, arStore.wakes, arStore.task} \subseteq SUBSET ArAccounts
    /\ DOMAIN arStore.pool \subseteq ArUrls
    /\ \A u \in DOMAIN arStore.pool : arStore.pool[u] \subseteq ArAccounts
    /\ DOMAIN arStore.live \subseteq ArAccounts
    /\ arRaced \subseteq ArAccounts

\* Once delete_local_account(s) has removed a record, no store keeps anything of
\* the account, whichever step failed or crashed before: no credential, no
\* signed-in profile, no queue entry, wake, automation or proxy assignment, and
\* no candidate.  (Exception: a token refresh that was awaiting the provider
\* writes the credential back.)
RemovedIsGone ==
    arJob = ArIdle =>
      \A a \in ArAccounts \ (arStore.records \cup arRaced) :
        /\ arStore.creds[a] = NoCredential
        /\ \A p \in ArProfiles : arStore.bound[p] # a
        /\ a \notin arStore.queue \cup arStore.wakes \cup arStore.task \cup DOMAIN arStore.live
        /\ Holding(arStore.pool, a) = {}

\* No profile stays signed in with an account whose credential is gone: such an
\* account could neither be deleted (prepare_delete_local_account asks for
\* recovery) nor be refreshed, also after a crash or a failed way back.
BoundHasCredential ==
    \A p \in ArProfiles :
      arStore.bound[p] # Nobody => arStore.creds[arStore.bound[p]].there

\* A deletion in which one step failed leaves every store as it was; only a
\* credential may meanwhile have been refreshed.
FailedDeleteUndone ==
    [][ (ArAt("end") /\ arJob' = ArIdle /\ arJob.hits = 1 /\ arRaced = {}
           /\ arJob.name \in {"delete_local_account", "delete_local_accounts"})
        => /\ arStore = [arJob.found EXCEPT !.creds = arStore.creds]
           /\ \A a \in ArAccounts :
                \/ arStore.creds[a] = arJob.found.creds[a]
                \/ /\ arStore.creds[a].there /\ arJob.found.creds[a].there
                   /\ arStore.creds[a].gen > arJob.found.creds[a].gen ]_arVars

\* After load_reconciled_pool the pool is what the credentials say, whatever a
\* crash between saving credentials and pool, or a refresh that overwrote a
\* route, left: an entry that is then free can be deleted, and each account is
\* held by the entry of its own address.
PoolFollowsCredentials ==
    \A u \in ArUrls :
      ((ArAt("import") \/ ArAt("drop") \/ ArAt("choose")) /\ u \in DOMAIN arStore.pool)
        => \A a \in arStore.records :
             a \notin (IF arRefresh.busy THEN {arRefresh.of} ELSE {}) \cup arRaced
               => (a \in arStore.pool[u] <=> u \in ProxyOf(arStore, a))

=============================================================================
