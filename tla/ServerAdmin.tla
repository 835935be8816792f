---------------------------- MODULE ServerAdmin ----------------------------
(***************************************************************************)
(* The management interface of the relay server: the handlers that change  *)
(* sources, accounts, pool membership, proxies, settings and presets, the  *)
(* account imports, and the background jobs that refresh accounts and      *)
(* probe sources.  Nothing serialises them: axum runs every request on its *)
(* own task, the jobs run beside them, and each of them is a sequence of   *)
(* separate calls on the SQLite store, on the secret vault and on the      *)
(* runtime.  A job below is such a sequence; the steps of two jobs         *)
(* interleave freely.                                                      *)
(*                                                                         *)
(* Almost every handler commits its change and then rebuilds the runtime   *)
(* from what is stored, undoing the change when the rebuild fails.  The    *)
(* rebuild itself is four steps: it reads the sources, reads the accounts, *)
(* builds candidates from the secrets of what it read (awaiting the token  *)
(* authority for every account) and replaces the runtime.                  *)
(***************************************************************************)
EXTENDS Integers, Sequences, FiniteSets

CONSTANTS
    AdmAccounts,   \* account ids
    AdmSources,    \* API source ids
    AdmSessions,   \* import sessions
    AdmScenes,     \* sets of operations; a behaviour issues those of one set
    AdmMaxOps,     \* requests and job rounds issued
    AdmMaxFaults   \* failing store, vault or build calls

VARIABLES
    adm,           \* what is stored, and the runtime
    admJob,        \* the two requests or jobs in flight
    admScene,      \* the operations of this behaviour
    admOps,
    admFaults,
    admMark        \* what went wrong so far (history only)

admVars == <<adm, admJob, admScene, admOps, admFaults, admMark>>

AdmIds  == AdmAccounts \cup AdmSources
AdmRefs == AdmIds \cup AdmSessions
AdmSlots == {1, 2}

----------------------------------------------------------------------------
(* State *)

\* SourceRecord and ServerAccountRecord: enabled and not draining, pool
\* membership, the vault reference of the secret, and an account's route.
AdmRoutes == {"own", "common", "direct"}
AdmRecords == [there : BOOLEAN, on : BOOLEAN, pool : BOOLEAN, ref : AdmRefs, route : AdmRoutes]
AdmLiveFields == {"hide", "policy", "tier", "flag"}
AdmFields == AdmLiveFields \cup {"gw", "req", "common"}
AdmRuntimes == [up : BOOLEAN, has : SUBSET AdmIds, on : SUBSET AdmIds, scope : SUBSET AdmIds,
                key : [AdmSources -> 0..2], set : [AdmLiveFields -> BOOLEAN]]
AdmPending == [there : BOOLEAN, acct : AdmAccounts, old : BOOLEAN]

AdmNoRuntime == [up |-> FALSE, has |-> {}, on |-> {}, scope |-> {},
                 key |-> [s \in AdmSources |-> 0], set |-> [f \in AdmLiveFields |-> FALSE]]

\* account_proxy_config: the account's own proxy, direct traffic unless an
\* account proxy is required, or the common proxy.
RouteUsable(r, set) ==
    \/ r.route = "own"
    \/ r.route = "common" /\ set.common
    \/ ~set.req

\* runtime_source and runtime_account: a candidate is active when its record
\* is; membership is part of an account's state, not of a source's.
CandidateActive(i, r) == r.on /\ (i \in AdmAccounts => r.pool)

\* build_sources and build_accounts: a candidate for every record whose
\* secret and route can be loaded.
BuiltCandidates(rec, vault, set) ==
    {i \in AdmIds : /\ rec[i].there
                    /\ vault[rec[i].ref] # 0
                    /\ i \in AdmAccounts => RouteUsable(rec[i], set)}

\* retain_active_pool_members: the scope of the internal keys.
PoolScope(rec, on) == {i \in on : rec[i].pool}

\* rebuild: a runtime from the records read, the secrets loaded for them and
\* the settings; none at all without an active candidate or a pool member.
BuiltRuntime(rec, read, vault, set) ==
    LET has == BuiltCandidates(rec, vault, set)
        on  == {i \in has : CandidateActive(i, rec[i])}
    IN  IF PoolScope(rec, on) = {} THEN AdmNoRuntime
        ELSE [up |-> TRUE, has |-> has, on |-> on, scope |-> PoolScope(rec, on),
              key |-> [s \in AdmSources |-> IF s \in has THEN vault[rec[s].ref] ELSE 0],
              set |-> [f \in AdmLiveFields |-> read[f]]]

\* What a request can reach, and how.
AdmServed(run) ==
    [ids |-> run.scope \cap run.on \cap run.has,
     key |-> [s \in AdmSources |-> IF s \in run.scope \cap run.on THEN run.key[s] ELSE 0],
     set |-> IF run.scope \cap run.on = {} THEN AdmNoRuntime.set ELSE run.set]

\* A request or job: the object it is about, what it asks for, the record it
\* holds and the one it believes stored, the steps left, those that undo its
\* commit, those run when its save fails, and whether another job wrote to
\* the store or vault since it last read.
IdleJob == [op |-> "none", id |-> "none", want |-> "none", rec |-> <<>>, old |-> <<>>,
            key |-> 0, steps |-> <<>>, undo |-> <<>>, fix |-> <<>>, undoing |-> FALSE,
            late |-> FALSE, rb |-> <<>>]

AdmRebuild == <<"rb_sources", "rb_accounts", "rb_build", "rb_swap">>

AdmInit ==
    /\ admScene \in AdmScenes
    /\ \E there \in [AdmIds -> BOOLEAN], common \in BOOLEAN :
          LET rec == [i \in AdmIds |-> [there |-> there[i], on |-> TRUE, pool |-> TRUE,
                                        ref |-> i, route |-> "common"]]
              vault == [r \in AdmRefs |-> IF r \in AdmIds /\ there[r] THEN 1 ELSE 0]
              set == [f \in AdmFields |-> f = "gw" \/ (f = "common" /\ common)]
          IN  adm = [rec |-> rec, vault |-> vault, set |-> set,
                     imp |-> [i \in AdmSessions |-> [there |-> FALSE, acct |-> CHOOSE a \in AdmAccounts : TRUE,
                                                     old |-> FALSE]],
                     run |-> BuiltRuntime(rec, set, vault, set)]
    /\ admJob = [k \in AdmSlots |-> IdleJob]
    /\ admOps = 0
    /\ admFaults = 0
    /\ admMark = [lost |-> {}, overtaken |-> FALSE, broken |-> FALSE]

----------------------------------------------------------------------------
(* Running a job *)

AdmAt(k, step) == admJob[k].steps # <<>> /\ Head(admJob[k].steps) = step
AdmStep(j) == [j EXCEPT !.steps = Tail(@)]
AdmClose(j) == IF j.steps = <<>> THEN IdleJob ELSE j

\* A step of job k that leaves the world as it is.
AdmProceed(k, j) ==
    /\ admJob' = [admJob EXCEPT ![k] = AdmClose(j)]
    /\ UNCHANGED <<adm, admScene, admOps, admFaults>>

\* A step of job k that writes: the other job's reads are now out of date.
AdmCommit(k, w, j) ==
    /\ adm' = w
    /\ admJob' = [o \in AdmSlots |-> IF o = k THEN AdmClose(j)
                                     ELSE IF admJob[o].op = "none" THEN IdleJob
                                     ELSE [admJob[o] EXCEPT !.late = TRUE]]
    /\ UNCHANGED <<admScene, admOps, admFaults>>

\* rebuild_runtime_or_rollback and rollback_and_rebuild_runtime: the commit
\* is undone and the runtime rebuilt once more.
AdmRollBack(j) == IF j.undo = <<>> THEN [j EXCEPT !.steps = <<>>]
               ELSE [j EXCEPT !.steps = j.undo \o AdmRebuild, !.undo = <<>>, !.undoing = TRUE]

AdmIssue(k, op, id, want, steps, undo, fix) ==
    /\ op \in admScene
    /\ admJob[k].op = "none"
    /\ \A o \in AdmSlots : o < k => admJob[o].op # "none"
    /\ admOps < AdmMaxOps
    /\ admOps' = admOps + 1
    /\ admJob' = [admJob EXCEPT ![k] = [IdleJob EXCEPT !.op = op, !.id = id, !.want = want,
                                        !.steps = steps, !.undo = undo, !.fix = fix]]
    /\ UNCHANGED <<adm, admScene, admFaults, admMark>>

----------------------------------------------------------------------------
(* Requests about one record *)

AdmPatched(r, want) ==
    CASE want = "on"  -> [r EXCEPT !.on = TRUE]
      [] want = "off" -> [r EXCEPT !.on = FALSE]
      [] want = "in"  -> [r EXCEPT !.pool = TRUE]
      [] want = "out" -> [r EXCEPT !.pool = FALSE]
      [] want \in AdmRoutes -> [r EXCEPT !.route = want]
      [] OTHER -> r

AdmGone(i) == [there |-> FALSE, on |-> TRUE, pool |-> TRUE, ref |-> i, route |-> "common"]

\* Writing a record brings back a reference the store no longer had: the
\* record was deleted, or given another secret, after the job read it.
Resurrects(i, r) == ~adm.rec[i].there \/ adm.rec[i].ref # r.ref

UpdateAccount(k, a, want) ==
    AdmIssue(k, "update_account", a, want, <<"find", "save", "hot">>, <<"put_rec">>, <<>>)

SetAccountRoute(k, a, want) ==
    AdmIssue(k, "route_account", a, want, <<"find", "save">> \o AdmRebuild, <<"put_rec">>, <<>>)

\* assign_account_proxies: several whole records in one transaction.
AssignProxies(k, ids) ==
    AdmIssue(k, "assign", ids, "own", <<"batch_read", "batch_save">> \o AdmRebuild, <<"batch_back">>, <<>>)
BatchRead(k) ==
    LET j == admJob[k] IN
    /\ AdmAt(k, "batch_read")
    /\ AdmProceed(k, IF \A i \in j.id : adm.rec[i].there
                     THEN [AdmStep(j) EXCEPT !.old = [i \in j.id |-> adm.rec[i]],
                                             !.rec = [i \in j.id |-> AdmPatched(adm.rec[i], j.want)]]
                     ELSE IdleJob)
    /\ UNCHANGED admMark
BatchWrite(k) ==
    LET j == admJob[k]
        new == IF AdmAt(k, "batch_save") THEN j.rec ELSE j.old
    IN  /\ AdmAt(k, "batch_save") \/ AdmAt(k, "batch_back")
        /\ AdmCommit(k, [adm EXCEPT !.rec = [i \in AdmIds |-> IF i \in j.id THEN new[i] ELSE @[i]]],
                     AdmStep(j))
        /\ admMark' = [admMark EXCEPT !.lost = @ \cup {i \in j.id : Resurrects(i, new[i])}]

\* refresh_account_now and the background batch: the account is read, the
\* quota and the models are fetched, and after each the whole record is
\* saved; the rebuild that ends the round reports its failure to nobody.
RefreshAccount(k, a) ==
    AdmIssue(k, "refresh", a, "same", <<"find", "save", "save">> \o AdmRebuild, <<>>, <<>>)

\* delete_account, under the lock it shares with the wake automation.
DeleteServerAccount(k, a) ==
    /\ \A o \in AdmSlots : admJob[o].op # "delete_account"
    /\ AdmIssue(k, "delete_account", a, "same",
                <<"find", "drop_rec", "drop_key", "drop_cand">> \o AdmRebuild,
                <<"put_key", "put_rec">>, <<>>)

CreateUnkeyed(k, s) ==
    /\ ~adm.rec[s].there
    /\ AdmIssue(k, "create_source", s, "same", <<"save", "save_key">> \o AdmRebuild,
                <<"drop_rec", "drop_key">>, <<>>)
CreateServerSource(k, s) ==
    /\ ~adm.rec[s].there
    /\ \A o \in AdmSlots : admJob[o].id # s
    /\ AdmIssue(k, "create_source", s, "same", <<"save_key", "save">> \o AdmRebuild,
                <<"drop_rec", "drop_key">>, <<"unkey">>)

\* update_source without a new key changes the live policy; with one it
\* rebuilds.
UpdateServerSource(k, s, want) ==
    AdmIssue(k, "update_source", s, want, <<"find", "save", "hot">>,
             <<"put_rec", "put_key">>, <<"mend_key">>)
UpdateServerSourceKey(k, s) ==
    AdmIssue(k, "update_source", s, "same", <<"find", "save_key", "save">> \o AdmRebuild,
             <<"put_rec", "put_key">>, <<"mend_key">>)

DeleteServerSource(k, s) ==
    AdmIssue(k, "delete_source", s, "same", <<"find", "drop_rec", "drop_key">> \o AdmRebuild,
             <<"put_key", "put_rec">>, <<>>)

\* test_source asks the provider for its models between reading the record
\* and saving it; the health probe does the same for every enabled source.
TestServerSource(k, s) ==
    AdmIssue(k, "test_source", s, "same", <<"find", "save">> \o AdmRebuild, <<"put_rec">>, <<>>)
ProbeServerSource(k, s) ==
    AdmIssue(k, "probe", s, "same", <<"find", "save">> \o AdmRebuild, <<>>, <<>>)

AdmNeedsSecret == {"update_source", "delete_source", "test_source", "probe", "delete_account"}

\* find_account, find_source and the patch.
AdmFind(k) ==
    LET j == admJob[k]
        r == adm.rec[j.id]
        refused == \/ ~r.there
                   \/ j.op = "route_account" /\ r.route = j.want
                   \/ j.op \in AdmNeedsSecret /\ adm.vault[r.ref] = 0
                   \/ j.op = "probe" /\ ~r.on
    IN  /\ AdmAt(k, "find")
        /\ AdmProceed(k, IF refused THEN IdleJob
                         ELSE [AdmStep(j) EXCEPT !.old = r, !.rec = AdmPatched(r, j.want),
                                                 !.key = adm.vault[r.ref]])
        /\ UNCHANGED admMark

\* save_account and save_source write the whole record the job holds.
AdmSave(k) ==
    LET j == admJob[k]
        i == j.id
        fresh == [AdmGone(i) EXCEPT !.there = TRUE, !.pool = FALSE]
        r == IF j.op = "create_source" THEN fresh ELSE j.rec
    IN  /\ AdmAt(k, "save")
        /\ AdmCommit(k, [adm EXCEPT !.rec[i] = r], [AdmStep(j) EXCEPT !.rec = r, !.id = i])
        /\ admMark' = [admMark EXCEPT !.lost = IF j.op # "create_source" /\ Resurrects(i, r)
                                               THEN @ \cup {i} ELSE @]

\* The undo of an update writes the whole record found; that of a deletion
\* follows the secret's return.
AdmPutRecord(k) ==
    LET j == admJob[k] IN
    /\ AdmAt(k, "put_rec")
    /\ AdmCommit(k, [adm EXCEPT !.rec[j.id] = j.old], AdmStep(j))
    /\ admMark' = [admMark EXCEPT !.lost =
                      IF IF j.op \in {"delete_account", "delete_source"}
                         THEN j.late \/ \E o \in AdmSlots \ {k} : admJob[o].id = j.id
                         ELSE Resurrects(j.id, j.old)
                      THEN @ \cup {j.id} ELSE @]

AdmDropRecord(k) ==
    LET j == admJob[k] IN
    /\ AdmAt(k, "drop_rec")
    /\ AdmCommit(k, [adm EXCEPT !.rec[j.id] = AdmGone(j.id)], AdmStep(j))
    /\ admMark' = [admMark EXCEPT !.lost = @ \ {j.id}]

\* vault.save and vault.delete.
AdmJobRef(j) == IF j.op = "create_source" THEN j.id ELSE j.old.ref
AdmSaveKey(k) ==
    LET j == admJob[k] IN
    /\ AdmAt(k, "save_key")
    /\ AdmCommit(k, [adm EXCEPT !.vault[AdmJobRef(j)] = IF j.op = "create_source" THEN 1 ELSE 2],
                 AdmStep(j))
    /\ UNCHANGED admMark
AdmPutKey(k) ==
    LET j == admJob[k] IN
    /\ AdmAt(k, "put_key") \/ AdmAt(k, "mend_key")
    /\ AdmCommit(k, [adm EXCEPT !.vault[AdmJobRef(j)] = j.key], AdmStep(j))
    /\ admMark' = [admMark EXCEPT !.overtaken = \/ @ \/ j.late
                                                \/ AdmAt(k, "mend_key") /\ adm.run.key[j.id] # j.key]
AdmDropKey(k) ==
    LET j == admJob[k] IN
    /\ AdmAt(k, "drop_key") \/ AdmAt(k, "unkey")
    /\ AdmCommit(k, [adm EXCEPT !.vault[AdmJobRef(j)] = 0], AdmStep(j))
    /\ UNCHANGED admMark

\* token_authority.remove and runtime.remove_candidate.
AdmDropCandidate(k) ==
    LET j == admJob[k] IN
    /\ AdmAt(k, "drop_cand")
    /\ adm' = [adm EXCEPT !.run.has = @ \ {j.id}, !.run.on = @ \ {j.id}, !.run.scope = @ \ {j.id}]
    /\ admJob' = [admJob EXCEPT ![k] = AdmStep(j)]
    /\ UNCHANGED <<admScene, admOps, admFaults, admMark>>

----------------------------------------------------------------------------
(* The live policy and the rebuild *)

\* The records whose policy the job applies.
AdmChanged(j) ==
    IF j.op = "membership" THEN [i \in j.id \cap AdmAccounts |-> [j.old[i] EXCEPT !.pool = (j.want = "in")]]
    ELSE [i \in {j.id} |-> j.rec]

\* account_runtime_policy: a policy is enabled when the record is, and its
\* secret and route can be loaded.
PolicyEnabled(i, r) ==
    CandidateActive(i, r) /\ (i \in AdmAccounts => adm.vault[r.ref] # 0 /\ RouteUsable(r, adm.set))

InternalScope(on) == {i \in on : adm.rec[i].there /\ adm.rec[i].pool}

\* update_account changes nothing live when neither policy nor membership
\* changed.
NothingLive(j) ==
    j.op = "update_account" /\ j.rec.on = j.old.on /\ j.rec.pool = j.old.pool

\* apply_account_policies_if_running and apply_source_policies_if_running:
\* an enabled policy without a candidate needs a rebuild; otherwise the
\* candidates are updated first and the scope of the internal keys is then
\* taken from the store.
ApplyLive(k) ==
    LET j  == admJob[k]
        ch == AdmChanged(j)
        missing == {i \in DOMAIN ch : i \notin adm.run.has
                                      /\ (i \in AdmAccounts => PolicyEnabled(i, ch[i]))}
        on == (adm.run.on \ DOMAIN ch) \cup {i \in DOMAIN ch : PolicyEnabled(i, ch[i])}
        live == [adm.run EXCEPT !.on = on,
                                !.scope = InternalScope(on)]
        rest == [AdmStep(j) EXCEPT !.steps = AdmRebuild]
    IN  /\ AdmAt(k, "hot")
        /\ \/ /\ NothingLive(j) \/ (~adm.run.up /\ ~adm.set.gw)
              /\ AdmProceed(k, AdmStep(j))
              /\ admMark' = [admMark EXCEPT !.overtaken = @ \/ j.late]
           \/ /\ ~NothingLive(j)
              /\ IF adm.run.up THEN missing # {} ELSE adm.set.gw
              /\ AdmProceed(k, rest)
              /\ UNCHANGED admMark
           \/ /\ ~NothingLive(j) /\ adm.run.up /\ missing = {}
              /\ adm' = [adm EXCEPT !.run = live]
              /\ admJob' = [admJob EXCEPT ![k] = AdmClose(AdmStep(j))]
              /\ admMark' = [admMark EXCEPT !.overtaken = @ \/ j.late]
              /\ UNCHANGED <<admScene, admOps, admFaults>>

\* rebuild reads the sources, then the accounts and the settings.
RebuildReadSources(k) ==
    /\ AdmAt(k, "rb_sources")
    /\ AdmProceed(k, [AdmStep(admJob[k]) EXCEPT
                        !.rb = [rec |-> adm.rec, set |-> adm.set, run |-> AdmNoRuntime],
                        !.late = FALSE])
    /\ UNCHANGED admMark
RebuildReadAccounts(k) ==
    /\ AdmAt(k, "rb_accounts")
    /\ AdmProceed(k, [AdmStep(admJob[k]) EXCEPT
                        !.rb.rec = [i \in AdmIds |-> IF i \in AdmAccounts THEN adm.rec[i] ELSE @[i]],
                        !.rb.set = adm.set])
    /\ UNCHANGED admMark

\* The candidates: secrets are loaded and proxies resolved for each.
RebuildCandidates(k) ==
    LET rb == admJob[k].rb IN
    /\ AdmAt(k, "rb_build")
    /\ AdmProceed(k, [AdmStep(admJob[k]) EXCEPT
                        !.rb.run = BuiltRuntime(rb.rec, rb.set, adm.vault, adm.set)])
    /\ UNCHANGED admMark

\* replace_runtime: the runtime of whoever comes last stays.
RebuildSwap(k) ==
    LET j == admJob[k] IN
    /\ AdmAt(k, "rb_swap")
    /\ adm' = [adm EXCEPT !.run = j.rb.run]
    /\ admJob' = [admJob EXCEPT ![k] = AdmClose([AdmStep(j) EXCEPT !.rb = <<>>])]
    /\ admMark' = [admMark EXCEPT !.overtaken = j.late]
    /\ UNCHANGED <<admScene, admOps, admFaults>>

----------------------------------------------------------------------------
(* Membership, settings and presets *)

SetPoolMembership(k, ids, want) ==
    AdmIssue(k, "membership", ids, want, <<"pool_read", "pool_write", "hot">>, <<"pool_back">>, <<>>)

\* set_pool_membership reads every account and source and refuses a request
\* that names one it does not know.
PoolRead(k) ==
    LET j == admJob[k] IN
    /\ AdmAt(k, "pool_read")
    /\ AdmProceed(k, IF \A i \in j.id : adm.rec[i].there
                     THEN [AdmStep(j) EXCEPT !.old = [i \in j.id |-> adm.rec[i]]] ELSE IdleJob)
    /\ UNCHANGED admMark

\* store.set_pool_membership: one transaction on the membership flags.
PoolWrite(k) ==
    LET j == admJob[k] IN
    /\ AdmAt(k, "pool_write")
    /\ IF \A i \in j.id : adm.rec[i].there
       THEN AdmCommit(k, [adm EXCEPT !.rec = [i \in AdmIds |-> IF i \in j.id
                            THEN [@[i] EXCEPT !.pool = (j.want = "in")] ELSE @[i]]], AdmStep(j))
       ELSE AdmProceed(k, IdleJob)
    /\ UNCHANGED admMark
PoolBack(k) ==
    LET j == admJob[k]
        can == \A i \in j.id : adm.rec[i].there
    IN  /\ AdmAt(k, "pool_back")
        /\ IF can
           THEN AdmCommit(k, [adm EXCEPT !.rec = [i \in AdmIds |-> IF i \in j.id
                                THEN [@[i] EXCEPT !.pool = j.old[i].pool] ELSE @[i]]], AdmStep(j))
           ELSE AdmProceed(k, IdleJob)
        /\ admMark' = [admMark EXCEPT !.broken = @ \/ ~can]

\* start_gateway, set_common_proxy, set_account_proxy_required,
\* set_routing_policy and set_model_enabled: store, rebuild, put back.
ChangeSetting(k, field, want) ==
    AdmIssue(k, "setting", field, want, <<"set_read", "set_write">> \o AdmRebuild, <<"set_back">>, <<>>)
StartServerGateway(k) == ChangeSetting(k, "gw", "yes")
SetServerCommonProxy(k, want) == ChangeSetting(k, "common", want)
SetProxyRequired(k, want) == ChangeSetting(k, "req", want)
SetServerRoutingPolicy(k, want) == ChangeSetting(k, "policy", want)
SetServerModelEnabled(k, want) == ChangeSetting(k, "hide", want)
StopServerGateway(k) == AdmIssue(k, "stop", "gw", "no", <<"set_write">>, <<>>, <<>>)

\* Model tiers, order and reasoning: store, then tell the runtime, and put
\* the store back when the runtime refuses.
SetServerModelTier(k, want) ==
    AdmIssue(k, "live_setting", "tier", want, <<"set_read", "set_write", "set_live">>, <<>>, <<"set_back">>)
\* Background tasks and WebSockets: put both back when no snapshot can be
\* taken of the result.
SetServerFlag(k, want) ==
    AdmIssue(k, "live_setting", "flag", want,
             <<"set_read", "set_write", "set_live", "snapshot">>, <<>>, <<"set_back", "live_back">>)

\* An unchanged value ends the request, except that an unchanged common
\* proxy rebuilds and some settings are simply written again.
SetRead(k) ==
    LET j == admJob[k]
        same == adm.set[j.id] = (j.want = "yes")
    IN  /\ AdmAt(k, "set_read")
        /\ AdmProceed(k, IF same /\ j.id \in {"req", "hide", "tier"} THEN IdleJob
                         ELSE IF same /\ j.id = "common" THEN [j EXCEPT !.steps = AdmRebuild, !.undo = <<>>]
                         ELSE [AdmStep(j) EXCEPT !.old = adm.set])
        /\ UNCHANGED admMark
SetWrite(k) ==
    LET j == admJob[k] IN
    /\ AdmAt(k, "set_write")
    /\ AdmCommit(k, [adm EXCEPT !.set[j.id] = (j.want = "yes")], AdmStep(j))
    /\ UNCHANGED admMark
SetBack(k) ==
    LET j == admJob[k] IN
    /\ AdmAt(k, "set_back")
    /\ AdmCommit(k, [adm EXCEPT !.set[j.id] = j.old[j.id]], AdmStep(j))
    /\ admMark' = [admMark EXCEPT !.overtaken = \/ @ \/ j.late
                                                \/ \E f \in AdmLiveFields : adm.run.set[f] # j.old[f]]
SetLive(k) ==
    LET j == admJob[k]
        v == IF AdmAt(k, "live_back") THEN j.old[j.id] ELSE j.want = "yes"
    IN
    /\ AdmAt(k, "set_live") \/ AdmAt(k, "live_back")
    /\ adm' = [adm EXCEPT !.run.set[j.id] = IF adm.run.up THEN v ELSE @]
    /\ admJob' = [admJob EXCEPT ![k] = AdmClose(AdmStep(j))]
    /\ admMark' = [admMark EXCEPT !.overtaken = @ \/ j.late]
    /\ UNCHANGED <<admScene, admOps, admFaults>>

\* The snapshot a request answers with.
TakeSnapshot(k) ==
    /\ AdmAt(k, "snapshot")
    /\ AdmProceed(k, AdmStep(admJob[k]))
    /\ UNCHANGED admMark

\* configuration_settings: the rules of every object and the settings, of
\* which configuration_revision is the digest.
ConfigOf(w) ==
    [rec |-> [i \in AdmIds |-> [there |-> w.rec[i].there, on |-> w.rec[i].on,
                                pool |-> w.rec[i].pool, route |-> w.rec[i].route]],
     set |-> [f \in AdmFields \ {"gw"} |-> w.set[f]]]

\* write_configuration: the rule fields of the objects that exist, which must
\* be the objects the rules name.
Writable(w, c) == \A i \in AdmIds : w.rec[i].there = c.rec[i].there
WithConfig(w, c) ==
    [w EXCEPT !.rec = [i \in AdmIds |-> IF c.rec[i].there
                         THEN [@[i] EXCEPT !.on = c.rec[i].on, !.pool = c.rec[i].pool,
                                           !.route = c.rec[i].route] ELSE @[i]],
              !.set = [f \in AdmFields |-> IF f = "gw" THEN @[f] ELSE c.set[f]]]

\* A preset is previewed (a request of its own), checked and applied.
ApplyPreset(k, want) ==
    AdmIssue(k, "preset", "all", want, <<"preset_see", "preset_check", "preset_swap">> \o AdmRebuild,
             <<"preset_back">>, <<>>)

PresetSee(k) ==
    /\ AdmAt(k, "preset_see")
    /\ AdmProceed(k, [AdmStep(admJob[k]) EXCEPT !.old = ConfigOf(adm)])
    /\ UNCHANGED admMark

\* validate_references: every object the preset names has its secret;
\* resolve_references and merge_settings: what the preset makes of them.
PresetUsable == \A i \in AdmIds : adm.rec[i].there => adm.vault[adm.rec[i].ref] # 0
PresetTarget(now, want) ==
    [now EXCEPT !.rec = [i \in AdmIds |-> IF now.rec[i].there THEN AdmPatched(@[i], want) ELSE @[i]]]

\* apply, under configuration_lock, up to the replacement.
PresetCheck(k) ==
    LET j == admJob[k]
        now == ConfigOf(adm)
    IN  /\ AdmAt(k, "preset_check")
        /\ \A o \in AdmSlots \ {k} : admJob[o].op = "preset" =>
              AdmAt(o, "preset_see") \/ AdmAt(o, "preset_check")
        /\ AdmProceed(k, IF PresetUsable /\ now = j.old
                         THEN [AdmStep(j) EXCEPT !.rec = PresetTarget(now, j.want)] ELSE IdleJob)
        /\ UNCHANGED admMark

PresetSwapUnchecked(k) ==
    LET j == admJob[k] IN
    /\ AdmAt(k, "preset_swap")
    /\ IF Writable(adm, j.rec) THEN AdmCommit(k, WithConfig(adm, j.rec), AdmStep(j))
       ELSE AdmProceed(k, IdleJob)
    /\ UNCHANGED admMark

\* replace_configuration_if_revision compares the revision and writes in one
\* transaction.
PresetSwap(k) ==
    LET j == admJob[k] IN
    /\ AdmAt(k, "preset_swap")
    /\ IF ConfigOf(adm) = j.old THEN AdmCommit(k, WithConfig(adm, j.rec), AdmStep(j))
       ELSE AdmProceed(k, IdleJob)
    /\ UNCHANGED admMark

\* restore_configuration writes the previous rules over whatever is there.
PresetBack(k) ==
    LET j == admJob[k]
        can == Writable(adm, j.old)
    IN  /\ AdmAt(k, "preset_back")
        /\ IF can THEN AdmCommit(k, WithConfig(adm, j.old), AdmStep(j)) ELSE AdmProceed(k, IdleJob)
        /\ admMark' = [admMark EXCEPT !.broken = @ \/ ~can]

----------------------------------------------------------------------------
(* Imports *)

\* prepare_account_import saves the secret under a fresh reference, then the
\* pending import that names it.
PreviewImport(k, i, a) ==
    /\ ~adm.imp[i].there /\ adm.vault[i] = 0
    /\ \A o \in AdmSlots : admJob[o].id # i
    /\ \A b \in AdmAccounts : adm.rec[b].ref # i
    /\ ~adm.imp[i].old
    /\ AdmIssue(k, "preview", i, a, <<"imp_key", "imp_save">>, <<>>, <<"imp_unkey">>)

ConfirmImport(k, i) ==
    AdmIssue(k, "confirm", i, "same", <<"imp_find", "imp_take">> \o AdmRebuild \o <<"imp_clean">>,
             <<>>, <<>>)
\* With the metadata probe: refresh_account_now with the record just written.
ConfirmImportProbed(k, i) ==
    AdmIssue(k, "confirm_probed", i, "same",
             <<"imp_find", "imp_take", "imp_refresh", "imp_refresh">> \o AdmRebuild \o <<"imp_clean">>,
             <<>>, <<>>)
\* cleanup_expired_imports and the retention job.
SweepImports(k) == AdmIssue(k, "sweep", "all", "same", <<"imp_sweep">>, <<>>, <<>>)

ImportSaveKey(k) ==
    LET j == admJob[k] IN
    /\ AdmAt(k, "imp_key")
    /\ AdmCommit(k, [adm EXCEPT !.vault[j.id] = 1], AdmStep(j))
    /\ UNCHANGED admMark
ImportSavePending(k) ==
    LET j == admJob[k] IN
    /\ AdmAt(k, "imp_save")
    /\ AdmCommit(k, [adm EXCEPT !.imp[j.id] = [there |-> TRUE, acct |-> j.want, old |-> FALSE]],
                 AdmStep(j))
    /\ UNCHANGED admMark
ImportExpires(i) ==
    /\ adm.imp[i].there /\ ~adm.imp[i].old
    /\ {"confirm", "sweep"} \subseteq admScene
    /\ adm' = [adm EXCEPT !.imp[i].old = TRUE]
    /\ UNCHANGED <<admJob, admScene, admOps, admFaults, admMark>>

\* The record an import writes: the rules of the account it replaces, and
\* the new secret.
ImportedRecord(a, i) == [adm.rec[a] EXCEPT !.there = TRUE, !.ref = i]

\* confirm_one_account_import: the pending import, its expiry, the account
\* it is for.
ImportFind(k) ==
    LET j == admJob[k]
        p == adm.imp[j.id]
    IN  /\ AdmAt(k, "imp_find")
        /\ AdmProceed(k, CASE ~p.there -> IdleJob
                           [] p.there /\ p.old -> [j EXCEPT !.steps = <<"imp_drop", "imp_unkey">>]
                           [] OTHER -> [AdmStep(j) EXCEPT
                                !.old = adm.rec[p.acct],
                                !.rec = ImportedRecord(p.acct, j.id),
                                !.want = p.acct])
        /\ UNCHANGED admMark

\* save_account_and_consume_pending_import: one transaction, refused when the
\* pending import is gone.
ImportTake(k) ==
    LET j == admJob[k] IN
    /\ AdmAt(k, "imp_take")
    /\ IF adm.imp[j.id].there
       THEN /\ AdmCommit(k, [adm EXCEPT !.rec[j.want] = j.rec, !.imp[j.id].there = FALSE,
                                        !.imp[j.id].old = TRUE], AdmStep(j))
            /\ admMark' = [admMark EXCEPT !.lost = @ \ {j.want}]
       ELSE AdmProceed(k, IdleJob) /\ UNCHANGED admMark
ImportRefresh(k) ==
    LET j == admJob[k] IN
    /\ AdmAt(k, "imp_refresh") \/ AdmAt(k, "imp_mark")
    /\ AdmCommit(k, [adm EXCEPT !.rec[j.want] = j.rec], AdmStep(j))
    /\ admMark' = [admMark EXCEPT !.lost = IF Resurrects(j.want, j.rec) THEN @ \cup {j.want} ELSE @]

\* The previous secret goes once the record names the new one.
ImportClean(k) ==
    LET j == admJob[k] IN
    /\ AdmAt(k, "imp_clean")
    /\ IF j.old.there /\ j.old.ref # j.id
       THEN AdmCommit(k, [adm EXCEPT !.vault[j.old.ref] = 0], AdmStep(j))
       ELSE AdmProceed(k, AdmStep(j))
    /\ UNCHANGED admMark

ImportDrop(k) ==
    LET j == admJob[k] IN
    /\ AdmAt(k, "imp_drop")
    /\ AdmCommit(k, [adm EXCEPT !.imp[j.id].there = FALSE], AdmStep(j))
    /\ UNCHANGED admMark
UsersOf(ref) == {a \in AdmAccounts : adm.rec[a].there /\ adm.rec[a].ref = ref}
ImportDropKey(k) ==
    LET j == admJob[k] IN
    /\ AdmAt(k, "imp_unkey")
    /\ AdmCommit(k, [adm EXCEPT !.vault[j.id] = 0], AdmStep(j))
    /\ admMark' = [admMark EXCEPT !.lost = @ \cup UsersOf(j.id)]

\* delete_pending_imports_before returns the references it deleted in one
\* transaction; their secrets follow.
ImportSweep(k) ==
    LET j == admJob[k]
        dead == {i \in AdmSessions : adm.imp[i].there /\ adm.imp[i].old}
    IN  \/ /\ AdmAt(k, "imp_sweep")
           /\ AdmCommit(k, [adm EXCEPT !.imp = [i \in AdmSessions |->
                              IF i \in dead THEN [@[i] EXCEPT !.there = FALSE] ELSE @[i]]],
                        [AdmStep(j) EXCEPT !.steps = IF dead = {} THEN <<>> ELSE <<"imp_unkeys">>,
                                           !.rec = dead])
           /\ UNCHANGED admMark
        \/ /\ AdmAt(k, "imp_unkeys")
           /\ AdmCommit(k, [adm EXCEPT !.vault = [r \in AdmRefs |-> IF r \in j.rec THEN 0 ELSE @[r]]],
                        AdmStep(j))
           /\ UNCHANGED admMark

----------------------------------------------------------------------------
(* Failures *)

AdmLiveSteps == {"hot", "rb_sources", "rb_accounts", "rb_build"}
AdmQuietSteps == {"unkey", "mend_key", "imp_drop", "imp_unkey", "imp_unkeys", "imp_clean", "imp_mark"}
AdmSureSteps == {"rb_swap", "drop_cand", "live_back"}

\* What a failing call makes of the job: nothing left to do, the repair of a
\* failed save, the undo of the commit, or the next step when the code drops
\* the error.
AfterFault(j) ==
    LET step == Head(j.steps) IN
    CASE step \in AdmQuietSteps -> AdmStep(j)
      [] step \in AdmLiveSteps /\ j.op = "confirm" -> [j EXCEPT !.steps = <<"imp_mark", "imp_clean">>]
      [] step \in AdmLiveSteps /\ j.op = "confirm_probed" -> [j EXCEPT !.steps = <<"imp_clean">>]
      [] step = "imp_refresh" -> [j EXCEPT !.steps = <<"imp_mark", "imp_clean">>]
      [] step \in AdmLiveSteps /\ ~j.undoing -> AdmRollBack(j)
      [] step \in {"save", "imp_save", "set_live", "snapshot"} -> [j EXCEPT !.steps = j.fix]
      [] OTHER -> IdleJob

\* The failures after which what is stored and what runs may differ: one
\* while undoing, a secret that is not deleted, or not put back, after its
\* record changed, a rebuild nobody undoes, and an import whose metadata
\* refresh fails before it rebuilds.
LeavesMismatch(j) ==
    LET step == Head(j.steps) IN
    \/ j.undoing
    \/ step \in {"drop_key", "mend_key", "imp_refresh"}
    \/ step \in AdmLiveSteps /\ j.undo = <<>>

AdmFault(k) ==
    LET j == admJob[k] IN
    /\ admFaults < AdmMaxFaults
    /\ j.steps # <<>>
    /\ Head(j.steps) \notin AdmSureSteps
    /\ ~(AdmAt(k, "hot") /\ NothingLive(j))
    /\ admJob' = [admJob EXCEPT ![k] = AdmClose(AfterFault(j))]
    /\ admFaults' = admFaults + 1
    /\ admMark' = [admMark EXCEPT !.broken = @ \/ LeavesMismatch(j), !.overtaken = @ \/ j.late]
    /\ UNCHANGED <<adm, admScene, admOps>>

\* The process ends and starts again: the runtime is built from the store.
AdmCrash ==
    /\ admFaults < AdmMaxFaults
    /\ \E k \in AdmSlots : admJob[k].op # "none"
    /\ adm' = [adm EXCEPT !.run = BuiltRuntime(adm.rec, adm.set, adm.vault, adm.set)]
    /\ admJob' = [k \in AdmSlots |-> IdleJob]
    /\ admFaults' = admFaults + 1
    /\ admMark' = [admMark EXCEPT !.overtaken = FALSE, !.broken = FALSE]
    /\ UNCHANGED <<admScene, admOps>>

----------------------------------------------------------------------------
(* Specification *)

AdmRequest(k) ==
    \/ \E a \in AdmAccounts : \/ \E want \in {"on", "off", "in", "out"} : UpdateAccount(k, a, want)
                              \/ \E want \in AdmRoutes : SetAccountRoute(k, a, want)
                              \/ RefreshAccount(k, a)
                              \/ DeleteServerAccount(k, a)
    \/ \E s \in AdmSources : \/ CreateServerSource(k, s)
                             \/ \E want \in {"on", "off", "in", "out"} : UpdateServerSource(k, s, want)
                             \/ UpdateServerSourceKey(k, s)
                             \/ DeleteServerSource(k, s)
                             \/ TestServerSource(k, s)
                             \/ ProbeServerSource(k, s)
    \/ \E ids \in SUBSET AdmIds, want \in {"in", "out"} :
          ids # {} /\ SetPoolMembership(k, ids, want)
    \/ \E ids \in (SUBSET AdmAccounts) \ {{}} : AssignProxies(k, ids)
    \/ \E want \in {"yes", "no"} :
          \/ SetServerCommonProxy(k, want) \/ SetProxyRequired(k, want)
          \/ SetServerRoutingPolicy(k, want) \/ SetServerModelEnabled(k, want)
          \/ SetServerModelTier(k, want) \/ SetServerFlag(k, want)
    \/ StartServerGateway(k) \/ StopServerGateway(k)
    \/ \E want \in {"on", "off"} : ApplyPreset(k, want)
    \/ \E i \in AdmSessions : \/ \E a \in AdmAccounts : PreviewImport(k, i, a)
                              \/ ConfirmImport(k, i)
                              \/ ConfirmImportProbed(k, i)
    \/ SweepImports(k)

AdmRecordStep(k) ==
    \/ BatchRead(k) \/ BatchWrite(k)
    \/ AdmFind(k) \/ AdmSave(k) \/ AdmPutRecord(k) \/ AdmDropRecord(k)
    \/ AdmSaveKey(k) \/ AdmPutKey(k) \/ AdmDropKey(k) \/ AdmDropCandidate(k)
AdmLiveStep(k) ==
    \/ ApplyLive(k) \/ RebuildReadSources(k) \/ RebuildReadAccounts(k)
    \/ RebuildCandidates(k) \/ RebuildSwap(k)
AdmSettingStep(k) ==
    \/ PoolRead(k) \/ PoolWrite(k) \/ PoolBack(k)
    \/ SetRead(k) \/ SetWrite(k) \/ SetBack(k) \/ SetLive(k) \/ TakeSnapshot(k)
    \/ PresetSee(k) \/ PresetCheck(k) \/ PresetSwap(k) \/ PresetBack(k)
AdmImportStep(k) ==
    \/ ImportSaveKey(k) \/ ImportSavePending(k) \/ ImportFind(k) \/ ImportTake(k)
    \/ ImportRefresh(k) \/ ImportClean(k) \/ ImportDrop(k) \/ ImportDropKey(k) \/ ImportSweep(k)

AdmNext ==
    \/ \E k \in AdmSlots : \/ AdmRequest(k) \/ AdmRecordStep(k) \/ AdmLiveStep(k)
                           \/ AdmSettingStep(k) \/ AdmImportStep(k) \/ AdmFault(k)
    \/ \E i \in AdmSessions : ImportExpires(i)
    \/ AdmCrash

AdmSpec == AdmInit /\ [][AdmNext]_admVars

----------------------------------------------------------------------------
(* Properties *)

\* Every component of the store, of the runtime and of the marks has its type.
AdmTypeOK ==
    /\ adm.rec \in [AdmIds -> AdmRecords]
    /\ adm.vault \in [AdmRefs -> 0..2]
    /\ adm.set \in [AdmFields -> BOOLEAN]
    /\ adm.imp \in [AdmSessions -> AdmPending]
    /\ adm.run \in AdmRuntimes
    /\ admMark.lost \subseteq AdmIds
    /\ admOps \in 0..AdmMaxOps /\ admFaults \in 0..AdmMaxFaults

\* Once every request has been answered, an enabled gateway serves exactly
\* what is stored - the enabled pool members, their keys, the model settings -
\* although hot updates, rebuilds and undos of different requests interleave.
\* Excepted are the two cases in which the code loses track: a rebuild or live
\* update that finished on reads another request had overtaken, and an undo
\* that itself failed.
RuntimeIsCurrent ==
    (/\ \A k \in AdmSlots : admJob[k].op = "none"
     /\ adm.set.gw /\ ~admMark.overtaken /\ ~admMark.broken)
    => AdmServed(adm.run) = AdmServed(BuiltRuntime(adm.rec, adm.set, adm.vault, adm.set))

\* A stored account or source always has its secret: creations save the
\* secret first, deletions remove the record first, an import replaces the
\* reference before the old secret goes, and a crash may fall between any two
\* of these calls.  Excepted are records a stale whole-record write brought
\* back, and an import confirmed while another request found it expired.
RecordHasSecret ==
    \A i \in AdmIds : adm.rec[i].there /\ i \notin admMark.lost => adm.vault[adm.rec[i].ref] # 0

\* A preset replaces only the configuration it was previewed against.
PresetKeepsNewer ==
    [][\A k \in AdmSlots : PresetSwap(k) /\ adm' # adm
          => ConfigOf(adm) = admJob[k].old]_admVars

\* "so background observations cannot overwrite an operator's concurrent
\* configuration" (store/records.rs, update_account): what a background
\* refresh or probe saves leaves the stored configuration as it is.
BackgroundKeepsConfig ==
    [][\A k \in AdmSlots : admJob[k].op \in {"refresh", "probe"} /\ AdmSave(k)
          => ConfigOf(adm) = ConfigOf(adm)']_admVars
=============================================================================
