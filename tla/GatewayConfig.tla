---------------------------- MODULE GatewayConfig ----------------------------
(* The desktop's configuration commands.  Every command runs alone, under the *)
(* setup guard: it writes a secret, writes the record store, and then brings  *)
(* the running gateway to the new configuration, in place where the live      *)
(* runtime can take the change and otherwise by building a new runtime,       *)
(* stopping the listener and starting it again.  When that fails the command  *)
(* puts back what it wrote; when putting back fails too the gateway is        *)
(* stopped and disabled ("fail closed").  Outside the guard run the usage     *)
(* writer, which updates account records, and the probe of a source's models. *)
(*                                                                            *)
(* A configuration value is the number of the command that wrote it.  What a  *)
(* command still has to do is a sequence of steps; a fault replaces the rest  *)
(* of the sequence by the command's way back.                                 *)
EXTENDS Integers, Sequences, FiniteSets

CONSTANTS GcSources,      \* API sources
          GcAccounts,     \* accounts of the local pool
          GcUnsigned,     \* accounts without a stored credential
          GcMaxOps,       \* commands run
          GcMaxFaults     \* failing steps and crashes

ASSUME GcUnsignedAreAccounts == GcUnsigned \subseteq GcAccounts

VARIABLES gcStore,    \* the record store: sources, accounts, settings, keys
          gcSecrets,  \* the secret store: source keys, gateway key, user key, proxy
          gcProfile,  \* what the Codex profile carries: service tier, websockets
          gcRun,      \* what the running gateway embodies, or Off
          gcJob,      \* the command under the setup guard
          gcProbe,    \* a probe of a source's models, awaiting the upstream
          gcOps, gcFaults,
          gcDrift     \* ghost: members whose live policy outlived a rollback

gcVars == <<gcStore, gcSecrets, gcProfile, gcRun, gcJob, gcProbe, gcOps, gcFaults, gcDrift>>

Off == [up |-> FALSE]
NoRecord == [there |-> FALSE]
NoJob == [name |-> "none"]
NoProbe == [busy |-> FALSE]
Missing == 0

GcMembers == GcSources \cup GcAccounts

\* A source record: what its executor is built from, and what can change live.
SourceRecord(route, on, pool, rules) ==
    [there |-> TRUE, route |-> route, on |-> on, pool |-> pool, rules |-> rules]

Stored(s) == gcStore.sources[s].there
Signed(a) == gcStore.accounts[a].there
Running == gcRun.up

----------------------------------------------------------------------------
(* The runtime *)

\* An account serves when it is enabled, in the pool and signed in.
AccountServes(a) == a.on /\ a.pool /\ a.login

\* The members the managed key is configured with, available or not.
PoolMemberIds(store) ==
    {s \in GcSources : store.sources[s].there /\ store.sources[s].pool}
        \cup {a \in GcAccounts : store.accounts[a].there /\ store.accounts[a].pool}

LiveSource(store, secrets, s) ==
    IF store.sources[s].there /\ secrets.source[s] # Missing
    THEN [there |-> TRUE, route |-> store.sources[s].route, key |-> secrets.source[s],
          on |-> store.sources[s].on, rules |-> store.sources[s].rules]
    ELSE NoRecord

LiveAccount(store, a) ==
    IF store.accounts[a].there /\ a \notin GcUnsigned
    THEN [there |-> TRUE, on |-> AccountServes(store.accounts[a]), rules |-> store.accounts[a].rules]
    ELSE NoRecord

\* runtime_from_store: every source with a key, every account with a
\* credential; the key is scoped to the configured members.
RuntimeFromStore(store, secrets) ==
    [up |-> TRUE,
     sources |-> [s \in GcSources |-> LiveSource(store, secrets, s)],
     accounts |-> [a \in GcAccounts |-> LiveAccount(store, a)],
     scope |-> PoolMemberIds(store),
     key |-> secrets.gateway, proxy |-> secrets.proxy,
     cold |-> store.settings.cold, flags |-> store.settings.flags,
     tier |-> store.settings.tier, sockets |-> store.settings.sockets]

\* active_pool_scope: the configured members that are live and enabled.
ActivePoolScope(run, store) ==
    {s \in PoolMemberIds(store) \cap GcSources : run.sources[s].there /\ run.sources[s].on}
        \cup {a \in PoolMemberIds(store) \cap GcAccounts :
                run.accounts[a].there /\ run.accounts[a].on}

\* Sources whose live policy differs between two lists of records.
ChangedPolicies(old, new) ==
    {s \in GcSources : /\ new[s].there
                       /\ old[s].there => <<old[s].on, old[s].rules>> # <<new[s].on, new[s].rules>>}

\* update_source_policies: all the updates, or none when a source is not live.
TakesPolicies(run, changed) == \A s \in changed : run.sources[s].there

WithPolicies(run, store, changed) ==
    [run EXCEPT !.sources = [s \in GcSources |->
        IF s \in changed THEN [run.sources[s] EXCEPT !.on = store.sources[s].on,
                                                     !.rules = store.sources[s].rules]
                         ELSE run.sources[s]]]

WithAccounts(run, store, accounts) ==
    [run EXCEPT !.accounts = [a \in GcAccounts |->
        IF a \in accounts THEN LiveAccount(store, a) ELSE run.accounts[a]]]

WithScope(run, store) == [run EXCEPT !.scope = ActivePoolScope(run, store)]

----------------------------------------------------------------------------
(* A command: what it writes, the steps it takes, and the way back *)

Do(step) == [do |-> step, of |-> {}]
Restore(parts) == [do |-> "restore", of |-> parts]
GcPutBack(parts) == [do |-> "put back", of |-> parts]
Reinstate(parts) == [do |-> "reinstate", of |-> parts]

\* The command ends with an error of this kind.
Ending(kind) == [do |-> "fail", of |-> {kind}]

Fresh == gcOps + 1

\* "parts" are the lists its store write replaces, "undo" the writes of the
\* closure it hands to restart_or_rollback, "unwrite" what it does when its
\* store write fails, "after" what it does once the restart has failed.
Command(name, store, parts, steps, undo) ==
    [name |-> name, next |-> store, parts |-> parts, steps |-> steps, undo |-> undo,
     unwrite |-> <<>>, after |-> <<>>, secrets |-> gcSecrets, changed |-> {}, source |-> "none",
     old |-> gcStore, before |-> gcStore, kept |-> gcSecrets, profile |-> gcProfile,
     ran |-> Running, touched |-> {}, hits |-> 0, error |-> "failed", result |-> "none"]

Records == {"sources", "keys"}
Accounts == {"accounts", "keys"}
PoolLists == {"sources", "accounts", "keys"}
Settings == {"settings"}

WithSource(s, rec) == [gcStore EXCEPT !.sources[s] = rec]
WithAccount(a, rec) == [gcStore EXCEPT !.accounts[a] = rec]
WithSetting(field) == [gcStore EXCEPT !.settings[field] = Fresh]

Issue(job) ==
    /\ gcJob = NoJob
    /\ gcOps < GcMaxOps
    /\ gcOps' = Fresh
    /\ gcJob' = job
    /\ UNCHANGED <<gcStore, gcSecrets, gcProfile, gcRun, gcProbe, gcFaults, gcDrift>>

\* A source whose record is stored before its key.
CreateRecordFirst == <<Do("write"), Do("secret"), Do("sync")>>

SourceCreationSteps == <<Do("secret"), Do("write"), Do("sync")>>

\* An identifier is drawn afresh, so nothing is kept under it.
CreateSource(s) ==
    /\ ~Stored(s) /\ gcSecrets.source[s] = Missing
    /\ Issue([Command("create_local_source", WithSource(s, SourceRecord(Fresh, TRUE, FALSE, Fresh)),
                      {"sources"}, SourceCreationSteps, <<Records>>)
              EXCEPT !.secrets = [gcSecrets EXCEPT !.source[s] = Fresh],
                     !.source = s,
                     !.unwrite = <<Do("drop created")>>,
                     !.after = <<Do("drop created")>>])

\* Policy, membership and routing edits of a source that keep its upstream.
EditSource(s) ==
    /\ Stored(s)
    /\ \E pool \in BOOLEAN :
         Issue(Command("update_local_source",
                       WithSource(s, [gcStore.sources[s] EXCEPT !.pool = pool, !.rules = Fresh]),
                       Records, <<Do("write"), Do("hot sources"), Do("sync"), Do("snapshot")>>,
                       <<Records>>))

\* An edit of the upstream, its protocol or its models.
EditSourceRoute(s) ==
    /\ Stored(s)
    /\ Issue(Command("update_local_source", WithSource(s, [gcStore.sources[s] EXCEPT !.route = Fresh]),
                     Records, <<Do("write"), Do("sync"), Do("snapshot")>>, <<Records>>))

SetSourceEnabled(s) ==
    /\ Stored(s)
    /\ Issue(Command("set_local_source_enabled",
                     WithSource(s, [gcStore.sources[s] EXCEPT !.on = ~@]),
                     {"sources"}, <<Do("write"), Do("hot sources"), Do("sync"), Do("snapshot")>>,
                     <<Records>>))

DeleteSource(s) ==
    /\ Stored(s)
    /\ Issue([Command("delete_local_source", WithSource(s, NoRecord), Records,
                      <<Do("write"), Do("sync"), Do("drop secret"), Do("snapshot")>>, <<Records>>)
              EXCEPT !.source = s,
                     !.secrets = [gcSecrets EXCEPT !.source[s] = Missing]])

RotateSourceKey(s) ==
    /\ Stored(s)
    /\ gcSecrets.source[s] # Missing
    /\ Issue([Command("rotate_local_source_key", gcStore, {},
                      <<Do("secret"), Do("sync"), Do("snapshot")>>, <<{"secrets"}>>)
              EXCEPT !.secrets = [gcSecrets EXCEPT !.source[s] = Fresh]])

\* The first build after a reset creates the key; until then it is missing.
RotateGatewayKey ==
    Issue([Command("rotate_local_gateway_api_key", gcStore, {},
                   <<Do("secret"), Do("sync")>>, <<{"secrets"}>>)
           EXCEPT !.secrets = [gcSecrets EXCEPT !.gateway = Fresh]])

SetCommonProxy ==
    \E url \in {Missing, Fresh} :
      /\ url # gcSecrets.proxy
      /\ Issue([Command("set_local_common_proxy", WithSetting("cold"), Settings,
                        <<Do("secret"), Do("write"), Do("sync"), Do("snapshot")>>,
                        <<{"secrets"}, Settings>>)
                EXCEPT !.secrets = [gcSecrets EXCEPT !.proxy = url],
                       !.unwrite = <<GcPutBack({"secrets"})>>])

\* Settings a runtime is built with: they take a restart.
ColdSetting ==
    Issue(Command("cold setting", WithSetting("cold"), Settings,
                  <<Do("write"), Do("sync"), Do("snapshot")>>, <<Settings>>))

UpdateGatewayPort == ColdSetting
SetAccountProxyRequired == ColdSetting
SetModelEnabled == ColdSetting

\* Settings the live runtime takes in place, without a way to refuse.
SetBackgroundTasks ==
    Issue(Command("flag", WithSetting("flags"), Settings,
                  <<Do("write"), Do("set flags"), Do("snapshot")>>, <<>>))

SetDisplayOrder ==
    Issue(Command("flag", WithSetting("flags"), Settings,
                  <<Do("write"), Do("set flags"), Do("snapshot")>>, <<>>))

\* Settings the live runtime validates: when it refuses, the store goes back.
SetModelTier ==
    Issue(Command("checked flag", WithSetting("flags"), Settings,
                  <<Do("write"), Do("offer flags"), Do("snapshot")>>, <<>>))

SetModelReasoning ==
    Issue(Command("checked flag", WithSetting("flags"), Settings,
                  <<Do("write"), Do("offer flags"), Do("snapshot")>>, <<>>))

\* A price override is read from the store by whoever prices a request.
SetModelPrice ==
    Issue(Command("set_local_model_price", WithSetting("price"), Settings,
                  <<Do("write"), Do("snapshot")>>, <<>>))

\* The profile first, then the store, then the runtime.
GcSetWebsockets ==
    Issue([Command("set_local_codex_websockets", WithSetting("sockets"), Settings,
                   <<Do("profile sockets"), Do("write"), Do("set sockets"), Do("snapshot sockets")>>, <<>>)
           EXCEPT !.unwrite = <<Do("unprofile sockets")>>])

\* A change of the service tier alone is applied in place; any other change of
\* the routing restarts the gateway.  The Codex profile follows.
UpdateRouting ==
    \/ Issue(Command("update_local_routing", WithSetting("tier"), Settings,
                     <<Do("write"), Do("set tier"), Do("profile tier"), Do("snapshot")>>, <<Settings>>))
    \/ Issue(Command("update_local_routing", [WithSetting("tier") EXCEPT !.settings.cold = Fresh], Settings,
                     <<Do("write"), Do("sync"), Do("profile tier"), Do("snapshot")>>, <<Settings>>))

AccountSteps == <<Do("write"), Do("hot account"), Do("sync"), Do("snapshot")>>

EditAccount(a) ==
    /\ Signed(a)
    /\ \E pool \in BOOLEAN :
         Issue([Command("update_local_account",
                     WithAccount(a, [gcStore.accounts[a] EXCEPT !.pool = pool, !.rules = Fresh]),
                     {"accounts"},
                     IF pool # gcStore.accounts[a].pool
                     THEN <<Do("write"), Do("hot account and scope"), Do("sync"), Do("snapshot")>>
                     ELSE AccountSteps,
                     <<Accounts>>)
             EXCEPT !.changed = {a}])

SetAccountEnabled(a) ==
    /\ Signed(a)
    /\ Issue([Command("set_local_account_enabled",
                   WithAccount(a, [gcStore.accounts[a] EXCEPT !.on = ~@]),
                   {"accounts"}, AccountSteps, <<Accounts>>)
           EXCEPT !.changed = {a}])

\* Members join or leave the pool together.
SetPoolMembership ==
    \E members \in SUBSET {m \in GcMembers : IF m \in GcSources THEN Stored(m) ELSE Signed(m)}, pool \in BOOLEAN :
      /\ members # {}
      /\ \E m \in members : (m \in PoolMemberIds(gcStore)) # pool
      /\ Issue([Command("set_local_pool_membership",
                        [gcStore EXCEPT
                           !.sources = [s \in GcSources |->
                               IF s \in members THEN [@[s] EXCEPT !.pool = pool] ELSE @[s]],
                           !.accounts = [a \in GcAccounts |->
                               IF a \in members THEN [@[a] EXCEPT !.pool = pool] ELSE @[a]]],
                        PoolLists,
                        <<Do("write"), Do("hot members"), Do("sync"), Do("snapshot")>>, <<PoolLists>>)
                EXCEPT !.changed = members \cap GcAccounts])

\* A preset rewrites the policies of all members and then the settings.
ApplyPreset ==
    \E in \in BOOLEAN :
      LET Ruled(rec) == IF rec.there THEN [rec EXCEPT !.rules = Fresh, !.on = in, !.pool = in] ELSE rec
          store == [gcStore EXCEPT !.sources = [s \in GcSources |-> Ruled(@[s])],
                                   !.accounts = [a \in GcAccounts |-> Ruled(@[a])],
                                   !.settings.cold = Fresh, !.settings.flags = Fresh,
                                   !.settings.tier = Fresh, !.settings.price = Fresh] IN
      Issue(Command("apply_local_configuration_preset", store, PoolLists,
                    <<Do("write"), Do("write settings"), Do("sync")>>, <<PoolLists, Settings>>))

StartGateway ==
    Issue(Command("start_local_gateway", [gcStore EXCEPT !.settings.on = TRUE], Settings,
                  <<Do("start"), Do("enable"), Do("snapshot")>>, <<>>))

StopGateway ==
    Issue(Command("stop_local_gateway", [gcStore EXCEPT !.settings.on = FALSE], Settings,
                  <<Do("write"), Do("stop"), Do("snapshot")>>, <<>>))

RestartGateway ==
    /\ Running
    /\ Issue(Command("restart_local_gateway", gcStore, {}, <<Do("sync"), Do("snapshot")>>, <<Settings>>))

\* Keys of earlier versions, at launch: their records go first, then their
\* secrets.
RetireKeys ==
    /\ "user" \in gcStore.keys /\ ~Running
    /\ Issue([Command("retire_user_gateway_keys", [gcStore EXCEPT !.keys = {"system"}], Records,
                      <<Do("write"), Do("drop retired")>>, <<>>)
              EXCEPT !.secrets = [gcSecrets EXCEPT !.user = Missing]])

\* The settings become the defaults, then every record goes, then the secrets.
ResetPool ==
    Issue([Command("reset_local_pool_data",
                   [gcStore EXCEPT !.sources = [s \in GcSources |-> NoRecord],
                                   !.accounts = [a \in GcAccounts |-> NoRecord], !.keys = {}],
                   PoolLists,
                   <<Do("stop"), Do("default settings"), Do("write"), Do("drop all")>>, <<>>)
           EXCEPT !.secrets = [source |-> [s \in GcSources |-> Missing], gateway |-> Missing,
                               user |-> Missing, proxy |-> Missing]])

----------------------------------------------------------------------------
(* The steps *)

At(step) == gcJob # NoJob /\ gcJob.steps # <<>> /\ Head(gcJob.steps).do = step
Rest == Tail(gcJob.steps)
GcMayFault == gcFaults < GcMaxFaults

Continue(steps) == gcJob' = [gcJob EXCEPT !.steps = steps]
Advance == Continue(Rest)

\* The step failed: the rest of the command is replaced by its way back.
Fault(steps) ==
    /\ GcMayFault
    /\ gcFaults' = gcFaults + 1
    /\ gcJob' = [gcJob EXCEPT !.steps = steps, !.hits = @ + 1]

Put(store, from, parts) ==
    [sources  |-> IF "sources" \in parts THEN from.sources ELSE store.sources,
     accounts |-> IF "accounts" \in parts THEN from.accounts ELSE store.accounts,
     settings |-> IF "settings" \in parts THEN from.settings ELSE store.settings,
     keys     |-> IF "keys" \in parts THEN from.keys ELSE store.keys]

SaveSecret ==
    /\ At("secret")
    /\ \/ /\ gcSecrets' = gcJob.secrets
          /\ Advance
          /\ UNCHANGED gcFaults
       \/ Fault(<<Ending("failed")>>) /\ UNCHANGED gcSecrets
    /\ UNCHANGED <<gcStore, gcProfile, gcRun, gcProbe, gcOps, gcDrift>>

WriteStore ==
    /\ At("write")
    /\ \/ /\ gcStore' = Put(gcStore, gcJob.next, gcJob.parts)
          /\ Advance
          /\ UNCHANGED gcFaults
       \/ Fault(gcJob.unwrite \o <<Ending("failed")>>) /\ UNCHANGED gcStore
    /\ UNCHANGED <<gcSecrets, gcProfile, gcRun, gcProbe, gcOps, gcDrift>>

\* The second write of a preset: a failure leaves the first one in place.
WriteSettings ==
    /\ At("write settings")
    /\ \/ /\ gcStore' = Put(gcStore, gcJob.next, Settings)
          /\ Advance
          /\ UNCHANGED <<gcFaults, gcDrift>>
       \/ /\ Fault(<<Ending("failed")>>)
          /\ gcDrift' = gcDrift \cup GcMembers
          /\ UNCHANGED gcStore
    /\ UNCHANGED <<gcSecrets, gcProfile, gcRun, gcProbe, gcOps>>

\* In place: the restart that follows is skipped.
InPlace(run) ==
    /\ gcRun' = run
    /\ Continue(Tail(Rest))
    /\ UNCHANGED gcFaults

\* The live runtime has the new policies, but the key's scope could not be
\* refreshed: on to the restart.
WithoutScope(run, touched) ==
    /\ GcMayFault
    /\ gcFaults' = gcFaults + 1
    /\ gcRun' = run
    /\ gcJob' = [gcJob EXCEPT !.steps = Rest, !.hits = @ + 1, !.touched = touched]

ApplySourcePolicies ==
    /\ At("hot sources")
    /\ LET changed == ChangedPolicies(gcJob.old.sources, gcStore.sources) IN
       \/ ~Running /\ InPlace(gcRun)
       \/ /\ Running /\ TakesPolicies(gcRun, changed)
          /\ LET run == WithPolicies(gcRun, gcStore, changed) IN
             \/ InPlace(WithScope(run, gcStore))
             \/ WithoutScope(run, changed)
       \/ /\ Running /\ ~TakesPolicies(gcRun, changed)
          /\ Advance
          /\ UNCHANGED <<gcRun, gcFaults>>
    /\ UNCHANGED <<gcStore, gcSecrets, gcProfile, gcProbe, gcOps, gcDrift>>

LiveAccounts == {a \in gcJob.changed : gcRun.accounts[a].there}

ApplyAccountPolicy ==
    /\ At("hot account") \/ At("hot account and scope")
    /\ \/ ~Running /\ InPlace(gcRun)
       \/ /\ Running /\ LiveAccounts = gcJob.changed
          /\ LET run == WithAccounts(gcRun, gcStore, gcJob.changed) IN
             \/ At("hot account") /\ InPlace(run)
             \/ At("hot account and scope") /\ InPlace(WithScope(run, gcStore))
             \/ At("hot account and scope") /\ WithoutScope(run, gcJob.changed)
       \/ /\ Running /\ LiveAccounts # gcJob.changed
          /\ Advance
          /\ UNCHANGED <<gcRun, gcFaults>>
    /\ UNCHANGED <<gcStore, gcSecrets, gcProfile, gcProbe, gcOps, gcDrift>>

\* The accounts are updated one by one until one of them is not live.
ApplyMembership ==
    /\ At("hot members")
    /\ \/ /\ ~Running
          /\ Advance
          /\ UNCHANGED <<gcRun, gcFaults>>
       \/ /\ Running /\ LiveAccounts = gcJob.changed
          /\ LET run == WithAccounts(gcRun, gcStore, gcJob.changed) IN
             \/ InPlace(WithScope(run, gcStore))
             \/ WithoutScope(run, gcJob.changed)
       \/ /\ Running /\ LiveAccounts # gcJob.changed
          /\ \E done \in SUBSET LiveAccounts :
               /\ gcRun' = WithAccounts(gcRun, gcStore, done)
               /\ gcJob' = [gcJob EXCEPT !.steps = Rest, !.touched = done]
          /\ UNCHANGED gcFaults
    /\ UNCHANGED <<gcStore, gcSecrets, gcProfile, gcProbe, gcOps, gcDrift>>

Undo == [i \in DOMAIN gcJob.undo |-> Restore(gcJob.undo[i])]

\* A build makes the gateway's own key when there is none.
EnsuredSecrets == [gcSecrets EXCEPT !.gateway = IF @ = Missing THEN Fresh ELSE @]

\* A restart that leaves the old runtime in place.
KeepsRunning ==
    /\ At("sync")
    /\ Advance
    /\ UNCHANGED <<gcStore, gcSecrets, gcProfile, gcRun, gcProbe, gcOps, gcFaults, gcDrift>>

\* restart_or_rollback: nothing to do for a stopped gateway; the old runtime
\* stays when the new one cannot be built; a listener that does not start
\* leaves the gateway stopped until the old configuration is back.
RestartOrRollback ==
    /\ At("sync")
    /\ \/ /\ ~Running
          /\ Advance
          /\ UNCHANGED <<gcRun, gcFaults, gcDrift>>
       \/ /\ Running
          /\ gcRun' = RuntimeFromStore(gcStore, gcSecrets)
          /\ gcDrift' = {}
          /\ Advance
          /\ UNCHANGED gcFaults
       \/ /\ Running
          /\ Fault(Undo \o gcJob.after \o <<Ending(gcJob.error)>>)
          /\ gcDrift' = gcDrift \cup gcJob.touched
          /\ UNCHANGED gcRun
       \/ /\ Running
          /\ Fault(Undo \o <<Do("rebuild")>> \o gcJob.after \o <<Ending(gcJob.error)>>)
          /\ gcRun' = Off
          /\ gcDrift' = {}
    /\ UNCHANGED <<gcStore, gcSecrets, gcProfile, gcProbe, gcOps>>

\* The gateway stops and is disabled, unless the store refuses that too.
FailClosed ==
    /\ gcRun' = Off
    /\ gcDrift' = {}
    /\ \/ /\ gcStore' = [gcStore EXCEPT !.settings.on = FALSE]
          /\ Fault(gcJob.after \o <<Ending("recovery")>>)
       \/ /\ gcFaults + 1 < GcMaxFaults
          /\ gcFaults' = gcFaults + 2
          /\ gcJob' = [gcJob EXCEPT !.steps = gcJob.after \o <<Ending("recovery")>>, !.hits = @ + 2]
          /\ UNCHANGED gcStore

\* A rollback that leaves the store as the command wrote it.
RollbackNothing ==
    /\ At("restore")
    /\ Advance
    /\ UNCHANGED <<gcStore, gcSecrets, gcProfile, gcRun, gcProbe, gcOps, gcFaults, gcDrift>>

ApplyRollback ==
    /\ At("restore")
    /\ LET parts == Head(gcJob.steps).of IN
       \/ /\ gcStore' = Put(gcStore, gcJob.old, parts)
          /\ gcSecrets' = IF "secrets" \in parts THEN gcJob.kept ELSE gcSecrets
          /\ Advance
          /\ UNCHANGED <<gcRun, gcFaults, gcDrift>>
       \/ FailClosed /\ UNCHANGED gcSecrets
    /\ UNCHANGED <<gcProfile, gcProbe, gcOps>>

RestartPrevious ==
    /\ At("rebuild")
    /\ \/ /\ gcRun' = RuntimeFromStore(gcStore, gcSecrets)
          /\ Advance
          /\ UNCHANGED <<gcStore, gcFaults, gcDrift>>
       \/ FailClosed
    /\ UNCHANGED <<gcSecrets, gcProfile, gcProbe, gcOps>>

\* A created source that did not stay leaves no key behind.
DropCreated ==
    /\ At("drop created")
    /\ IF Stored(gcJob.source)
       THEN Advance /\ UNCHANGED <<gcSecrets, gcFaults>>
       ELSE \/ /\ gcSecrets' = [gcSecrets EXCEPT !.source[gcJob.source] = Missing]
               /\ Advance
               /\ UNCHANGED gcFaults
            \/ Fault(<<Ending("recovery")>>) /\ UNCHANGED gcSecrets
    /\ UNCHANGED <<gcStore, gcProfile, gcRun, gcProbe, gcOps, gcDrift>>

\* A deleted source's key that cannot be removed brings the source back.
GcDropSecret ==
    /\ At("drop secret")
    /\ \/ /\ gcSecrets' = gcJob.secrets
          /\ Advance
          /\ UNCHANGED gcFaults
       \/ /\ Fault(<<Do("resave"), Reinstate(Records), Do("sync"), Ending("failed")>>)
          /\ UNCHANGED gcSecrets
    /\ UNCHANGED <<gcStore, gcProfile, gcRun, gcProbe, gcOps, gcDrift>>

ResaveSecret ==
    /\ At("resave")
    /\ \/ /\ gcSecrets' = gcJob.kept
          /\ Advance
          /\ UNCHANGED gcFaults
       \/ Fault(<<Ending("recovery")>>) /\ UNCHANGED gcSecrets
    /\ UNCHANGED <<gcStore, gcProfile, gcRun, gcProbe, gcOps, gcDrift>>

\* The command takes back what it wrote; a restart that follows would return
\* to what it takes back, and its failure asks for recovery.
TakeBack(parts) ==
    /\ gcStore' = Put(gcStore, gcJob.before, parts)
    /\ gcSecrets' = IF "secrets" \in parts THEN gcJob.kept ELSE gcSecrets
    /\ gcJob' = [gcJob EXCEPT !.steps = Rest, !.old = gcStore, !.error = "recovery"]
    /\ UNCHANGED <<gcFaults, gcDrift>>

UndoWrites ==
    /\ At("put back") \/ At("reinstate")
    /\ LET parts == Head(gcJob.steps).of IN
       \/ TakeBack(parts)
       \/ /\ Fault(<<Ending(IF At("reinstate") THEN "recovery" ELSE "failed")>>)
          /\ gcDrift' = IF At("put back") THEN gcDrift \cup parts ELSE gcDrift
          /\ UNCHANGED <<gcStore, gcSecrets>>
    /\ UNCHANGED <<gcProfile, gcRun, gcProbe, gcOps>>

\* Setters of the live runtime.
SetLive(field) ==
    /\ gcRun' = IF Running THEN [gcRun EXCEPT ![field] = gcStore.settings[field]] ELSE gcRun
    /\ Advance
    /\ UNCHANGED gcFaults

ApplySettings ==
    /\ \/ At("set flags") /\ SetLive("flags")
       \/ At("set tier") /\ SetLive("tier")
       \/ At("set sockets") /\ SetLive("sockets")
       \/ At("offer flags") /\ SetLive("flags")
       \/ /\ At("offer flags") /\ Running
          /\ Fault(<<GcPutBack(Settings), Ending("failed")>>)
          /\ UNCHANGED gcRun
    /\ UNCHANGED <<gcStore, gcSecrets, gcProfile, gcProbe, gcOps, gcDrift>>

SyncProfileTier ==
    /\ At("profile tier")
    /\ \/ /\ gcProfile' = [gcProfile EXCEPT !.tier = gcStore.settings.tier]
          /\ Advance
          /\ UNCHANGED gcFaults
       \/ /\ Fault(<<GcPutBack(Settings),
                     Do(IF gcJob.next.settings.cold = gcJob.before.settings.cold
                        THEN "set tier" ELSE "sync"),
                     Ending("failed")>>)
          /\ UNCHANGED gcProfile
    /\ UNCHANGED <<gcStore, gcSecrets, gcRun, gcProbe, gcOps, gcDrift>>

SetProfileSockets ==
    /\ At("profile sockets")
    /\ \/ /\ gcProfile' = [gcProfile EXCEPT !.sockets = gcJob.next.settings.sockets]
          /\ Advance
          /\ UNCHANGED gcFaults
       \/ Fault(<<Ending("failed")>>) /\ UNCHANGED gcProfile
    /\ UNCHANGED <<gcStore, gcSecrets, gcRun, gcProbe, gcOps, gcDrift>>

\* The store refused: whether the profile goes back is not looked at.
RestoreProfileSockets ==
    /\ At("unprofile sockets")
    /\ \/ gcProfile' = gcJob.profile /\ Advance /\ UNCHANGED gcFaults
       \/ Fault(Rest) /\ UNCHANGED gcProfile
    /\ UNCHANGED <<gcStore, gcSecrets, gcRun, gcProbe, gcOps, gcDrift>>

\* The websockets command takes everything back when its snapshot fails.
SnapshotSockets ==
    /\ At("snapshot sockets")
    /\ \/ Advance /\ UNCHANGED gcFaults
       \/ Fault(<<Do("undo sockets")>>)
    /\ UNCHANGED <<gcStore, gcSecrets, gcProfile, gcRun, gcProbe, gcOps, gcDrift>>

UndoSockets ==
    /\ At("undo sockets")
    /\ gcRun' = IF Running THEN [gcRun EXCEPT !.sockets = gcJob.before.settings.sockets] ELSE gcRun
    /\ \/ /\ gcStore' = Put(gcStore, gcJob.before, Settings)
          /\ gcProfile' = gcJob.profile
          /\ Continue(<<Ending("failed")>>)
          /\ UNCHANGED <<gcFaults, gcDrift>>
       \/ /\ gcProfile' = gcJob.profile
          /\ Fault(<<Ending("recovery")>>)
          /\ gcDrift' = gcDrift \cup Settings
          /\ UNCHANGED gcStore
       \/ /\ gcStore' = Put(gcStore, gcJob.before, Settings)
          /\ Fault(<<Ending("recovery")>>)
          /\ UNCHANGED <<gcProfile, gcDrift>>
    /\ UNCHANGED <<gcSecrets, gcProbe, gcOps>>

\* A gateway that already runs keeps the runtime it has.
StartListener ==
    /\ At("start")
    /\ \/ Running /\ Advance /\ UNCHANGED <<gcRun, gcSecrets, gcFaults, gcDrift>>
       \/ /\ ~Running
          /\ gcSecrets' = EnsuredSecrets
          /\ gcRun' = RuntimeFromStore(gcStore, EnsuredSecrets)
          /\ gcDrift' = {}
          /\ Advance
          /\ UNCHANGED gcFaults
       \/ Fault(<<Ending("failed")>>) /\ UNCHANGED <<gcRun, gcSecrets, gcDrift>>
    /\ UNCHANGED <<gcStore, gcProfile, gcProbe, gcOps>>

EnableGateway ==
    /\ At("enable")
    /\ \/ /\ gcStore' = Put(gcStore, gcJob.next, Settings)
          /\ Advance
          /\ UNCHANGED <<gcRun, gcFaults>>
       \/ /\ Fault(<<Ending("failed")>>)
          /\ gcRun' = Off
          /\ UNCHANGED gcStore
    /\ UNCHANGED <<gcSecrets, gcProfile, gcProbe, gcOps, gcDrift>>

GcStopListener ==
    /\ At("stop")
    /\ gcRun' = Off
    /\ gcDrift' = {}
    /\ Advance
    /\ UNCHANGED <<gcStore, gcSecrets, gcProfile, gcProbe, gcOps, gcFaults>>

\* The command is done, but what it answers with cannot be read.
Snapshot ==
    /\ At("snapshot")
    /\ \/ Advance /\ UNCHANGED gcFaults
       \/ Fault(<<Ending("unseen")>>)
    /\ UNCHANGED <<gcStore, gcSecrets, gcProfile, gcRun, gcProbe, gcOps, gcDrift>>

DropRetired ==
    /\ At("drop retired")
    /\ \/ gcSecrets' = gcJob.secrets /\ Advance /\ UNCHANGED gcFaults
       \/ Fault(<<Do("unretire")>>) /\ UNCHANGED gcSecrets
    /\ UNCHANGED <<gcStore, gcProfile, gcRun, gcProbe, gcOps, gcDrift>>

\* Records and secrets of the retired keys go back, each as far as it can.
RollbackRetired ==
    /\ At("unretire")
    /\ \/ /\ gcStore' = Put(gcStore, gcJob.before, Records)
          /\ gcSecrets' = gcJob.kept
          /\ Continue(<<Ending("failed")>>)
          /\ UNCHANGED gcFaults
       \/ /\ Fault(<<Ending("recovery")>>)
          /\ gcSecrets' = gcJob.kept
          /\ UNCHANGED gcStore
    /\ UNCHANGED <<gcProfile, gcRun, gcProbe, gcOps, gcDrift>>

DefaultSettings ==
    /\ At("default settings")
    /\ \/ /\ gcStore' = [gcStore EXCEPT !.settings =
                [cold |-> 0, flags |-> 0, tier |-> 0, sockets |-> 0, price |-> 0, on |-> FALSE]]
          /\ Advance
          /\ UNCHANGED gcFaults
       \/ Fault(<<Ending("failed")>>) /\ UNCHANGED gcStore
    /\ UNCHANGED <<gcSecrets, gcProfile, gcRun, gcProbe, gcOps, gcDrift>>

\* Every secret of the pool is tried; those that stay ask for recovery.
DropAll ==
    /\ At("drop all")
    /\ \/ gcSecrets' = gcJob.secrets /\ Advance /\ UNCHANGED gcFaults
       \/ \E left \in (SUBSET DOMAIN gcSecrets) \ {{}} :
            /\ gcSecrets' = [k \in DOMAIN gcSecrets |->
                                IF k \in left THEN gcSecrets[k] ELSE gcJob.secrets[k]]
            /\ Fault(<<Ending("recovery")>>)
    /\ UNCHANGED <<gcStore, gcProfile, gcRun, gcProbe, gcOps, gcDrift>>

Report ==
    /\ At("fail")
    /\ gcJob' = [gcJob EXCEPT !.steps = <<>>, !.result = CHOOSE kind \in Head(gcJob.steps).of : TRUE]
    /\ UNCHANGED <<gcStore, gcSecrets, gcProfile, gcRun, gcProbe, gcOps, gcFaults, gcDrift>>

Close ==
    /\ gcJob # NoJob /\ gcJob.steps = <<>>
    /\ gcJob' = NoJob
    /\ UNCHANGED <<gcStore, gcSecrets, gcProfile, gcRun, gcProbe, gcOps, gcFaults, gcDrift>>

----------------------------------------------------------------------------
(* What runs beside the commands *)

\* The usage writer and the token authority record what they learn about an
\* account in the store; the live candidate's configuration does not change.
ObserveLogin(a) ==
    /\ Signed(a) /\ a \notin GcUnsigned
    /\ gcStore.accounts[a].login
    /\ gcStore' = [gcStore EXCEPT !.accounts[a].login = FALSE]
    /\ UNCHANGED <<gcSecrets, gcProfile, gcRun, gcJob, gcProbe, gcOps, gcFaults, gcDrift>>

\* A quota refresh stores what it found and updates the live candidate; a
\* changed model list takes a restart.
RefreshAccount(a) ==
    /\ Signed(a)
    /\ \E login \in BOOLEAN, models \in BOOLEAN :
         Issue([Command("refresh_account",
                        WithAccount(a, [gcStore.accounts[a] EXCEPT !.login = login]), {"accounts"},
                        IF models THEN <<Do("write"), Do("sync")>>
                                  ELSE <<Do("write"), Do("hot account"), Do("sync")>>,
                        <<Accounts>>)
                EXCEPT !.changed = {a}])

\* A probe remembers the source it asks about, without the setup guard.
StartProbe(s) ==
    /\ gcProbe = NoProbe
    /\ Stored(s) /\ gcSecrets.source[s] # Missing
    /\ gcProbe' = [busy |-> TRUE, source |-> s, route |-> gcStore.sources[s].route,
                   key |-> gcSecrets.source[s]]
    /\ UNCHANGED <<gcStore, gcSecrets, gcProfile, gcRun, gcJob, gcOps, gcFaults, gcDrift>>

\* source_probe_matches, and the same key.
ProbeMatches ==
    /\ Stored(gcProbe.source)
    /\ gcStore.sources[gcProbe.source].route = gcProbe.route
    /\ gcSecrets.source[gcProbe.source] = gcProbe.key

\* The answer is applied under the guard, to the source it was asked for.  A
\* failed discovery and an unchanged catalog leave the routes alone.
FinishProbe ==
    /\ gcProbe.busy
    /\ gcJob = NoJob
    /\ gcProbe' = NoProbe
    /\ \/ /\ ProbeMatches
          /\ gcOps < GcMaxOps
          /\ gcOps' = Fresh
          /\ gcJob' = Command("refresh_local_source_models",
                              WithSource(gcProbe.source,
                                         [gcStore.sources[gcProbe.source] EXCEPT !.route = Fresh]),
                              {"sources"}, <<Do("write"), Do("sync")>>, <<Records>>)
       \/ UNCHANGED <<gcJob, gcOps>>
    /\ UNCHANGED <<gcStore, gcSecrets, gcProfile, gcRun, gcFaults, gcDrift>>

\* The desktop ends in the middle of anything.
Quit ==
    /\ GcMayFault
    /\ gcFaults' = gcFaults + 1
    /\ gcRun' = Off
    /\ gcJob' = NoJob
    /\ gcProbe' = NoProbe
    /\ gcDrift' = {}
    /\ UNCHANGED <<gcStore, gcSecrets, gcProfile, gcOps>>

\* start_if_enabled, at the next launch.
StartIfEnabled ==
    /\ gcJob = NoJob /\ ~Running
    /\ gcStore.settings.on
    /\ gcSecrets' = EnsuredSecrets
    /\ gcRun' = RuntimeFromStore(gcStore, EnsuredSecrets)
    /\ gcDrift' = {}
    /\ UNCHANGED <<gcStore, gcProfile, gcJob, gcProbe, gcOps, gcFaults>>

\* An installation in use: accounts in the pool, sources or none, a gateway
\* that runs and is enabled or does neither, keys of an earlier version or not.
GcInit ==
    /\ \E present \in SUBSET GcSources, keys \in {{"system"}, {"system", "user"}}, on \in BOOLEAN :
         /\ on => "user" \notin keys
         /\ gcStore = [sources  |-> [s \in GcSources |->
                          IF s \in present THEN SourceRecord(0, TRUE, TRUE, 0) ELSE NoRecord],
                       accounts |-> [a \in GcAccounts |->
                          [there |-> TRUE, on |-> TRUE, pool |-> TRUE, login |-> TRUE, rules |-> 0]],
                       settings |-> [cold |-> 0, flags |-> 0, tier |-> 0, sockets |-> 0,
                                     price |-> 0, on |-> on],
                       keys     |-> keys]
         /\ gcSecrets = [source |-> [s \in GcSources |-> IF s \in present THEN 1 ELSE Missing],
                         gateway |-> 1, user |-> IF "user" \in keys THEN 1 ELSE Missing,
                         proxy |-> Missing]
         /\ gcRun = IF on THEN RuntimeFromStore(gcStore, gcSecrets) ELSE Off
    /\ gcProfile = [tier |-> 0, sockets |-> 0]
    /\ gcJob = NoJob
    /\ gcProbe = NoProbe
    /\ gcOps = 0 /\ gcFaults = 0
    /\ gcDrift = {}

GcCommand ==
    \/ \E s \in GcSources : \/ CreateSource(s) \/ EditSource(s) \/ EditSourceRoute(s)
                            \/ SetSourceEnabled(s) \/ DeleteSource(s) \/ RotateSourceKey(s)
    \/ \E a \in GcAccounts : EditAccount(a) \/ SetAccountEnabled(a) \/ RefreshAccount(a)
    \/ SetPoolMembership \/ ApplyPreset
    \/ RotateGatewayKey \/ SetCommonProxy
    \/ UpdateGatewayPort \/ SetAccountProxyRequired \/ SetModelEnabled
    \/ SetBackgroundTasks \/ SetDisplayOrder \/ SetModelTier \/ SetModelReasoning
    \/ SetModelPrice \/ GcSetWebsockets \/ UpdateRouting
    \/ StartGateway \/ StopGateway \/ RestartGateway \/ RetireKeys \/ ResetPool

GcStep ==
    \/ SaveSecret \/ WriteStore \/ WriteSettings
    \/ ApplySourcePolicies \/ ApplyAccountPolicy \/ ApplyMembership \/ ApplySettings
    \/ RestartOrRollback \/ ApplyRollback \/ RestartPrevious
    \/ DropCreated \/ GcDropSecret \/ ResaveSecret \/ UndoWrites
    \/ SyncProfileTier \/ SetProfileSockets \/ RestoreProfileSockets
    \/ SnapshotSockets \/ UndoSockets
    \/ StartListener \/ EnableGateway \/ GcStopListener \/ Snapshot
    \/ DropRetired \/ RollbackRetired \/ DefaultSettings \/ DropAll
    \/ Report \/ Close

GcBeside ==
    \/ \E a \in GcAccounts : ObserveLogin(a)
    \/ \E s \in GcSources : StartProbe(s)
    \/ FinishProbe \/ Quit \/ StartIfEnabled

GcNext == GcCommand \/ GcStep \/ GcBeside

GcSpec == GcInit /\ [][GcNext]_gcVars

----------------------------------------------------------------------------
(* Properties *)

Versions == 0..(GcMaxOps + 1)

\* The shapes of the store, the secrets, the running gateway and the command.
GcTypeOK ==
    /\ \A s \in GcSources : Stored(s) =>
         gcStore.sources[s] \in [there : {TRUE}, route : Versions, on : BOOLEAN, pool : BOOLEAN,
                                 rules : Versions]
    /\ \A a \in GcAccounts : Signed(a) =>
         gcStore.accounts[a] \in [there : {TRUE}, on : BOOLEAN, pool : BOOLEAN, login : BOOLEAN,
                                  rules : Versions]
    /\ gcStore.settings \in [cold : Versions, flags : Versions, tier : Versions, sockets : Versions,
                             price : Versions, on : BOOLEAN]
    /\ gcStore.keys \subseteq {"system", "user"}
    /\ gcSecrets \in [source : [GcSources -> Versions], gateway : Versions, user : Versions,
                      proxy : Versions]
    /\ gcProfile \in [tier : Versions, sockets : Versions]
    /\ Running => gcRun.scope \subseteq GcMembers
    /\ gcJob # NoJob => gcJob.result \in {"none", "failed", "recovery", "unseen"}
    /\ gcOps \in 0..GcMaxOps /\ gcFaults \in 0..GcMaxFaults
    /\ gcDrift \subseteq GcMembers \cup {"settings", "secrets"}

SourceIsLive(s) ==
    IF Stored(s)
    THEN gcRun.sources[s] = LiveSource(gcStore, gcSecrets, s)
    ELSE ~gcRun.sources[s].there

AccountIsLive(a) ==
    /\ gcRun.accounts[a].there = LiveAccount(gcStore, a).there
    /\ gcRun.accounts[a].there =>
         /\ gcRun.accounts[a].rules = gcStore.accounts[a].rules
         /\ gcRun.accounts[a].on => gcStore.accounts[a].on /\ gcStore.accounts[a].pool

\* Between commands a running gateway embodies the stored configuration: the
\* routes, keys and policies of every source, the policy of every account (an
\* account serves only when it is enabled and in the pool), the scope of the
\* managed key and the settings.  Left out are members whose live policy was
\* changed in place by a command whose restart then could not be built, and the
\* writes two faults left behind (runtime.rs, restart_or_rollback).
RunningMatchesStore ==
    gcJob = NoJob /\ Running =>
      /\ \A s \in GcSources \ gcDrift : SourceIsLive(s)
      /\ \A a \in GcAccounts \ gcDrift : AccountIsLive(a)
      /\ gcRun.scope \ gcDrift \subseteq PoolMemberIds(gcStore)
      /\ gcRun.key = gcSecrets.gateway
      /\ "secrets" \notin gcDrift => gcRun.proxy = gcSecrets.proxy
      /\ "settings" \notin gcDrift =>
           \A f \in {"cold", "flags", "tier", "sockets"} : gcRun[f] = gcStore.settings[f]

\* Account records but for what the usage writer records in them.
Configured(store) ==
    [store EXCEPT !.accounts = [a \in GcAccounts |->
        IF @[a].there THEN <<@[a].on, @[a].pool, @[a].rules>> ELSE <<>>]]

\* A command that meets one fault and answers with a plain error has changed
\* nothing: store, secrets and profile are as it found them, and a gateway that
\* ran still runs.  The exceptions are a preset whose second write fails, a
\* reset, and a start of a gateway that runs already.
FailedIsUndone ==
    /\ gcJob # NoJob
    /\ gcJob.result = "failed" /\ gcJob.hits = 1
    /\ gcJob.name \notin {"apply_local_configuration_preset", "reset_local_pool_data",
                          "start_local_gateway"}
    => /\ Configured(gcStore) = Configured(gcJob.before)
       /\ gcSecrets = gcJob.kept
       /\ gcProfile = gcJob.profile
       /\ Running = gcJob.ran

\* A stored source has its key at every moment, a crash between two writes
\* included: the key is saved before the record and removed after it.
SourceKeepsKey ==
    \A s \in GcSources : Stored(s) => gcSecrets.source[s] # Missing

\* Between commands every enabled, signed-in account of the pool is in the
\* scope of the key that the gateway's clients use.
ScopeCoversPool ==
    gcJob = NoJob /\ Running =>
      \A a \in GcAccounts : gcRun.accounts[a].there /\ gcRun.accounts[a].on => a \in gcRun.scope

=============================================================================
