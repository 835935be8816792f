------------------------------- MODULE MCDesktop -------------------------------
(***************************************************************************)
(* The desktop application's commands over its files, its credential       *)
(* stores, its database and its runtime: eleven components side by side.   *)
(* They share no state, and a behaviour moves only the one that part names,*)
(* in one of its scenes.                                                   *)
(***************************************************************************)
EXTENDS CodexProfile, ProfileSwitch, OAuthSignIn, DesktopCredentials, AccountImport, GatewayConfig,
        AccountRemoval, DesktopUsage, AccountRefresh, WeeklyCredit, SecretStores

VARIABLE part

Parts == {"profile", "switch", "signin", "login", "import", "credit", "vault",
          "keyring"} \X {"all"}
         \cup {"config"} \X {"fault", "order"}
         \cup {"removal"} \X {"beside", "order"}
         \cup {"usage"} \X {"ledger", "cache"}
         \cup {"refresh"} \X {"due", "models", "wake"}

\* OAuthSignIn: two people, one of whom has the account.
MCOaIdents == {<<1, 1>>, <<2, 1>>}

\* AccountImport: files with a login twice, a login without its refresh token, agent
\* identities, an API key, and entries that are refused.
Ent(h, m, w, n, t) == [id |-> 0, has |-> h, mode |-> m, who |-> w, named |-> n, tok |-> t]
MCAiContents == {<<Ent({"refresh"}, "none", 1, FALSE, 2), Ent({"id"}, "none", 3, TRUE, 0),
                   Ent({"access"}, "none", 2, TRUE, 0), Ent({"access"}, "none", 3, TRUE, 0)>>,
                 <<Ent({"refresh"}, "none", 1, FALSE, 2), Ent({"refresh", "agent"}, "account", 1, FALSE, 3)>>,
                 <<Ent({"half", "access"}, "none", 1, TRUE, 0), Ent({"access"}, "none", 1, TRUE, 0),
                   Ent({"access", "refresh"}, "none", 1, TRUE, 2)>>,
                 <<Ent({"agent"}, "none", 2, FALSE, 0), Ent({"agent"}, "account", 1, TRUE, 0)>>,
                 <<Ent({"access", "refresh", "key"}, "account", 2, TRUE, 4),
                   Ent({"access", "key"}, "none", 1, TRUE, 0), Ent({"key"}, "none", 3, FALSE, 0)>>}

\* DesktopUsage: a success and a failure that report different parts.
MCSamples == {
  [ok |-> TRUE, latency |-> 3, ttft |-> {1}, gen |-> {2}, input |-> {2}, cached |-> {1}, write |-> {},
   ttl |-> "none", reasoning |-> {}, output |-> {2}],
  [ok |-> FALSE, latency |-> 1, ttft |-> {}, gen |-> {1}, input |-> {1}, cached |-> {}, write |-> {1},
   ttl |-> "5m", reasoning |-> {1}, output |-> {}]}
Plain == CHOOSE s \in MCSamples : s.ok

\* AccountRefresh: the plan stays, its end is known or not.
MCRfAnswers == {[weekly |-> {}, reached |-> FALSE, limited |-> FALSE, allowed |-> TRUE, plan |-> {"plus"}]}
MCRfProbes == {{}, {[plan |-> {"plus"}, until |-> {}]}}
MCRfSubs == {[plan |-> {"plus"}, until |-> u, status |-> "active", at |-> {0}] : u \in {{}, {1}}}

-----------------------------------------------------------------------------
\* The parts that do not move rest in one of their initial states.
MCInit ==
    /\ part \in Parts
    /\ PfInit /\ (part[1] # "profile" => pfLogin = "none" /\ pfDisk.config.prov = "none")
    /\ PsInit /\ (part[1] # "switch" => psApp)
    /\ OaInit /\ (part[1] # "signin" => oaAcct["a1"] = <<1, 1>>)
    /\ DcInit /\ (part[1] # "login" => dcAuthFile.tok = NoTok)
    /\ AiInit /\ (part[1] # "import" => aiLogins = {})
    /\ GcInit /\ (part[1] # "config" => gcStore.settings.on /\ \A s \in GcSources : gcStore.sources[s] = NoRecord)
    /\ ArInit /\ (part[1] # "removal" => /\ \A p \in ArProfiles : arStore.bound[p] = Nobody
                                         /\ \A u \in DOMAIN arStore.pool : arStore.pool[u] = {})
    /\ DuInit /\ (part # <<"usage", "ledger">> => DOMAIN duDb.log = {})
    /\ RfInit /\ (part[1] # "refresh" => rfLogin.kind = "refresh" /\ rfAcct.sub.until = {})
    /\ WcInit /\ (part[1] # "credit" => wcSide = "desktop")
    /\ VtInit /\ (part[1] # "vault" => vtSide = "desktop")
    /\ KsInit /\ (part[1] # "keyring" => ksTold.told = {})

Rests(p, v) == IF part[1] = p THEN TRUE ELSE UNCHANGED v

OthersRest ==
    /\ UNCHANGED part
    /\ Rests("profile", pfVars) /\ Rests("switch", psVars) /\ Rests("signin", oaVars)
    /\ Rests("login", dcVars) /\ Rests("import", aiVars) /\ Rests("config", gcVars)
    /\ Rests("removal", arVars) /\ Rests("usage", duVars) /\ Rests("refresh", rfVars)
    /\ Rests("credit", wcVars) /\ Rests("vault", vtVars) /\ Rests("keyring", ksVars)

\* One command that meets a fault, or two in a row.
ConfigScene == IF part[2] = "fault" THEN gcOps' <= 1 ELSE gcFaults' = 0

\* One command beside a token refresh, or two in a row.
RemovalScene == IF part[2] = "beside" THEN arOps' <= 1 ELSE arRefresh' = NoRefresh

\* The readers' caches are looked at over the ledger of one request, which does
\* not age.
CacheScene ==
    /\ duNow' = 0 /\ DOMAIN duDb'.log \subseteq {CHOOSE r \in DuRequests : TRUE} /\ duPrices' <= 1
    /\ \A r \in DOMAIN duDb'.log : duDb'.log[r].sample = Plain /\ duDb'.log[r].cand \in DuAccounts

\* Two of the callers that refresh an account, the others idle.
Team == CASE part[2] = "due" -> {"worker", "manual"}
          [] part[2] = "models" -> {"manual", "models"}
          [] OTHER -> {"worker", "wake"}
RefreshScene == \A k \in RfRefreshers \ Team : rfJob'[k] = rfJob[k]

\* Faults on the desktop; on the server, two callers without any.  The callers are
\* alike, and the first to start is "one".
CreditScene ==
    /\ wcSide = "desktop" \/ wcFaults' = 0
    /\ wcRounds = 0 => wcJob'["two"] = WcIdle

MCNext ==
    \/ part[1] = "profile" /\ PfNext /\ OthersRest
    \/ part[1] = "switch" /\ PsNext /\ OthersRest
    \/ part[1] = "signin" /\ OaNext /\ OthersRest
    \/ part[1] = "login" /\ DcNext /\ OthersRest
    \/ part[1] = "import" /\ AiNext /\ OthersRest
    \/ part[1] = "config" /\ GcNext /\ ConfigScene /\ OthersRest
    \/ part[1] = "removal" /\ ArNext /\ RemovalScene /\ OthersRest
    \/ part = <<"usage", "ledger">> /\ DuLedger /\ OthersRest
    \/ part = <<"usage", "cache">> /\ DuNext /\ CacheScene /\ OthersRest
    \/ part[1] = "refresh" /\ RfNext /\ RefreshScene /\ OthersRest
    \/ part[1] = "credit" /\ WcNext /\ CreditScene /\ OthersRest
    \/ part[1] = "vault" /\ VtNext /\ OthersRest
    \/ part[1] = "keyring" /\ KsNext /\ OthersRest

-----------------------------------------------------------------------------
\* A part's invariants are evaluated where the part moves.
Moving(p, inv) == IF part[1] = p THEN inv ELSE TRUE



\* A configuration command changes the store and the running gateway together,
\* or neither (commands/, runtime.rs).
ConfigSafe ==
    Moving("config", GcTypeOK /\ RunningMatchesStore /\ FailedIsUndone /\ SourceKeepsKey)

\* What deleting accounts and assigning proxies leaves behind in the stores, after
\* faults and crashes too (the account removal and proxy commands).
RemovalSafe ==
    Moving("removal", ArTypeOK /\ RemovedIsGone /\ BoundHasCredential /\ PoolFollowsCredentials)



\* What a caller was told is stored stays readable in the encrypted vault and in
\* the operating system's keyring, wherever a write stops.
StoresSafe ==
    /\ Moving("vault", VtTypeOK /\ SecretsSurviveStop)
    /\ Moving("keyring", KsTypeOK /\ NamedSecretIsWhole)

===============================================================================
