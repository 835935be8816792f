----------------------------- MODULE CodexProfile -----------------------------
(***************************************************************************)
(* Attaching a ChatGPT (Codex) profile to the gateway or to an account, and *)
(* giving it back: src-tauri/.../profiles/codex.rs and codex/*.rs.          *)
(*                                                                         *)
(* Every operation reads the files it is about to change, decides, and then *)
(* carries out a list of writes, each of which is refused when its file is  *)
(* no longer what was read.  Such a list is a plan, and a phase computes it *)
(* from the disk; a command is a sequence of phases.  Between two writes    *)
(* the user or ChatGPT may change a file, a write may fail, and the process *)
(* may end.  lock_codex_profile() keeps a second command out.               *)
(***************************************************************************)
EXTENDS Naturals, Sequences, FiniteSets

CONSTANTS PfMaxEdits,     \* bound on what the user and ChatGPT do to the files
          PfMaxFaults,    \* bound on failed writes and crashes
          PfMaxCommands,  \* bound on commands
          PfProviderEdits \* whether the user edits model_provider by itself

ASSUME ProfileAssumption ==
    /\ {PfMaxEdits, PfMaxFaults, PfMaxCommands} \subseteq Nat
    /\ PfProviderEdits \in BOOLEAN

VARIABLES
    pfDisk,     \* the files and the two secrets
    pfSnap,     \* the recovery point kept in the secret store
    pfTok,      \* the newest token of the managed account in the vault
    pfRun,      \* the command in progress
    pfLogin,    \* the sign-in the user made last
    pfCount     \* edits, faults and commands so far, and whether one was torn

pfVars == <<pfDisk, pfSnap, pfTok, pfRun, pfLogin, pfCount>>

\* The content of auth.json: none, a sign-in of the user's, the gateway key
\* in an API key login, or a token of the managed account.
Logins == <<"u1", "u2", "u3">>
UserLogins == {Logins[i] : i \in DOMAIN Logins}
Key == "key"
Tokens == <<"t1", "t2">>
Auths == {"none", Key} \union UserLogins \union {Tokens[i] : i \in DOMAIN Tokens}

\* What config.toml says: the provider, the table of the managed provider,
\* which has websockets on or off, and the catalog.  "openai" and an absent provider are one value.
Configs == [prov : {"none", "other", "relay"}, table : {"absent", "ws", "http"},
            cat : {"user", "managed"}]
NoBackup == [on |-> FALSE, prov |-> "none", auth |-> "none", ref |-> FALSE, oauth |-> "none",
             table |-> "ws", path |-> FALSE, hash |-> 0, pend |-> 0, remove |-> FALSE,
             attaching |-> FALSE, restoring |-> FALSE]
NoAccount == [on |-> FALSE, prov |-> "none", ref |-> FALSE, tok |-> "none"]
NoSnapshot == [on |-> FALSE, config |-> [prov |-> "none", table |-> "absent", cat |-> "user"],
               auth |-> "none"]
IdleProfile == [on |-> FALSE, todo |-> <<>>, steps |-> <<>>, at |-> 0, undoing |-> FALSE,
                kept |-> FALSE, arg |-> "none", catalog |-> 0, detached |-> NoAccount]

PfInit ==
    \E p \in {"none", "other"}, u \in {"none", "u1"} :
        /\ pfDisk = [config |-> [prov |-> p, table |-> "absent", cat |-> "user"], auth |-> u,
                     catalog |-> 0, backup |-> NoBackup, acct |-> NoAccount,
                     sec |-> "none", acctSec |-> "none"]
        /\ pfSnap = NoSnapshot /\ pfTok = 1 /\ pfRun = IdleProfile
        /\ pfLogin = u
        /\ pfCount = [edits |-> 0, faults |-> 0, commands |-> 0, torn |-> FALSE]

(***************************************************************************)
(* What the files say about each other                                     *)
(***************************************************************************)

\* managed_provider_matches, managed_config_matches, previous_config_matches
\* and external_provider_took_over.
ManagedConfig(c, b) == c.prov = "relay" /\ (b.path => c.cat = "managed") /\ c.table = b.table
PreviousConfig(c, b) == c.prov = b.prov /\ c.cat = "user"
ExternalTakeover(c, b) == b.on /\ c.prov \notin {"none", "relay"} /\ c.table = b.table
\* account_managed_config_matches
AccountConfig(c) == c.prov = "none" /\ c.table = "absent"
\* managed_auth_matches_snapshot and previous_auth_matches_snapshot
ManagedAuth(a, b) == a = IF b.oauth # "none" THEN b.oauth ELSE Key
PreviousAuth(a, b) == IF b.auth # "none" THEN a = b.auth ELSE ~b.ref /\ a = "none"

\* valid_managed_model_catalog that forgets the catalog being installed
ValidCatalogCommitted(b, file) ==
    IF ~b.path THEN b.hash = 0 /\ b.pend = 0 /\ ~b.remove /\ file = 0
    ELSE \/ b.restoring /\ file = 0
         \/ b.hash = file
         \/ b.remove /\ file = 0
\* valid_managed_model_catalog
ValidCatalog(b, file) ==
    IF ~b.path THEN b.hash = 0 /\ b.pend = 0 /\ ~b.remove /\ file = 0
    ELSE \/ b.restoring /\ file = 0
         \/ b.hash = file
         \/ b.pend # 0 /\ b.pend = file
         \/ b.remove /\ file = 0

\* local_backup: a managed catalog that is gone is repaired by marking the
\* backup as being restored; any other mismatch makes the backup unusable.
MissingCatalog(d) ==
    LET b == d.backup IN
    /\ b.on /\ d.catalog = 0 /\ ~b.restoring /\ ~b.attaching
    /\ b.path /\ b.hash # 0 /\ d.config.cat = "managed"
LocalBackup(d) == IF MissingCatalog(d) THEN [d EXCEPT !.backup.restoring = TRUE] ELSE d
UsableBackup(d) == d.backup.on => ValidCatalog(d.backup, d.catalog)

(***************************************************************************)
(* Plans                                                                   *)
(***************************************************************************)

\* replace_if_unchanged and remove_if_unchanged; a failure rolls back when
\* undo holds.
Write(f, old, new, undo) ==
    [f |-> f, old |-> old, new |-> new, back |-> old, cas |-> TRUE, undo |-> undo,
     cleanup |-> FALSE]
\* A write whose effect no rollback takes back.
Final(f, old, new, undo) == [Write(f, old, new, undo) EXCEPT !.back = new]
\* save and delete of the secret store
Secret(f, old, new, undo) == [Write(f, old, new, undo) EXCEPT !.cas = FALSE]
\* The secret of a backup that is being created: rolling back deletes it,
\* unless the backup file could not be taken back.
NewSecret(f, new) == [Secret(f, "none", new, TRUE) EXCEPT !.cleanup = TRUE]
When(cond, step) == IF cond THEN <<step>> ELSE <<>>
Refused == [ok |-> FALSE, steps |-> <<>>]
Plan(steps) == [ok |-> TRUE, steps |-> steps]

\* attach_local_locked up to its first write: when an attach is refused
AttachAllowed(d, catalog) ==
    LET b == d.backup IN
    /\ ~d.acct.on
    /\ UsableBackup(d)
    /\ ~b.on => d.config.table = "absent"
    /\ (catalog # 0 /\ ~b.path) => d.catalog = 0
    /\ b.on => \/ ExternalTakeover(d.config, b)
               \/ /\ ManagedConfig(d.config, b)
                  /\ ManagedAuth(d.auth, b) \/ PreviousAuth(d.auth, b)
\* The backup while attaching.  It remembers what the user had when it is
\* created, and again when another provider has taken over.
AttachingBackup(d, oauth, catalog) ==
    LET b == d.backup
        base == IF ~b.on \/ ExternalTakeover(d.config, b)
                THEN [b EXCEPT !.on = TRUE, !.prov = d.config.prov, !.auth = d.auth,
                               !.ref = d.auth # "none"]
                ELSE b
    IN [base EXCEPT !.oauth = oauth, !.table = "ws", !.path = @ \/ catalog # 0, !.pend = catalog,
                    !.remove = catalog = 0 /\ b.path, !.attaching = TRUE, !.restoring = FALSE]
\* attach_config, and account_auth_content or the key of the gateway
AttachedConfig(catalog) == [prov |-> "relay", table |-> "ws",
                            cat |-> IF catalog # 0 THEN "managed" ELSE "user"]
AttachedAuth(oauth) == IF oauth # "none" THEN oauth ELSE Key

\* attach_local_locked: the backup with a pending mark, the catalog, the
\* configuration, the sign-in, and the backup without the mark.
AttachLocal(d, oauth, catalog) ==
    LET b == d.backup
        pending == AttachingBackup(d, oauth, catalog)
        committed == [pending EXCEPT !.path = catalog # 0, !.hash = catalog, !.pend = 0,
                                     !.remove = FALSE, !.attaching = FALSE]
    IN IF ~AttachAllowed(d, catalog) THEN Refused
       ELSE Plan(When(ExternalTakeover(d.config, b), Secret("sec", d.sec, d.auth, TRUE))
                 \o When(~b.on /\ d.auth # "none", NewSecret("sec", d.auth))
                 \o <<Write("backup", b, pending, TRUE)>>
                 \o When(catalog # 0 \/ b.path, Write("catalog", d.catalog, catalog, TRUE))
                 \o <<Write("config", d.config, AttachedConfig(catalog), TRUE),
                      Write("auth", d.auth, AttachedAuth(oauth), TRUE),
                      Write("backup", pending, committed, FALSE)>>)

\* restore_local_locked: nothing is rolled back; the mark that restoring has
\* begun makes every prefix of the list something the next call completes.
RestoreLocal(d) ==
    LET b == d.backup
        kept == IF b.ref THEN d.sec ELSE "none"
        managed == ManagedAuth(d.auth, b)
        previous == PreviousAuth(d.auth, b)
        ok == /\ UsableBackup(d)
              /\ ManagedConfig(d.config, b) \/ PreviousConfig(d.config, b)
              /\ kept # "none" => kept = b.auth
              /\ managed \/ previous
              /\ ~(managed /\ b.ref /\ kept = "none")
        marked == [b EXCEPT !.restoring = TRUE]
        restored == [prov |-> b.prov, table |-> "absent", cat |-> "user"]
    IN IF ~b.on THEN Plan(<<>>)
       ELSE IF ~ok THEN Refused
       ELSE Plan(When(~b.restoring, Write("backup", b, marked, FALSE))
                 \o When(d.config # restored, Write("config", d.config, restored, FALSE))
                 \o When(~previous, Write("auth", d.auth, kept, FALSE))
                 \o When(d.catalog # 0, Write("catalog", d.catalog, 0, FALSE))
                 \o When(b.ref, Secret("sec", d.sec, "none", FALSE))
                 \o <<Write("backup", IF b.restoring THEN b ELSE marked, NoBackup, FALSE)>>)

\* prepare_existing_local_binding_locked
PrepareLocal(d) == IF ExternalTakeover(d.config, d.backup) THEN Plan(<<>>) ELSE RestoreLocal(d)

\* attach_account_locked
AttachAccount(d, tok) ==
    LET a == d.acct
        created == ~a.on
        ok == IF created THEN d.config.table = "absent"
              ELSE AccountConfig(d.config) /\ d.auth = a.tok
        next == [on |-> TRUE, prov |-> IF created THEN d.config.prov ELSE a.prov,
                 ref |-> IF created THEN d.auth # "none" ELSE a.ref, tok |-> tok]
    IN IF ~ok THEN Refused
       ELSE Plan(When(created /\ d.auth # "none", NewSecret("acctSec", d.auth))
                 \o <<Write("acct", a, next, TRUE),
                      Write("config", d.config,
                            [d.config EXCEPT !.prov = "none", !.table = "absent"], TRUE),
                      Write("auth", d.auth, tok, TRUE)>>)

\* restore_account_locked
RestoreAccount(d) ==
    LET a == d.acct
        ok == /\ AccountConfig(d.config)
              /\ d.auth = a.tok
              /\ a.ref => d.acctSec # "none"
    IN IF ~a.on THEN Plan(<<>>)
       ELSE IF ~ok THEN Refused
       ELSE Plan(<<Write("config", d.config, [d.config EXCEPT !.prov = a.prov], TRUE),
                   Write("auth", d.auth, IF a.ref THEN d.acctSec ELSE "none", TRUE),
                   Write("acct", a, NoAccount, TRUE)>>
                 \o When(a.ref, Secret("acctSec", d.acctSec, "none", TRUE)))

\* sync_account_profile_with and sync_local_gateway_binding: the backup names
\* the token before auth.json holds it.
SyncAccount(d, tok) ==
    IF /\ d.acct.on /\ d.acct.tok # tok
       /\ AccountConfig(d.config) /\ d.auth \in {d.acct.tok, tok}
    THEN Plan(<<Write("acct", d.acct, [d.acct EXCEPT !.tok = tok], TRUE)>>
              \o When(d.auth # tok, Write("auth", d.auth, tok, TRUE)))
    ELSE Plan(<<>>)
SyncLocal(d, tok) ==
    IF /\ d.backup.on /\ d.backup.oauth \notin {"none", tok}
       /\ ManagedConfig(d.config, d.backup)
       /\ ManagedAuth(d.auth, d.backup) \/ d.auth = tok
    THEN Plan(<<Write("backup", d.backup, [d.backup EXCEPT !.oauth = tok], TRUE)>>
              \o When(d.auth # tok, Write("auth", d.auth, tok, TRUE)))
    ELSE Plan(<<>>)

\* refresh_managed_model_catalog, with reconcile_pending_catalog_state
RefreshCatalog(d, catalog) ==
    LET b == d.backup
        settled == IF b.pend = 0 THEN b
                   ELSE [b EXCEPT !.hash = IF d.catalog = b.pend THEN b.pend ELSE @, !.pend = 0]
        pending == [settled EXCEPT !.pend = catalog, !.remove = FALSE]
    IN IF ~b.on THEN Plan(<<>>)
       ELSE IF b.attaching \/ b.restoring \/ ~UsableBackup(d) THEN Refused
       ELSE Plan(When(settled # b, Final("backup", b, settled, FALSE))
                 \o IF \/ ~b.path \/ d.catalog = catalog
                       \/ ~ManagedConfig(d.config, b) \/ ~ManagedAuth(d.auth, b)
                    THEN <<>>
                    ELSE <<Write("backup", settled, pending, FALSE),
                           Write("catalog", d.catalog, catalog, TRUE),
                           Write("backup", pending, [pending EXCEPT !.hash = catalog, !.pend = 0],
                                 FALSE)>>)

\* set_local_gateway_websockets_with_previous
SetTable(d, table) ==
    LET next == [d.backup EXCEPT !.table = table]
    IN IF d.backup.on /\ ManagedConfig(d.config, d.backup) /\ next # d.backup
       THEN Plan(<<Write("config", d.config, [d.config EXCEPT !.table = table], FALSE),
                   Write("backup", d.backup, next, TRUE)>>)
       ELSE Plan(<<>>)

\* discard_managed_binding_locked
DiscardBinding(d) ==
    LET b == d.backup
        a == d.acct
    IN IF a.on
       THEN <<Write("acct", a, NoAccount, TRUE)>>
            \o When(a.ref, Secret("acctSec", d.acctSec, "none", TRUE))
       ELSE IF ~b.on THEN <<>>
       ELSE When(b.path /\ d.catalog # 0 /\ d.catalog \in {b.hash, b.pend},
                 Final("catalog", d.catalog, 0, TRUE))
            \o When(b.ref, [Secret("sec", d.sec, "none", TRUE) EXCEPT !.back = "none"])
            \o <<Write("backup", b, NoBackup, TRUE)>>
\* restore_user_profile_snapshot_full_with: the two files of the recovery
\* point, then the binding is forgotten.
RestoreSnapshot(d) ==
    Plan(<<Write("config", d.config, pfSnap.config, TRUE),
           Write("auth", d.auth, pfSnap.auth, TRUE)>> \o DiscardBinding(d))

\* The phases of switch_to_local_with around the ones above: the account
\* binding that another provider has replaced is forgotten, at first without
\* its secret.
Detach(d) == Plan(<<Write("acct", d.acct, NoAccount, FALSE)>>)
DropSecret(d) == Plan(<<Secret("acctSec", d.acctSec, "none", FALSE)>>)
Reattach(d) == IF d.acct = NoAccount
               THEN Plan(<<Write("acct", NoAccount, pfRun.detached, FALSE)>>) ELSE Refused

PlanFor(phase, d) ==
    CASE phase = "prepare" -> PrepareLocal(d)
      [] phase = "attach" -> AttachLocal(d, pfRun.arg, pfRun.catalog)
      [] phase = "restoreLocal" -> RestoreLocal(d)
      [] phase = "attachAccount" -> AttachAccount(d, pfRun.arg)
      [] phase = "restoreAccount" -> RestoreAccount(d)
      [] phase = "syncAccount" -> SyncAccount(d, pfRun.arg)
      [] phase = "syncLocal" -> SyncLocal(d, pfRun.arg)
      [] phase = "catalog" -> RefreshCatalog(d, pfRun.catalog)
      [] phase = "websockets" -> SetTable(d, pfRun.arg)
      [] phase = "snapshot" -> RestoreSnapshot(d)
      [] phase = "detach" -> Detach(d)
      [] phase = "dropSecret" -> DropSecret(d)
      [] phase = "reattach" -> Reattach(d)

(***************************************************************************)
(* Commands                                                                *)
(***************************************************************************)

StartCommand(todo, arg, catalog) ==
    /\ ~pfRun.on
    /\ pfCount.commands < PfMaxCommands
    /\ pfRun' = [IdleProfile EXCEPT !.on = TRUE, !.todo = todo, !.arg = arg, !.catalog = catalog]
    /\ pfCount' = [pfCount EXCEPT !.commands = @ + 1]
    /\ UNCHANGED <<pfDisk, pfSnap>>

\* Where the sign-in the user made last can be found again
LoginOnDisk ==
    \/ pfLogin = pfDisk.auth
    \/ pfDisk.backup.on /\ pfDisk.backup.ref /\ pfDisk.sec = pfLogin
    \/ pfDisk.acct.on /\ pfDisk.acct.ref /\ pfDisk.acctSec = pfLogin
    \/ pfRun.detached.on /\ pfRun.detached.ref /\ pfDisk.acctSec = pfLogin

\* ensure_single_profile_backup
SingleBackup == ~(pfDisk.backup.on /\ pfDisk.acct.on)

\* switch_to_local_with, with or without a bound account
SwitchToLocal(oauth, catalog) ==
    /\ SingleBackup
    /\ LET a == pfDisk.acct
           first == IF ~a.on THEN <<>>
                    ELSE IF pfDisk.config.prov = "other" THEN <<"detach">>
                    ELSE <<"restoreAccount">>
           last == IF first = <<"detach">> /\ a.ref THEN <<"dropSecret">> ELSE <<>>
       IN StartCommand(first \o <<"prepare", "attach">> \o last,
                       IF oauth THEN Tokens[pfTok] ELSE "none", catalog)
    /\ UNCHANGED <<pfTok, pfLogin>>

\* switch_to_account_with
SwitchToAccount ==
    /\ SingleBackup
    /\ StartCommand((IF pfDisk.backup.on THEN <<"restoreLocal">> ELSE <<>>) \o <<"attachAccount">>,
                    Tokens[pfTok], 0)
    /\ UNCHANGED <<pfTok, pfLogin>>

\* restore
RestoreProfile ==
    /\ SingleBackup
    /\ pfDisk.backup.on \/ pfDisk.acct.on
    /\ StartCommand(IF pfDisk.acct.on THEN <<"restoreAccount">> ELSE <<"restoreLocal">>, "none", 0)
    /\ UNCHANGED <<pfTok, pfLogin>>

\* managed_account_token_update, then sync_account_bindings and
\* sync_local_gateway_binding: a token that ChatGPT has refreshed in
\* auth.json is adopted before the vault's token is written out.
Managed == pfDisk.acct.on \/ (pfDisk.backup.on /\ pfDisk.backup.oauth # "none")
NewestToken == IF Managed /\ pfTok < Len(Tokens) /\ pfDisk.auth = Tokens[pfTok + 1]
               THEN pfTok + 1 ELSE pfTok
SyncBindings ==
    /\ Managed
    /\ StartCommand(<<"syncAccount", "syncLocal">>, Tokens[NewestToken], 0)
    /\ pfTok' = NewestToken
    /\ UNCHANGED pfLogin

RefreshModels(catalog) ==
    /\ StartCommand(<<"catalog">>, "none", catalog)
    /\ UNCHANGED <<pfTok, pfLogin>>

SetWebsockets(table) ==
    /\ StartCommand(<<"websockets">>, table, 0)
    /\ UNCHANGED <<pfTok, pfLogin>>

\* snapshot_user_profile_with: the managed parts are replaced by what the
\* backup says the user had.
UserProfile(d) ==
    LET back(prov, managed, ref, sec) ==
            [on |-> TRUE, config |-> [prov |-> prov, table |-> "absent", cat |-> "user"],
             auth |-> IF managed THEN (IF ref THEN sec ELSE "none") ELSE d.auth]
        asIs == [on |-> TRUE, config |-> d.config, auth |-> d.auth]
    IN IF d.acct.on
       THEN IF AccountConfig(d.config)
            THEN [back(d.acct.prov, d.auth = d.acct.tok, d.acct.ref, d.acctSec)
                    EXCEPT !.config.cat = d.config.cat]
            ELSE asIs
       ELSE IF d.backup.on /\ ManagedConfig(d.config, d.backup)
       THEN back(d.backup.prov, ManagedAuth(d.auth, d.backup), d.backup.ref, d.sec)
       ELSE IF ExternalTakeover(d.config, d.backup)
       THEN [asIs EXCEPT !.config.table = "absent"]
       ELSE asIs
\* create_with
CreateSnapshot ==
    /\ ~pfRun.on /\ SingleBackup /\ ~pfSnap.on
    /\ pfSnap' = UserProfile(pfDisk)
    /\ UNCHANGED <<pfDisk, pfTok, pfRun, pfLogin, pfCount>>
\* delete_with; what only the recovery point had is given up, and the sign-in
\* in auth.json, if it is one of the user's, is the one to keep
DeleteSnapshot ==
    /\ ~pfRun.on /\ pfSnap.on
    /\ pfSnap' = NoSnapshot
    /\ pfLogin' = IF pfDisk.auth \in UserLogins THEN pfDisk.auth
                  ELSE IF LoginOnDisk THEN pfLogin ELSE "none"
    /\ UNCHANGED <<pfDisk, pfTok, pfRun, pfCount>>

\* restore_full
RestoreFull ==
    /\ SingleBackup /\ pfSnap.on
    /\ StartCommand(<<"snapshot">>, "none", 0)
    /\ UNCHANGED <<pfTok, pfLogin>>

(***************************************************************************)
(* Carrying a command out                                                  *)
(***************************************************************************)

Phase == Head(pfRun.todo)
ReadsBackup == {"prepare", "attach", "restoreLocal", "syncLocal", "catalog"}

\* How a command goes on after a phase: a failure ends it, except that a
\* detached account binding is put back.
AfterPhase(ok) ==
    LET todo == IF ok \/ (Phase = "restoreLocal" /\ pfRun.detached.on) THEN Tail(pfRun.todo)
                ELSE IF Phase = "attach" /\ pfRun.detached.on THEN <<"reattach">>
                ELSE IF Phase = "dropSecret" THEN <<"restoreLocal", "reattach">>
                ELSE <<>>
    IN IF todo = <<>> THEN IdleProfile
       ELSE [pfRun EXCEPT !.todo = todo, !.steps = <<>>, !.at = 0, !.undoing = FALSE, !.kept = FALSE]

BeginPhase ==
    /\ pfRun.on /\ pfRun.at = 0 /\ ~pfRun.undoing
    /\ LET d == IF Phase \in ReadsBackup THEN LocalBackup(pfDisk) ELSE pfDisk
           plan == PlanFor(Phase, d)
       IN /\ pfDisk' = d
          /\ pfRun' = IF plan.ok
                      THEN [pfRun EXCEPT !.steps = plan.steps, !.at = 1,
                                         !.detached = IF Phase = "detach" THEN d.acct ELSE @]
                      ELSE AfterPhase(FALSE)
          \* the user has asked for the sign-in of the recovery point
          /\ pfLogin' = IF Phase # "snapshot" THEN pfLogin
                        ELSE IF pfSnap.auth \in UserLogins THEN pfSnap.auth ELSE "none"
    /\ UNCHANGED <<pfSnap, pfTok, pfCount>>

Step == pfRun.steps[pfRun.at]
Carrying == pfRun.on /\ ~pfRun.undoing /\ pfRun.at \in 1..Len(pfRun.steps)

\* without the comparison of replace_if_unchanged
WriteAnyway ==
    /\ Carrying
    /\ pfDisk' = [pfDisk EXCEPT ![Step.f] = Step.new]
    /\ pfRun' = [pfRun EXCEPT !.at = @ + 1]
    /\ UNCHANGED <<pfSnap, pfTok, pfLogin, pfCount>>
WriteStep ==
    /\ Carrying
    /\ Step.cas => pfDisk[Step.f] = Step.old
    /\ pfDisk' = [pfDisk EXCEPT ![Step.f] = Step.new]
    /\ pfRun' = [pfRun EXCEPT !.at = @ + 1]
    /\ UNCHANGED <<pfSnap, pfTok, pfLogin, pfCount>>

Abandon == pfRun' = IF Step.undo THEN [pfRun EXCEPT !.undoing = TRUE, !.at = @ - 1]
                    ELSE AfterPhase(FALSE)
\* profile_changed_at: somebody else has changed the file
RefuseStep ==
    /\ Carrying
    /\ Step.cas /\ pfDisk[Step.f] # Step.old
    /\ Abandon
    /\ UNCHANGED <<pfDisk, pfSnap, pfTok, pfLogin, pfCount>>
\* Two faults are known to cost the user the sign-in, and nothing is claimed
\* after them: a recovery point whose last write fails has already deleted the
\* secret, and a crash while an account profile is being restored leaves another
\* provider next to the account's token, which looks like a takeover.
FailStep ==
    /\ Carrying
    /\ pfCount.faults < PfMaxFaults
    /\ Abandon
    /\ pfCount' = [pfCount EXCEPT !.faults = @ + 1, !.torn = @ \/ Phase = "snapshot"]
    /\ pfLogin' = IF Phase = "snapshot" /\ Step.f = "backup" THEN "none" ELSE pfLogin
    /\ UNCHANGED <<pfDisk, pfSnap, pfTok>>

\* rollback_file, rollback_backup, restore_secret_snapshot and
\* merge_rollbacks: each write is taken back unless its file has changed again.
UndoStep ==
    /\ pfRun.undoing /\ pfRun.at >= 1
    /\ LET s == Step
           skip == s.cleanup /\ pfRun.kept
           blocked == s.cas /\ pfDisk[s.f] # s.new
       IN /\ pfDisk' = IF skip \/ blocked THEN pfDisk ELSE [pfDisk EXCEPT ![s.f] = s.back]
          /\ pfRun' = [pfRun EXCEPT !.at = @ - 1,
                                    !.kept = @ \/ (blocked /\ s.f \in {"backup", "acct"})]
    /\ UNCHANGED <<pfSnap, pfTok, pfLogin, pfCount>>

EndPhase ==
    /\ pfRun.on
    /\ IF pfRun.undoing THEN pfRun.at = 0 ELSE pfRun.at > Len(pfRun.steps)
    /\ pfRun' = AfterPhase(~pfRun.undoing)
    /\ UNCHANGED <<pfDisk, pfSnap, pfTok, pfLogin, pfCount>>

PfCrash ==
    /\ pfRun.on
    /\ pfCount.faults < PfMaxFaults
    /\ pfRun' = IdleProfile
    /\ pfCount' = [pfCount EXCEPT !.faults = @ + 1,
                                  !.torn = @ \/ Phase \in {"snapshot", "websockets"}]
    /\ pfLogin' = IF /\ Phase \in {"restoreAccount", "snapshot"}
                     /\ pfDisk.acct.on /\ pfDisk.config.prov = "other"
                  THEN "none" ELSE pfLogin
    /\ UNCHANGED <<pfDisk, pfSnap, pfTok>>

(***************************************************************************)
(* What the user, ChatGPT and other tools do                               *)
(***************************************************************************)

Edit(disk, login) ==
    /\ pfCount.edits < PfMaxEdits
    /\ pfDisk' = disk
    /\ pfLogin' = login
    /\ pfCount' = [pfCount EXCEPT !.edits = @ + 1]
    /\ UNCHANGED <<pfSnap, pfRun>>

NextLogin == Logins[pfCount.edits + 2]
SignIn == Edit([pfDisk EXCEPT !.auth = NextLogin], NextLogin) /\ UNCHANGED pfTok
\* Another tool configures itself as the provider, with a sign-in of its own
TakeOver ==
    /\ Edit([pfDisk EXCEPT !.config.prov = "other", !.auth = NextLogin], NextLogin)
    /\ UNCHANGED pfTok
ChangeProvider ==
    /\ PfProviderEdits
    /\ Edit([pfDisk EXCEPT !.config.prov = "other"], pfLogin)
    /\ UNCHANGED pfTok
ChatGPTRotates ==
    /\ pfTok < Len(Tokens) /\ pfDisk.auth = Tokens[pfTok]
    /\ Edit([pfDisk EXCEPT !.auth = Tokens[pfTok + 1]], pfLogin)
    /\ UNCHANGED pfTok
RelayRotates ==
    /\ pfTok < Len(Tokens)
    /\ Edit(pfDisk, pfLogin)
    /\ pfTok' = pfTok + 1
LoseCatalog ==
    /\ pfDisk.catalog # 0
    /\ Edit([pfDisk EXCEPT !.catalog = 0], pfLogin)
    /\ UNCHANGED pfTok

PfNext ==
    \/ \E oauth \in BOOLEAN, catalog \in 0..1 : SwitchToLocal(oauth, catalog)
    \/ SwitchToAccount \/ RestoreProfile \/ SyncBindings
    \/ RefreshModels(2) \/ SetWebsockets("http") \/ CreateSnapshot \/ DeleteSnapshot \/ RestoreFull
    \/ BeginPhase \/ WriteStep \/ RefuseStep \/ FailStep \/ UndoStep \/ EndPhase \/ PfCrash
    \/ SignIn \/ TakeOver \/ ChangeProvider \/ ChatGPTRotates \/ RelayRotates \/ LoseCatalog

PfSpec == PfInit /\ [][PfNext]_pfVars

PfTypeOK ==
    /\ pfDisk.config \in Configs /\ {pfDisk.auth, pfDisk.sec, pfDisk.acctSec} \subseteq Auths
    /\ pfDisk.catalog \in 0..2
    /\ pfTok \in DOMAIN Tokens
    /\ pfRun.at \in 0..(Len(pfRun.steps) + 1)

\* The sign-in the user made last is always somewhere: in auth.json, in a
\* recovery point, or in the secret that the current backup names.  It takes an
\* attach, a restore and an edit between two of their writes to lose it
\* (replace_if_unchanged, attach_local_locked, restore_account_locked).
UserLoginKept == pfLogin \in {"none", pfSnap.auth} \/ LoginOnDisk

\* As long as nobody else touches the profile, the gateway binding can be
\* restored, wherever a failure or a crash has left it (restore_local_locked,
\* local_backup): each prefix of the writes of an attach, a restore, a catalog
\* refresh or a token update is a state from which restoring goes on.
RestoreResumes ==
    (pfCount.edits = 0 /\ ~pfCount.torn /\ ~pfRun.on /\ pfDisk.backup.on /\ SingleBackup)
        => RestoreLocal(LocalBackup(pfDisk)).ok
====
