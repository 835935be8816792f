---------------------------- MODULE ProfileSwitch ----------------------------
(***************************************************************************)
(* The desktop commands that move ChatGPT between its own sign-in, an        *)
(* account of the pool, the local gateway and a remote server:              *)
(* src-tauri/.../commands/profiles.rs with profiles/history.rs, process.rs   *)
(* and the history repair of profiles/repair.rs, and the key rotation of the *)
(* server in http/management/keys.rs.  setup_guard() serializes commands.    *)
(* What happens to the profile's own files is one step here; CodexProfile   *)
(* has its parts.                                                           *)
(***************************************************************************)
EXTENDS Naturals, FiniteSets

CONSTANTS PsRollouts,     \* conversations: a rollout file and a database row each
          PsMaxCommands,  \* bound on commands
          PsMaxFaults     \* bound on failures, lost answers and crashes

ASSUME SwitchAssumption ==
    /\ IsFiniteSet(PsRollouts) /\ PsRollouts # {}
    /\ {PsMaxCommands, PsMaxFaults} \subseteq Nat

VARIABLES
    psHist,     \* the provider that each file and each row names
    psBackup,   \* the repair backup, and whether there is one
    psProf,     \* what the profile is attached to, and the server key it holds
    psApp,      \* whether ChatGPT runs
    psSrv,      \* the keys of the server
    psCmd,      \* the command in progress
    psCount     \* commands and faults so far, and what they have cost

psVars == <<psHist, psBackup, psProf, psApp, psSrv, psCmd, psCount>>

Providers == {"chatgpt", "relay"}
Bindings == {"none", "account", "local", "remote", "source"}
IdleCmd == [op |-> "none", at |-> "idle", via |-> "none", sync |-> FALSE, files |-> {},
            todo |-> {}, rows |-> {}, current |-> 0, rotation |-> 0, stopped |-> FALSE]
\* CodexHistoryProvider
Provider(via) == IF via \in {"local", "remote", "source"} THEN "relay" ELSE "chatgpt"
Target == Provider(psCmd.via)

PsInit ==
    /\ psHist = [r \in PsRollouts |-> [file |-> "chatgpt", row |-> "chatgpt"]]
    /\ psBackup = [on |-> FALSE, copy |-> psHist]
    /\ psProf = [via |-> "none", key |-> 0]
    /\ psApp \in BOOLEAN
    /\ psSrv = [system |-> 1, pending |-> {}, next |-> 2, late |-> 0]
    /\ psCmd = IdleCmd
    /\ psCount = [commands |-> 0, faults |-> 0, crashed |-> FALSE, stranded |-> FALSE]

PsFault == [psCount EXCEPT !.faults = @ + 1]
MayFail == psCount.faults < PsMaxFaults
PsAt(stage) == psCmd.at = stage
Go(stage) == psCmd' = [psCmd EXCEPT !.at = stage]
\* restart_codex_after_failed_change, restart_codex_after_restore: a command
\* that fails starts ChatGPT again.  restore_codex_profile and
\* launch_codex_source return before that when the history repair fails.
Restarts == ~(/\ psCmd.op \in {"restore", "source"}
              /\ psCmd.at \in {"preview", "apply", "unrepair"})
Fails == /\ psCmd' = IdleCmd
         /\ psApp' = (psApp \/ (psCmd.stopped /\ Restarts))

(***************************************************************************)
(* Commands                                                                *)
(***************************************************************************)

\* history_provider_changed: whether the history has to follow the profile.  A
\* profile without a binding is looked through when an account takes it over.
HistoryProviderChanged(via) ==
    IF Provider(via) = "relay" THEN Provider(psProf.via) # "relay" ELSE psProf.via # "account"

BeginCommand(op, via) ==
    /\ PsAt("idle")
    /\ psCount.commands < PsMaxCommands
    /\ psCmd' = [IdleCmd EXCEPT !.op = op, !.at = "stop", !.via = via,
                                !.sync = HistoryProviderChanged(via),
                                !.current = IF op = "remote" THEN psSrv.system ELSE 0]
    /\ psCount' = [psCount EXCEPT !.commands = @ + 1]
    /\ UNCHANGED <<psHist, psBackup, psProf, psApp, psSrv>>

\* attach_codex_to_local_gateway does nothing when it is attached already.
AttachLocalGateway == psProf.via # "local" /\ BeginCommand("local", "local")
\* attach_codex_to_remote_gateway reads the current key of the server first.
AttachRemoteGateway == BeginCommand("remote", "remote")
LaunchCodexSource == BeginCommand("source", "source")
ActivateAccountProfile == BeginCommand("account", "account")
RestoreCodexProfile == psProf.via # "none" /\ BeginCommand("restore", "none")
\* restore_managed_profiles_before_reset
RestoreBeforeReset == psProf.via # "none" /\ BeginCommand("reset", "none")

\* stop_codex_and_sync_account, and what the command resolves before it touches
\* the history: a failure starts ChatGPT again.
StopCodex ==
    /\ PsAt("stop")
    /\ \/ /\ psCmd' = [psCmd EXCEPT !.stopped = psApp,
                                    !.at = IF psCmd.sync THEN "preview" ELSE "prepare"]
          /\ psApp' = FALSE
          /\ UNCHANGED psCount
       \/ /\ MayFail /\ psCount' = PsFault
          /\ psCmd' = IdleCmd
          /\ UNCHANGED psApp
    /\ UNCHANGED <<psHist, psBackup, psProf, psSrv>>

\* preview: the files whose session metadata names another provider, and of
\* the rows only those of such files.  synchronize does nothing when there
\* are none.
Preview ==
    /\ PsAt("preview")
    /\ LET files == {r \in PsRollouts : psHist[r].file # Target}
       IN psCmd' = [psCmd EXCEPT !.files = files, !.todo = files,
                                 !.rows = {r \in files : psHist[r].row # Target},
                                 !.at = IF files = {} THEN "prepare" ELSE "apply"]
    /\ UNCHANGED <<psHist, psBackup, psProf, psApp, psSrv, psCount>>

\* create_backup
BackupOf(hist) == [on |-> TRUE, copy |-> hist]
\* apply up to the first rewrite; a failure leaves the history alone
ApplyRepair ==
    /\ PsAt("apply")
    /\ \/ /\ psBackup' = BackupOf(psHist)
          /\ Go("rewrite")
          /\ UNCHANGED <<psApp, psCount>>
       \/ /\ MayFail /\ psCount' = PsFault
          /\ Fails
          /\ UNCHANGED psBackup
    /\ UNCHANGED <<psHist, psProf, psSrv>>

\* apply_snapshot and rewrite_rollout: file after file.  A failure, which may
\* come after the file was replaced, restores the backup.
RewriteRollout(r) ==
    /\ PsAt("rewrite") /\ r \in psCmd.todo
    /\ \E done \in BOOLEAN, ok \in BOOLEAN :
        /\ ok => done
        /\ psHist' = IF done THEN [psHist EXCEPT ![r].file = Target] ELSE psHist
        /\ IF ok
           THEN /\ psCmd' = [psCmd EXCEPT !.todo = @ \ {r},
                                          !.at = IF psCmd.todo = {r} THEN "database" ELSE @]
                /\ UNCHANGED psCount
           ELSE MayFail /\ psCount' = PsFault
                /\ psCmd' = [psCmd EXCEPT !.at = "unrepair", !.todo = psCmd.files]
    /\ UNCHANGED <<psBackup, psProf, psApp, psSrv>>

UpdateRows ==
    /\ PsAt("database")
    /\ \/ /\ psHist' = [r \in PsRollouts |-> IF r \in psCmd.rows
                            THEN [psHist[r] EXCEPT !.row = Target] ELSE psHist[r]]
          /\ Go("prepare") /\ UNCHANGED psCount
       \/ /\ MayFail /\ psCount' = PsFault
          /\ psCmd' = [psCmd EXCEPT !.at = "unrepair", !.todo = psCmd.files]
          /\ UNCHANGED psHist
    /\ UNCHANGED <<psBackup, psProf, psApp, psSrv>>

\* restore_manifest, inside apply or from rollback_codex_history, which then
\* discards the backup
RestoreManifest ==
    /\ PsAt("unrepair") \/ PsAt("rollback")
    /\ psHist' = [r \in PsRollouts |->
                    [file |-> IF r \in psCmd.files THEN psBackup.copy[r].file ELSE psHist[r].file,
                     row |-> IF psCmd.rows = {} THEN psHist[r].row ELSE psBackup.copy[r].row]]
    /\ psBackup' = IF PsAt("rollback") THEN [psBackup EXCEPT !.on = FALSE] ELSE psBackup
    /\ Fails
    /\ UNCHANGED <<psProf, psSrv, psCount>>

\* fetch_codex_model_catalog, and before it, for a server, prepare_profile_key_rotation.  A failure ends the command; the
\* history stays as it was just rewritten.
PrepareRotation ==
    /\ PsAt("prepare") /\ psCmd.op = "remote"
    /\ \E made \in BOOLEAN, ok \in BOOLEAN :
        /\ ok => made
        /\ psSrv' = IF made THEN [psSrv EXCEPT !.pending = @ \union {psSrv.next}, !.next = @ + 1]
                    ELSE psSrv
        /\ IF ok THEN /\ psCmd' = [psCmd EXCEPT !.rotation = psSrv.next, !.at = "fetch"]
                      /\ UNCHANGED <<psApp, psCount>>
           ELSE MayFail /\ psCount' = PsFault /\ Fails
    /\ UNCHANGED <<psHist, psBackup, psProf>>
FetchCatalog ==
    /\ \/ PsAt("prepare") /\ psCmd.op = "local"
       \/ PsAt("fetch")
    /\ \/ /\ psCmd.rotation # 0 => psCmd.rotation \in psSrv.pending
          /\ Go("profile") /\ UNCHANGED <<psApp, psSrv, psCount>>
       \/ /\ IF psCmd.rotation # 0 /\ psCmd.rotation \notin psSrv.pending THEN UNCHANGED psCount
             ELSE MayFail /\ psCount' = PsFault
          /\ Fails
          /\ psSrv' = [psSrv EXCEPT !.pending = @ \ {psCmd.rotation}]
    /\ UNCHANGED <<psHist, psBackup, psProf>>
NothingToFetch ==
    /\ PsAt("prepare") /\ psCmd.op \in {"account", "source", "restore", "reset"}
    /\ Go("profile")
    /\ UNCHANGED <<psHist, psBackup, psProf, psApp, psSrv, psCount>>

\* codex::attach_..., attach_account or restore, with
\* rollback_history_on_error: success discards the backup, failure restores
\* it; abort_profile_key_rotation forgets the key that was prepared.
ChangeProfile ==
    /\ PsAt("profile")
    /\ \/ /\ psProf' = [via |-> psCmd.via, key |-> psCmd.rotation]
          /\ psBackup' = IF psCmd.files # {} THEN [psBackup EXCEPT !.on = FALSE] ELSE psBackup
          /\ IF psCmd.op = "remote" THEN Go("commit") /\ UNCHANGED psApp
             ELSE /\ psCmd' = IdleCmd
                  /\ psApp' = (psCmd.op \in {"restore", "reset"} /\ psCmd.stopped)
          /\ UNCHANGED <<psSrv, psCount>>
       \/ /\ MayFail /\ psCount' = PsFault
          /\ psSrv' = [psSrv EXCEPT !.pending = @ \ {psCmd.rotation}]
          /\ IF psCmd.files # {} THEN Go("rollback") /\ UNCHANGED psApp ELSE Fails
          /\ UNCHANGED <<psProf, psBackup>>
    /\ UNCHANGED psHist

(***************************************************************************)
(* Key rotation                                                            *)
(***************************************************************************)

\* commit_profile_key_rotation on the server: the secret of the system key is
\* replaced, and every rotation is forgotten.
Committed(key) == [psSrv EXCEPT !.system = key, !.pending = {}, !.late = 0]

\* The request may be carried out or not, and may also be carried out later.
CommitRotation ==
    /\ PsAt("commit")
    /\ \/ /\ psCmd.rotation \in psSrv.pending
          /\ psSrv' = Committed(psCmd.rotation)
          /\ psCmd' = IdleCmd /\ psApp' = psApp /\ UNCHANGED psCount
       \/ /\ psCmd.rotation \notin psSrv.pending
          /\ Go("observe") /\ UNCHANGED <<psSrv, psApp, psCount>>
       \/ /\ MayFail /\ psCount' = PsFault
          /\ psCmd.rotation \in psSrv.pending
          /\ psSrv' \in {psSrv, Committed(psCmd.rotation), [psSrv EXCEPT !.late = psCmd.rotation]}
          /\ Go("observe") /\ UNCHANGED psApp
    /\ UNCHANGED <<psHist, psBackup, psProf>>

\* append_profile_rollback_error: the profile goes back to the key that was
\* read first, unless that fails too.  The rotation is aborted either way.
RollBackProfile ==
    /\ Go("abort")
    /\ \/ /\ psProf' = [via |-> "remote", key |-> psCmd.current]
          /\ UNCHANGED psCount
       \/ /\ MayFail
          /\ psCount' = [PsFault EXCEPT !.stranded = TRUE]
          /\ UNCHANGED psProf
    /\ UNCHANGED psApp
\* verify_remote_profile_binding fails
RefuseBinding ==
    /\ PsAt("commit") /\ MayFail
    /\ RollBackProfile
    /\ UNCHANGED <<psHist, psBackup, psSrv>>

\* profile_rotation_commit_state that rolls the profile back unless it saw
\* the commit
RollbackUnlessCommitted ==
    /\ PsAt("observe")
    /\ \/ psSrv.system = psCmd.rotation /\ psCmd' = IdleCmd /\ UNCHANGED <<psApp, psProf, psCount>>
       \/ (psSrv.system # psCmd.rotation \/ MayFail) /\ RollBackProfile
    /\ UNCHANGED <<psHist, psBackup, psSrv>>
\* profile_rotation_commit_state: what the server says now decides whether the
\* profile goes back to the key it was read with; no answer leaves it alone.
ObserveRotation ==
    /\ PsAt("observe")
    /\ \/ /\ psSrv.system = psCmd.rotation
          /\ psCmd' = IdleCmd
          /\ UNCHANGED <<psApp, psProf, psCount>>
       \/ psSrv.system = psCmd.current /\ RollBackProfile
       \/ /\ psSrv.system \notin {psCmd.rotation, psCmd.current}
          /\ Fails
          /\ UNCHANGED <<psProf, psCount>>
       \/ /\ MayFail /\ psCount' = PsFault
          /\ Fails
          /\ UNCHANGED psProf
    /\ UNCHANGED <<psHist, psBackup, psSrv>>

\* abort_profile_key_rotation after the profile went back; a failure is only
\* added to the message
AbortRotation ==
    /\ PsAt("abort")
    /\ \/ psSrv' = [psSrv EXCEPT !.pending = @ \ {psCmd.rotation}] /\ UNCHANGED psCount
       \/ MayFail /\ psCount' = PsFault /\ UNCHANGED psSrv
    /\ Fails
    /\ UNCHANGED <<psHist, psBackup, psProf>>

\* A commit that the client gave up waiting for is carried out, unless the
\* rotation is gone.  The profile may have gone back by then, and another
\* rotation may have begun, which the commit forgets.
LateCommit ==
    /\ psSrv.late # 0
    /\ psSrv' = IF psSrv.late \in psSrv.pending THEN Committed(psSrv.late)
                ELSE [psSrv EXCEPT !.late = 0]
    /\ psCount' = [psCount EXCEPT !.stranded = @ \/
                                    (/\ psSrv.late \in psSrv.pending
                                    /\ (psProf.key # psSrv.late \/ psCmd.rotation \notin {0, psSrv.late}))]
    /\ UNCHANGED <<psHist, psBackup, psProf, psApp, psCmd>>

PsCrash ==
    /\ ~PsAt("idle") /\ MayFail
    /\ psCmd' = IdleCmd
    /\ psCount' = [PsFault EXCEPT !.crashed = TRUE]
    /\ UNCHANGED <<psHist, psBackup, psProf, psApp, psSrv>>
\* cleanup_history_repair_backups when the backup has expired
ExpireBackup ==
    /\ PsAt("idle") /\ psBackup.on
    /\ psBackup' = [psBackup EXCEPT !.on = FALSE]
    /\ UNCHANGED <<psHist, psProf, psApp, psSrv, psCmd, psCount>>
\* launch_managed_codex_profile
LaunchCodex ==
    /\ PsAt("idle") /\ ~psApp
    /\ psApp' = TRUE
    /\ UNCHANGED <<psHist, psBackup, psProf, psSrv, psCmd, psCount>>

PsNext ==
    \/ AttachLocalGateway \/ AttachRemoteGateway \/ LaunchCodexSource
    \/ ActivateAccountProfile \/ RestoreCodexProfile \/ RestoreBeforeReset
    \/ StopCodex \/ Preview \/ ApplyRepair
    \/ \E r \in PsRollouts : RewriteRollout(r)
    \/ UpdateRows \/ RestoreManifest
    \/ PrepareRotation \/ FetchCatalog \/ NothingToFetch \/ ChangeProfile
    \/ RefuseBinding \/ CommitRotation \/ ObserveRotation \/ AbortRotation \/ LateCommit
    \/ PsCrash \/ ExpireBackup \/ LaunchCodex

PsSpec == PsInit /\ [][PsNext]_psVars

-----------------------------------------------------------------------------

PsTypeOK ==
    /\ psHist \in [PsRollouts -> [file : Providers, row : Providers]]
    /\ psProf \in [via : Bindings, key : 0..(psSrv.next - 1)]
    /\ psSrv.system \in 1..(psSrv.next - 1) /\ psSrv.pending \subseteq 1..(psSrv.next - 1)
    /\ psCmd.files \subseteq PsRollouts /\ psCmd.todo \subseteq psCmd.files

\* The key that the profile holds is a key the server accepts, whichever
\* request or answer of the rotation is lost and wherever the desktop stops
\* (attach_codex_to_remote_gateway, profile_rotation_commit_state).  The two
\* ways around it are a commit carried out after the client has seen the old
\* key and gone back to it, and a profile that could not be put back.
KeyAccepted ==
    psProf.key # 0 /\ ~psCount.stranded
        => psProf.key \in {psSrv.system} \union psSrv.pending

\* Between commands every row of the history database names the provider that
\* its rollout file names, also after a repair that failed half way
\* (apply_snapshot, restore_manifest).
RowsMatchFiles ==
    (PsAt("idle") /\ ~psCount.crashed) => \A r \in PsRollouts : psHist[r].file = psHist[r].row

====
