--------------------------- MODULE OwnershipTransfer ---------------------------
(***************************************************************************)
(* The journal with which the desktop hands accounts to a server and takes *)
(* them back: src-tauri/.../commands/remote_server/ownership.rs.           *)
(*                                                                         *)
(* The store (records and journal) survives a crash; the command that is   *)
(* carrying an operation out does not.  One command runs at a time, under  *)
(* setup_guard().  Every stretch between two awaits or two store writes is *)
(* a step; OwnCrash stands for the end of the process and for a store      *)
(* write that fails, which both leave the journal as it was.               *)
(*                                                                         *)
(* A copy of a login is fresh while it holds the newest tokens: the side   *)
(* that refreshes makes every other copy stale.                            *)
(***************************************************************************)
EXTENDS Integers, FiniteSets, Sequences
LOCAL INSTANCE SequencesExt

CONSTANTS OwnAccounts,      \* accounts known to the desktop
          OwnBatch,         \* REMOTE_TRANSFER_VALIDATION_BATCH_SIZE
          OwnMaxOps,        \* bound on the operations begun
          OwnMaxFaults      \* bound on crashes, lost answers and failed calls

ASSUME OwnershipAssumption ==
    /\ OwnBatch \in Nat \ {0}
    /\ OwnMaxOps \in Nat
    /\ OwnMaxFaults \in Nat

VARIABLES
    ownLocal,    \* per account: the desktop's record and its copy of the login
    ownServer,   \* per account: the server's record, id 0 when it has none
    ownNextId,   \* the next id the server generates
    ownOp,       \* STATE_OWNERSHIP_OPERATION in the store
    ownTarget,   \* the server that is connected: none, home or another
    ownRun,      \* the command in progress
    ownOps,      \* operations begun
    ownFaults,   \* faults that have happened
    ownTracked,  \* ids the journal has recorded as created by this desktop
    ownGone      \* ids deleted by the user or by the undoing of a move

ownVars == <<ownLocal, ownServer, ownNextId, ownOp, ownTarget, ownRun, ownOps, ownFaults,
             ownTracked, ownGone>>
\* What most steps leave alone.
ownBook == <<ownTracked, ownGone, ownTarget, ownOps>>

NoOperation == [kind |-> "none", phase |-> "none", locals |-> <<>>,
                remotes |-> <<>>, created |-> {}]
IdleRun == [at |-> "idle", remotes |-> <<>>, created |-> {}, doc |-> {}, code |-> "ok"]

OwnTypeOK ==
    /\ ownLocal \in [OwnAccounts -> [active : BOOLEAN, loc : Nat,
                                     missing : BOOLEAN, fresh : BOOLEAN]]
    /\ ownServer \in [OwnAccounts -> [id : Nat, fresh : BOOLEAN]]
    /\ ownNextId \in Nat \ {0}
    /\ ownTarget \in {"none", "home", "other"}
    /\ ownOp.kind \in {"none", "move", "return", "force"}
    /\ ownOp.locals \in Seq(OwnAccounts)
    /\ ownOp.created \subseteq Nat
    /\ ownRun.doc \subseteq OwnAccounts
    /\ ownOps \in 0..OwnMaxOps
    /\ ownFaults \in 0..OwnMaxFaults
    /\ ownTracked \subseteq Nat /\ ownGone \subseteq Nat

OwnInit ==
    /\ ownLocal = [a \in OwnAccounts |->
                     [active |-> TRUE, loc |-> 0, missing |-> FALSE, fresh |-> TRUE]]
    /\ ownServer = [a \in OwnAccounts |-> [id |-> 0, fresh |-> FALSE]]
    /\ ownNextId = 1
    /\ ownOp = NoOperation
    /\ ownTarget = "home"
    /\ ownRun = IdleRun
    /\ ownOps = 0
    /\ ownFaults = 0
    /\ ownTracked = {} /\ ownGone = {}

(***************************************************************************)
(* The journal                                                             *)
(***************************************************************************)

\* OwnershipOperationRecord::validate: a journal entry that names more
\* accounts than the operation has is refused by the store.
ValidOperation(op) ==
    /\ Len(op.remotes) <= Len(op.locals)
    /\ Cardinality(op.created) <= Len(op.locals)

\* replace_ownership_operation, or the end of the command when the entry is
\* refused: `at` is where a command continues whose entry was written.
ReplaceOperation(op, at) ==
    IF ValidOperation(op)
    THEN /\ ownOp' = op
         /\ ownTracked' = ownTracked \union op.created
         /\ ownRun' = [ownRun EXCEPT !.at = at]
    ELSE /\ ownRun' = IdleRun
         /\ UNCHANGED <<ownOp, ownTracked>>

ClearOperation == ownOp' = NoOperation /\ ownRun' = IdleRun

OwnIdle == ownRun.at = "idle"
OwnFault == ownFaults < OwnMaxFaults /\ ownFaults' = ownFaults + 1

\* The fresh entry of new_move_operation and its two siblings, written when
\* no other operation is pending (ensure_no_pending_ownership_operation).
BeginOperation(op, at) ==
    /\ OwnIdle /\ ownOp = NoOperation
    /\ ownOps < OwnMaxOps /\ ownOps' = ownOps + 1
    /\ ownOp' = op
    /\ ownRun' = [IdleRun EXCEPT !.at = at]

OwnContinue(at) == ownRun' = [ownRun EXCEPT !.at = at]

(***************************************************************************)
(* Moving accounts to the server                                           *)
(***************************************************************************)

\* ensure_local_accounts_transferable
Transferable(a) == ownLocal[a].loc = 0

StartMove(S) ==
    /\ S # {} /\ \A a \in S : Transferable(a)
    /\ ownTarget = "home"
    /\ BeginOperation([NoOperation EXCEPT !.kind = "move", !.phase = "MovePrepared",
                                 !.locals = SetToSeq(S)], "export")
    /\ UNCHANGED <<ownLocal, ownServer, ownNextId, ownFaults, ownTracked, ownGone, ownTarget>>

\* account_ids.chunks(REMOTE_TRANSFER_VALIDATION_BATCH_SIZE): the next chunk
NextBatch ==
    LET done == Len(ownRun.remotes)
        last == IF done + OwnBatch > Len(ownOp.locals) THEN Len(ownOp.locals)
                                                       ELSE done + OwnBatch
    IN  SubSeq(ownOp.locals, done + 1, last)

\* build_local_account_export_document and the preview of the import
ExportBatch ==
    /\ ownRun.at = "export"
    /\ \/ /\ ownRun' = [ownRun EXCEPT !.at = "confirm",
                          !.doc = {a \in ToSet(NextBatch) : ownLocal[a].fresh}]
          /\ UNCHANGED ownFaults
       \/ OwnFault /\ ownRun' = [ownRun EXCEPT !.at = "failed", !.code = "refused"]
    /\ UNCHANGED <<ownLocal, ownServer, ownNextId, ownOp, ownBook>>

\* The server imports an account: a known one keeps its id, a new one gets
\* the next; either way the imported login replaces the one it had.
Imported(S) ==
    LET new == {a \in S : ownServer[a].id = 0}
        order == SetToSeq(new)
        idOf(a) == ownNextId - 1 + CHOOSE i \in 1..Len(order) : order[i] = a
    IN  /\ ownNextId' = ownNextId + Cardinality(new)
        /\ ownServer' = [a \in OwnAccounts |->
                           IF a \notin S THEN ownServer[a]
                           ELSE [id |-> IF a \in new THEN idOf(a) ELSE ownServer[a].id,
                                 fresh |-> a \in ownRun.doc]]

\* The ids that the confirmation reports as created.
NewIds(S) == {ownServer'[a].id : a \in {b \in S : ownServer[b].id = 0}}

\* The confirmation arrives and the server's state shows the accounts in use.
ConfirmBatch ==
    /\ ownRun.at = "confirm"
    /\ Imported(ToSet(NextBatch))
    /\ ownRun' = [ownRun EXCEPT !.at = "applied",
                    !.remotes = @ \o [i \in 1..Len(NextBatch) |-> ownServer'[NextBatch[i]].id],
                    !.created = @ \union NewIds(ToSet(NextBatch))]
    /\ UNCHANGED <<ownLocal, ownOp, ownFaults, ownBook>>

\* Some accounts are refused, or their validation does not complete: the
\* created ones are known (validate_remote_transfer_confirmation).
ConfirmRefused ==
    /\ ownRun.at = "confirm"
    /\ OwnFault
    /\ \E S \in SUBSET ToSet(NextBatch) :
          /\ Imported(S)
          /\ ownRun' = [ownRun EXCEPT !.at = "failed", !.code = "refused",
                                      !.created = @ \union NewIds(S)]
    /\ UNCHANGED <<ownLocal, ownOp, ownBook>>

\* The confirmation is lost: what the server did is not known.
ConfirmLost ==
    /\ ownRun.at = "confirm"
    /\ OwnFault
    /\ \E S \in SUBSET ToSet(NextBatch) : Imported(S)
    /\ ownRun' = [ownRun EXCEPT !.at = "failed", !.code = "recovery"]
    /\ UNCHANGED <<ownLocal, ownOp, ownBook>>

\* The entry after a batch: what was applied, and what it created.
MoveProgress == [ownOp EXCEPT !.phase = "MoveRemoteApplying", !.remotes = ownRun.remotes,
                          !.created = ownRun.created]

RecordBatch ==
    /\ ownRun.at = "applied"
    /\ ReplaceOperation(MoveProgress,
           IF Len(ownRun.remotes) < Len(ownOp.locals) THEN "export" ELSE "commit")
    /\ UNCHANGED <<ownLocal, ownServer, ownNextId, ownFaults, ownGone, ownTarget, ownOps>>

OwnRecordFailure ==
    /\ ownRun.at = "failed"
    /\ ReplaceOperation(MoveProgress, "rollback")
    /\ UNCHANGED <<ownLocal, ownServer, ownNextId, ownFaults, ownGone, ownTarget, ownOps>>

ServerWithout(S) == [a \in OwnAccounts |->
                 IF ownServer[a].id \in S THEN [id |-> 0, fresh |-> FALSE] ELSE ownServer[a]]

\* delete_remote_accounts: complete when every delete was acknowledged or
\* found nothing; a delete that is not acknowledged may have happened.
DeleteRemote(S, complete) ==
    IF complete THEN /\ ownServer' = ServerWithout(S)
                     /\ UNCHANGED ownFaults
                ELSE /\ S # {} /\ OwnFault
                     /\ \E done \in SUBSET S : ownServer' = ServerWithout(done)

RollbackForgets ==
    /\ ownRun.at = "rollback"
    /\ \E complete \in BOOLEAN : DeleteRemote(ownRun.created, complete) /\ ClearOperation
    /\ UNCHANGED <<ownLocal, ownNextId, ownBook>>
\* The batch failed: undo what it created.  The journal is cleared only when
\* all of it is undone and nothing else can have been created.
RollbackMove ==
    /\ ownRun.at = "rollback"
    /\ \E complete \in BOOLEAN :
          /\ DeleteRemote(ownRun.created, complete)
          /\ IF complete /\ ownRun.code # "recovery"
             THEN ClearOperation
             ELSE UNCHANGED ownOp /\ ownRun' = IdleRun
    /\ UNCHANGED <<ownLocal, ownNextId, ownBook>>

CommitRemote ==
    /\ ownRun.at = "commit"
    /\ ReplaceOperation([MoveProgress EXCEPT !.phase = "MoveRemoteCommitted"], "deactivate")
    /\ UNCHANGED <<ownLocal, ownServer, ownNextId, ownFaults, ownGone, ownTarget, ownOps>>

\* mark_local_accounts_moved, at the locations of move_remote_locations
MarkMoved == [a \in OwnAccounts |->
    IF a \notin ToSet(ownOp.locals) THEN ownLocal[a]
    ELSE [ownLocal[a] EXCEPT !.active = FALSE,
            !.loc = ownOp.remotes[CHOOSE i \in 1..Len(ownOp.locals) : ownOp.locals[i] = a]]]

\* deactivate_transferred_local_accounts: the records and the journal change
\* in one transaction, then the gateway restarts with them.
DeactivateLocal ==
    /\ ownRun.at = "deactivate"
    /\ \/ /\ ownLocal' = MarkMoved
          /\ ownOp' = [ownOp EXCEPT !.phase = "MoveLocalCommitted"]
          /\ OwnContinue("finish")
          /\ UNCHANGED ownFaults
       \* the store refuses, or the restart fails and both are restored
       \/ OwnFault /\ OwnContinue("undo") /\ UNCHANGED <<ownLocal, ownOp>>
       \* the restart fails and so does the restoring (fail_closed)
       \/ /\ OwnFault
          /\ ownLocal' = MarkMoved
          /\ ownOp' = [ownOp EXCEPT !.phase = "MoveLocalCommitted"]
          /\ OwnContinue("undo")
    /\ UNCHANGED <<ownServer, ownNextId, ownBook>>

\* The deactivation failed: the created accounts are deleted again.
UndoMove ==
    /\ ownRun.at = "undo"
    /\ \E complete \in BOOLEAN :
          /\ DeleteRemote(ownRun.created, complete)
          /\ IF complete THEN ClearOperation ELSE UNCHANGED ownOp /\ ownRun' = IdleRun
    /\ ownGone' = ownGone \union ownRun.created
    /\ UNCHANGED <<ownTarget, ownLocal, ownNextId, ownTracked, ownOps>>

FinishOperation ==
    /\ ownRun.at = "finish"
    /\ ClearOperation
    /\ UNCHANGED <<ownLocal, ownServer, ownNextId, ownFaults, ownBook>>

(***************************************************************************)
(* Returning an account                                                    *)
(***************************************************************************)

StartReturn(a) ==
    /\ ownLocal[a].loc # 0 /\ ownTarget = "home"
    /\ BeginOperation([NoOperation EXCEPT !.kind = "return", !.phase = "ReturnPrepared",
                !.locals = <<a>>, !.remotes = <<ownLocal[a].loc>>], "fetch")
    /\ UNCHANGED <<ownLocal, ownServer, ownNextId, ownFaults, ownTracked, ownGone, ownTarget>>

ReturnedAccount == ownOp.locals[1]
OnServer == ownServer[ReturnedAccount].id = ownOp.remotes[1]

\* client.export_accounts: an account the server does not have is an error,
\* and the entry stays.
FetchReturned ==
    /\ ownRun.at = "fetch"
    /\ IF OnServer
       THEN ownRun' = [ownRun EXCEPT !.at = "stage",
                         !.doc = {a \in {ReturnedAccount} : ownServer[a].fresh}]
       ELSE ownRun' = IdleRun
    /\ UNCHANGED <<ownLocal, ownServer, ownNextId, ownOp, ownFaults, ownBook>>

\* stage_returned_remote_account: the login goes to the inactive record.
StageReturned ==
    /\ ownRun.at = "stage"
    /\ ownLocal' = [ownLocal EXCEPT ![ReturnedAccount].fresh = ReturnedAccount \in ownRun.doc]
    /\ OwnContinue("staged")
    /\ UNCHANGED <<ownServer, ownNextId, ownOp, ownFaults, ownBook>>

RecordStaged ==
    /\ ownRun.at = "staged"
    /\ ReplaceOperation([ownOp EXCEPT !.phase = "ReturnLocalStaged"], "remove")
    /\ UNCHANGED <<ownLocal, ownServer, ownNextId, ownFaults, ownGone, ownTarget, ownOps>>

\* ensure_local_ownership_is_staged
IsStaged == ~ownLocal[ReturnedAccount].active /\ ownLocal[ReturnedAccount].loc = ownOp.remotes[1]

\* remove_remote_account_for_return: the account is looked up, deleted and
\* looked up again; the command fails when an answer does not arrive.
RemoveReturned ==
    /\ ownRun.at = "remove"
    /\ IsStaged
    /\ \/ /\ ownServer' = ServerWithout({ownOp.remotes[1]})
          /\ OwnContinue("removed")
          /\ UNCHANGED ownFaults
       \/ /\ OwnFault
          /\ ownServer' \in {ownServer, ServerWithout({ownOp.remotes[1]})}
          /\ ownRun' = IdleRun
    /\ UNCHANGED <<ownLocal, ownNextId, ownOp, ownBook>>

RecordRemoved ==
    /\ ownRun.at = "removed"
    /\ ReplaceOperation([ownOp EXCEPT !.phase = "ReturnRemoteRemoved"], "activate")
    /\ UNCHANGED <<ownLocal, ownServer, ownNextId, ownFaults, ownGone, ownTarget, ownOps>>

ActivateGivesUp ==
    /\ ownRun.at = "activate"
    /\ OwnFault /\ ClearOperation
    /\ UNCHANGED <<ownLocal, ownServer, ownNextId, ownBook>>
ActivatedRecord(r) == [r EXCEPT !.active = TRUE, !.loc = 0, !.missing = FALSE]

\* activate_local_account_with_operation: again one transaction and a
\* restart; when the restart fails, records and entry are as before.
ActivateLocal ==
    /\ ownRun.at = "activate"
    /\ \/ /\ ownLocal' = [ownLocal EXCEPT ![ReturnedAccount] = ActivatedRecord(@)]
          /\ ownOp' = [ownOp EXCEPT !.phase = IF @ = "ForcePrepared" THEN "ForceLocalCommitted"
                                                                     ELSE "ReturnLocalCommitted"]
          /\ OwnContinue("finish")
          /\ UNCHANGED ownFaults
       \/ OwnFault /\ ownRun' = IdleRun /\ UNCHANGED <<ownLocal, ownOp>>
    /\ UNCHANGED <<ownServer, ownNextId, ownBook>>

(***************************************************************************)
(* Activating the preserved copy without the server                        *)
(***************************************************************************)

\* force_activate_remote_account_locally: refused while the server answers
\* and shows the account.  Its record stops being accounted for.
StartForce(a) ==
    /\ ownLocal[a].loc # 0
    /\ IF ownTarget = "home" /\ ownServer[a].id = ownLocal[a].loc
       THEN OwnFault ELSE UNCHANGED ownFaults
    /\ BeginOperation([NoOperation EXCEPT !.kind = "force", !.phase = "ForcePrepared",
                !.locals = <<a>>, !.remotes = <<ownLocal[a].loc>>], "prepare")
    /\ ownTracked' = ownTracked \ {ownLocal[a].loc}
    /\ UNCHANGED <<ownLocal, ownServer, ownNextId, ownGone, ownTarget>>

\* prepare_preserved_remote_account_credentials: a refresh that is due needs
\* the newest tokens and makes them newer; one that is refused ends the
\* command.
PrepareForced ==
    /\ ownRun.at = "prepare"
    /\ IsStaged
    /\ \/ OwnContinue("activate") /\ UNCHANGED ownServer
       \/ /\ ownLocal[ReturnedAccount].fresh
          /\ ownServer' = [ownServer EXCEPT ![ReturnedAccount].fresh = FALSE]
          /\ OwnContinue("activate")
       \/ /\ ~ownLocal[ReturnedAccount].fresh
          /\ ownRun' = IdleRun /\ UNCHANGED ownServer
    /\ UNCHANGED <<ownLocal, ownNextId, ownOp, ownFaults, ownBook>>

(***************************************************************************)
(* Recovery, and the rest of the world                                     *)
(***************************************************************************)

\* local_move_is_committed / local_return_is_committed
MoveIsCommitted == \A i \in 1..Len(ownOp.locals) :
    LET r == ownLocal[ownOp.locals[i]] IN ~r.active /\ r.loc = ownOp.remotes[i]
ReturnIsCommitted == ownLocal[ReturnedAccount].active /\ ownLocal[ReturnedAccount].loc = 0

\* ensure_move_accounts_still_present
MoveStillPresent == \A a \in ToSet(ownOp.locals) :
    ownLocal[a].loc = 0 \/ ownLocal[a].loc \in ToSet(ownOp.remotes)

RecoverTo(at) == ownRun' = [IdleRun EXCEPT !.at = at, !.created = ownOp.created]
\* recover_pending_remote_ownership: at the start, and whenever the server's
\* state is asked for.
RecoverOwnership ==
    /\ OwnIdle /\ ownOp # NoOperation
    /\ ownOp.kind = "force" \/ ownTarget = "home"
    /\ CASE ownOp.phase = "MoveLocalCommitted" ->
                RecoverTo(IF MoveIsCommitted THEN "finish" ELSE "deactivate")
         [] ownOp.kind = "move" /\ ownOp.phase # "MoveLocalCommitted" ->
                MoveStillPresent /\ RecoverTo("export")
         [] ownOp.phase = "ReturnPrepared" -> RecoverTo("fetch")
         [] ownOp.phase = "ReturnLocalStaged" -> RecoverTo("remove")
         [] ownOp.phase = "ReturnRemoteRemoved" -> RecoverTo("activate")
         [] ownOp.phase \in {"ReturnLocalCommitted", "ForceLocalCommitted"} ->
                RecoverTo(IF ReturnIsCommitted THEN "finish" ELSE "activate")
         [] ownOp.phase = "ForcePrepared" -> RecoverTo("prepare")
    /\ UNCHANGED <<ownLocal, ownServer, ownNextId, ownOp, ownFaults, ownBook>>

\* reconcile_remote_account_locations: linked records are marked when the
\* server no longer shows them, and are never active.
Reconciled == [a \in OwnAccounts |->
    IF ownLocal[a].loc = 0 THEN ownLocal[a]
    ELSE [ownLocal[a] EXCEPT !.active = FALSE, !.missing = ownServer[a].id # ownLocal[a].loc]]

\* get_remote_server_state, reconcile_saved_remote_ownership
ReconcileLocations ==
    /\ OwnIdle /\ ownOp = NoOperation /\ ownTarget = "home"
    /\ Reconciled # ownLocal
    /\ ownLocal' = Reconciled
    /\ UNCHANGED <<ownServer, ownNextId, ownOp, ownRun, ownFaults, ownBook>>

ConnectAny(server) ==
    /\ OwnIdle /\ server # ownTarget
    /\ ownTarget' = server
    /\ UNCHANGED <<ownLocal, ownServer, ownNextId, ownOp, ownRun, ownFaults,
                   ownTracked, ownGone, ownOps>>
\* connect_remote_server: another server is refused while an operation is
\* pending; its own records are reconciled.
ConnectServer(server) ==
    /\ OwnIdle /\ server # ownTarget
    /\ ownOp # NoOperation => server = "home"
    /\ ownTarget' = server
    /\ ownLocal' = IF server = "home" /\ ownOp = NoOperation THEN Reconciled ELSE ownLocal
    /\ UNCHANGED <<ownServer, ownNextId, ownOp, ownRun, ownFaults, ownTracked, ownGone, ownOps>>

\* disconnect_remote_server
DisconnectServer ==
    /\ OwnIdle /\ ownOp = NoOperation
    /\ ownTarget # "none" /\ ownTarget' = "none"
    /\ UNCHANGED <<ownLocal, ownServer, ownNextId, ownOp, ownRun, ownFaults,
                   ownTracked, ownGone, ownOps>>

\* execute_remote_server_action, DeleteAccount: refused for an account of
\* the pending operation.
DeleteOnServer(a) ==
    /\ OwnIdle /\ ownTarget = "home"
    /\ ownServer[a].id # 0 /\ ownServer[a].id \notin ToSet(ownOp.remotes)
    /\ OwnFault
    /\ ownServer' = ServerWithout({ownServer[a].id})
    /\ ownGone' = ownGone \union {ownServer[a].id}
    /\ UNCHANGED <<ownTarget, ownLocal, ownNextId, ownOp, ownRun, ownTracked, ownOps>>

\* Either side may refresh a login it uses at any time.
RotateLocal(a) ==
    /\ ownLocal[a].active /\ ownLocal[a].fresh
    /\ ownServer[a].fresh \/ a \in ownRun.doc
    /\ ownServer' = [ownServer EXCEPT ![a].fresh = FALSE]
    /\ ownRun' = [ownRun EXCEPT !.doc = @ \ {a}]
    /\ UNCHANGED <<ownLocal, ownNextId, ownOp, ownFaults, ownBook>>

RotateServer(a) ==
    /\ ownServer[a].id # 0 /\ ownServer[a].fresh
    /\ ownLocal[a].fresh \/ a \in ownRun.doc
    /\ ownLocal' = [ownLocal EXCEPT ![a].fresh = FALSE]
    /\ ownRun' = [ownRun EXCEPT !.doc = @ \ {a}]
    /\ UNCHANGED <<ownServer, ownNextId, ownOp, ownFaults, ownBook>>

OwnCrash ==
    /\ ~OwnIdle /\ OwnFault
    /\ ownRun' = IdleRun
    /\ UNCHANGED <<ownLocal, ownServer, ownNextId, ownOp, ownBook>>

\* The steps a command takes once it has begun.
MoveStep == ExportBatch \/ ConfirmBatch \/ ConfirmRefused \/ ConfirmLost \/ RecordBatch
            \/ OwnRecordFailure \/ RollbackMove \/ CommitRemote \/ DeactivateLocal \/ UndoMove
ReturnStep == FetchReturned \/ StageReturned \/ RecordStaged \/ RemoveReturned \/ RecordRemoved
              \/ ActivateLocal \/ PrepareForced
OwnStep == MoveStep \/ ReturnStep \/ FinishOperation

OwnNext ==
    \/ OwnStep
    \/ RecoverOwnership
    \/ ReconcileLocations
    \/ OwnCrash
    \/ DisconnectServer
    \/ \E server \in {"home", "other"} : ConnectServer(server)
    \/ \E S \in SUBSET OwnAccounts : StartMove(S)
    \/ \E a \in OwnAccounts :
          StartReturn(a) \/ StartForce(a) \/ DeleteOnServer(a) \/ RotateLocal(a) \/ RotateServer(a)

OwnSpec == OwnInit /\ [][OwnNext]_ownVars

\* A command goes on by itself, and the client keeps asking for the server's
\* state, which recovers what is pending.
OwnFairness == WF_ownVars(OwnStep) /\ WF_ownVars(RecoverOwnership)
OwnFairSpec == OwnSpec /\ OwnFairness

(***************************************************************************)
(* Properties                                                              *)
(***************************************************************************)

\* Whatever fails and however often the move is recovered: once the journal
\* is clear, a server record that it noted as created by this desktop is not
\* left beside a local account that is active (execute_move_operation).
OneOwner ==
    ownOp = NoOperation =>
        \A a \in OwnAccounts :
            ownLocal[a].active => ownServer[a].id \notin ownTracked

\* A return or a failed move strands no account: while neither the desktop nor
\* the server uses it, the journal has the operation that will bring it back,
\* unless the server's record was deleted by the user or because the restart
\* after a move failed together with its rollback (execute_return_operation,
\* commit_local_ownership_change).
NeverStranded ==
    \A a \in OwnAccounts :
        ~ownLocal[a].active /\ ownServer[a].id = 0
            => a \in ToSet(ownOp.locals) \/ ownLocal[a].loc \in ownGone

\* What a transfer of accounts between the desktop and the server keeps through
\* failures, crashes and recoveries (execute_move_operation,
\* execute_return_operation): at most one owner, and never none.
OwnershipSafe == OwnTypeOK /\ OneOwner /\ NeverStranded
=============================================================================
