---------------------------- MODULE AccountImport ----------------------------
(***************************************************************************)
(* Import of account files on the desktop: the import session, a snapshot  *)
(* of the preview next to a secret that holds the content, its prepared    *)
(* form after refresh tokens were exchanged, and the confirmation, which   *)
(* persists the selected items one at a time with rollback.  Commands are  *)
(* serialized by setup_guard; the token authority rotates the login of an  *)
(* account behind them, and the process may stop between any two writes.   *)
(*                                                                         *)
(* An entry holds credentials ("key", "access", "refresh", "id", "agent", or*)
(* "half" an agent identity), may state the authorization it is meant for, *)
(* and knows whose it is, whether it says so itself, and its refresh token. *)
(* Token 0 stands for none.  One session is modelled, reused once gone.    *)
(***************************************************************************)
EXTENDS Integers, SequencesExt

CONSTANTS AiContents,     \* the contents a user may import, sequences of entries
          AiOwners,       \* provider accounts and sources, as positive numbers
          AiMaxTok,       \* refresh tokens the provider may issue
          AiMaxCommands,  \* bound on commands
          AiMaxFaults     \* bound on failed writes, failed calls and crashes

ASSUME AiAssumption ==
    /\ \A c \in AiContents : \A i \in DOMAIN c : c[i].who \in AiOwners
    /\ AiOwners \subseteq Nat \ {0}
    /\ {AiMaxTok, AiMaxCommands, AiMaxFaults} \subseteq Nat

VARIABLES aiSnap,        \* the snapshot file of the session exists
          aiSecret,      \* the content in the vault, or nothing
          aiPrep,        \* the prepared snapshot, or nothing
          aiPrepSecret,  \* the prepared content in the vault, or nothing
          aiOld,         \* the session is older than its time to live
          aiRec,         \* accounts with a local record
          aiCred,        \* account -> refresh token stored, -1 access only, AgentOnly, 0 none
          aiSrc,         \* sources with a local record
          aiKey,         \* sources whose API key is in the vault
          aiSpent,       \* refresh tokens the provider has exchanged
          aiNext,        \* the next refresh token
          aiJob,         \* the command that holds setup_guard
          aiCommands, aiFaults,
          aiOrphan,      \* ghost: an interrupted start left its secret behind
          aiStale,       \* ghost: accounts written with a token already spent
          aiUndone,      \* ghost: a rollback failed
          aiLogins,      \* ghost: accounts that had a refresh token
          aiPairs        \* ghost: <<identity shown, identity imported>>

aiStore == <<aiSnap, aiSecret, aiPrep, aiPrepSecret>>
aiBooks == <<aiRec, aiCred, aiSrc, aiKey>>
aiTokens == <<aiSpent, aiNext>>
aiGhosts == <<aiOrphan, aiStale, aiUndone, aiLogins, aiPairs>>
aiVars == <<aiStore, aiOld, aiBooks, aiTokens, aiJob, aiCommands, aiFaults, aiGhosts>>

AiIdle == [pc |-> "idle", doc |-> FALSE, rows |-> <<>>, items |-> <<>>, out |-> <<>>,
           changed |-> FALSE, k |-> 1, sel |-> <<>>, failed |-> 0, tok |-> 0, old |-> 0,
           fresh |-> FALSE, todo |-> <<>>]

\* A credential that is an agent identity and nothing else.
AgentOnly == -2

FileTokens == UNION {{c[i].tok : i \in DOMAIN c} : c \in AiContents}

AiInit ==
    /\ aiSnap = FALSE /\ aiSecret = {} /\ aiPrep = {} /\ aiPrepSecret = {} /\ aiOld = FALSE
    /\ aiRec \in {{}, {1}} /\ aiCred = [p \in AiOwners |-> IF p \in aiRec THEN 1 ELSE 0]
    /\ aiSrc = {} /\ aiKey = {}
    /\ aiSpent = {} /\ aiNext = 1 + Max({1} \cup FileTokens)
    /\ aiJob = AiIdle /\ aiCommands = 0 /\ aiFaults = 0
    /\ aiOrphan = FALSE /\ aiStale = {} /\ aiUndone = FALSE /\ aiLogins = aiRec /\ aiPairs = {}

-----------------------------------------------------------------------------
(* Parsing: rows for the preview, items for the rows that can be selected. *)

\* The credentials of an entry that are used; none when the entry is refused: half
\* an agent identity, an id token alone, or an API key beside account credentials
\* with no word on which of the two is meant.
Credentials(e) ==
    LET account == e.has \ {"key"}
        used == IF account = {} \/ "key" \notin e.has THEN e.has
                ELSE CASE e.mode = "key" -> {"key"}
                       [] e.mode = "account" -> account
                       [] OTHER -> {}
    IN  IF "half" \in e.has \/ used \ {"agent"} = {"id"} THEN {} ELSE used

IsKey(e) == "key" \in Credentials(e)

\* The identity of an entry, or the fingerprint of its credential.
IdentityKey(c, i) ==
    IF c[i].named THEN <<IF IsKey(c[i]) THEN "api" ELSE "account", c[i].who>> ELSE <<"token", i>>

\* An entry that is refused, or whose identity an earlier one has, is shown, but
\* cannot be selected.
FirstOfItsKind(c, i) ==
    /\ Credentials(c[i]) # {}
    /\ \A j \in 1..(i - 1) : Credentials(c[j]) # {} => IdentityKey(c, j) # IdentityKey(c, i)

\* A file or a line that cannot be read stands as an entry that is refused.
Malformed == [id |-> 0, has |-> {}, mode |-> "none", who |-> 0, named |-> FALSE, tok |-> 0]

\* combine_import_documents: the entries of the files, one after the other.
Combine(documents) ==
    FlattenSeq([n \in DOMAIN documents |->
                   IF documents[n] = <<>> THEN <<Malformed>> ELSE documents[n]])

ParsedRows(c) ==
    [i \in DOMAIN c |-> [id |-> i, ok |-> FirstOfItsKind(c, i),
                         shown |-> IF c[i].named /\ Credentials(c[i]) # {} THEN c[i].who ELSE 0]]

Positions(c) == [i \in DOMAIN c |-> i]

ParsedItems(c) ==
    LET kept == SelectSeq(Positions(c), LAMBDA i : FirstOfItsKind(c, i))
    IN  [n \in DOMAIN kept |-> [c[kept[n]] EXCEPT !.has = Credentials(c[kept[n]])]]

Selectable(rows) == SelectSeq(rows, LAMBDA r : r.ok)

\* The row an item belongs to: rows that cannot be selected have no item.
RowByPosition(rows, n) == rows[n].id

RowOfItem(rows, n) == Selectable(rows)[n].id

\* resume: the prepared snapshot if there is one, with its items renamed after its
\* selectable rows in order; else the original one.  Nothing when the secret is
\* missing or the counts differ.
Resumed ==
    LET read(content, rows, prepared) ==
            {[rows |-> rows, prepared |-> prepared,
              items |-> [n \in DOMAIN ParsedItems(c) |->
                            [ParsedItems(c)[n] EXCEPT !.id = RowOfItem(rows, n)]]] :
                c \in {c \in content : Len(ParsedItems(c)) = Len(Selectable(rows))}}
    IN  IF aiPrep # {}
        THEN LET p == CHOOSE p \in aiPrep : TRUE
             IN  read(IF p.own THEN aiPrepSecret ELSE aiSecret, p.rows, TRUE)
        ELSE IF aiSnap
        THEN UNION {read({c}, ParsedRows(c), FALSE) : c \in aiSecret}
        ELSE {}

-----------------------------------------------------------------------------
(* Faults and the end of a command.                                        *)

\* A write or a call fails.
Faulted == aiFaults < AiMaxFaults /\ aiFaults' = aiFaults + 1
Worked == aiFaults' = aiFaults

Goto(pc) == aiJob' = [aiJob EXCEPT !.pc = pc]

\* The command is over; a preview of files that failed cancels its session.
GiveUp == aiJob' = IF aiJob.doc THEN [AiIdle EXCEPT !.pc = "clear1"] ELSE AiIdle

Begin(job) ==
    /\ aiJob.pc = "idle" /\ aiCommands < AiMaxCommands
    /\ aiCommands' = aiCommands + 1
    /\ aiJob' = job

-----------------------------------------------------------------------------
(* start_local_account_import, preview_account_import_documents            *)

\* The files of a preview: one, or one beside a file that cannot be read.
Documents == UNION {{<<c>>, <<<<>>, c>>} : c \in AiContents}

\* start_with_id under a fresh id: the secret first.
StartImport ==
    \E doc \in BOOLEAN :
    \E c \in IF doc THEN {Combine(d) : d \in Documents} ELSE AiContents :
        /\ ~aiSnap /\ aiSecret \cup aiPrepSecret = {} /\ aiPrep = {}
        /\ Begin([AiIdle EXCEPT !.pc = "write", !.doc = doc])
        /\ aiSecret' = {[i \in DOMAIN c |-> [c[i] EXCEPT !.id = i]]}
        /\ aiOld' = FALSE
        /\ UNCHANGED <<aiSnap, aiPrep, aiPrepSecret, aiBooks, aiTokens, aiFaults, aiGhosts>>

\* Then the snapshot; a preview of files goes on to prepare.
WriteSnapshot ==
    /\ aiJob.pc = "write" /\ Worked
    /\ aiSnap' = TRUE
    /\ aiJob' = IF aiJob.doc THEN [aiJob EXCEPT !.pc = "resume"] ELSE AiIdle
    /\ UNCHANGED <<aiSecret, aiPrep, aiPrepSecret, aiOld, aiBooks, aiTokens, aiCommands, aiGhosts>>

\* The snapshot cannot be written: the secret is deleted again.
SnapshotFails ==
    /\ aiJob.pc = "write" /\ Faulted
    /\ \/ aiSecret' = {} /\ aiOrphan' = aiOrphan
       \/ aiFaults + 1 < AiMaxFaults /\ aiSecret' = aiSecret /\ aiOrphan' = TRUE
    /\ aiJob' = AiIdle
    /\ UNCHANGED <<aiSnap, aiPrep, aiPrepSecret, aiOld, aiBooks, aiTokens, aiCommands,
                   aiStale, aiUndone, aiLogins, aiPairs>>

-----------------------------------------------------------------------------
(* prepare_local_account_import                                            *)

PrepareImport ==
    /\ aiSnap
    /\ Begin([AiIdle EXCEPT !.pc = "resume"])
    /\ UNCHANGED <<aiStore, aiOld, aiBooks, aiTokens, aiFaults, aiGhosts>>

ResumeToPrepare ==
    /\ aiJob.pc = "resume"
    /\ IF Resumed = {} THEN GiveUp
       ELSE \E s \in Resumed :
                aiJob' = [aiJob EXCEPT !.pc = "prepare", !.rows = s.rows, !.items = s.items]
    /\ UNCHANGED <<aiStore, aiOld, aiBooks, aiTokens, aiCommands, aiFaults, aiGhosts>>

\* exchange_refresh_token: a live token is spent and replaced.
Exchange(tok) ==
    /\ tok \notin aiSpent /\ aiNext <= AiMaxTok
    /\ aiSpent' = aiSpent \cup {tok}
    /\ aiNext' = aiNext + 1

\* Accounts whose stored token an exchange for a preview spends.
Holders(tok) == {p \in AiOwners : tok > 0 /\ aiCred[p] = tok}

NeedsExchange(item) == "refresh" \in item.has /\ "access" \notin item.has

AgentAlone(item) == item.has = {"agent"}

\* Only an agent identity that does not say whose it is cannot be looked up.
NoIdentity(item) == AgentAlone(item) /\ ~item.named

\* What build_import_credential_material makes of an item whose account is known.
Material(item, tok) ==
    [item EXCEPT !.has = (@ \cap {"agent"}) \cup (IF AgentAlone(item) THEN {} ELSE {"access"})
                                            \cup (IF tok = 0 THEN {} ELSE {"refresh"}),
                 !.tok = tok, !.named = TRUE]

Current == aiJob.items[aiJob.k]

RowOf(rows, id) == CHOOSE i \in DOMAIN rows : rows[i].id = id

\* prepare_import_preview keeps the item: an API key as it is, an account with
\* its exchanged tokens and the identity that was found.
PrepareItem ==
    /\ aiJob.pc = "prepare" /\ aiJob.k <= Len(aiJob.items)
    /\ LET item == Current
           kept(value, rows) ==
               aiJob' = [aiJob EXCEPT !.k = @ + 1, !.out = Append(@, value), !.rows = rows,
                                      !.changed = @ \/ NeedsExchange(item)]
       IN  \/ /\ IsKey(item) /\ kept(item, aiJob.rows)
              /\ UNCHANGED aiTokens
           \/ /\ ~IsKey(item) /\ ~NoIdentity(item)
              /\ IF NeedsExchange(item) THEN Exchange(item.tok) ELSE UNCHANGED aiTokens
              /\ kept(Material(item, IF NeedsExchange(item) THEN aiNext ELSE item.tok),
                      [aiJob.rows EXCEPT ![RowOf(aiJob.rows, item.id)].shown = item.who])
    /\ aiStale' = aiStale \cup (IF NeedsExchange(Current) THEN Holders(Current.tok) ELSE {})
    /\ UNCHANGED <<aiStore, aiOld, aiBooks, aiCommands, aiFaults, aiOrphan, aiUndone, aiLogins, aiPairs>>

\* The row cannot be selected any more, and its item has no prepared form.
RowRejected ==
    /\ \E changed \in {aiJob.changed, aiJob.changed \/ NeedsExchange(Current)} :
           aiJob' = [aiJob EXCEPT !.k = @ + 1, !.changed = changed,
                                  !.rows[RowOf(aiJob.rows, Current.id)].ok = FALSE]
    /\ aiStale' = aiStale \cup (IF aiNext' # aiNext THEN Holders(Current.tok) ELSE {})
    /\ UNCHANGED <<aiStore, aiOld, aiBooks, aiCommands, aiOrphan, aiUndone, aiLogins, aiPairs>>

\* A proxy is required and missing, the exchange fails, or nothing says whose it is.
RejectRow ==
    /\ aiJob.pc = "prepare" /\ aiJob.k <= Len(aiJob.items) /\ ~IsKey(Current)
    /\ \/ Faulted
       \/ Worked /\ NeedsExchange(Current) /\ Current.tok \in aiSpent
       \/ Worked /\ NoIdentity(Current)
    /\ UNCHANGED aiTokens
    /\ RowRejected

\* lookup_import_account_id fails, after the exchange if there was one.
LookupFails ==
    /\ aiJob.pc = "prepare" /\ aiJob.k <= Len(aiJob.items)
    /\ ~IsKey(Current) /\ ~Current.named /\ ~AgentAlone(Current)
    /\ Faulted
    /\ IF NeedsExchange(Current) THEN Exchange(Current.tok) ELSE UNCHANGED aiTokens
    /\ RowRejected

\* A lookup in the store or the vault fails, and the command with it.
PrepareFails ==
    /\ aiJob.pc = "prepare" /\ Faulted /\ GiveUp
    /\ UNCHANGED <<aiStore, aiOld, aiBooks, aiTokens, aiCommands, aiGhosts>>

\* ImportSessionStore::prepare: clear_prepared, secret and snapshot.
ForgetPreparedSecret ==
    /\ aiJob.pc = "prepare" /\ aiJob.k > Len(aiJob.items) /\ Worked
    /\ aiPrepSecret' = {}
    /\ Goto("forget")
    /\ UNCHANGED <<aiSnap, aiSecret, aiPrep, aiOld, aiBooks, aiTokens, aiCommands, aiGhosts>>

ForgetPrepared ==
    /\ aiJob.pc = "forget" /\ Worked
    /\ aiPrep' = {}
    /\ Goto("check")
    /\ UNCHANGED <<aiSnap, aiSecret, aiPrepSecret, aiOld, aiBooks, aiTokens, aiCommands, aiGhosts>>

\* The content that is prepared: the exchanged items if any item was exchanged,
\* else the original content.
PreparedContent == IF aiJob.changed THEN {aiJob.out} ELSE aiSecret

\* Its items must be as many as the rows that can still be selected.
CheckPrepared ==
    /\ aiJob.pc = "check"
    /\ IF \E c \in PreparedContent : Len(ParsedItems(c)) = Len(Selectable(aiJob.rows))
       THEN Goto(IF aiJob.changed THEN "keep" ELSE "final") ELSE GiveUp
    /\ UNCHANGED <<aiStore, aiOld, aiBooks, aiTokens, aiCommands, aiFaults, aiGhosts>>

KeepPrepared ==
    /\ aiJob.pc = "keep" /\ Worked
    /\ aiPrepSecret' = {aiJob.out}
    /\ Goto("final")
    /\ UNCHANGED <<aiSnap, aiSecret, aiPrep, aiOld, aiBooks, aiTokens, aiCommands, aiGhosts>>

WritePrepared ==
    /\ aiJob.pc = "final" /\ Worked
    /\ aiPrep' = {[own |-> aiJob.changed, rows |-> aiJob.rows]}
    /\ aiJob' = AiIdle
    /\ UNCHANGED <<aiSnap, aiSecret, aiPrepSecret, aiOld, aiBooks, aiTokens, aiCommands, aiGhosts>>

\* The prepared snapshot cannot be written: its secret is deleted again, if it can be.
WritePreparedFails ==
    /\ aiJob.pc = "final" /\ Faulted
    /\ aiPrepSecret' \in {{}, aiPrepSecret}
    /\ GiveUp
    /\ UNCHANGED <<aiSnap, aiSecret, aiPrep, aiOld, aiBooks, aiTokens, aiCommands, aiGhosts>>

\* A delete or a save of prepare fails.
StorePreparedFails ==
    /\ \/ aiJob.pc = "prepare" /\ aiJob.k > Len(aiJob.items)
       \/ aiJob.pc \in {"forget", "keep"}
    /\ Faulted /\ GiveUp
    /\ UNCHANGED <<aiStore, aiOld, aiBooks, aiTokens, aiCommands, aiGhosts>>

-----------------------------------------------------------------------------
(* confirm_local_account_import                                            *)

\* Items with only a refresh token have to be prepared first.
RefreshExchangeRequired(s, sel) ==
    ~s.prepared /\ \E n \in DOMAIN s.items : s.items[n].id \in sel /\ NeedsExchange(s.items[n])

ConfirmImport ==
    \E s \in Resumed : \E sel \in SUBSET DOMAIN s.rows :
        /\ sel # {} /\ ~RefreshExchangeRequired(s, sel)
        /\ Begin([AiIdle EXCEPT !.pc = "item", !.rows = s.rows, !.items = s.items,
                                !.sel = SetToSortSeq(sel, <)])
        /\ UNCHANGED <<aiStore, aiOld, aiBooks, aiTokens, aiFaults, aiGhosts>>

Selected == aiJob.sel[aiJob.k]

ItemsNamed(id) == {n \in DOMAIN aiJob.items : aiJob.items[n].id = id}

\* The item to import: the one that carries the id of the selected row.
Chosen == aiJob.items[CHOOSE n \in ItemsNamed(Selected) : TRUE]

ShownFor(id) == {aiJob.rows[i].shown : i \in {i \in DOMAIN aiJob.rows : aiJob.rows[i].id = id}}

Importable ==
    /\ \E i \in DOMAIN aiJob.rows : aiJob.rows[i].id = Selected /\ aiJob.rows[i].ok
    /\ ItemsNamed(Selected) # {}

\* The next item; after the last one the session is complete if nothing failed.
NextItem(failures) ==
    aiJob' = IF aiJob.k < Len(aiJob.sel)
             THEN [aiJob EXCEPT !.pc = "item", !.k = @ + 1, !.failed = failures, !.todo = <<>>]
             ELSE IF failures = 0 THEN [AiIdle EXCEPT !.pc = "clear1"] ELSE AiIdle

SkipItem ==
    /\ aiJob.pc = "item" /\ ~Importable
    /\ NextItem(aiJob.failed + 1)
    /\ UNCHANGED <<aiStore, aiOld, aiBooks, aiTokens, aiCommands, aiFaults, aiGhosts>>


\* An import without refresh token keeps the one the account has.
PreservedRefresh(tok, old) == IF tok = 0 THEN (IF old > 0 THEN old ELSE -1) ELSE tok

\* find_existing_account, and the credential stored for the account it finds.
StoredFor(who) == IF who \in aiRec THEN aiCred[who] ELSE 0

\* into_stored: an agent identity without access token is stored alone, without the
\* refresh token that was to be preserved.
IntoStored(item, tok, old) == IF AgentAlone(item) THEN AgentOnly ELSE PreservedRefresh(tok, old)

\* import_account_item up to the network calls: tokens, then the stored credential.
PrepareAccount ==
    /\ aiJob.pc = "item" /\ Importable /\ ~IsKey(Chosen) /\ ~NoIdentity(Chosen)
    /\ IF NeedsExchange(Chosen) THEN Exchange(Chosen.tok) ELSE UNCHANGED aiTokens
    /\ LET old == StoredFor(Chosen.who)
           tok == IF NeedsExchange(Chosen) THEN aiNext ELSE Chosen.tok
       IN  aiJob' = [aiJob EXCEPT !.pc = "save", !.tok = IntoStored(Chosen, tok, old), !.old = old,
                                  !.fresh = Chosen.who \notin aiRec]
    /\ aiStale' = aiStale \cup (IF NeedsExchange(Chosen) THEN Holders(Chosen.tok) ELSE {})
    /\ UNCHANGED <<aiStore, aiOld, aiBooks, aiCommands, aiFaults, aiOrphan, aiUndone, aiLogins, aiPairs>>

\* A call before the first write fails: exchange, lookup, model discovery.
AccountFails ==
    /\ \/ aiJob.pc = "item" /\ Importable /\ ~IsKey(Chosen)
       \/ aiJob.pc = "save"
    /\ \/ Faulted
       \/ Worked /\ aiJob.pc = "item" /\ NeedsExchange(Chosen) /\ Chosen.tok \in aiSpent
       \/ Worked /\ aiJob.pc = "item" /\ NoIdentity(Chosen)
    /\ NextItem(aiJob.failed + 1)
    /\ UNCHANGED <<aiStore, aiOld, aiBooks, aiTokens, aiCommands, aiGhosts>>

\* An account whose token was spent when it was written again.
Spoils(tok) == IF tok \in aiSpent THEN {Chosen.who} ELSE {}

\* persist_imported_account: the credential, then the record, the gateway, the
\* token authority and the quota queue.
AiSaveCredential ==
    /\ aiJob.pc = "save" /\ Worked
    /\ aiCred' = [aiCred EXCEPT ![Chosen.who] = aiJob.tok]
    /\ aiStale' = (aiStale \ {Chosen.who}) \cup Spoils(aiJob.tok)
    /\ aiPairs' = aiPairs \cup {<<shown, Chosen.who>> : shown \in ShownFor(Selected)}
    /\ Goto("record")
    /\ UNCHANGED <<aiStore, aiOld, aiRec, aiSrc, aiKey, aiTokens, aiCommands,
                   aiOrphan, aiUndone, aiLogins>>

AiUpsertAccount ==
    /\ aiJob.pc = "record"
    /\ \/ Worked /\ aiRec' = aiRec \cup {Chosen.who} /\ Goto("sync")
       \/ Faulted /\ aiRec' = aiRec /\ aiJob' = [aiJob EXCEPT !.pc = "undo", !.todo = <<"cred">>]
    /\ UNCHANGED <<aiStore, aiOld, aiCred, aiSrc, aiKey, aiTokens, aiCommands, aiGhosts>>

\* A new account's record goes when the old records are put back.
OldRecords == IF aiJob.fresh THEN aiRec \ {Chosen.who} ELSE aiRec

\* sync_accounts_or_rollback puts the records back itself, if it can.
AiSyncAccount ==
    /\ aiJob.pc = "sync"
    /\ \/ Worked /\ Goto("register") /\ UNCHANGED <<aiRec, aiUndone>>
       \/ /\ Faulted /\ aiJob' = [aiJob EXCEPT !.pc = "undo", !.todo = <<"cred">>]
          /\ \/ aiRec' = OldRecords /\ aiUndone' = aiUndone
             \/ aiFaults + 1 < AiMaxFaults /\ aiRec' = aiRec /\ aiUndone' = TRUE
    /\ UNCHANGED <<aiStore, aiOld, aiCred, aiSrc, aiKey, aiTokens, aiCommands,
                   aiOrphan, aiStale, aiLogins, aiPairs>>

\* The account is imported; or the authority or the queue refuses it.
RegisterAccount ==
    /\ aiJob.pc = "register"
    /\ \/ Worked /\ NextItem(aiJob.failed)
          /\ aiLogins' = aiLogins \cup (IF aiJob.tok > 0 THEN {Chosen.who} ELSE {})
       \/ Faulted /\ aiLogins' = aiLogins
          /\ aiJob' = [aiJob EXCEPT !.pc = "undo", !.todo = <<"cred", "rec">>]
    /\ UNCHANGED <<aiStore, aiOld, aiBooks, aiTokens, aiCommands,
                   aiOrphan, aiStale, aiUndone, aiPairs>>

\* restore_credential_item and the old records, in that order.
UndoAccount ==
    /\ aiJob.pc = "undo" /\ aiJob.todo # <<>> /\ Worked
    /\ IF Head(aiJob.todo) = "cred"
       THEN /\ aiCred' = [aiCred EXCEPT ![Chosen.who] = aiJob.old]
            /\ aiStale' = (aiStale \ {Chosen.who}) \cup Spoils(aiJob.old)
            /\ aiRec' = aiRec
       ELSE aiRec' = OldRecords /\ UNCHANGED <<aiCred, aiStale>>
    /\ aiJob' = [aiJob EXCEPT !.todo = Tail(@)]
    /\ UNCHANGED <<aiStore, aiOld, aiSrc, aiKey, aiTokens, aiCommands,
                   aiOrphan, aiUndone, aiLogins, aiPairs>>

UndoneAccount ==
    /\ aiJob.pc = "undo" /\ aiJob.todo = <<>>
    /\ NextItem(aiJob.failed + 1)
    /\ UNCHANGED <<aiStore, aiOld, aiBooks, aiTokens, aiCommands, aiFaults, aiGhosts>>

\* Recovery required: the rest of the rollback is given up.
UndoFails ==
    /\ aiJob.pc = "undo" /\ aiJob.todo # <<>> /\ Faulted
    /\ aiUndone' = TRUE
    /\ NextItem(aiJob.failed + 1)
    /\ UNCHANGED <<aiStore, aiOld, aiBooks, aiTokens, aiCommands, aiOrphan, aiStale, aiLogins, aiPairs>>

\* import_source_item: an API key becomes a source.
SaveSourceKey ==
    /\ aiJob.pc = "item" /\ Importable /\ IsKey(Chosen)
    /\ \/ Worked /\ aiKey' = aiKey \cup {Chosen.who}
          /\ aiJob' = [aiJob EXCEPT !.pc = "source", !.fresh = Chosen.who \notin aiSrc]
       \/ Faulted /\ aiKey' = aiKey /\ NextItem(aiJob.failed + 1)
    /\ UNCHANGED <<aiStore, aiOld, aiRec, aiCred, aiSrc, aiTokens, aiCommands, aiGhosts>>

OldKeys == IF aiJob.fresh THEN aiKey \ {Chosen.who} ELSE aiKey

UpsertSource ==
    /\ aiJob.pc = "source"
    /\ \/ /\ Worked /\ aiSrc' = aiSrc \cup {Chosen.who} /\ Goto("synckey")
          /\ UNCHANGED <<aiKey, aiUndone>>
       \/ /\ Faulted /\ aiSrc' = aiSrc /\ NextItem(aiJob.failed + 1)
          /\ \/ aiKey' = OldKeys /\ aiUndone' = aiUndone
             \/ aiFaults + 1 < AiMaxFaults /\ aiKey' = aiKey /\ aiUndone' = TRUE
    /\ UNCHANGED <<aiStore, aiOld, aiRec, aiCred, aiTokens, aiCommands,
                   aiOrphan, aiStale, aiLogins, aiPairs>>

KeyGoesAnyway(rolledBack) == OldKeys

\* The key goes only if the record is gone.
KeyAfterRollback(rolledBack) == IF rolledBack THEN OldKeys ELSE aiKey

SyncSource ==
    /\ aiJob.pc = "synckey"
    /\ \/ Worked /\ NextItem(aiJob.failed) /\ UNCHANGED <<aiSrc, aiKey>>
       \/ /\ Faulted /\ NextItem(aiJob.failed + 1)
          /\ \E rolledBack \in BOOLEAN :
                 /\ rolledBack \/ aiFaults + 1 < AiMaxFaults
                 /\ aiSrc' = IF rolledBack /\ aiJob.fresh THEN aiSrc \ {Chosen.who} ELSE aiSrc
                 /\ aiKey' = KeyAfterRollback(rolledBack)
    /\ UNCHANGED <<aiStore, aiOld, aiRec, aiCred, aiTokens, aiCommands, aiGhosts>>

-----------------------------------------------------------------------------
(* cancel, complete and cleanup_expired: the prepared secret and snapshot,  *)
(* then the secret, then the snapshot that lets them be found.             *)

CancelImport ==
    /\ Begin([AiIdle EXCEPT !.pc = "clear1"])
    /\ UNCHANGED <<aiStore, aiOld, aiBooks, aiTokens, aiFaults, aiGhosts>>

ClearOrder == <<"clear1", "clear2", "clear3", "clear4">>

ClearSnapshotFirst(n) ==
    /\ aiPrepSecret' = IF n = 1 THEN {} ELSE aiPrepSecret
    /\ aiPrep' = IF n = 2 THEN {} ELSE aiPrep
    /\ aiSecret' = IF n = 4 THEN {} ELSE aiSecret
    /\ aiSnap' = (n # 3 /\ aiSnap)

ClearStep(n) ==
    /\ aiPrepSecret' = IF n = 1 THEN {} ELSE aiPrepSecret
    /\ aiPrep' = IF n = 2 THEN {} ELSE aiPrep
    /\ aiSecret' = IF n = 3 THEN {} ELSE aiSecret
    /\ aiSnap' = (n # 4 /\ aiSnap)

ClearSession ==
    \E n \in 1..4 :
        /\ aiJob.pc = ClearOrder[n]
        /\ \/ /\ Worked /\ ClearStep(n)
              /\ aiJob' = IF n < 4 THEN [aiJob EXCEPT !.pc = ClearOrder[n + 1]] ELSE AiIdle
           \/ Faulted /\ aiJob' = AiIdle /\ UNCHANGED aiStore
        /\ UNCHANGED <<aiOld, aiBooks, aiTokens, aiCommands, aiGhosts>>

-----------------------------------------------------------------------------
(* The environment.                                                        *)

\* The time to live of the session passes.
SessionExpires ==
    /\ aiSnap /\ ~aiOld /\ aiOld' = TRUE
    /\ UNCHANGED <<aiStore, aiBooks, aiTokens, aiJob, aiCommands, aiFaults, aiGhosts>>

\* The process stops, and starts again with a cleanup of expired sessions.
CrashImport ==
    /\ aiJob.pc # "idle" /\ Faulted
    /\ aiJob' = IF aiSnap /\ aiOld THEN [AiIdle EXCEPT !.pc = "clear1"] ELSE AiIdle
    /\ aiOrphan' = (aiOrphan \/ aiJob.pc = "write")
    /\ aiUndone' = (aiUndone \/ aiJob.pc \notin {"clear1", "clear2", "clear3", "clear4"})
    /\ UNCHANGED <<aiStore, aiOld, aiBooks, aiTokens, aiCommands, aiStale, aiLogins, aiPairs>>

\* The application is restarted while idle.
RestartIdle ==
    /\ aiJob.pc = "idle" /\ aiSnap /\ aiOld
    /\ aiJob' = [AiIdle EXCEPT !.pc = "clear1"]
    /\ UNCHANGED <<aiStore, aiOld, aiBooks, aiTokens, aiCommands, aiFaults, aiGhosts>>

\* External: the token authority rotates the login of an account.
RotateLogin ==
    \E p \in aiRec :
        /\ aiCred[p] > 0 /\ Exchange(aiCred[p])
        /\ aiCred' = [aiCred EXCEPT ![p] = aiNext]
        /\ UNCHANGED <<aiStore, aiOld, aiRec, aiSrc, aiKey, aiJob, aiCommands, aiFaults, aiGhosts>>

AiNext ==
    \/ StartImport \/ WriteSnapshot \/ SnapshotFails
    \/ PrepareImport \/ ResumeToPrepare \/ PrepareItem \/ RejectRow \/ LookupFails \/ PrepareFails
    \/ ForgetPreparedSecret \/ ForgetPrepared \/ CheckPrepared \/ KeepPrepared
    \/ WritePrepared \/ WritePreparedFails \/ StorePreparedFails
    \/ ConfirmImport \/ SkipItem \/ PrepareAccount \/ AccountFails \/ AiSaveCredential
    \/ AiUpsertAccount \/ AiSyncAccount \/ RegisterAccount
    \/ UndoAccount \/ UndoneAccount \/ UndoFails
    \/ SaveSourceKey \/ UpsertSource \/ SyncSource
    \/ CancelImport \/ ClearSession
    \/ SessionExpires \/ CrashImport \/ RestartIdle \/ RotateLogin

AiSpec == AiInit /\ [][AiNext]_aiVars
-----------------------------------------------------------------------------
(* Properties.                                                             *)

AiTypeOK ==
    /\ aiSnap \in BOOLEAN /\ aiOld \in BOOLEAN
    /\ aiRec \subseteq AiOwners /\ aiSrc \subseteq AiOwners /\ aiKey \subseteq AiOwners
    /\ aiCred \in [AiOwners -> AgentOnly..AiMaxTok]
    /\ aiSpent \subseteq 1..AiMaxTok /\ aiNext \in 1..(AiMaxTok + 1)
    /\ DOMAIN aiJob = DOMAIN AiIdle

\* What is imported for a selected row is the account the preview showed in it,
\* through duplicates, rejected rows and repeated preparation: items and rows are
\* paired by position when a session is resumed.
ShownIsImported == \A p \in aiPairs : p[1] \in {0, p[2]}

\* Every secret of a session can still be found by cancel and by the cleanup of
\* expired sessions, which look for its snapshot; only a start that was cut short
\* between its two writes leaves one behind.
SecretsAreFindable ==
    (aiJob.pc # "write" /\ ~aiOrphan /\ aiSecret \cup aiPrepSecret # {}) => aiSnap

\* Between commands, an account that had a refresh token has one that still works,
\* whatever was imported over it, unless an agent identity took its place, a token
\* spent in the meantime was written or a rollback was cut short; and a source that
\* has a record has its key.
LoginSurvivesImport ==
    aiJob.pc = "idle" =>
        /\ \A p \in aiLogins : \/ p \in aiStale \/ aiUndone \/ aiCred[p] = AgentOnly
                               \/ aiCred[p] > 0 /\ aiCred[p] \notin aiSpent
        /\ aiSrc \subseteq aiKey

=============================================================================
