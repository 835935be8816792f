----------------------------- MODULE ServerUsage -----------------------------
(***************************************************************************)
(* The server's usage ledger (relay-server/src/usage_writer.rs, store/     *)
(* usage.rs, jobs/retention.rs, main.rs).  Every attempt of a proxied      *)
(* request is an event.  The gateway's callback puts it in a bounded       *)
(* channel without waiting; one thread takes batches out of the channel,   *)
(* records a batch in one transaction, then brings the accounts of the     *)
(* batch up to date and tells the wake-up coordinator of their use.        *)
(* Retention moves old rows into rollups and leaves a tombstone for each   *)
(* request, an account is deleted, the usage is cleared, and the server is *)
(* shut down while events are under way.                                   *)
(*                                                                         *)
(* A row is [attempt, cand, at]; a rollup counts requests.                 *)
(***************************************************************************)
EXTENDS QuotaReading, Sequences, SequencesExt

CONSTANTS
    SuReqs,          \* requests
    SuAccounts,      \* accounts
    SuSources,       \* sources
    SuAttempts,      \* MAX attempts of a request
    SuMaxEvents,     \* bound: events
    SuCapacity,      \* USAGE_QUEUE_CAPACITY
    SuBatchSize,     \* USAGE_BATCH_SIZE
    SuMaxRaw,        \* MAX_RAW_USAGE_EVENTS
    SuMaxNow,        \* bound: the last instant
    SuMaxOps,        \* bound: operator and maintenance steps
    SuMaxFaults      \* bound: failed transactions and crashes

VARIABLES
    suQueue,     \* the channel
    suWriter,    \* the thread: [pc, batch, stopping]
    suServer,    \* "up", "closing", "closed"
    suDb,        \* [log, rolls, tombs, accounts]
    suWake,      \* accounts with a wake-up that a natural use makes needless
    suFailed,    \* failed_usage_writes
    suNow, suOps, suFaults,
    suSent,      \* history: the attempts of each request that reached the callback
    suTrue,      \* history: the candidate each request is to be counted for
    suOpen       \* history: events accepted before the stop and not yet dealt with

suVars == <<suQueue, suWriter, suServer, suDb, suWake, suFailed, suNow, suOps, suFaults, suSent, suTrue, suOpen>>

-----------------------------------------------------------------------------
SuCandidates == SuAccounts \cup SuSources

SuIdle == [pc |-> "recv", batch |-> <<>>, stopping |-> FALSE]
SuStop == [req |-> {}]

SuBudget == suOps < SuMaxOps /\ suOps' = suOps + 1
SuFault == suFaults < SuMaxFaults /\ suFaults' = suFaults + 1

\* Rows are functions from requests to {} or one row.
SuLogged(db) == {r \in SuReqs : db.log[r] # {}}
SuRow(db, r) == CHOOSE row \in db.log[r] : TRUE

-----------------------------------------------------------------------------
(* The callback and the thread.                                            *)

\* An event: the next attempt of a request.  A full channel and a thread that
\* is gone are counted.
SuEmit ==
  /\ suServer # "closed"
  /\ \E r \in SuReqs, c \in SuCandidates, ok \in BOOLEAN :
       /\ suSent[r] < SuAttempts /\ MapThenSumSet(LAMBDA q : suSent[q], SuReqs) < SuMaxEvents
       /\ c \in SuSources => ok
       /\ suSent' = [suSent EXCEPT ![r] = @ + 1]
       /\ LET event == [req |-> {r}, attempt |-> suSent[r] + 1, cand |-> c, ok |-> ok, at |-> suNow,
                       early |-> suServer = "up"]
          IN  IF Len(suQueue) < SuCapacity /\ suWriter.pc # "off"
              THEN /\ suQueue' = Append(suQueue, event)
                   /\ suOpen' = suOpen + IF event.early THEN 1 ELSE 0
                   /\ UNCHANGED suFailed
              ELSE /\ suFailed' = suFailed + 1
                   /\ UNCHANGED <<suQueue, suOpen>>
  /\ UNCHANGED <<suWriter, suServer, suDb, suWake, suNow, suOps, suFaults, suTrue>>

\* One message and what follows it at once, up to a batch; a stop ends the batch.
SuTaken ==
  LET n == Min({Len(suQueue), SuBatchSize})
      stops == {i \in 1..n : suQueue[i] = SuStop}
  IN  IF stops = {} THEN n ELSE Min(stops)

SuEvents(messages) == SelectSeq(messages, LAMBDA e : e # SuStop)

SuReceiveOverlooking ==
  /\ suWriter.pc = "recv" /\ suQueue # <<>>
  /\ LET taken == SubSeq(suQueue, 1, SuTaken)
         batch == SuEvents(taken)
     IN  /\ suWriter' = [pc |-> IF batch = <<>> THEN "off" ELSE "store", batch |-> batch,
                         stopping |-> taken[1] = SuStop]
         /\ suQueue' = SubSeq(suQueue, SuTaken + 1, Len(suQueue))
  /\ UNCHANGED <<suServer, suDb, suWake, suFailed, suNow, suOps, suFaults, suSent, suTrue, suOpen>>

SuReceiveDropping ==
  /\ suWriter.pc = "recv" /\ suQueue # <<>>
  /\ LET taken == SubSeq(suQueue, 1, SuTaken)
         stopping == SuStop \in Range(taken)
     IN  /\ suWriter' = [pc |-> IF stopping THEN "off" ELSE "store", stopping |-> stopping,
                         batch |-> IF stopping THEN <<>> ELSE taken]
         /\ suQueue' = SubSeq(suQueue, SuTaken + 1, Len(suQueue))
  /\ UNCHANGED <<suServer, suDb, suWake, suFailed, suNow, suOps, suFaults, suSent, suTrue, suOpen>>

SuReceive ==
  /\ suWriter.pc = "recv" /\ suQueue # <<>>
  /\ LET taken == SubSeq(suQueue, 1, SuTaken)
         stopping == SuStop \in Range(taken)
         batch == SuEvents(taken)
     IN  /\ suWriter' = [pc |-> IF batch = <<>> THEN "off" ELSE "store", batch |-> batch, stopping |-> stopping]
         /\ suQueue' = SubSeq(suQueue, SuTaken + 1, Len(suQueue))
  /\ UNCHANGED <<suServer, suDb, suWake, suFailed, suNow, suOps, suFaults, suSent, suTrue, suOpen>>

-----------------------------------------------------------------------------
(* Recording a batch.                                                      *)

SuRecordableAnyway(db, e) == \A r \in e.req : db.tombs[r] = {}

\* The guards of the INSERT: no tombstone, and the account still exists; the
\* conflict clause keeps the later attempt.
SuRecordable(db, e) ==
  /\ \A r \in e.req : db.tombs[r] = {}
  /\ e.cand \in SuAccounts => e.cand \in DOMAIN db.accounts

SuApplies(db, e) ==
  SuRecordable(db, e) /\ \A r \in e.req : \A row \in db.log[r] : e.attempt >= row.attempt

SuRecorded(db, e) ==
  IF ~SuApplies(db, e) THEN db
  ELSE [db EXCEPT !.log = [r \in SuReqs |->
          IF r \in e.req THEN {[attempt |-> e.attempt, cand |-> e.cand, at |-> e.at]} ELSE @[r]]]

SuBatchRecorded(db, batch) == FoldLeft(SuRecorded, db, batch)

\* History: whom each request is to be counted for.
SuTruth(batch) ==
  LET state == FoldLeft(LAMBDA acc, e :
                  [db |-> SuRecorded(acc.db, e),
                   true |-> IF SuApplies(acc.db, e)
                            THEN [r \in SuReqs |-> IF r \in e.req THEN {e.cand} ELSE acc.true[r]]
                            ELSE acc.true],
                  [db |-> suDb, true |-> suTrue], batch)
  IN  state.true

\* record_usage_batch is one transaction; the thread goes on either way.
SuStore ==
  /\ suWriter.pc = "store"
  /\ \/ /\ suDb' = SuBatchRecorded(suDb, suWriter.batch)
        /\ suTrue' = SuTruth(suWriter.batch)
        /\ UNCHANGED <<suFailed, suFaults>>
     \/ /\ SuFault
        /\ suFailed' = suFailed + Len(suWriter.batch)
        /\ UNCHANGED <<suDb, suTrue>>
  /\ suWriter' = [suWriter EXCEPT !.pc = "accounts"]
  /\ suOpen' = suOpen - Len(SelectSeq(suWriter.batch, LAMBDA e : e.early))
  /\ UNCHANGED <<suQueue, suServer, suWake, suNow, suOps, suSent>>

-----------------------------------------------------------------------------
(* The accounts of the batch.                                              *)


\* A successful answer carries the quota the runtime observed; an older one
\* than the account's is left aside.
SuSnapshot(acct, e) ==
  IF e.ok /\ \A t \in acct.quota.at : e.at >= t THEN [acct EXCEPT !.quota.at = {e.at}] ELSE acct

\* reduce_account_usage: the credential in the vault decides what a login
\* that works, or a 401, means.
SuUsed(acct, e) ==
  LET seen == SuSnapshot(acct, e)
  IN  IF e.ok THEN RequestSucceeded(seen, "active")
      ELSE RequestFailed(seen, 401, "upstream_unauthorized", "refreshable")

\* update_account: one transaction per account; an account that is gone is
\* skipped, one whose transaction fails stays as it was.
SuAccountsUpdated(db, batch, failing) ==
  [db EXCEPT !.accounts = [a \in DOMAIN @ |->
     IF a \in failing THEN @[a]
     ELSE FoldLeft(SuUsed, @[a], SelectSeq(batch, LAMBDA e : e.cand = a))]]

SuTouched == {a \in DOMAIN suDb.accounts : \E i \in DOMAIN suWriter.batch : suWriter.batch[i].cand = a}

SuNaturallyUsed ==
  {a \in SuTouched : \E i \in DOMAIN suWriter.batch : suWriter.batch[i].cand = a /\ suWriter.batch[i].ok}

SuAccounted ==
  /\ suWriter.pc = "accounts"
  /\ \E failing \in {{}} \cup {{a} : a \in SuTouched} :
       /\ IF failing = {} THEN UNCHANGED suFaults ELSE SuFault
       /\ suDb' = SuAccountsUpdated(suDb, suWriter.batch, failing)
       /\ suWake' = suWake \ (SuNaturallyUsed \ failing)
       /\ suFailed' = suFailed + Cardinality(failing)
  /\ suWriter' = IF suWriter.stopping THEN [SuIdle EXCEPT !.pc = "off"] ELSE SuIdle
  /\ UNCHANGED <<suQueue, suServer, suNow, suOps, suSent, suTrue, suOpen>>

-----------------------------------------------------------------------------
(* Maintenance.                                                            *)

\* USAGE_PRUNE_PREDICATE: the oldest rows, by age or beyond MAX_RAW_USAGE_EVENTS.
SuPrunable(db) ==
  {rows \in SUBSET SuLogged(db) :
     /\ Cardinality(SuLogged(db) \ rows) <= SuMaxRaw
     /\ \A r \in rows, s \in SuLogged(db) \ rows : SuRow(db, r).at <= SuRow(db, s).at}

SuRolledUp(db, rows) ==
  [c \in SuCandidates |-> db.rolls[c] + Cardinality({r \in rows : SuRow(db, r).cand = c})]

SuPrunedWithoutTombs(db, rows) ==
  [db EXCEPT !.rolls = SuRolledUp(db, rows), !.log = [r \in SuReqs |-> IF r \in rows THEN {} ELSE @[r]]]

SuArchived(db, rows) ==
  [db EXCEPT !.rolls = SuRolledUp(db, rows),
             !.tombs = [r \in SuReqs |-> IF r \in rows THEN {SuRow(db, r).at} ELSE @[r]],
             !.log   = [r \in SuReqs |-> IF r \in rows THEN {} ELSE @[r]]]

SuPrune ==
  /\ SuBudget /\ suServer # "closed"
  /\ \E rows \in SuPrunable(suDb) :
       /\ rows # {}
       /\ suDb' = SuArchived(suDb, rows)
  /\ UNCHANGED <<suQueue, suWriter, suServer, suWake, suFailed, suNow, suFaults, suSent, suTrue, suOpen>>

SuClear ==
  /\ SuBudget /\ suServer # "closed"
  /\ suDb' = [suDb EXCEPT !.log = [r \in SuReqs |-> {}], !.tombs = [r \in SuReqs |-> {}],
                          !.rolls = [c \in SuCandidates |-> 0]]
  /\ suTrue' = [r \in SuReqs |-> {}]
  /\ UNCHANGED <<suQueue, suWriter, suServer, suWake, suFailed, suNow, suFaults, suSent, suOpen>>

\* Store::delete_account: its rows leave tombstones, its rollups go.
SuDeleted(db, a) ==
  LET rows == {r \in SuLogged(db) : SuRow(db, r).cand = a}
  IN  [log      |-> [r \in SuReqs |-> IF r \in rows THEN {} ELSE db.log[r]],
       tombs    |-> [r \in SuReqs |-> IF r \in rows THEN {SuRow(db, r).at} ELSE db.tombs[r]],
       rolls    |-> [db.rolls EXCEPT ![a] = 0],
       accounts |-> [b \in DOMAIN db.accounts \ {a} |-> db.accounts[b]]]

SuDeleteAccount ==
  /\ SuBudget /\ suServer = "up"
  /\ \E a \in DOMAIN suDb.accounts :
       /\ suDb' = SuDeleted(suDb, a)
       /\ suTrue' = [r \in SuReqs |-> suTrue[r] \ {a}]
  /\ UNCHANGED <<suQueue, suWriter, suServer, suWake, suFailed, suNow, suFaults, suSent, suOpen>>

\* A quota refresh job writes what it observed.
SuRefreshed ==
  /\ SuBudget /\ suServer = "up"
  /\ \E a \in DOMAIN suDb.accounts : suDb' = [suDb EXCEPT !.accounts[a].quota.at = {suNow}]
  /\ UNCHANGED <<suQueue, suWriter, suServer, suWake, suFailed, suNow, suFaults, suSent, suTrue, suOpen>>

-----------------------------------------------------------------------------
(* The end of the server.                                                  *)

\* UsageWriter::shutdown waits for room in the channel.
SuShutdown ==
  /\ suServer = "up" /\ Len(suQueue) < SuCapacity
  /\ suServer' = "closing"
  /\ suQueue' = Append(suQueue, SuStop)
  /\ UNCHANGED <<suWriter, suDb, suWake, suFailed, suNow, suOps, suFaults, suSent, suTrue, suOpen>>

\* The thread is joined; what requests put behind the stop is dropped with the
\* channel.
SuJoin ==
  /\ suServer = "closing" /\ suWriter.pc = "off"
  /\ suServer' = "closed"
  /\ suQueue' = <<>>
  /\ UNCHANGED <<suWriter, suDb, suWake, suFailed, suNow, suOps, suFaults, suSent, suTrue, suOpen>>

\* The process stops, or gives up waiting for the thread; a new one finds the
\* database and an empty channel.
SuCrash ==
  /\ SuFault
  /\ suServer' = "up"
  /\ suOpen' = 0 /\ suQueue' = <<>> /\ suWriter' = SuIdle /\ suFailed' = 0
  /\ UNCHANGED <<suDb, suWake, suNow, suOps, suSent, suTrue>>

SuTick ==
  /\ suNow < SuMaxNow
  /\ suNow' = suNow + 1
  /\ UNCHANGED <<suQueue, suWriter, suServer, suDb, suWake, suFailed, suOps, suFaults, suSent, suTrue, suOpen>>

SuInit ==
  /\ suQueue = <<>> /\ suWriter = SuIdle /\ suServer = "up"
  /\ suDb = [log |-> [r \in SuReqs |-> {}], tombs |-> [r \in SuReqs |-> {}],
             rolls |-> [c \in SuCandidates |-> 0],
             accounts |-> [a \in SuAccounts |-> [auth |-> "active", health |-> "healthy", error |-> {},
                                                 quota |-> [at |-> {}]]]]
  /\ suWake = SuAccounts /\ suFailed = 0
  /\ suNow = 1 /\ suOps = 0 /\ suFaults = 0
  /\ suSent = [r \in SuReqs |-> 0] /\ suTrue = [r \in SuReqs |-> {}] /\ suOpen = 0

SuThread == SuReceive \/ SuStore \/ SuAccounted

SuNext ==
  \/ SuEmit \/ SuReceive \/ SuStore \/ SuAccounted
  \/ SuPrune \/ SuClear \/ SuDeleteAccount \/ SuRefreshed
  \/ SuShutdown \/ SuJoin \/ SuCrash \/ SuTick

SuSpec == SuInit /\ [][SuNext]_suVars

-----------------------------------------------------------------------------
\* The thread holds a batch exactly while it works on one, and a request has a
\* row or a tombstone of its own, never both.
SuTypeOK ==
  /\ Len(suQueue) <= SuCapacity
  /\ (suWriter.pc \in {"store", "accounts"}) <=> suWriter.batch # <<>>
  /\ \A r \in SuReqs : suDb.log[r] = {} \/ suDb.tombs[r] = {}

\* What a candidate is charged for: the rows and the rollups together.
SuCharged(c) == suDb.rolls[c] + Cardinality({r \in SuLogged(suDb) : SuRow(suDb, r).cand = c})

\* Every request is charged once, to the candidate of its last recorded
\* attempt, however retries, batches, retention and crashes interleave
\* (store/usage.rs:190-232, 616-727).
ServerChargedOnce ==
  \A c \in SuCandidates : SuCharged(c) = Cardinality({r \in SuReqs : suTrue[r] = {c}})

\* Nothing of a deleted account comes back: a late event leaves no row, no
\* rollup and no account behind (store/usage.rs:204-206, records.rs:249-297,
\* update_account).
DeletedStaysDeleted ==
  \A a \in SuAccounts \ DOMAIN suDb.accounts : SuCharged(a) = 0

\* When the thread was joined, every event accepted before the stop was recorded,
\* refused by the guards of the INSERT, or counted as failed
\* (usage_writer.rs:36-62, 90-109).
JoinedIsFlushed == suServer = "closed" => suOpen = 0

\* The quota of an account never goes back in time because an event was handled
\* late (usage_writer.rs:152-158).
QuotaNeverOlder ==
  [][\A a \in DOMAIN suDb.accounts \cap DOMAIN suDb'.accounts :
        \A t \in suDb.accounts[a].quota.at : \E u \in suDb'.accounts[a].quota.at : u >= t]_suVars

=============================================================================
