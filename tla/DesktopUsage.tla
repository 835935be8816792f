---------------------------- MODULE DesktopUsage ----------------------------
(* The usage ledger of the desktop application (store/telemetry_db): one row *)
(* per request in `request_logs`, replaced by a later attempt of the same    *)
(* request and deleted after thirty days; one row per candidate in           *)
(* `usage_candidate_rollups`, kept up to date in the same transaction; and   *)
(* three caches in memory: the totals of the unfiltered page, which are      *)
(* adjusted by every recorded request, and the API equivalents of all time   *)
(* and of the quota windows, which are dropped by revision number.           *)
(*                                                                           *)
(* A candidate stands for the (kind, id, model) key of a rollup row.  Money  *)
(* is left out: a priced answer is the version of the rollups it was         *)
(* computed from together with the price revision that was applied.          *)
EXTENDS Integers, FiniteSets, FiniteSetsExt

CONSTANTS
    DuRequests,     \* request ids
    DuAccounts,     \* candidates that are accounts
    DuSources,      \* candidates that are API sources
    DuSamples,      \* measurements an attempt may report
    DuWindows,      \* quota windows a reader may ask for
    DuMaxAttempt,   \* attempts of one request
    DuMaxOps,       \* bound on the changes of the ledger
    DuMaxNow,       \* bound on the clock, in retention periods
    DuReaders       \* caches whose readers are modelled

VARIABLES
    duDb,       \* the two tables
    duMem,      \* the caches, the revision and the invalidations still owed
    duReader,   \* a reader of each equivalents cache
    duGhost,    \* what was recorded, and how much of it has been settled
    duNow,      \* clock
    duPrices,   \* price revision (catalog and overrides)
    duOps       \* changes so far

duVars == <<duDb, duMem, duReader, duGhost, duNow, duPrices, duOps>>

DuCands == DuAccounts \cup DuSources

-----------------------------------------------------------------------------
(* An optional measurement is {} or a singleton. *)

Amount(opt) == IF opt = {} THEN 0 ELSE CHOOSE n \in opt : TRUE

Monus(a, b) == IF a > b THEN a - b ELSE 0

(* UsageAggregate::from_values *)
AggregateOf(s) ==
    LET write == Amount(s.write)
    IN  [input |-> Amount(s.input),   inputs |-> Cardinality(s.input),
         cached |-> Amount(s.cached), cacheds |-> Cardinality(s.cached),
         write |-> write,             writes |-> Cardinality(s.write),
         write5m |-> IF s.ttl = "5m" THEN write ELSE 0,
         write1h |-> IF s.ttl = "1h" THEN write ELSE 0,
         unknown |-> IF s.ttl \in {"5m", "1h"} THEN 0 ELSE write,
         output |-> Amount(s.output), outputs |-> Cardinality(s.output)]

NoUsage ==
    [input |-> 0, inputs |-> 0, cached |-> 0, cacheds |-> 0, write |-> 0, writes |-> 0,
     write5m |-> 0, write1h |-> 0, unknown |-> 0, output |-> 0, outputs |-> 0]

(* The tokens of a generation that can be timed, as both accountings compute *)
(* them.                                                                     *)
Generated(s) == Monus(Monus(Amount(s.output), Amount(s.reasoning)), 1)

(* usage_totals_from_sample: what one request adds to the cached totals.     *)
SampleTotals(s) ==
    LET timed == /\ s.gen # {}
                 /\ s.ok
                 /\ Amount(s.gen) > 0
                 /\ Generated(s) > 0
                 /\ Generated(s) <= Amount(s.gen)
        paced == /\ s.ok
                 /\ Amount(s.output) > 0
                 /\ s.latency > 0
                 /\ Amount(s.output) <= s.latency
    IN  [requests |-> 1, successful |-> IF s.ok THEN 1 ELSE 0, latency |-> s.latency,
         ttft |-> Amount(s.ttft), ttfts |-> Cardinality(s.ttft),
         gen |-> IF timed THEN Amount(s.gen) ELSE 0, gens |-> IF timed THEN 1 ELSE 0,
         genOut |-> IF timed THEN Generated(s) ELSE 0,
         input |-> Amount(s.input), cached |-> Amount(s.cached), cacheds |-> 0,
         write |-> Amount(s.write), writes |-> Cardinality(s.write),
         reasoning |-> Amount(s.reasoning), output |-> Amount(s.output),
         speedOut |-> IF paced THEN Amount(s.output) ELSE 0,
         speedMs |-> IF paced THEN s.latency ELSE 0]

(* USAGE_TOTAL_COLUMNS: the same row as the SQL aggregate counts it.         *)
ColumnTotals(s) ==
    LET timed == s.ok /\ Generated(s) \in 1 .. Amount(s.gen)
        paced == s.ok /\ Amount(s.output) \in 1 .. s.latency
    IN  [requests |-> 1, successful |-> IF s.ok THEN 1 ELSE 0, latency |-> s.latency,
         ttft |-> Amount(s.ttft), ttfts |-> Cardinality(s.ttft),
         gen |-> IF timed THEN Amount(s.gen) ELSE 0, gens |-> IF timed THEN 1 ELSE 0,
         genOut |-> IF timed THEN Generated(s) ELSE 0,
         input |-> Amount(s.input), cached |-> Amount(s.cached),
         cacheds |-> Cardinality(s.cached),
         write |-> Amount(s.write), writes |-> Cardinality(s.write),
         reasoning |-> Amount(s.reasoning), output |-> Amount(s.output),
         speedOut |-> IF paced THEN Amount(s.output) ELSE 0,
         speedMs |-> IF paced THEN s.latency ELSE 0]

Columns ==
    {"requests", "successful", "latency", "ttft", "ttfts", "gen", "gens", "genOut", "input",
     "cached", "cacheds", "write", "writes", "reasoning", "output", "speedOut", "speedMs"}

(* usage_totals: the aggregate over a set of rows of the log. *)
ScanTotals(log, reqs) ==
    [c \in Columns |-> MapThenSumSet(LAMBDA r : ColumnTotals(log[r].sample)[c], reqs)]

(* apply_usage_totals_delta, with the saturating arithmetic of the code. *)
TotalsDelta(totals, delta, add) ==
    [c \in Columns |-> IF add THEN totals[c] + delta[c] ELSE Monus(totals[c], delta[c])]


(* update_cached_usage_totals *)
UpdatedTotals(cache, previous, sample) ==
    {TotalsDelta(IF previous = {} THEN t
                 ELSE TotalsDelta(t, SampleTotals((CHOOSE p \in previous : TRUE).sample), FALSE),
                 SampleTotals(sample), TRUE) : t \in cache}


-----------------------------------------------------------------------------
(* The tables.                                                               *)

Without(f, S) == [r \in DOMAIN f \ S |-> f[r]]

Plus(a, b) == [c \in DOMAIN NoUsage |-> a[c] + b[c]]
Less(a, b) == [c \in DOMAIN NoUsage |-> a[c] - b[c]]

(* The usage of the given rows of one candidate. *)
UsageOf(log, reqs, cand) ==
    [c \in DOMAIN NoUsage |->
        MapThenSumSet(LAMBDA r : AggregateOf(log[r].sample)[c],
                      {r \in reqs : log[r].cand = cand})]

(* ARCHIVE_USAGE_SQL: rows past the retention leave the log; one that was    *)
(* never counted is counted on the way out.                                  *)
Expired(log) == {r \in DOMAIN log : log[r].at < duNow - 1}

ArchivedTwice(db) ==
    LET old == Expired(db.log)
    IN  [log |-> Without(db.log, old),
         roll |-> [c \in DuCands |-> Plus(db.roll[c], UsageOf(db.log, old, c))]]

Archived(db) ==
    LET old == Expired(db.log)
    IN  [log |-> Without(db.log, old),
         roll |-> [c \in DuCands |->
                      Plus(db.roll[c], UsageOf(db.log, {r \in old : ~db.log[r].counted}, c))]]

(* apply_aggregate_delta: the replaced row is taken out of the candidate it  *)
(* was counted for, the new one is added to its own.                         *)
Rolled(roll, previous, row) ==
    LET out == {p \in previous : p.counted}
    IN  [c \in DuCands |->
            LET rest == IF \E p \in out : p.cand = c
                        THEN Less(roll[c], AggregateOf((CHOOSE p \in out : TRUE).sample))
                        ELSE roll[c]
            IN  IF row.cand = c THEN Plus(rest, AggregateOf(row.sample)) ELSE rest]

(* A change of the ledger: its commit makes a new version, for which an      *)
(* invalidation of the caches is owed until it has run.                      *)
Changed(db, mem, ledger) ==
    /\ duOps < DuMaxOps
    /\ duDb' = db
    /\ duMem' = mem
    /\ duGhost' = [duGhost EXCEPT !.version = @ + 1, !.ledger = ledger]
    /\ duOps' = duOps + 1
    /\ UNCHANGED <<duReader, duNow, duPrices>>

Owe(mem, holds) ==
    [mem EXCEPT !.owed = @ \cup {[version |-> duGhost.version + 1, step |-> "bump",
                                  holds |-> holds]}]

(* The connection is free: no transaction holds its mutex. *)
Unlocked == ~\E o \in duMem.owed : o.holds

-----------------------------------------------------------------------------
(* TelemetryDb::record.  An earlier attempt than the stored one changes      *)
(* nothing.  The retention runs when a new row's id is a multiple of 256,    *)
(* which the model leaves open; the totals are adjusted, or dropped after    *)
(* the retention, before the connection is released; the equivalents are     *)
(* invalidated after it.  A request does not outlive the retention: no       *)
(* attempt arrives for a row that has been archived.                         *)
Record(r, attempt, cand, sample, retention) ==
    LET previous == {duDb.log[x] : x \in {r} \cap DOMAIN duDb.log}
        row == [attempt |-> attempt, cand |-> cand, sample |-> sample, at |-> duNow,
                counted |-> TRUE]
        next == [log |-> [x \in DOMAIN duDb.log \cup {r} |->
                             IF x = r THEN row ELSE duDb.log[x]],
                 roll |-> Rolled(duDb.roll, previous, row)]
    IN  /\ Unlocked
        /\ r \in DOMAIN duGhost.ledger => r \in DOMAIN duDb.log
        /\ \A p \in previous : attempt >= p.attempt
        /\ retention => previous = {}
        /\ Changed(IF retention THEN Archived(next) ELSE next,
                   Owe([duMem EXCEPT !.totals =
                           IF retention THEN {} ELSE UpdatedTotals(@, previous, sample)],
                       FALSE),
                   [x \in DOMAIN duGhost.ledger \cup {r} |->
                       IF x = r THEN [cand |-> cand, sample |-> sample]
                       ELSE duGhost.ledger[x]])

(* replace_state_json_with_account_purge: deleting accounts deletes their    *)
(* usage with them, and holds the connection until the caches are empty.     *)
PurgeAccount(a) ==
    /\ Unlocked
    /\ Changed([log |-> Without(duDb.log, {r \in DOMAIN duDb.log : duDb.log[r].cand = a}),
                roll |-> [duDb.roll EXCEPT ![a] = NoUsage]],
               Owe([duMem EXCEPT !.totals = {}], TRUE),
               Without(duGhost.ledger,
                       {r \in DOMAIN duGhost.ledger : duGhost.ledger[r].cand = a}))

(* TelemetryDb::clear: both tables are emptied, then, with the connection    *)
(* released, the totals and the equivalents.                                 *)
EmptyDb == [log |-> Without(duDb.log, DuRequests), roll |-> [c \in DuCands |-> NoUsage]]

ClearUsage ==
    /\ Unlocked
    /\ duMem.clearing = {}
    /\ Changed(EmptyDb, [duMem EXCEPT !.clearing = {duGhost.version + 1}], Without(duGhost.ledger, DuRequests))

ClearTotals ==
    /\ duMem.clearing # {}
    /\ duMem' = [duMem EXCEPT !.clearing = {}, !.totals = {},
                    !.owed = @ \cup {[version |-> v, step |-> "bump", holds |-> FALSE] :
                                        v \in duMem.clearing}]
    /\ UNCHANGED <<duDb, duReader, duGhost, duNow, duPrices, duOps>>

BumpNothing(o) ==
    /\ o.step = "bump"
    /\ duMem' = [duMem EXCEPT !.owed = (@ \ {o}) \cup {[o EXCEPT !.step = "wipe"]}]
    /\ UNCHANGED <<duDb, duReader, duGhost, duNow, duPrices, duOps>>

(* invalidate_usage_cache: the revision moves on, then each cache is         *)
(* emptied; with that the change has been returned to its caller.            *)
BumpRevision(o) ==
    /\ o.step = "bump"
    /\ duMem' = [duMem EXCEPT !.revision = @ + 1,
                    !.owed = (@ \ {o}) \cup {[o EXCEPT !.step = "wipe"]}]
    /\ UNCHANGED <<duDb, duReader, duGhost, duNow, duPrices, duOps>>

WipeCaches(o) ==
    /\ o.step = "wipe"
    /\ duMem' = [duMem EXCEPT !.owed = @ \ {o}, !.cache = [k \in DuReaders |-> {}]]
    /\ duGhost' = [duGhost EXCEPT !.settled = Max({@, o.version})]
    /\ UNCHANGED <<duDb, duReader, duNow, duPrices, duOps>>

-----------------------------------------------------------------------------
(* api_equivalents_with_resolver and account_api_equivalents_with_pricing:   *)
(* the revision is read first, the cache next, the tables under the          *)
(* connection's mutex, and the answer is kept if the revision still stands.  *)
(* The answer of the quota reader holds for the windows it was asked about.  *)

WindowsOf(k) == IF k = "quota" THEN DuWindows ELSE {0}

IdleReader == [pc |-> "idle", revision |-> 0, prices |-> 0, window |-> 0, floor |-> 0,
               answer |-> [version |-> 0, prices |-> 0, window |-> 0]]

Ask(k, w) ==
    /\ duReader[k].pc \in {"idle", "done"}
    /\ duReader' = [duReader EXCEPT ![k] =
           [IdleReader EXCEPT !.pc = "check", !.revision = duMem.revision,
                              !.prices = duPrices, !.window = w, !.floor = duGhost.settled]]
    /\ UNCHANGED <<duDb, duMem, duGhost, duNow, duPrices, duOps>>

Usable(k) ==
    {c \in duMem.cache[k] : /\ c.revision = duReader[k].revision
                            /\ c.answer.prices = duReader[k].prices
                            /\ c.answer.window = duReader[k].window}

CheckCache(k) ==
    /\ duReader[k].pc = "check"
    /\ duReader' = [duReader EXCEPT ![k] =
           IF Usable(k) = {} THEN [@ EXCEPT !.pc = "read"]
           ELSE [@ EXCEPT !.pc = "done", !.answer = (CHOOSE c \in Usable(k) : TRUE).answer]]
    /\ UNCHANGED <<duDb, duMem, duGhost, duNow, duPrices, duOps>>

ReadTables(k) ==
    /\ duReader[k].pc = "read"
    /\ Unlocked
    /\ duReader' = [duReader EXCEPT
           ![k].pc = "compare",
           ![k].answer = [version |-> duGhost.version, prices |-> duReader[k].prices,
                          window |-> duReader[k].window]]
    /\ UNCHANGED <<duDb, duMem, duGhost, duNow, duPrices, duOps>>

CompareRevision(k) ==
    /\ duReader[k].pc = "compare"
    /\ duReader' = [duReader EXCEPT ![k].pc =
           IF duMem.revision = duReader[k].revision THEN "keep" ELSE "done"]
    /\ UNCHANGED <<duDb, duMem, duGhost, duNow, duPrices, duOps>>

KeepAnswer(k) ==
    /\ duReader[k].pc = "keep"
    /\ duReader' = [duReader EXCEPT ![k].pc = "done"]
    /\ duMem' = [duMem EXCEPT !.cache[k] = {[revision |-> duReader[k].revision,
                                             answer |-> duReader[k].answer]}]
    /\ UNCHANGED <<duDb, duGhost, duNow, duPrices, duOps>>

(* usage_page_with_resolver without a filter: the totals come from their     *)
(* cache, filled by a scan of the log, and the equivalents from the rollups  *)
(* together with the rows no rollup counts.  A filtered page reads the rows  *)
(* and changes nothing.                                                      *)
CandidateUsage(c) ==
    Plus(duDb.roll[c], UsageOf(duDb.log, {r \in DOMAIN duDb.log : ~duDb.log[r].counted}, c))

QueryPage ==
    /\ Unlocked
    /\ duMem.totals = {}
    /\ duMem' = [duMem EXCEPT !.totals = {ScanTotals(duDb.log, DOMAIN duDb.log)}]
    /\ UNCHANGED <<duDb, duReader, duGhost, duNow, duPrices, duOps>>

(* The catalog is refreshed or a price edited. *)
PricesChange ==
    /\ duPrices = 0
    /\ duPrices' = 1
    /\ UNCHANGED <<duDb, duMem, duReader, duGhost, duNow, duOps>>

Time ==
    /\ duNow < DuMaxNow
    /\ duNow' = duNow + 1
    /\ UNCHANGED <<duDb, duMem, duReader, duGhost, duPrices, duOps>>

(* TelemetryDb::open after a crash: the caches are empty, and the retention  *)
(* runs once.                                                                *)
EmptyCaches ==
    [totals |-> {}, revision |-> 0, cache |-> [k \in DuReaders |-> {}], owed |-> {},
     clearing |-> {}]

Reopen ==
    /\ duOps < DuMaxOps
    /\ duDb' = Archived(duDb)
    /\ duMem' = EmptyCaches
    /\ duReader' = [k \in DuReaders |-> IdleReader]
    /\ duGhost' = [duGhost EXCEPT !.version = @ + 1, !.settled = duGhost.version + 1]
    /\ duOps' = duOps + 1
    /\ UNCHANGED <<duNow, duPrices>>

-----------------------------------------------------------------------------
(* Initially the log is empty, or holds one row that no rollup counts: one   *)
(* left by an older version or a recovery tool.                              *)
DuInit ==
    /\ \E left \in {{}} \cup {{r} : r \in DuRequests}, c \in DuCands, s \in DuSamples :
           /\ duDb = [log |-> [r \in left |-> [attempt |-> 1, cand |-> c, sample |-> s,
                                               at |-> 0, counted |-> FALSE]],
                      roll |-> [x \in DuCands |-> NoUsage]]
           /\ duGhost = [version |-> 0, settled |-> 0,
                         ledger |-> [r \in left |-> [cand |-> c, sample |-> s]]]
    /\ duMem = EmptyCaches
    /\ duReader = [k \in DuReaders |-> IdleReader]
    /\ duNow = 0
    /\ duPrices = 0
    /\ duOps = 0

DuLedger ==
    \/ \E r \in DuRequests, n \in 1 .. DuMaxAttempt, c \in DuCands, s \in DuSamples,
          archive \in BOOLEAN : Record(r, n, c, s, archive)
    \/ \E a \in DuAccounts : PurgeAccount(a)
    \/ ClearUsage
    \/ ClearTotals
    \/ \E o \in duMem.owed : BumpRevision(o) \/ WipeCaches(o)
    \/ QueryPage
    \/ Time
    \/ Reopen

DuReading ==
    \/ \E k \in DuReaders :
           \/ \E w \in WindowsOf(k) : Ask(k, w)
           \/ CheckCache(k)
           \/ ReadTables(k)
           \/ CompareRevision(k)
           \/ KeepAnswer(k)
    \/ PricesChange

DuNext == DuLedger \/ DuReading

DuSpec == DuInit /\ [][DuNext]_duVars

-----------------------------------------------------------------------------
Row == [attempt : 1 .. DuMaxAttempt, cand : DuCands, sample : DuSamples, at : 0 .. DuMaxNow,
        counted : BOOLEAN]

(* Types: a row per request, a rollup per candidate, at most one entry in    *)
(* each cache.                                                               *)
DuTypeOK ==
    /\ DOMAIN duDb.log \subseteq DuRequests
    /\ \A r \in DOMAIN duDb.log : duDb.log[r] \in Row
    /\ \A c \in DuCands : DOMAIN duDb.roll[c] = DOMAIN NoUsage
    /\ Cardinality(duMem.totals) <= 1
    /\ \A k \in DuReaders : Cardinality(duMem.cache[k]) <= 1
    /\ duNow \in 0 .. DuMaxNow

(* Every accepted request is counted for its candidate exactly once, with    *)
(* the measurements of its last attempt: the rollups and the rows no rollup  *)
(* counts together are what was recorded and not deleted, whatever replaced, *)
(* archived, purged or reopened in between (record, ARCHIVE_USAGE_SQL).      *)
LedgerIsExact ==
    \A c \in DuCands : CandidateUsage(c) = UsageOf(duGhost.ledger, DOMAIN duGhost.ledger, c)

(* The totals of the unfiltered page, cached and adjusted by every request   *)
(* since (update_cached_usage_totals), are those a scan of the log would     *)
(* give, in every column but the number of requests that reported cached     *)
(* input, which the two count differently.  While the history is being       *)
(* cleared they may still be the old ones.                                   *)
TotalsAddUp ==
    \A t \in duMem.totals : duMem.clearing = {} =>
        \A c \in Columns \ {"cacheds"} : t[c] = ScanTotals(duDb.log, DOMAIN duDb.log)[c]

(* No reader of the equivalents gets an answer older than the last change    *)
(* that had returned when it asked, or one for other prices or another       *)
(* window, however record, clear and purge interleave with it.               *)
AnswersAreCurrent ==
    \A k \in DuReaders : duReader[k].pc = "done" =>
        /\ duReader[k].answer.version >= duReader[k].floor
        /\ duReader[k].answer.prices = duReader[k].prices
        /\ duReader[k].answer.window = duReader[k].window

=============================================================================
