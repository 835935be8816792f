--------------------------- MODULE PricingCatalog ---------------------------
(***************************************************************************)
(* The price catalog of the desktop application and of the server: the      *)
(* loader of crates/relay-core/src/pricing/loader.rs, the background loop    *)
(* that refreshes it (background.rs, jobs/pricing.rs) and the command that   *)
(* forces a refresh.  A refresh asks the upstream for a newer document with  *)
(* the validators of the one it has, writes the cache file, replaces the     *)
(* snapshot that usage calculations read, and moves the next deadline; the   *)
(* loop sleeps until the deadline it computed, or until a permit tells it    *)
(* that somebody else moved it.                                             *)
(*                                                                         *)
(* A catalog document is its revision; an envelope is the document with its  *)
(* validator, the instant it was last confirmed and the stale mark.          *)
(* Every refresh runs under one lock, but the loop reads the schedule        *)
(* without it: what a refresh publishes is published in the code's order.    *)
(***************************************************************************)
EXTENDS Integers, FiniteSets, Sequences, TLC

CONSTANTS
    PrSides,        \* a subset of {"desktop", "server"}
    PrMaxAge,       \* DEFAULT_CATALOG_MAX_AGE_MS
    PrJitter,       \* pricing_refresh_jitter_seconds of this instance
    PrDelays,       \* the three retry delays, in order
    PrMaxNow,       \* bound: the last instant
    PrMaxRevision,  \* bound: documents the upstream ever publishes
    PrMaxForced,    \* bound: forced refreshes
    PrMaxFaults     \* bound: failed calls and writes, cancellations, crashes

VARIABLES
    prSide,    \* which program runs
    prRemote,  \* the revision the upstream serves
    prDisk,    \* the cache file: {} or {envelope}; an unreadable one is {Unreadable}
    prMem,     \* PricingCatalogLoader.envelope: {} or {envelope}
    prView,    \* the snapshot behind the handle: {} or {[rev, at, stale]}
    prStatus,  \* CatalogStatus
    prRetry,   \* RefreshRetryState: [failures, at]; at is {} or {instant}
    prFirst,   \* startup_refresh_pending
    prPermit,  \* the permit stored by schedule_changed.notify_one
    prTask,    \* "loop" and "forced": what each of them is doing
    prNow, prForced, prFaults,
    prDropped  \* history: a forced refresh was cancelled while it was updating

prVars == <<prSide, prRemote, prDisk, prMem, prView, prStatus, prRetry, prFirst, prPermit, prTask,
            prNow, prForced, prFaults, prDropped>>

-----------------------------------------------------------------------------
Unreadable == [rev |-> 0, tag |-> {}, at |-> 0, stale |-> FALSE]
PrTasks == {"loop", "forced"}
PrIdle == [pc |-> "idle", wake |-> 0, next |-> {}]

EnvelopeIsStale(e) == e.stale \/ prNow >= e.at + PrMaxAge
CatalogOf(m) == {[rev |-> e.rev, at |-> e.at, stale |-> e.stale] : e \in m}

RetryAllows == \A t \in prRetry.at : prNow >= t
\* refresh_due: a document to confirm, and no retry delay that still runs
RefreshDue ==
    /\ prFirst \/ \A e \in prMem : EnvelopeIsStale(e)
    /\ RetryAllows

RetryDelay(failures) == PrDelays[IF failures > 3 THEN 3 ELSE failures]
AfterFailure == [failures |-> IF prRetry.failures = 3 THEN 3 ELSE prRetry.failures + 1,
                 at |-> {prNow + RetryDelay(prRetry.failures + 1)}]

\* next_refresh_deadline and pricing_refresh_delay: the instant the loop sleeps until.  Only the
\* scheduled check is spread; a retry and the check at startup are exact.
WakeAt ==
    IF prRetry.at # {} THEN CHOOSE t \in prRetry.at : TRUE
    ELSE IF prFirst THEN prNow
    ELSE IF \A e \in prMem : EnvelopeIsStale(e) THEN prNow + PrJitter
    ELSE (CHOOSE e \in prMem : TRUE).at + PrMaxAge + PrJitter

PrHolder == {t \in PrTasks : prTask[t].pc \in {"send", "save", "publish", "settle", "failed", "mark", "notify"}}

-----------------------------------------------------------------------------
\* open_with_max_age: only the cache file is read; a file that does not validate leaves the
\* catalog empty
OpenFrom(file) ==
    LET good == file \ {Unreadable} IN
    /\ prMem' = good
    /\ prView' = CatalogOf(good)
    /\ prStatus' = IF file = {} THEN "unloaded"
                   ELSE IF good = {} THEN "error"
                   ELSE IF \E e \in good : EnvelopeIsStale(e) THEN "stale" ELSE "current"
    /\ prRetry' = [failures |-> 0, at |-> {}]
    /\ prFirst' = TRUE
    /\ prPermit' = FALSE
    /\ prTask' = [t \in PrTasks |-> IF t = "loop" THEN [PrIdle EXCEPT !.pc = "plan"] ELSE PrIdle]

PrInit ==
    /\ prSide \in PrSides
    /\ prRemote = 1
    /\ prDisk \in {{}, {Unreadable}, {[rev |-> 1, tag |-> {1}, at |-> 1, stale |-> FALSE]}}
    /\ prMem = prDisk \ {Unreadable}
    /\ prView = CatalogOf(prMem)
    /\ prStatus = IF prDisk = {} THEN "unloaded" ELSE IF prMem = {} THEN "error" ELSE "current"
    /\ prRetry = [failures |-> 0, at |-> {}]
    /\ prFirst = TRUE
    /\ prPermit = FALSE
    /\ prTask = [t \in PrTasks |-> IF t = "loop" THEN [PrIdle EXCEPT !.pc = "plan"] ELSE PrIdle]
    /\ prNow = 1 /\ prForced = 0 /\ prFaults = 0 /\ prDropped = FALSE

PrAt(t, pc) == prTask' = [prTask EXCEPT ![t].pc = pc]
\* A task that finished: the loop plans again, a forced refresh has returned to its caller
PrFinished(t) == prTask' = [prTask EXCEPT ![t] = IF t = "loop" THEN [PrIdle EXCEPT !.pc = "plan"] ELSE PrIdle]
PrFault == prFaults < PrMaxFaults /\ prFaults' = prFaults + 1
PrSameRun == UNCHANGED <<prSide, prForced>>

\* The loop computes its deadline and goes to sleep
PrPlan ==
    /\ prTask["loop"].pc = "plan"
    /\ prTask' = [prTask EXCEPT !["loop"] = [PrIdle EXCEPT !.pc = "sleep", !.wake = WakeAt]]
    /\ PrSameRun
    /\ UNCHANGED <<prRemote, prDisk, prMem, prView, prStatus, prRetry, prFirst, prPermit, prNow, prFaults, prDropped>>

\* wait_for_schedule_change: the permit ends the sleep and the deadline is computed anew
WakeByPermit ==
    /\ prTask["loop"].pc = "sleep" /\ prPermit
    /\ prPermit' = FALSE
    /\ PrAt("loop", "plan")
    /\ PrSameRun
    /\ UNCHANGED <<prRemote, prDisk, prMem, prView, prStatus, prRetry, prFirst, prNow, prFaults, prDropped>>

\* The timer ends the sleep.  The loop looks whether a refresh is due, and refresh(false) looks
\* again before it waits for the lock.
WakeByTimer ==
    /\ prTask["loop"].pc = "sleep" /\ prNow >= prTask["loop"].wake
    /\ PrAt("loop", IF RefreshDue THEN "lock" ELSE "plan")
    /\ PrSameRun
    /\ UNCHANGED <<prRemote, prDisk, prMem, prView, prStatus, prRetry, prFirst, prPermit, prNow, prFaults, prDropped>>

\* refresh_local_pricing_catalog and POST /pricing/refresh: refresh(true)
PrForce ==
    /\ prTask["forced"].pc = "idle" /\ prForced < PrMaxForced
    /\ prForced' = prForced + 1
    /\ PrAt("forced", "lock")
    /\ UNCHANGED <<prSide, prRemote, prDisk, prMem, prView, prStatus, prRetry, prFirst, prPermit, prNow, prFaults, prDropped>>

\* The lock is taken; a refresh that is not forced looks a last time whether it is due
PrLock(t) ==
    /\ prTask[t].pc = "lock" /\ PrHolder = {}
    /\ IF t = "forced" \/ RefreshDue
       THEN /\ PrAt(t, "send")
            /\ prStatus' = "updating"
            /\ prDropped' = FALSE
       ELSE /\ PrFinished(t)
            /\ UNCHANGED <<prStatus, prDropped>>
    /\ PrSameRun
    /\ UNCHANGED <<prRemote, prDisk, prMem, prView, prRetry, prFirst, prPermit, prNow, prFaults>>

-----------------------------------------------------------------------------
\* 304: the upstream recognised the validator, and only the freshness changes
PrConfirmed == {[e EXCEPT !.at = prNow, !.stale = FALSE] : e \in {x \in prMem : x.tag = {prRemote}}}
\* 200: a whole document; the response may carry no validator
PrDownloaded == {[rev |-> prRemote, tag |-> tag, at |-> prNow, stale |-> FALSE] : tag \in {{}, {prRemote}}}

\* The answer of the upstream, parsed and validated in full before anything is kept
PrAnswer(t) ==
    /\ prTask[t].pc = "send"
    /\ \E e \in IF PrConfirmed # {} THEN PrConfirmed ELSE PrDownloaded :
           prTask' = [prTask EXCEPT ![t].pc = "save", ![t].next = {e}]
    /\ PrSameRun
    /\ UNCHANGED <<prRemote, prDisk, prMem, prView, prStatus, prRetry, prFirst, prPermit, prNow, prFaults, prDropped>>

\* No answer, a status other than 200 and 304, or a document that does not parse or is too large
PrNoAnswer(t) ==
    /\ prTask[t].pc = "send"
    /\ PrFault
    /\ PrAt(t, "failed")
    /\ PrSameRun
    /\ UNCHANGED <<prRemote, prDisk, prMem, prView, prStatus, prRetry, prFirst, prPermit, prNow, prDropped>>

\* write_if_changed: the cache file is replaced by a finished temporary file, or not at all
PrSave(t) ==
    /\ prTask[t].pc = "save"
    /\ \/ /\ prDisk' = prTask[t].next
          /\ PrAt(t, "publish")
          /\ UNCHANGED prFaults
       \/ /\ PrFault
          /\ PrAt(t, "failed")
          /\ UNCHANGED prDisk
    /\ PrSameRun
    /\ UNCHANGED <<prRemote, prMem, prView, prStatus, prRetry, prFirst, prPermit, prNow, prDropped>>

\* The snapshot, the envelope and the status, in this order, before the schedule
PrPublish(t) ==
    /\ prTask[t].pc = "publish"
    /\ prView' = CatalogOf(prTask[t].next)
    /\ prMem' = prTask[t].next
    /\ prStatus' = "current"
    /\ PrAt(t, "settle")
    /\ PrSameRun
    /\ UNCHANGED <<prRemote, prDisk, prRetry, prFirst, prPermit, prNow, prFaults, prDropped>>

\* record_refresh_success: the retries are over
PrSettle(t) ==
    /\ prTask[t].pc = "settle"
    /\ prFirst' = FALSE
    /\ prRetry' = [failures |-> 0, at |-> {}]
    /\ PrAt(t, "notify")
    /\ PrSameRun
    /\ UNCHANGED <<prRemote, prDisk, prMem, prView, prStatus, prPermit, prNow, prFaults, prDropped>>

\* refresh_failed: the retry deadline first
PrFail(t) ==
    /\ prTask[t].pc = "failed"
    /\ prFirst' = FALSE
    /\ prRetry' = AfterFailure
    /\ PrAt(t, "mark")
    /\ PrSameRun
    /\ UNCHANGED <<prRemote, prDisk, prMem, prView, prStatus, prPermit, prNow, prFaults, prDropped>>

\* A mutant of PrMark: a failed refresh empties the catalog
ForgetOnFailure(t) ==
    /\ prTask[t].pc = "mark"
    /\ prMem' = {} /\ prView' = {} /\ prStatus' = "error"
    /\ PrAt(t, "notify")
    /\ PrSameRun
    /\ UNCHANGED <<prRemote, prDisk, prRetry, prFirst, prPermit, prNow, prFaults, prDropped>>

\* The last good document stays, marked as stale in the snapshot and, if the write succeeds, on disk
PrMark(t) ==
    /\ prTask[t].pc = "mark"
    /\ LET stale == {[e EXCEPT !.stale = TRUE] : e \in prMem} IN
       /\ prView' = CatalogOf(stale)
       /\ prMem' = stale
       /\ prStatus' = IF stale = {} THEN "error" ELSE "stale"
       /\ \/ prDisk' = (IF stale = {} THEN prDisk ELSE stale) /\ UNCHANGED prFaults
          \/ stale # {} /\ PrFault /\ UNCHANGED prDisk
    /\ PrAt(t, "notify")
    /\ PrSameRun
    /\ UNCHANGED <<prRemote, prRetry, prFirst, prPermit, prNow, prDropped>>

\* A mutant of PrNotify: the caller of a forced refresh is answered, the loop is not told
NotifyOnlyLoop(t) ==
    /\ prTask[t].pc = "notify"
    /\ prPermit' = (prPermit \/ t = "loop")
    /\ PrFinished(t)
    /\ PrSameRun
    /\ UNCHANGED <<prRemote, prDisk, prMem, prView, prStatus, prRetry, prFirst, prNow, prFaults, prDropped>>

\* schedule_changed.notify_one, last; the lock is released with the guard
PrNotify(t) ==
    /\ prTask[t].pc = "notify"
    /\ prPermit' = TRUE
    /\ PrFinished(t)
    /\ PrSameRun
    /\ UNCHANGED <<prRemote, prDisk, prMem, prView, prStatus, prRetry, prFirst, prNow, prFaults, prDropped>>

-----------------------------------------------------------------------------
\* The server drops the handler of a client that hung up; the guard releases the lock
PrCancel ==
    /\ prSide = "server" /\ prTask["forced"].pc \in {"lock", "send"}
    /\ PrFault
    /\ prDropped' = (prDropped \/ prTask["forced"].pc = "send")
    /\ PrFinished("forced")
    /\ PrSameRun
    /\ UNCHANGED <<prRemote, prDisk, prMem, prView, prStatus, prRetry, prFirst, prPermit, prNow>>

\* The process ends and starts again; replace_file may have moved the old file away
CrashAndOpen ==
    /\ PrFault
    /\ prDisk' \in {prDisk} \cup {d \in {{}} : \E t \in PrTasks : prTask[t].pc = "save"}
    /\ OpenFrom(prDisk')
    /\ prDropped' = FALSE
    /\ UNCHANGED <<prSide, prRemote, prNow, prForced>>

PrTick ==
    /\ prNow < PrMaxNow
    /\ prNow' = prNow + 1
    /\ UNCHANGED <<prSide, prRemote, prDisk, prMem, prView, prStatus, prRetry, prFirst, prPermit, prTask,
                   prForced, prFaults, prDropped>>

\* The upstream publishes a document
NewDocument ==
    /\ prRemote < PrMaxRevision
    /\ prRemote' = prRemote + 1
    /\ UNCHANGED <<prSide, prDisk, prMem, prView, prStatus, prRetry, prFirst, prPermit, prTask, prNow,
                   prForced, prFaults, prDropped>>

PrStep(t) == PrLock(t) \/ PrAnswer(t) \/ PrNoAnswer(t) \/ PrSave(t) \/ PrPublish(t) \/ PrSettle(t) \/ PrFail(t) \/ PrMark(t) \/ PrNotify(t)

PrNext ==
    \/ PrPlan \/ WakeByPermit \/ WakeByTimer \/ PrForce
    \/ \E t \in PrTasks : PrStep(t)
    \/ PrCancel \/ CrashAndOpen \/ PrTick \/ NewDocument

-----------------------------------------------------------------------------
PrEnvelope == [rev : 1..PrMaxRevision, tag : {{}} \cup {{r} : r \in 1..PrMaxRevision},
               at : 1..PrMaxNow, stale : BOOLEAN]

PrTypeOK ==
    /\ prSide \in PrSides /\ prRemote \in 1..PrMaxRevision
    /\ prDisk \subseteq PrEnvelope \cup {Unreadable} /\ Cardinality(prDisk) <= 1
    /\ prMem \subseteq PrEnvelope /\ Cardinality(prMem) <= 1
    /\ prView \subseteq [rev : 1..PrMaxRevision, at : 1..PrMaxNow, stale : BOOLEAN]
    /\ prStatus \in {"unloaded", "current", "stale", "updating", "error"}
    /\ prRetry.failures \in 0..3 /\ prFirst \in BOOLEAN /\ prPermit \in BOOLEAN
    /\ Cardinality(PrHolder) <= 1

\* The loop never sleeps past the moment a refresh is due: while it sleeps, no refresh runs and no
\* permit waits for it, the instant it wakes at is the one the present schedule gives, and a timer
\* that fires finds a refresh due (next_refresh_deadline, refresh_due and the order in which
\* refresh_failed and record_refresh_success publish the schedule and the permit).
LoopMeetsDeadline ==
    prTask["loop"].pc = "sleep" /\ PrHolder = {} /\ ~prPermit
    => /\ prTask["loop"].wake <= WakeAt
       /\ prNow >= prTask["loop"].wake => RefreshDue

\* A failure never costs a good document: the document in memory is on disk too, in this or a newer
\* revision, and between refreshes a document on disk is in memory, the snapshot shows it, and the
\* status tells whether its last refresh succeeded (refresh_failed, accept_not_modified,
\* write_if_changed; "malformed or oversized data cannot discard the last good snapshot").
\* A cancelled forced refresh leaves the status at "updating" until the next refresh.
LastGoodIsKept ==
    /\ prMem # {} => prDisk # {} /\ \A e \in prMem, d \in prDisk : d.rev >= e.rev
    /\ PrHolder = {} =>
           /\ prView = CatalogOf(prMem)
           /\ prMem = {} => prDisk \subseteq {Unreadable}
           /\ \/ prDropped
              \/ prStatus \in {"unloaded", "error"} /\ prMem = {}
              \/ prStatus = "current" /\ \E e \in prMem : ~e.stale
              \/ prStatus = "stale" /\ \E e \in prMem : EnvelopeIsStale(e)

-----------------------------------------------------------------------------
(***************************************************************************)
(* What a request would have cost at API prices:                            *)
(* estimate_api_equivalent_with_token_price of usage/api_equivalent.rs, the  *)
(* one accounting path of the desktop application and the server.           *)
(*                                                                         *)
(* An optional count or tariff is a number or Absent; an optional quote is   *)
(* {} or {quote}.  Every sum saturates at EqMax, the largest u64.            *)
(***************************************************************************)

CONSTANTS
    EqMax,   \* u64::MAX
    EqUnit   \* the tokens a tariff is given for: a million

ASSUME EqAssumption == EqMax \in Nat /\ EqUnit \in Nat \ {0}

-----------------------------------------------------------------------------
Absent == -1
Optional(S) == S \cup {Absent}
U64 == 0..EqMax

\* ApiEquivalentUsage: the counts a request reports
TokenUsage == [input : Optional(U64), read : Optional(U64), write5m : Optional(U64),
               write1h : Optional(U64), unknown : Optional(U64), output : Optional(U64),
               total : Optional(U64)]
\* TokenPrice: the tariffs per EqUnit tokens
TokenPrice == [input : U64, read : Optional(U64), write5m : Optional(U64), write1h : Optional(U64),
               output : U64]

Saturated(n) == IF n > EqMax THEN EqMax ELSE n
OrZero(o) == IF o = Absent THEN 0 ELSE o
AtMost(o, left) == IF OrZero(o) < left THEN OrZero(o) ELSE left

\* The input tokens by kind, each counted once: what is left of the input after the tokens read
\* from the cache, written for five minutes, for an hour, and for an unknown time
CacheRead(u) == IF u.input = Absent THEN OrZero(u.read) ELSE AtMost(u.read, u.input)
CacheWrite5m(u) ==
    IF u.input = Absent THEN OrZero(u.write5m) ELSE AtMost(u.write5m, u.input - CacheRead(u))
CacheWrite1h(u) ==
    IF u.input = Absent THEN OrZero(u.write1h)
    ELSE AtMost(u.write1h, u.input - CacheRead(u) - CacheWrite5m(u))
CacheUnknown(u) ==
    IF u.input = Absent THEN OrZero(u.unknown)
    ELSE AtMost(u.unknown, u.input - CacheRead(u) - CacheWrite5m(u) - CacheWrite1h(u))
CacheTokens(u) == CacheRead(u) + CacheWrite5m(u) + CacheWrite1h(u) + CacheUnknown(u)

\* A mutant of Uncached: the tokens of an unknown cache write are priced as plain input as well
UncachedTwice(u) ==
    IF u.input = Absent THEN Absent ELSE u.input - CacheRead(u) - CacheWrite5m(u) - CacheWrite1h(u)

Uncached(u) == IF u.input = Absent THEN Absent ELSE u.input - CacheTokens(u)

\* measured_tokens and total_tokens
MeasuredTokens(u) ==
    Saturated((IF u.input = Absent THEN Saturated(CacheTokens(u)) ELSE u.input) + OrZero(u.output))
TotalTokens(u) ==
    IF u.total = Absent \/ u.total < MeasuredTokens(u) THEN MeasuredTokens(u) ELSE u.total

-----------------------------------------------------------------------------
\* token_cost: rounded to the nearest unit
TokenCost(tokens, price) == Saturated((tokens * price + EqUnit \div 2) \div EqUnit)

\* A component without a count or without a tariff is not priced
PricedPart(tokens, price) == IF tokens = Absent \/ price = Absent THEN 0 ELSE tokens
CostPart(tokens, price) == IF tokens = Absent \/ price = Absent THEN 0 ELSE TokenCost(tokens, price)

PricedTokens(u, q) ==
    Saturated(PricedPart(Uncached(u), q.input) + PricedPart(CacheRead(u), q.read)
              + PricedPart(CacheWrite5m(u), q.write5m) + PricedPart(CacheWrite1h(u), q.write1h)
              + PricedPart(u.output, q.output))
MicroUsd(u, q) ==
    Saturated(CostPart(Uncached(u), q.input) + CostPart(CacheRead(u), q.read)
              + CostPart(CacheWrite5m(u), q.write5m) + CostPart(CacheWrite1h(u), q.write1h)
              + CostPart(u.output, q.output))

NoValue == [usd |-> 0, priced |-> 0, unpriced |-> 0]

\* estimate_api_equivalent_with_token_price
EstimateWith(u, q) ==
    [usd |-> MicroUsd(u, q), priced |-> PricedTokens(u, q),
     unpriced |-> TotalTokens(u) - PricedTokens(u, q)]
Estimate(u, quote) ==
    IF quote = {} THEN [NoValue EXCEPT !.unpriced = TotalTokens(u)]
    ELSE EstimateWith(u, CHOOSE q \in quote : TRUE)

\* UsageValue::merge
MergeValue(a, b) ==
    [usd |-> Saturated(a.usd + b.usd), priced |-> Saturated(a.priced + b.priced),
     unpriced |-> Saturated(a.unpriced + b.unpriced)]

-----------------------------------------------------------------------------
\* Every token is accounted for exactly once: the priced and the unpriced tokens of a request add up
\* to its total, whatever counts the provider left out and however they overlap, and tokens written
\* to a cache for an unknown time are never among the priced ones.
AddsUp(u, q) ==
    /\ PricedTokens(u, q) <= TotalTokens(u)
    /\ PricedTokens(u, q) + EstimateWith(u, q).unpriced = TotalTokens(u)
    /\ MeasuredTokens(u) < EqMax => EstimateWith(u, q).unpriced >= CacheUnknown(u)

CacheKinds == {"read", "write5m", "write1h"}
TokensOf(u, kind) ==
    CASE kind = "read" -> CacheRead(u) [] kind = "write5m" -> CacheWrite5m(u) [] OTHER -> CacheWrite1h(u)

\* A missing cache tariff leaves the tokens of its kind unpriced and changes nothing else: no other
\* tariff stands in for it, and the estimate never grows.
TariffIsOwn(u, q) ==
    \A kind \in CacheKinds :
        LET less == EstimateWith(u, [q EXCEPT ![kind] = Absent]) IN
        q[kind] # Absent /\ MeasuredTokens(u) < EqMax
        => /\ less.unpriced = EstimateWith(u, q).unpriced + TokensOf(u, kind)
           /\ less.usd <= EstimateWith(u, q).usd

-----------------------------------------------------------------------------
(***************************************************************************)
(* Which price a request gets: the index built over the price document      *)
(* (PricingCatalog::from_litellm_payload) and the resolution of a candidate  *)
(* (PricingContext::candidate_price, pricing/resolver.rs).  The document is   *)
(* indexed record by record, then usage rows are priced one by one against   *)
(* the one snapshot, as the usage queries do.                               *)
(*                                                                         *)
(* A model id is <<namespace, name>>, with "" for no namespace; records may   *)
(* spell one id in several ways ("case"), which normalisation identifies.     *)
(* A record that does not parse, or that carries no price, is not in the      *)
(* document here: the code skips it.                                        *)
(***************************************************************************)

CONSTANTS
    EqRecords,   \* the records documents are made of: [id, case, provider, price]
    EqMaxRecords,\* bound: records of a document
    EqUsages,    \* the usage a row can carry
    EqMaxRows,   \* bound: rows priced in one pass
    EqContexts,  \* candidates: [kind, provider, family, evidence, manual]; "" for none, prices as {} or {price}
    EqModels     \* the models the rows name

VARIABLES
    eqDoc,       \* the records still to index
    eqEntries,   \* entries: the records indexed, by their spelling
    eqUnique,    \* unique: the record of a normalised id
    eqConflicts, \* conflicts: the ids two records price differently
    eqRows,      \* the rows priced so far
    eqLast,      \* the last row: {} or {[model, ctx, usage, quote, source]}
    eqValue,     \* the value summed over the rows
    eqTokens     \* history: the tokens of the rows

eqVars == <<eqDoc, eqEntries, eqUnique, eqConflicts, eqRows, eqLast, eqValue, eqTokens>>

-----------------------------------------------------------------------------
\* equivalent_pricing: everything but the spelling of the id
EquivalentPricing(a, b) == a.provider = b.provider /\ a.price = b.price

EqInit ==
    /\ \E n \in 0..EqMaxRecords : eqDoc \in [1..n -> EqRecords]
    /\ \A i, j \in DOMAIN eqDoc :
           i # j => <<eqDoc[i].id, eqDoc[i].case>> # <<eqDoc[j].id, eqDoc[j].case>>
    /\ eqEntries = {} /\ eqUnique = <<>> /\ eqConflicts = {}
    /\ eqRows = 0 /\ eqLast = {} /\ eqValue = NoValue /\ eqTokens = 0

\* A mutant of IndexRecord: a third record of a conflicting id is indexed again
IndexAgain ==
    /\ eqDoc # <<>>
    /\ LET e == Head(eqDoc) IN
       /\ IF e.id \in DOMAIN eqUnique
          THEN IF EquivalentPricing(eqUnique[e.id], e)
               THEN UNCHANGED <<eqUnique, eqConflicts>>
               ELSE /\ eqConflicts' = eqConflicts \cup {e.id}
                    /\ eqUnique' = [k \in DOMAIN eqUnique \ {e.id} |-> eqUnique[k]]
          ELSE eqUnique' = (e.id :> e) @@ eqUnique /\ UNCHANGED eqConflicts
       /\ eqEntries' = eqEntries \cup {e}
    /\ eqDoc' = Tail(eqDoc)
    /\ UNCHANGED <<eqRows, eqLast, eqValue, eqTokens>>

\* One record of the document: the first of an id is kept, an equal one changes nothing, a different
\* one makes the id a conflict for good
IndexRecord ==
    /\ eqDoc # <<>>
    /\ LET e == Head(eqDoc) IN
       /\ IF e.id \in DOMAIN eqUnique
          THEN IF EquivalentPricing(eqUnique[e.id], e)
               THEN UNCHANGED <<eqUnique, eqConflicts>>
               ELSE /\ eqConflicts' = eqConflicts \cup {e.id}
                    /\ eqUnique' = [k \in DOMAIN eqUnique \ {e.id} |-> eqUnique[k]]
          ELSE /\ eqUnique' = IF e.id \in eqConflicts THEN eqUnique ELSE (e.id :> e) @@ eqUnique
               /\ UNCHANGED eqConflicts
       /\ eqEntries' = eqEntries \cup {e}
    /\ eqDoc' = Tail(eqDoc)
    /\ UNCHANGED <<eqRows, eqLast, eqValue, eqTokens>>

-----------------------------------------------------------------------------
Unique(id) == IF id \in DOMAIN eqUnique THEN {eqUnique[id]} ELSE {}
First(sets) == IF \A i \in DOMAIN sets : sets[i] = {} THEN {}
               ELSE sets[CHOOSE i \in DOMAIN sets : sets[i] # {} /\ \A j \in 1..(i - 1) : sets[j] = {}]

\* exact_entry: with a declared provider only a record of that provider, under the qualified id,
\* the id as given or the bare name; without one the id as given
ExactEntry(model, provider) ==
    IF provider = "" THEN Unique(model)
    ELSE First([i \in 1..3 |->
                   {e \in Unique(<<<<provider, model[2]>>, model, <<"", model[2]>>>>[i]) :
                       e.provider = provider}])

\* canonical_entry: the records of the family with this name, if they agree
CanonicalEntry(model, family) ==
    LET named == {e \in eqEntries : e.provider = family /\ e.id[2] = model[2] /\ e.id \notin eqConflicts}
    IN IF \A a, b \in named : EquivalentPricing(a, b) THEN named ELSE {}

PricesOf(entries) == UNION {e.price : e \in entries}

\* resolve_account and resolve_source
ResolveAccount(model, family) ==
    LET price == PricesOf(CanonicalEntry(model, family)) IN
    [quote |-> price, source |-> IF price = {} THEN "unpriced" ELSE "canonical"]
ResolveSource(model, ctx) ==
    LET exact == PricesOf(ExactEntry(model, ctx.provider))
        canonical == IF ctx.family = "" THEN {} ELSE PricesOf(CanonicalEntry(model, ctx.family))
    IN CASE ctx.evidence # {} -> [quote |-> ctx.evidence, source |-> "provider"]
         [] ctx.evidence = {} /\ exact # {} -> [quote |-> exact, source |-> "exact"]
         [] ctx.evidence = {} /\ exact = {} /\ canonical # {} -> [quote |-> canonical, source |-> "canonical"]
         [] OTHER -> [quote |-> ctx.manual, source |-> IF ctx.manual = {} THEN "unpriced" ELSE "manual"]

\* A mutant of CandidatePrice: an account is resolved like a source
ResolveAnyKind(model, ctx) == ResolveSource(model, ctx)

\* candidate_price: an account only ever gets the price of its official family
CandidatePrice(model, ctx) ==
    IF ctx.kind = "account" THEN ResolveAccount(model, IF ctx.family = "" THEN "openai" ELSE ctx.family)
    ELSE ResolveSource(model, ctx)

\* One row of a usage query: resolved against the snapshot, estimated and merged
PriceRow ==
    /\ eqDoc = <<>> /\ eqRows < EqMaxRows
    /\ \E model \in EqModels, ctx \in EqContexts, u \in EqUsages :
           LET price == CandidatePrice(model, ctx) IN
           /\ eqLast' = {[model |-> model, ctx |-> ctx, usage |-> u, quote |-> price.quote, source |-> price.source]}
           /\ eqValue' = MergeValue(eqValue, Estimate(u, price.quote))
           /\ eqTokens' = eqTokens + TotalTokens(u)
    /\ eqRows' = eqRows + 1
    /\ UNCHANGED <<eqDoc, eqEntries, eqUnique, eqConflicts>>

EqNext == IndexRecord \/ PriceRow

-----------------------------------------------------------------------------
EqTypeOK ==
    /\ eqConflicts \cap DOMAIN eqUnique = {}
    /\ {eqUnique[k] : k \in DOMAIN eqUnique} \subseteq eqEntries
    /\ eqValue \in [usd : U64, priced : U64, unpriced : U64]

\* The index does not depend on the order of the document: an id is a conflict exactly when two of
\* its records price it differently, and every other id is known (from_litellm_payload).
IndexIsOrderFree ==
    LET differ(a, b) == a.id = b.id /\ ~EquivalentPricing(a, b) IN
    /\ eqConflicts = {a.id : a \in {x \in eqEntries : \E b \in eqEntries : differ(x, b)}}
    /\ DOMAIN eqUnique = {e.id : e \in eqEntries} \ eqConflicts

\* A price is never somebody else's: an account is priced from the records of its own family only,
\* a source that declares a provider never from a record of another one unless it also declares
\* that family, and no price comes from an id the document prices in two ways (candidate_price,
\* exact_entry, canonical_entry).
QuoteIsOwn ==
    \A row \in eqLast :
        LET from(families) == \E e \in eqEntries : /\ e.id[2] = row.model[2] /\ e.provider \in families
                                                   /\ e.price = row.quote /\ e.id \notin eqConflicts
        IN /\ row.ctx.kind = "account" /\ row.quote # {}
                  => from({IF row.ctx.family = "" THEN "openai" ELSE row.ctx.family})
           /\ row.source = "exact" /\ row.ctx.provider # "" => from({row.ctx.provider})
           /\ row.source = "canonical" /\ row.ctx.kind = "source" => from({row.ctx.family})

\* Every token of the rows is accounted for once, priced or not, and a missing tariff is nobody
\* else's (estimate_api_equivalent_with_token_price, UsageValue::merge).
TokensAccounted ==
    /\ eqTokens <= EqMax => eqValue.priced + eqValue.unpriced = eqTokens
    /\ \A row \in eqLast : \A q \in row.quote : AddsUp(row.usage, q) /\ TariffIsOwn(row.usage, q)
=============================================================================
