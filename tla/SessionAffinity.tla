-------------------------- MODULE SessionAffinity ---------------------------
(***************************************************************************)
(* The owners of continued responses and of prompt-cache keys: two bounded *)
(* caches with a lifetime inside the scheduler (scheduler/affinity.rs), a  *)
(* table that outlives the process (the response_affinity table of the     *)
(* desktop and of the server), and the requests that move bindings between *)
(* them (runtime/selection.rs, runtime/session_state.rs).  Every access to *)
(* the scheduler and every access to the table takes its own lock, so a    *)
(* request is a sequence of steps that other requests, a removal and a     *)
(* rebuild of the runtime interleave with.  A rebuilt runtime loads the    *)
(* table; requests of the old runtime go on using the old one.             *)
(***************************************************************************)
EXTENDS Integers, Sequences, FiniteSetsExt

CONSTANTS
    SaResponses,     \* response ids: keys of response_affinity
    SaPrompts,       \* prompt cache keys and sessions: keys of prompt_affinity
    SaCandidates,
    SaReqs,
    SaCap,           \* RESPONSE_AFFINITY_MAX_ENTRIES, PROMPT_AFFINITY_MAX_ENTRIES
    SaTtl,           \* RESPONSE_AFFINITY_TTL_MS
    SaPromptTtl,     \* PROMPT_AFFINITY_TTL_MS
    SaMaxNow,        \* bound: clock
    SaMaxBegun,      \* bound: requests begun
    SaMaxRuntimes,   \* bound: runtimes built
    SaMaxFaults      \* bound: failing accesses to the table

VARIABLES
    saNow,
    saMem,      \* the caches of every runtime
    saTable,    \* response_affinity rows
    saCands,    \* the candidates of every runtime: "in", "retired" or "out"
    saRun,      \* [cur |-> the runtime in use, load |-> a runtime being built]
    saReq,
    saRemoving, \* a removal between the scheduler and the table
    saKnown,    \* ghost: the owner and lifetime the table was last told
    saBegun,
    saFaults

saVars == <<saNow, saMem, saTable, saCands, saRun, saReq, saRemoving, saKnown, saBegun, saFaults>>

SaKeys == SaResponses \cup SaPrompts
SaRuntimes == 1..SaMaxRuntimes
SaNobody == "nobody"
SaUnbound == [owner |-> SaNobody, exp |-> 0, touched |-> 0]
SaTtlOf(k) == IF k \in SaPrompts THEN SaPromptTtl ELSE SaTtl
SaCache(k) == IF k \in SaPrompts THEN SaPrompts ELSE SaResponses

(***************************************************************************)
(* AffinityCache: every access first prunes what has expired               *)
(***************************************************************************)
SaPruned(mem, now) == [k \in SaKeys |-> IF mem[k].exp > now THEN mem[k] ELSE SaUnbound]

SaBound(mem, k) == {j \in SaCache(k) : mem[j].owner # SaNobody}

\* evict_oldest: the least recently touched binding makes room
SaRoom(mem, k) ==
    IF k \in SaBound(mem, k) \/ Cardinality(SaBound(mem, k)) < SaCap THEN {mem}
    ELSE {[mem EXCEPT ![j] = SaUnbound] :
            j \in {i \in SaBound(mem, k) : \A o \in SaBound(mem, k) : mem[i].touched <= mem[o].touched}}

\* bind_for and restore: the caches that may result
SaBindings(mem, k, c, exp, now) ==
    {[m EXCEPT ![k] = [owner |-> c, exp |-> exp, touched |-> now]] : m \in SaRoom(SaPruned(mem, now), k)}

\* bind_if_unbound_or_same: another owner's binding is left alone
SaSticky(mem, k, c) == mem[k].owner \in {SaNobody, c}

SaWithout(mem, c) == [k \in SaKeys |-> IF mem[k].owner = c THEN SaUnbound ELSE mem[k]]

-----------------------------------------------------------------------------
(***************************************************************************)
(* Requests                                                                *)
(***************************************************************************)
SaIdleReq == [pc |-> "idle", rt |-> 0, key |-> "none", prompt |-> "none", todo |-> <<>>, at |-> 0,
              row |-> SaUnbound, tried |-> {}, cand |-> SaNobody, hit |-> FALSE, out |-> "none",
              blind |-> FALSE]

SaInit ==
    /\ saNow = 0
    /\ saMem = [r \in SaRuntimes |-> [k \in SaKeys |-> SaUnbound]]
    /\ saTable = [k \in SaKeys |-> SaUnbound]
    /\ saCands = [r \in SaRuntimes |-> [c \in SaCandidates |-> "in"]]
    /\ saRun = [cur |-> 1, load |-> 0, stale |-> {}]
    /\ saReq = [q \in SaReqs |-> SaIdleReq]
    /\ saRemoving = SaNobody
    /\ saKnown = [k \in SaKeys |-> SaUnbound]
    /\ saBegun = 0
    /\ saFaults = 0

SaKeep(q, r) == saReq' = [saReq EXCEPT ![q] = r]

\* The caches of runtime rt become m.  A request that saw its binding cached and lost it to an
\* eviction before its selection is marked.
SaCached(q, r, rt, m) ==
    /\ saMem' = [saMem EXCEPT ![rt] = m]
    /\ saReq' = [o \in SaReqs |->
          IF o = q THEN r
          ELSE IF /\ saReq[o].rt = rt /\ saReq[o].key \in {k \in SaResponses : saMem[rt][k].owner # m[k].owner}
                  /\ saReq[o].pc \in {"check", "find", "restore", "select"}
          THEN [saReq[o] EXCEPT !.blind = TRUE] ELSE saReq[o]]
SaFault == saFaults < SaMaxFaults /\ saFaults' = saFaults + 1
SaLive(rt, c) == saCands[rt][c] # "out"

\* The keys of the request still to be looked up; with none left the selection follows.
SaOn(r, todo) == [r EXCEPT !.pc = IF todo = <<>> THEN "select" ELSE "check", !.todo = todo]
SaLookUp(r) == SaOn(r, SelectSeq(<<r.key, r.prompt>>, LAMBDA k : k # "none"))

\* A client continues a response it was given, with or without a prompt key.
SaBegin(q) ==
    /\ saReq[q].pc = "idle" /\ saBegun < SaMaxBegun
    /\ saBegun' = saBegun + 1
    /\ \E key \in {k \in SaResponses : saKnown[k].touched = 1} \cup {"none"}, prompt \in SaPrompts \cup {"none"} :
          LET r == [SaIdleReq EXCEPT !.rt = saRun.cur, !.key = key, !.prompt = prompt,
                                     !.at = saNow]
          IN SaKeep(q, SaLookUp(r))
    /\ UNCHANGED <<saNow, saMem, saTable, saCands, saRun, saRemoving, saKnown, saFaults>>

\* has_response_affinity, has_prompt_affinity
SaCheck(q) ==
    LET r == saReq[q] mem == SaPruned(saMem[r.rt], r.at) IN
    /\ r.pc = "check"
    /\ saMem' = [saMem EXCEPT ![r.rt] = mem]
    /\ SaKeep(q, IF mem[Head(r.todo)].owner # SaNobody THEN SaOn(r, Tail(r.todo)) ELSE [r EXCEPT !.pc = "find"])
    /\ UNCHANGED <<saBegun, saNow, saTable, saCands, saRun, saRemoving, saKnown, saFaults>>

\* store.find: a row that has not expired; a failing read counts as no row
SaFind(q) ==
    LET r == saReq[q] row == saTable[Head(r.todo)] IN
    /\ r.pc = "find"
    /\ \/ /\ SaKeep(q, IF row.exp > r.at THEN [r EXCEPT !.pc = "restore", !.row = row]
                       ELSE SaOn(r, Tail(r.todo)))
          /\ UNCHANGED saFaults
       \/ SaFault /\ SaKeep(q, [SaOn(r, Tail(r.todo)) EXCEPT !.blind = TRUE])
    /\ UNCHANGED <<saBegun, saNow, saMem, saTable, saCands, saRun, saRemoving, saKnown>>

\* mutant: the found row is not restored when the cache is full
SaRestoreIfRoom(q) ==
    LET r == saReq[q] k == Head(r.todo) IN
    /\ r.pc = "restore"
    /\ \E m \in IF SaLive(r.rt, r.row.owner) /\ Cardinality(SaBound(saMem[r.rt], k)) < SaCap THEN SaBindings(saMem[r.rt], k, r.row.owner, r.row.exp, r.at)
                ELSE {saMem[r.rt]} :
          SaCached(q, [SaOn(r, Tail(r.todo)) EXCEPT !.row = SaUnbound], r.rt, m)
    /\ UNCHANGED <<saBegun, saNow, saTable, saCands, saRun, saRemoving, saKnown, saFaults>>

\* restore_response_affinity, restore_prompt_affinity
SaRestore(q) ==
    LET r == saReq[q] k == Head(r.todo) IN
    /\ r.pc = "restore"
    /\ \E m \in IF SaLive(r.rt, r.row.owner) THEN SaBindings(saMem[r.rt], k, r.row.owner, r.row.exp, r.at)
                ELSE {saMem[r.rt]} :
          SaCached(q, [SaOn(r, Tail(r.todo)) EXCEPT !.row = SaUnbound], r.rt, m)
    /\ UNCHANGED <<saBegun, saNow, saTable, saCands, saRun, saRemoving, saKnown, saFaults>>

\* select_for and the reservation: the owner of the continued response or nobody; otherwise any
\* eligible candidate (whether load and quota allow the prompt owner is left open)
SaSelect(q) ==
    LET r == saReq[q]
        mem == SaPruned(saMem[r.rt], r.at)
        owner == IF r.key = "none" THEN SaNobody ELSE mem[r.key].owner
        eligible == {c \in SaCandidates \ r.tried : saCands[r.rt][c] = "in"}
    IN
    /\ r.pc = "select"
    /\ \/ \E c \in IF owner = SaNobody THEN eligible ELSE {owner} \cap eligible :
             LET hit == owner # SaNobody IN
             /\ SaKeep(q, [r EXCEPT !.pc = IF hit THEN "persist" ELSE "sent", !.cand = c, !.hit = hit,
                                    !.tried = @ \cup {c}])
             /\ saMem' = [saMem EXCEPT ![r.rt] =
                    IF hit THEN [mem EXCEPT ![r.key].exp = r.at + SaTtl, ![r.key].touched = r.at] ELSE mem]
       \/ /\ (IF owner = SaNobody THEN eligible ELSE {owner} \cap eligible) = {}
          /\ SaKeep(q, [r EXCEPT !.pc = "refused"])
          /\ saMem' = [saMem EXCEPT ![r.rt] = mem]
    /\ UNCHANGED <<saBegun, saNow, saTable, saCands, saRun, saRemoving, saKnown, saFaults>>

\* upsert: the row of key k names c until exp; a failing write is ignored.  A key released meanwhile
\* stays released on record (known) although its row comes back.
SaUpsert(k, c, exp, known) ==
    \/ /\ saTable' = [saTable EXCEPT ![k] = [owner |-> c, exp |-> exp, touched |-> 0]]
       /\ saKnown' = [saKnown EXCEPT ![k] = IF known THEN [owner |-> c, exp |-> exp, touched |-> 1] ELSE @]
       /\ UNCHANGED saFaults
    \/ /\ SaFault /\ UNCHANGED saTable
       /\ saKnown' = [saKnown EXCEPT ![k].touched = 1]

\* persist_response_affinity after a hit
SaPersistHit(q) ==
    LET r == saReq[q] IN
    /\ r.pc = "persist"
    /\ SaUpsert(r.key, r.cand, r.at + SaTtl, saKnown[r.key].owner # SaNobody)
    /\ SaKeep(q, [r EXCEPT !.pc = "sent"])
    /\ UNCHANGED <<saBegun, saNow, saMem, saCands, saRun, saRemoving>>

-----------------------------------------------------------------------------
(***************************************************************************)
(* The answer                                                              *)
(***************************************************************************)
\* The candidate answers: the prompt key is bound to it unless another owner holds it.
SaAnswered(q) ==
    LET r == saReq[q] k == r.prompt mem == SaPruned(saMem[r.rt], saNow) IN
    /\ r.pc = "sent"
    /\ IF k # "none" /\ SaLive(r.rt, r.cand) /\ SaSticky(mem, k, r.cand)
       THEN \E m \in SaBindings(mem, k, r.cand, saNow + SaPromptTtl, saNow) :
               SaCached(q, [r EXCEPT !.pc = "prompted", !.at = saNow], r.rt, m)
       ELSE /\ saMem' = [saMem EXCEPT ![r.rt] = mem]
            /\ SaKeep(q, [r EXCEPT !.pc = "bind"])
    /\ UNCHANGED <<saBegun, saNow, saTable, saCands, saRun, saRemoving, saKnown, saFaults>>

\* persist_prompt_affinity
SaPersistPrompt(q) ==
    LET r == saReq[q] IN
    /\ r.pc = "prompted"
    /\ SaUpsert(r.prompt, r.cand, r.at + SaPromptTtl, TRUE)
    /\ SaKeep(q, [r EXCEPT !.pc = "bind"])
    /\ UNCHANGED <<saBegun, saNow, saMem, saCands, saRun, saRemoving>>

SaFreshIds == {k \in SaResponses : saKnown[k].touched = 0 /\ \A q \in SaReqs : saReq[q].out # k}

\* bind_response_affinity for the new response id
SaBindResponse(q) ==
    LET r == saReq[q] IN
    /\ r.pc = "bind"
    /\ \/ \E k \in SaFreshIds :
             /\ SaLive(r.rt, r.cand)
             /\ \E m \in SaBindings(saMem[r.rt], k, r.cand, saNow + SaTtl, saNow) :
                   SaCached(q, [r EXCEPT !.pc = "bound", !.out = k, !.at = saNow], r.rt, m)
       \/ (SaFreshIds = {} \/ ~SaLive(r.rt, r.cand)) /\ SaKeep(q, [r EXCEPT !.pc = "done"]) /\ UNCHANGED saMem
    /\ UNCHANGED <<saBegun, saNow, saTable, saCands, saRun, saRemoving, saKnown, saFaults>>

\* persist_response_affinity for the new response id
SaPersistResponse(q) ==
    LET r == saReq[q] IN
    /\ r.pc = "bound"
    /\ SaUpsert(r.out, r.cand, r.at + SaTtl, TRUE)
    /\ SaKeep(q, [r EXCEPT !.pc = "done"])
    /\ UNCHANGED <<saBegun, saNow, saMem, saCands, saRun, saRemoving>>

\* The lease of a request ends; the last one of a retired candidate removes the candidate.
SaRelease(q, mem) ==
    LET r == saReq[q]
        last == /\ r.cand # SaNobody /\ saCands[r.rt][r.cand] = "retired"
                /\ \A o \in SaReqs \ {q} : ~(saReq[o].rt = r.rt /\ saReq[o].cand = r.cand)
    IN
    /\ saCands' = IF last THEN [saCands EXCEPT ![r.rt][r.cand] = "out"] ELSE saCands
    /\ saMem' = IF last THEN [saMem EXCEPT ![r.rt] = SaWithout(mem, r.cand)]
                ELSE [saMem EXCEPT ![r.rt] = mem]

SaAgain(r) == SaLookUp([r EXCEPT !.at = saNow, !.cand = SaNobody, !.hit = FALSE, !.blind = FALSE])

\* A retryable failure: the owner's binding is released before the next selection.
SaFailed(q) ==
    LET r == saReq[q] IN
    /\ r.pc = "sent"
    /\ IF r.hit /\ saMem[r.rt][r.key].owner # SaNobody
       THEN /\ saMem' = [saMem EXCEPT ![r.rt][r.key] = SaUnbound]
            /\ saKnown' = [saKnown EXCEPT ![r.key].owner = SaNobody, ![r.key].exp = 0]
            /\ SaKeep(q, [r EXCEPT !.pc = "drop"])
            /\ UNCHANGED saCands
       ELSE /\ SaRelease(q, saMem[r.rt])
            /\ SaKeep(q, SaAgain(r))
            /\ UNCHANGED saKnown
    /\ UNCHANGED <<saBegun, saNow, saTable, saRun, saRemoving, saFaults>>

\* store.delete after the release; a failing delete is ignored
SaDrop(q) ==
    LET r == saReq[q] IN
    /\ r.pc = "drop"
    /\ \/ saTable' = [saTable EXCEPT ![r.key] = SaUnbound] /\ UNCHANGED saFaults
       \/ SaFault /\ UNCHANGED saTable
    /\ SaRelease(q, saMem[r.rt])
    /\ SaKeep(q, SaAgain(r))
    /\ UNCHANGED <<saBegun, saNow, saRun, saRemoving, saKnown>>

SaEnd(q) ==
    /\ saReq[q].pc \in {"refused", "done"}
    /\ SaRelease(q, saMem[saReq[q].rt])
    /\ SaKeep(q, SaIdleReq)
    /\ UNCHANGED <<saBegun, saNow, saTable, saRun, saRemoving, saKnown, saFaults>>

-----------------------------------------------------------------------------
(***************************************************************************)
(* Removal of a candidate and rebuilds of the runtime                      *)
(***************************************************************************)
\* remove_candidate: the scheduler first ...
SaRemove(c) ==
    LET rt == saRun.cur
        leased == \E q \in SaReqs : saReq[q].rt = rt /\ saReq[q].cand = c
    IN
    /\ saRemoving = SaNobody /\ saRun.load = 0 /\ saCands[rt][c] = "in"
    /\ saCands' = [saCands EXCEPT ![rt][c] = IF leased THEN "retired" ELSE "out"]
    /\ saMem' = [saMem EXCEPT ![rt] = SaWithout(@, c)]
    /\ saRemoving' = c
    /\ saKnown' = [k \in SaKeys |-> IF saKnown[k].owner = c THEN [saKnown[k] EXCEPT !.owner = SaNobody, !.exp = 0]
                                    ELSE saKnown[k]]
    /\ UNCHANGED <<saBegun, saNow, saTable, saRun, saReq, saFaults>>

\* ... then its rows
SaRemoveRows ==
    /\ saRemoving # SaNobody
    /\ saRemoving' = SaNobody
    /\ \/ saTable' = SaWithout(saTable, saRemoving) /\ UNCHANGED saFaults
       \/ SaFault /\ UNCHANGED saTable
    /\ UNCHANGED <<saBegun, saNow, saMem, saCands, saRun, saReq, saKnown>>

\* GatewayRuntime::new loads the table: expired rows are deleted, rows of candidates the new runtime
\* does not have are set aside for deletion
SaLoad ==
    LET rt == saRun.cur + 1
        rows == SaPruned(saTable, saNow)
        kept == {k \in SaKeys : rows[k].owner # SaNobody /\ saCands[saRun.cur][rows[k].owner] = "in"}
    IN
    /\ saRun.load = 0 /\ saRun.cur < SaMaxRuntimes /\ saRemoving = SaNobody
    /\ saCands' = [saCands EXCEPT ![rt] = [c \in SaCandidates |-> IF saCands[saRun.cur][c] = "in" THEN "in" ELSE "out"]]
    /\ \E in \in SUBSET kept :
          /\ \A cache \in {SaPrompts, SaResponses} :
                Cardinality(in \cap cache) = Min({SaCap, Cardinality(kept \cap cache)})
          /\ saMem' = [saMem EXCEPT ![rt] =
                [k \in SaKeys |-> IF k \in in THEN [rows[k] EXCEPT !.touched = saNow] ELSE SaUnbound]]
    /\ saTable' = rows
    /\ saRun' = [saRun EXCEPT !.load = rt, !.stale = {k \in SaKeys \ kept : rows[k].owner # SaNobody}]
    /\ UNCHANGED <<saBegun, saNow, saReq, saRemoving, saKnown, saFaults>>

SaDropStale ==
    /\ saRun.load # 0 /\ saRun.stale # {}
    /\ \E k \in saRun.stale :
          /\ saRun' = [saRun EXCEPT !.stale = @ \ {k}]
          /\ \/ saTable' = [saTable EXCEPT ![k] = SaUnbound] /\ UNCHANGED saFaults
                /\ saKnown' = [saKnown EXCEPT ![k] = [@ EXCEPT !.owner = SaNobody, !.exp = 0]]
             \/ SaFault /\ UNCHANGED <<saTable, saKnown>>
    /\ UNCHANGED <<saBegun, saNow, saMem, saCands, saReq, saRemoving>>

\* The new runtime takes over; requests of the old one keep it.
SaSwap ==
    /\ saRun.load # 0 /\ saRun.stale = {}
    /\ saRun' = [cur |-> saRun.load, load |-> 0, stale |-> {}]
    /\ UNCHANGED <<saBegun, saNow, saMem, saTable, saCands, saReq, saRemoving, saKnown, saFaults>>

SaTick ==
    /\ saNow < SaMaxNow
    /\ saNow' = saNow + 1
    /\ UNCHANGED <<saBegun, saMem, saTable, saCands, saRun, saReq, saRemoving, saKnown, saFaults>>

SaNext ==
    \/ \E q \in SaReqs :
          \/ SaBegin(q) \/ SaCheck(q) \/ SaFind(q) \/ SaRestore(q) \/ SaSelect(q) \/ SaPersistHit(q)
          \/ SaAnswered(q) \/ SaPersistPrompt(q) \/ SaBindResponse(q) \/ SaPersistResponse(q)
          \/ SaFailed(q) \/ SaDrop(q) \/ SaEnd(q)
    \/ \E c \in SaCandidates : SaRemove(c)
    \/ SaRemoveRows \/ SaLoad \/ SaDropStale \/ SaSwap \/ SaTick

-----------------------------------------------------------------------------
SaBindingType == [owner : SaCandidates \cup {SaNobody}, exp : Nat, touched : Nat]

\* The caches hold at most SaCap bindings each, and the rows, requests and runtimes have their types.
SaTypeOK ==
    /\ \A r \in SaRuntimes, k \in SaKeys :
          saMem[r][k] \in SaBindingType /\ Cardinality(SaBound(saMem[r], k)) <= SaCap
    /\ saTable \in [SaKeys -> SaBindingType]
    /\ saCands \in [SaRuntimes -> [SaCandidates -> {"in", "retired", "out"}]]
    /\ saRun.cur \in SaRuntimes /\ saRun.load \in {0, saRun.cur + 1} /\ saRun.stale \subseteq SaKeys
    /\ saReq \in [SaReqs ->
          [pc : {"idle", "check", "find", "restore", "select", "persist", "sent", "prompted", "bind", "bound",
                 "drop", "refused", "done"},
           rt : 0..SaMaxRuntimes, key : SaResponses \cup {"none"}, prompt : SaPrompts \cup {"none"},
           todo : {<<>>} \cup {<<k>> : k \in SaKeys} \cup {<<k, p>> : k \in SaResponses, p \in SaPrompts},
           at : 0..SaMaxNow, row : SaBindingType, tried : SUBSET SaCandidates,
           cand : SaCandidates \cup {SaNobody}, hit : BOOLEAN, out : SaResponses \cup {"none"},
           blind : BOOLEAN]]

\* A continuation whose response is on record goes to the candidate that made it or to nobody: as long
\* as the binding has not expired, been released or lost its candidate, a selection never carries the
\* request elsewhere, across rebuilds, evictions and concurrent requests.
ContinuationFindsOwner ==
    [][\A q \in SaReqs :
          LET r == saReq[q] k == saReq[q].key IN
          (r.pc = "select" /\ saReq'[q].pc = "sent" /\ k # "none" /\ ~r.blind) =>
             ~(saKnown[k].exp > saNow /\ saCands[r.rt][saKnown[k].owner] = "in")]_saVars

-----------------------------------------------------------------------------
(***************************************************************************)
(* The turn state an account returns in a header and the client echoes in  *)
(* its next request of the session (gateway/turn_state.rs and              *)
(* CodexTurnStateStore of runtime/session_state.rs).  The relay remembers, *)
(* per session and for a limited time, which account last gave a state,    *)
(* and takes the header out of a request that goes to another account.     *)
(* Answers reach the client in any order; the state an account gives       *)
(* during a WebSocket handshake is noted and not passed on.                *)
(***************************************************************************)

CONSTANTS
    TuAccounts,
    TuReqs,      \* requests of one session
    TuTtl,       \* CODEX_TURN_STATE_TTL_MS
    TuMaxNow,    \* bound: clock
    TuMaxBegun   \* bound: requests

VARIABLES
    tuNow,
    tuOrigin,    \* [acct, exp]: the entry of the session
    tuHeld,      \* the account whose state the client holds
    tuReq,       \* the session's requests
    tuBegun,
    tuMixed      \* ghost: the client had two requests open at once, or opened a WebSocket

tuVars == <<tuNow, tuOrigin, tuHeld, tuReq, tuBegun, tuMixed>>

TuNobody == "nobody"
TuNoOrigin == [acct |-> TuNobody, exp |-> 0]
TuIdle == [pc |-> "idle", acct |-> TuNobody, echo |-> TuNobody]

TuInit ==
    /\ tuNow = 0 /\ tuOrigin = TuNoOrigin /\ tuHeld = TuNobody
    /\ tuReq = [q \in TuReqs |-> TuIdle]
    /\ tuBegun = 0 /\ tuMixed = FALSE

\* belongs_to_account without the comparison of the account
TuOwnedByAny(a) == tuOrigin.exp > tuNow
\* belongs_to_account: an entry of this account that has not expired
TuOwned(a) == tuOrigin.exp > tuNow /\ tuOrigin.acct = a

\* guard_account_request: the header goes out only to the account that gave it
TuGuard(a) == IF tuHeld # TuNobody /\ TuOwned(a) THEN tuHeld ELSE TuNobody

\* The client sends a request with the state it holds; the scheduler chose account a.
TuSend(q, a) ==
    /\ tuReq[q].pc = "idle" /\ tuBegun < TuMaxBegun
    /\ tuReq' = [tuReq EXCEPT ![q] = [pc |-> "sent", acct |-> a, echo |-> TuGuard(a)]]
    \* an expired entry is dropped when it is looked at
    /\ tuOrigin' = IF tuHeld # TuNobody /\ tuOrigin.exp <= tuNow THEN TuNoOrigin ELSE tuOrigin
    /\ tuBegun' = tuBegun + 1
    /\ tuMixed' = (tuMixed \/ \E o \in TuReqs : tuReq[o].pc # "idle")
    /\ UNCHANGED <<tuNow, tuHeld>>

TuNote(a) == tuOrigin' = [acct |-> a, exp |-> tuNow + TuTtl]

\* relay_account_response_header: the state is passed on and its origin noted; an answer without the
\* header changes nothing
TuAnswer(q) ==
    LET r == tuReq[q] IN
    /\ r.pc = "sent"
    /\ \/ TuNote(r.acct) /\ tuReq' = [tuReq EXCEPT ![q] = [r EXCEPT !.pc = "answered"]]
       \/ UNCHANGED tuOrigin /\ tuReq' = [tuReq EXCEPT ![q] = TuIdle]
    /\ UNCHANGED <<tuNow, tuHeld, tuBegun, tuMixed>>

\* note_account_response_header: the handshake of a WebSocket gives a state only the relay sees
TuHandshake(q) ==
    LET r == tuReq[q] IN
    /\ r.pc = "sent"
    /\ TuNote(r.acct)
    /\ tuReq' = [tuReq EXCEPT ![q] = TuIdle]
    /\ tuMixed' = TRUE
    /\ UNCHANGED <<tuNow, tuHeld, tuBegun>>

\* The answer reaches the client, which keeps the newest state it received.
TuDeliver(q) ==
    /\ tuReq[q].pc = "answered"
    /\ tuHeld' = tuReq[q].acct
    /\ tuReq' = [tuReq EXCEPT ![q] = TuIdle]
    /\ UNCHANGED <<tuNow, tuOrigin, tuBegun, tuMixed>>

TuTick == tuNow < TuMaxNow /\ tuNow' = tuNow + 1 /\ UNCHANGED <<tuOrigin, tuHeld, tuReq, tuBegun, tuMixed>>

TuNext ==
    \/ \E q \in TuReqs : \E a \in TuAccounts : TuSend(q, a)
    \/ \E q \in TuReqs : TuAnswer(q) \/ TuHandshake(q) \/ TuDeliver(q)
    \/ TuTick

TuTypeOK ==
    /\ tuOrigin \in [acct : TuAccounts \cup {TuNobody}, exp : 0..(TuMaxNow + TuTtl)]
    /\ tuHeld \in TuAccounts \cup {TuNobody}
    /\ tuReq \in [TuReqs -> [pc : {"idle", "sent", "answered"}, acct : TuAccounts \cup {TuNobody},
                             echo : TuAccounts \cup {TuNobody}]]

\* The state of one account is never echoed to another account: guard_account_request lets the header
\* through only to the account the session's state came from.
EchoStaysHome ==
    \A q \in TuReqs : tuReq[q].echo \in {TuNobody, tuReq[q].acct}

\* The same for a client whose requests do not overlap and that opens no WebSocket.
SerialEchoStaysHome == tuMixed \/ EchoStaysHome
=============================================================================
