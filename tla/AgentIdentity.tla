---------------------------- MODULE AgentIdentity ----------------------------
(***************************************************************************)
(* Agent identities: an account that signs its requests needs a task id,   *)
(* which the provider issues and may stop to accept.  Requests of the      *)
(* gateway use the task their executor has cached and renew it under a     *)
(* lock; jobs beside the gateway (quota refresh, reset credits, wake       *)
(* requests, model discovery) use the one in the vault and take no lock.   *)
(* Whoever renews the task stores it by reading the credential, comparing  *)
(* and writing it back; the token authority writes refreshed tokens to the *)
(* same credential in the same way, so that writers may overlap.           *)
(* (runtime/authorization.rs; on the desktop accounts/quota_refresh.rs and *)
(* accounts/authority.rs, on the server app/account_runtime.rs and         *)
(* token_refresh.rs.)                                                      *)
(*                                                                         *)
(* Tasks are numbered in the order of issue and 0 stands for none.         *)
(***************************************************************************)
EXTENDS Integers, Sequences, TLAPS

CONSTANTS AgRequests,     \* requests of the gateway
          AgJobs,         \* quota refreshes, reset credits and wake requests
          AgDiscoveries,  \* refreshes of the models alone, on the desktop
          AgMaxTasks,     \* bound on tasks issued
          AgMaxRuntimes,  \* bound on runtimes built
          AgMaxTokens,    \* bound on token pairs stored
          AgMaxFaults     \* bound on failed calls and writes

ASSUME AgAssumption ==
    /\ {AgMaxTasks, AgMaxRuntimes, AgMaxTokens} \subseteq Nat \ {0} /\ AgMaxFaults \in Nat
    /\ AgDiscoveries \cap (AgRequests \cup AgJobs) = {} /\ AgRequests \cap AgJobs = {}
    /\ "nobody" \notin AgRequests

VARIABLES agSide,      \* the desktop or the server
          agStored,    \* the credential in the vault: its task and its token pair
          agRuntimes,  \* per runtime, the account's executor: cached task, lock, active
          agAccepted,  \* the tasks that the provider has not refused
          agNext,      \* the next task
          agCaller,    \* where each request and each job is
          agWriter,    \* what the token authority has read to write tokens back
          agFaults,
          agOverlap,   \* ghost: a write was based on a credential replaced since
          agRenewed    \* ghost: <<runtime, task>> that the runtime has renewed

agCalls == <<agStored, agRuntimes, agAccepted, agNext, agCaller>>
agVars == <<agSide, agCalls, agWriter, agFaults, agOverlap, agRenewed>>

AgCallers == AgRequests \cup AgJobs \cup AgDiscoveries
AgNobody == "nobody"

AgIdle == [pc |-> "idle", runtime |-> 1, task |-> 0, seen |-> 0, expected |-> 0, new |-> 0,
           base |-> {}, refused |-> 0]

AgExecutor(task) == [task |-> task, lock |-> AgNobody, active |-> TRUE]

AgInit ==
    /\ agSide \in {"desktop", "server"}
    /\ agStored \in [task : {0, 1}, pair : {1}]
    /\ agRuntimes = <<AgExecutor(agStored.task)>>
    /\ agAccepted = {1} /\ agNext = 2
    /\ agCaller = [c \in AgCallers |-> AgIdle]
    /\ agWriter = {} /\ agFaults = 0 /\ agOverlap = FALSE /\ agRenewed = {}

-----------------------------------------------------------------------------
AgAt(c, pc) == agCaller[c].pc = pc
AgRuntime(c) == agRuntimes[agCaller[c].runtime]
AgMoves(c, r) == agCaller' = [agCaller EXCEPT ![c] = r]
AgGoes(c, pc) == agCaller' = [agCaller EXCEPT ![c].pc = pc]
AgEnds(c) == AgMoves(c, [AgIdle EXCEPT !.pc = "done"])
AgFault == agFaults < AgMaxFaults /\ agFaults' = agFaults + 1

AgUnlocked(c) ==
    agRuntimes' = IF c \in AgRequests
                  THEN [agRuntimes EXCEPT ![agCaller[c].runtime].lock = AgNobody] ELSE agRuntimes

\* There is no task, or it is the one that was refused.
NeedsTask(task, expected) == task \in {0, expected}

\* The task is there.  A renewal prepares the authorization from the start, except
\* on the server, whose jobs go on with the credential they have.
AgProceeds(c, task) ==
    IF agCaller[c].expected # 0 /\ (c \in AgRequests \/ agSide = "desktop")
    THEN [agCaller[c] EXCEPT !.pc = "ensure", !.expected = 0,
                             !.task = IF c \in AgRequests THEN 0 ELSE agStored.task]
    ELSE [agCaller[c] EXCEPT !.pc = "send", !.task = task]

-----------------------------------------------------------------------------
(* Preparing the authorization.                                            *)

\* prepare_authorization: a request is served by the current runtime.
AgPrepare(c) ==
    /\ c \in AgRequests /\ AgAt(c, "idle")
    /\ AgMoves(c, [AgIdle EXCEPT !.pc = "ensure", !.runtime = Len(agRuntimes)])
    /\ UNCHANGED <<agSide, agStored, agRuntimes, agAccepted, agNext, agWriter, agFaults,
                   agOverlap, agRenewed>>

\* A job reads the credential first.
AgPrepareJob(c) ==
    /\ c \in AgJobs \cup AgDiscoveries /\ AgAt(c, "idle") /\ (c \in AgDiscoveries => agSide = "desktop")
    /\ AgMoves(c, [AgIdle EXCEPT !.pc = "ensure", !.task = agStored.task])
    /\ UNCHANGED <<agSide, agStored, agRuntimes, agAccepted, agNext, agWriter, agFaults,
                   agOverlap, agRenewed>>

\* ensure_agent_identity_task, before the lock.
EnsureTask(c) ==
    /\ c \in AgRequests /\ AgAt(c, "ensure")
    /\ IF ~AgRuntime(c).active THEN AgEnds(c)
       ELSE IF NeedsTask(AgRuntime(c).task, agCaller[c].expected) THEN AgGoes(c, "lock")
       ELSE AgMoves(c, AgProceeds(c, AgRuntime(c).task))
    /\ UNCHANGED <<agSide, agStored, agRuntimes, agAccepted, agNext, agWriter, agFaults,
                   agOverlap, agRenewed>>

\* ensure_local_agent_identity_task, ensure_server_agent_identity_task: no lock.
EnsureJobTask(c) ==
    /\ c \notin AgRequests /\ AgAt(c, "ensure")
    /\ LET held == agCaller[c].task
       IN  IF NeedsTask(held, agCaller[c].expected)
           THEN AgMoves(c, [agCaller[c] EXCEPT !.pc = "register", !.seen = held])
           ELSE AgMoves(c, AgProceeds(c, held))
    /\ UNCHANGED <<agSide, agStored, agRuntimes, agAccepted, agNext, agWriter, agFaults,
                   agOverlap, agRenewed>>

LockTaskUnchecked(c) ==
    /\ c \in AgRequests /\ AgAt(c, "lock") /\ AgRuntime(c).lock = AgNobody
    /\ agRuntimes' = [agRuntimes EXCEPT ![agCaller[c].runtime].lock = c]
    /\ AgMoves(c, [agCaller[c] EXCEPT !.pc = "register", !.seen = AgRuntime(c).task])
    /\ UNCHANGED <<agSide, agStored, agAccepted, agNext, agWriter, agFaults, agOverlap, agRenewed>>

\* Under the lock the cached task is looked at again: another request may have
\* renewed it, or the account may have left.
LockTask(c) ==
    /\ c \in AgRequests /\ AgAt(c, "lock") /\ AgRuntime(c).lock = AgNobody
    /\ IF ~AgRuntime(c).active THEN agRuntimes' = agRuntimes /\ AgEnds(c)
       ELSE IF NeedsTask(AgRuntime(c).task, agCaller[c].expected)
       THEN /\ agRuntimes' = [agRuntimes EXCEPT ![agCaller[c].runtime].lock = c]
            /\ AgMoves(c, [agCaller[c] EXCEPT !.pc = "register", !.seen = AgRuntime(c).task])
       ELSE agRuntimes' = agRuntimes /\ AgMoves(c, AgProceeds(c, AgRuntime(c).task))
    /\ UNCHANGED <<agSide, agStored, agAccepted, agNext, agWriter, agFaults, agOverlap, agRenewed>>

-----------------------------------------------------------------------------
(* Renewing the task.                                                      *)

\* register_task: the provider issues a task.
RegisterTask(c) ==
    /\ AgAt(c, "register") /\ agNext <= AgMaxTasks
    /\ agAccepted' = agAccepted \cup {agNext} /\ agNext' = agNext + 1
    /\ AgMoves(c, [agCaller[c] EXCEPT !.pc = "load", !.new = agNext])
    /\ UNCHANGED <<agSide, agStored, agRuntimes, agWriter, agFaults, agOverlap, agRenewed>>

\* The registration or the write fails: the caller gives up, or goes on with the
\* account's access token.
RenewFails(c) ==
    /\ agCaller[c].pc \in {"register", "load", "save"} /\ AgFault
    /\ AgUnlocked(c) /\ AgEnds(c)
    /\ UNCHANGED <<agSide, agStored, agAccepted, agNext, agWriter, agOverlap, agRenewed>>

\* persist_agent_task_id reads the credential: a task that somebody else has stored
\* in the meantime is used instead.
LoadForTask(c) ==
    /\ AgAt(c, "load")
    /\ AgMoves(c, IF agStored.task \in {0, agCaller[c].seen}
                THEN [agCaller[c] EXCEPT !.pc = "save", !.base = {agStored}]
                ELSE [agCaller[c] EXCEPT !.pc = "keep", !.new = agStored.task])
    /\ UNCHANGED <<agSide, agStored, agRuntimes, agAccepted, agNext, agWriter, agFaults,
                   agOverlap, agRenewed>>

\* The credential that was read is written back with the new task.
SaveTask(c) ==
    /\ AgAt(c, "save")
    /\ \E base \in agCaller[c].base :
           /\ agStored' = [base EXCEPT !.task = agCaller[c].new]
           /\ agOverlap' = (agOverlap \/ base # agStored)
    /\ AgMoves(c, [agCaller[c] EXCEPT !.pc = "keep", !.base = {}])
    /\ UNCHANGED <<agSide, agRuntimes, agAccepted, agNext, agWriter, agFaults, agRenewed>>

\* The executor caches the task, unless it was retired, and lets go of the lock.
KeepTask(c) ==
    /\ c \in AgRequests /\ AgAt(c, "keep")
    /\ LET n == agCaller[c].runtime
       IN  IF AgRuntime(c).active
           THEN /\ agRuntimes' = [agRuntimes EXCEPT ![n].task = agCaller[c].new, ![n].lock = AgNobody]
                /\ agRenewed' = agRenewed \cup {<<n, agCaller[c].expected>>}
                /\ AgMoves(c, AgProceeds(c, agCaller[c].new))
           ELSE AgUnlocked(c) /\ AgEnds(c) /\ agRenewed' = agRenewed
    /\ UNCHANGED <<agSide, agStored, agAccepted, agNext, agWriter, agFaults, agOverlap>>

\* A job reads the credential again; on the server the runtime is rebuilt from it.
KeepJobTask(c) ==
    /\ c \notin AgRequests /\ AgAt(c, "keep")
    /\ AgMoves(c, AgProceeds(c, agStored.task))
    /\ IF agSide = "server"
       THEN /\ Len(agRuntimes) < AgMaxRuntimes
            /\ agRuntimes' = Append(agRuntimes, AgExecutor(agStored.task))
       ELSE agRuntimes' = agRuntimes
    /\ UNCHANGED <<agSide, agStored, agAccepted, agNext, agWriter, agFaults, agOverlap, agRenewed>>

-----------------------------------------------------------------------------
(* The request itself.                                                     *)

\* The provider answers; a second refusal is the answer.
AgAnswered(c) ==
    /\ AgAt(c, "send") /\ (agCaller[c].task \in agAccepted \/ agCaller[c].refused # 0)
    /\ AgEnds(c)
    /\ UNCHANGED <<agSide, agStored, agRuntimes, agAccepted, agNext, agWriter, agFaults,
                   agOverlap, agRenewed>>

\* The provider does not accept the task any more: it is renewed, once.  A job on the
\* desktop reads the credential again; model discovery does not say which task was
\* refused.
AgRefused(c) ==
    /\ AgAt(c, "send") /\ agCaller[c].refused = 0
    /\ agAccepted' = agAccepted \ {agCaller[c].task}
    /\ LET task == agCaller[c].task
       IN  AgMoves(c, [agCaller[c] EXCEPT
                         !.pc = "ensure", !.refused = task,
                         !.expected = IF c \in AgDiscoveries THEN 0 ELSE task,
                         !.task = IF c \in AgRequests THEN 0
                                  ELSE IF agSide = "desktop" THEN agStored.task ELSE task])
    /\ UNCHANGED <<agSide, agStored, agRuntimes, agNext, agWriter, agFaults,
                   agOverlap, agRenewed>>

-----------------------------------------------------------------------------
(* The environment.                                                        *)

\* persist: the token authority reads the credential and writes it back with new tokens.
LoadForTokens ==
    /\ agWriter = {} /\ agStored.pair < AgMaxTokens
    /\ agWriter' = {agStored}
    /\ UNCHANGED <<agSide, agCalls, agFaults, agOverlap, agRenewed>>

AgSaveTokens ==
    \E base \in agWriter :
        /\ agStored' = [base EXCEPT !.pair = @ + 1]
        /\ agOverlap' = (agOverlap \/ base # agStored)
        /\ agWriter' = {}
        /\ UNCHANGED <<agSide, agRuntimes, agAccepted, agNext, agCaller, agFaults, agRenewed>>

\* The gateway is rebuilt from the stores, or the account leaves it.
AgRebuild ==
    /\ Len(agRuntimes) < AgMaxRuntimes
    /\ agRuntimes' = Append(agRuntimes, AgExecutor(agStored.task))
    /\ UNCHANGED <<agSide, agStored, agAccepted, agNext, agCaller, agWriter, agFaults,
                   agOverlap, agRenewed>>

AgRetire ==
    \E n \in DOMAIN agRuntimes :
        /\ agRuntimes[n].active /\ AgFault
        /\ agRuntimes' = [agRuntimes EXCEPT ![n].active = FALSE]
        /\ UNCHANGED <<agSide, agStored, agAccepted, agNext, agCaller, agWriter, agOverlap, agRenewed>>

AgNextStep ==
    \/ \E c \in AgCallers :
           \/ AgPrepare(c) \/ AgPrepareJob(c) \/ EnsureTask(c) \/ EnsureJobTask(c) \/ LockTask(c)
           \/ RegisterTask(c) \/ RenewFails(c) \/ LoadForTask(c) \/ SaveTask(c)
           \/ KeepTask(c) \/ KeepJobTask(c) \/ AgAnswered(c) \/ AgRefused(c)
    \/ LoadForTokens \/ AgSaveTokens \/ AgRebuild \/ AgRetire

AgSpec == AgInit /\ [][AgNextStep]_agVars
-----------------------------------------------------------------------------
(* Properties.                                                             *)

AgTasks == 0..AgMaxTasks
AgCredentials == [task : AgTasks, pair : 1..AgMaxTokens]
AgExecutors == [task : AgTasks, lock : AgRequests \cup {AgNobody}, active : BOOLEAN]
AgPlaces == {"idle", "ensure", "lock", "register", "load", "save", "keep", "send", "done"}
AgCallerStates ==
    [pc : AgPlaces, runtime : Nat, task : AgTasks, seen : AgTasks, expected : AgTasks, new : AgTasks,
     base : SUBSET AgCredentials, refused : AgTasks]

AgTypeOK ==
    /\ agSide \in {"desktop", "server"}
    /\ agStored \in AgCredentials /\ agWriter \subseteq AgCredentials
    /\ \A base \in agWriter : base.pair < AgMaxTokens
    /\ agRuntimes \in Seq(AgExecutors) /\ Len(agRuntimes) \in 1..AgMaxRuntimes
    /\ agAccepted \subseteq AgTasks /\ agNext \in 2..(AgMaxTasks + 1)
    /\ agCaller \in [AgCallers -> AgCallerStates]
    /\ \A c \in AgCallers : agCaller[c].runtime \in 1..Len(agRuntimes)
    /\ agFaults \in 0..AgMaxFaults /\ agOverlap \in BOOLEAN

\* A request that is repeated after the provider refused its task presents another
\* task, however requests and jobs renew it at the same time, unless two writes of the
\* credential overlapped; model discovery alone repeats the task it has
\* (send_authorized_request, refresh_account_quota, refresh_data).
RetryIsRenewed ==
    agOverlap \/ \A c \in AgRequests \cup AgJobs :
        (AgAt(c, "send") /\ agCaller[c].refused # 0) => agCaller[c].task # agCaller[c].refused

\* Requests of a runtime that were refused with the same task, or have none, renew it
\* once: whoever comes second finds the new one under the lock, or before it
\* (ensure_agent_identity_task).
OneRenewal ==
    agOverlap \/ \A c \in AgRequests :
        AgAt(c, "register") => <<agCaller[c].runtime, agCaller[c].expected>> \notin agRenewed

-----------------------------------------------------------------------------
(* Proof.  Tasks are issued in increasing order.  As long as no two writes *)
(* overlap, the task in the vault only grows, no executor and no caller is *)
(* ahead of it, and so whatever replaces a refused task is younger.        *)

\* The steps between taking the lock and letting go of it.
AgRenewing == {"register", "load", "save", "keep"}

\* What a caller holds is not ahead of its runtime or of the vault.
AgBehind(c) ==
    LET s == agCaller[c]
        known == IF c \in AgRequests THEN agRuntimes[s.runtime].task ELSE agStored.task
    IN  /\ s.task <= known /\ s.refused <= known
        /\ s.expected \in {0, s.refused}

\* A renewal replaces what was refused by something younger.
AgRenews(c) ==
    LET s == agCaller[c]
    IN  /\ s.pc \in AgRenewing => s.seen <= agStored.task
        /\ (c \notin AgDiscoveries /\ s.pc \in AgRenewing) => s.refused <= s.seen
        /\ s.pc = "load" => s.seen < s.new /\ s.new < agNext
        /\ s.pc = "save" => /\ s.seen < s.new /\ s.new < agNext
                            /\ \A base \in s.base : base.task \in {0, s.seen}
        /\ s.pc = "keep" => s.seen < s.new /\ s.new <= agStored.task

\* The lock is held from the second look at the cached task on, which is the task that
\* was refused.
AgLocks(c) ==
    LET s == agCaller[c]
    IN  s.pc \in AgRenewing => /\ agRuntimes[s.runtime].lock = c
                               /\ agRuntimes[s.runtime].task = s.seen /\ s.expected = s.seen

\* A caller that was refused and looks for a task will find a younger one.
AgLooks(c) ==
    LET s == agCaller[c]
    IN  /\ (s.refused # 0 /\ s.expected = 0) =>
              /\ (c \in AgRequests /\ s.pc \in {"ensure", "lock"}) => s.refused < agRuntimes[s.runtime].task
              /\ (c \in AgJobs /\ s.pc = "ensure") => s.refused < s.task
        /\ (c \in AgJobs /\ s.pc = "ensure") => s.refused <= s.task
        /\ (s.pc = "send" /\ s.refused # 0) => s.refused < s.task

\* Everything that AgOrder says of one caller.
AgCallerInOrder(c) ==
    /\ AgBehind(c) /\ AgRenews(c) /\ (c \in AgRequests => AgLocks(c))
    /\ (c \notin AgDiscoveries => AgLooks(c))

AgOrder ==
    /\ agStored.task < agNext
    /\ \A n \in 1..Len(agRuntimes) : agRuntimes[n].task <= agStored.task
    /\ \A c \in AgCallers : AgCallerInOrder(c)
    /\ \A p \in agRenewed :
           p[1] \in 1..Len(agRuntimes) /\ p[2] \in Nat /\ p[2] < agRuntimes[p[1]].task

AgInv == AgTypeOK /\ (agOverlap \/ AgOrder)

\* What a handler makes of a caller's record is a caller's record.
LEMMA AgRecords ==
    ASSUME NEW r \in AgCallerStates, NEW pc \in AgPlaces,
           NEW t \in AgTasks, NEW u \in AgTasks, NEW w \in AgTasks
    PROVE  /\ [r EXCEPT !.pc = pc] \in AgCallerStates
           /\ [r EXCEPT !.pc = pc, !.task = t] \in AgCallerStates
           /\ [r EXCEPT !.pc = pc, !.seen = t] \in AgCallerStates
           /\ [r EXCEPT !.pc = pc, !.new = t] \in AgCallerStates
           /\ [r EXCEPT !.pc = pc, !.expected = u, !.task = t] \in AgCallerStates
           /\ [r EXCEPT !.pc = pc, !.refused = w, !.expected = u, !.task = t] \in AgCallerStates
           /\ \A base \in SUBSET AgCredentials :
                  [r EXCEPT !.pc = pc, !.base = base] \in AgCallerStates
           /\ \A n \in Nat : [r EXCEPT !.pc = pc, !.runtime = n] \in AgCallerStates
<1> USE DEF AgCallerStates
<1>1. [r EXCEPT !.pc = pc] \in AgCallerStates
  OBVIOUS
<1>2. [r EXCEPT !.pc = pc, !.task = t] \in AgCallerStates
  OBVIOUS
<1>3. [r EXCEPT !.pc = pc, !.seen = t] \in AgCallerStates
  OBVIOUS
<1>4. [r EXCEPT !.pc = pc, !.new = t] \in AgCallerStates
  OBVIOUS
<1>5. [r EXCEPT !.pc = pc, !.expected = u, !.task = t] \in AgCallerStates
  OBVIOUS
<1>6. [r EXCEPT !.pc = pc, !.refused = w, !.expected = u, !.task = t] \in AgCallerStates
  OBVIOUS
<1>7. ASSUME NEW base \in SUBSET AgCredentials PROVE [r EXCEPT !.pc = pc, !.base = base] \in AgCallerStates
  OBVIOUS
<1>8. ASSUME NEW n \in Nat PROVE [r EXCEPT !.pc = pc, !.runtime = n] \in AgCallerStates
  OBVIOUS
<1> HIDE DEF AgCallerStates
<1> QED
  BY <1>1, <1>2, <1>3, <1>4, <1>5, <1>6, <1>7, <1>8

\* The fields of a caller's record have their types.
LEMMA AgFields ==
    ASSUME NEW r \in AgCallerStates
    PROVE  /\ r.pc \in AgPlaces
           /\ r.runtime \in Nat /\ r.base \in SUBSET AgCredentials
           /\ {r.task, r.seen, r.expected, r.new, r.refused} \subseteq AgTasks
BY DEF AgCallerStates

\* Types hold at the start and after every step (all of the module's handlers).
LEMMA AgTypeInduction == (AgInit => AgTypeOK) /\ (AgTypeOK /\ [AgNextStep]_agVars => AgTypeOK')
<1>0. /\ 0 \in AgTasks /\ 1 \in AgTasks /\ AgIdle \in AgCallerStates /\ AgIdle.runtime = 1
      /\ [AgIdle EXCEPT !.pc = "done"] \in AgCallerStates /\ [AgIdle EXCEPT !.pc = "done"].runtime = 1
  <2>1. 0 \in AgTasks /\ 1 \in AgTasks
    BY AgAssumption DEF AgTasks
  <2>2. AgIdle \in AgCallerStates
    BY <2>1 DEF AgIdle, AgCallerStates, AgPlaces
  <2> QED
    BY <2>1, <2>2, AgRecords DEF AgIdle, AgPlaces
<1>1. ASSUME NEW t \in AgTasks PROVE AgExecutor(t) \in AgExecutors
  BY DEF AgExecutor, AgExecutors
<1>2. AgInit => AgTypeOK
  <2> SUFFICES ASSUME AgInit PROVE AgTypeOK
    OBVIOUS
  <2>1. agStored \in AgCredentials /\ agStored.task \in AgTasks
    BY <1>0, AgAssumption DEF AgInit, AgCredentials
  <2>2. agRuntimes \in Seq(AgExecutors) /\ Len(agRuntimes) = 1
    BY <1>1, <2>1 DEF AgInit
  <2>3. agCaller \in [AgCallers -> AgCallerStates] /\ \A c \in AgCallers : agCaller[c].runtime = 1
    BY <1>0 DEF AgInit
  <2>4. agAccepted \subseteq AgTasks /\ agNext \in 2..(AgMaxTasks + 1) /\ 1 <= AgMaxRuntimes
    BY <1>0, AgAssumption DEF AgInit
  <2>5. agSide \in {"desktop", "server"} /\ agWriter = {} /\ agOverlap \in BOOLEAN
    BY DEF AgInit
  <2>6. agFaults \in 0..AgMaxFaults
    BY AgAssumption DEF AgInit
  <2> QED
    BY <2>1, <2>2, <2>3, <2>4, <2>5, <2>6, AgAssumption DEF AgTypeOK
<1>3. ASSUME AgTypeOK, [AgNextStep]_agVars PROVE AgTypeOK'
  <2> DEFINE Moved(c) == \E r \in AgCallerStates : AgMoves(c, r) /\ r.runtime \in 1..Len(agRuntimes)
             Same == agSide' = agSide /\ agWriter' = agWriter
             Quiet == /\ agStored' = agStored /\ agNext' = agNext /\ agFaults' = agFaults
                      /\ agOverlap' = agOverlap
             Runs == agRuntimes' \in Seq(AgExecutors) /\ Len(agRuntimes') \in Len(agRuntimes)..AgMaxRuntimes
  <2>0. ASSUME NEW c \in AgCallers, Moved(c), Same, Runs, agStored' \in AgCredentials,
               agAccepted' \subseteq AgTasks, agNext' \in 2..(AgMaxTasks + 1),
               agFaults' \in 0..AgMaxFaults, agOverlap' \in BOOLEAN
        PROVE  AgTypeOK'
    <3>1. /\ Len(agRuntimes) \in 1..AgMaxRuntimes /\ agCaller \in [AgCallers -> AgCallerStates]
          /\ \A d \in AgCallers : agCaller[d].runtime \in 1..Len(agRuntimes)
      BY <1>3 DEF AgTypeOK
    <3>2. /\ agCaller' \in [AgCallers -> AgCallerStates]
          /\ \A d \in AgCallers : agCaller'[d].runtime \in 1..Len(agRuntimes)
      BY <2>0, <3>1 DEF AgMoves
    <3>3. Len(agRuntimes') \in 1..AgMaxRuntimes
      BY <2>0, <3>1
    <3>4. \A d \in AgCallers : agCaller'[d].runtime \in 1..Len(agRuntimes')
      BY <3>1, <3>2, <3>3, <2>0
    <3> QED
      BY <2>0, <3>2, <3>3, <3>4, <1>3 DEF AgTypeOK
  <2>1. ASSUME NEW c \in AgCallers, Moved(c), Same, Quiet, Runs, agAccepted' \subseteq AgTasks
        PROVE  AgTypeOK'
    BY <2>0, <2>1, <1>3 DEF AgTypeOK
  <2>2. /\ agStored.task \in AgTasks /\ agStored.pair \in 1..AgMaxTokens
        /\ agRuntimes \in Seq(AgExecutors) /\ Len(agRuntimes) \in 1..AgMaxRuntimes
        /\ AgMaxRuntimes \in Nat /\ agAccepted \subseteq AgTasks
        /\ Len(agRuntimes) \in Nat
        /\ 1 \in 1..Len(agRuntimes) /\ Len(agRuntimes) \in 1..Len(agRuntimes)
    <3>1. /\ agStored.task \in AgTasks /\ agStored.pair \in 1..AgMaxTokens
          /\ agRuntimes \in Seq(AgExecutors) /\ Len(agRuntimes) \in 1..AgMaxRuntimes
          /\ agAccepted \subseteq AgTasks
      BY <1>3 DEF AgTypeOK, AgCredentials
    <3> QED
      BY <3>1, AgAssumption
  <2>3. /\ (agRuntimes' = agRuntimes) => Runs
        /\ \A n \in 1..Len(agRuntimes), e \in AgExecutors :
              agRuntimes' = [agRuntimes EXCEPT ![n] = e] => Runs
        /\ \A n \in 1..Len(agRuntimes) : agRuntimes[n] \in AgExecutors /\ agRuntimes[n].task \in AgTasks
    <3>1. \A n \in 1..Len(agRuntimes) : agRuntimes[n] \in AgExecutors
      BY <2>2
    <3>2. (agRuntimes' = agRuntimes) => Runs
      BY <2>2
    <3>3. ASSUME NEW n \in 1..Len(agRuntimes), NEW e \in AgExecutors,
                 agRuntimes' = [agRuntimes EXCEPT ![n] = e]
          PROVE  Runs
      <4>1. agRuntimes' \in Seq(AgExecutors) /\ Len(agRuntimes') = Len(agRuntimes)
        BY <2>2, <3>3
      <4> QED
        BY <2>2, <4>1
    <3>4. ASSUME NEW e \in AgExecutors PROVE e.task \in AgTasks
      BY DEF AgExecutors
    <3> QED
      BY <3>1, <3>2, <3>3, <3>4
  <2>4. ASSUME NEW c \in AgCallers
        PROVE  /\ agCaller[c] \in AgCallerStates /\ agCaller[c].runtime \in 1..Len(agRuntimes)
               /\ {agCaller[c].task, agCaller[c].seen, agCaller[c].new, agCaller[c].expected} \subseteq AgTasks
               /\ agCaller[c].base \in SUBSET AgCredentials
    <3>1. agCaller[c] \in AgCallerStates /\ agCaller[c].runtime \in 1..Len(agRuntimes)
      BY <1>3 DEF AgTypeOK
    <3> QED
      BY <3>1, AgFields
  <2>5. ASSUME NEW c \in AgCallers PROVE AgEnds(c) => Moved(c)
    BY <1>0, <2>2 DEF AgEnds
  <2>6. ASSUME NEW c \in AgCallers, NEW pc \in AgPlaces PROVE AgGoes(c, pc) => Moved(c)
    <3>1. [agCaller[c] EXCEPT !.pc = pc] \in AgCallerStates
      BY <2>4, <1>0, AgRecords
    <3>2. [agCaller[c] EXCEPT !.pc = pc].runtime \in 1..Len(agRuntimes)
      BY <2>4, AgFields DEF AgCallerStates
    <3>3. AgGoes(c, pc) => AgMoves(c, [agCaller[c] EXCEPT !.pc = pc])
      BY <1>3 DEF AgGoes, AgMoves, AgTypeOK
    <3> QED
      BY <3>1, <3>2, <3>3
  <2>7. ASSUME NEW c \in AgCallers, NEW t \in AgTasks PROVE AgMoves(c, AgProceeds(c, t)) => Moved(c)
    <3>1. /\ \A u \in AgTasks : [agCaller[c] EXCEPT !.pc = "ensure", !.expected = 0, !.task = u] \in AgCallerStates
          /\ [agCaller[c] EXCEPT !.pc = "send", !.task = t] \in AgCallerStates
      BY <2>4, <1>0, AgRecords DEF AgPlaces
    <3>2. AgProceeds(c, t) \in AgCallerStates
      BY <3>1, <1>0, <2>2 DEF AgProceeds
    <3>3. AgProceeds(c, t).runtime = agCaller[c].runtime
      BY <2>4 DEF AgProceeds, AgCallerStates
    <3> QED
      BY <3>2, <3>3, <2>4
  <2>8. ASSUME NEW c \in AgCallers, NEW t \in AgTasks
        PROVE  /\ \A pc \in AgPlaces :
                     /\ AgMoves(c, [agCaller[c] EXCEPT !.pc = pc, !.seen = t]) => Moved(c)
                     /\ AgMoves(c, [agCaller[c] EXCEPT !.pc = pc, !.new = t]) => Moved(c)
                     /\ \A base \in SUBSET AgCredentials :
                            AgMoves(c, [agCaller[c] EXCEPT !.pc = pc, !.base = base]) => Moved(c)
    <3> SUFFICES ASSUME NEW pc \in AgPlaces, NEW base \in SUBSET AgCredentials
                 PROVE  /\ AgMoves(c, [agCaller[c] EXCEPT !.pc = pc, !.seen = t]) => Moved(c)
                        /\ AgMoves(c, [agCaller[c] EXCEPT !.pc = pc, !.new = t]) => Moved(c)
                        /\ AgMoves(c, [agCaller[c] EXCEPT !.pc = pc, !.base = base]) => Moved(c)
      BY DEF AgPlaces
    <3>1. /\ [agCaller[c] EXCEPT !.pc = pc, !.seen = t] \in AgCallerStates
          /\ [agCaller[c] EXCEPT !.pc = pc, !.new = t] \in AgCallerStates
          /\ [agCaller[c] EXCEPT !.pc = pc, !.base = base] \in AgCallerStates
      BY <2>4, AgRecords
    <3>2. /\ [agCaller[c] EXCEPT !.pc = pc, !.seen = t].runtime = agCaller[c].runtime
          /\ [agCaller[c] EXCEPT !.pc = pc, !.new = t].runtime = agCaller[c].runtime
          /\ [agCaller[c] EXCEPT !.pc = pc, !.base = base].runtime = agCaller[c].runtime
      BY <2>4 DEF AgCallerStates
    <3> QED
      BY <3>1, <3>2, <2>4
  <2>9. CASE UNCHANGED agVars
    BY <1>3, <2>9 DEF AgTypeOK, agVars, agCalls
  <2>10. ASSUME NEW c \in AgCallers, AgPrepare(c) \/ AgPrepareJob(c) PROVE AgTypeOK'
    <3>1. /\ [AgIdle EXCEPT !.pc = "ensure", !.runtime = Len(agRuntimes)] \in AgCallerStates
          /\ [AgIdle EXCEPT !.pc = "ensure", !.task = agStored.task] \in AgCallerStates
      BY <1>0, <2>2, AgRecords DEF AgPlaces
    <3>2. /\ [AgIdle EXCEPT !.pc = "ensure", !.runtime = Len(agRuntimes)].runtime = Len(agRuntimes)
          /\ [AgIdle EXCEPT !.pc = "ensure", !.task = agStored.task].runtime = 1
      BY DEF AgIdle
    <3>3. CASE AgPrepare(c)
      <4>1. Moved(c)
        BY <3>1, <3>2, <3>3, <2>2 DEF AgPrepare
      <4> QED
        BY <3>3, <4>1, <2>1, <2>2, <2>3 DEF AgPrepare
    <3>4. CASE AgPrepareJob(c)
      <4>1. Moved(c)
        BY <3>1, <3>2, <3>4, <2>2 DEF AgPrepareJob
      <4> QED
        BY <3>4, <4>1, <2>1, <2>2, <2>3 DEF AgPrepareJob
    <3> QED
      BY <2>10, <3>3, <3>4
  <2>11. ASSUME NEW c \in AgCallers, EnsureTask(c) PROVE AgTypeOK'
    <3>1. Moved(c)
      BY <2>11, <2>3, <2>4, <2>5, <2>6, <2>7 DEF EnsureTask, AgRuntime, AgPlaces
    <3> QED
      BY <2>11, <3>1, <2>1, <2>2, <2>3 DEF EnsureTask
  <2>12. ASSUME NEW c \in AgCallers, EnsureJobTask(c) PROVE AgTypeOK'
    <3>1. Moved(c)
      BY <2>12, <2>4, <2>7, <2>8 DEF EnsureJobTask, AgPlaces
    <3> QED
      BY <2>12, <3>1, <2>1, <2>2, <2>3 DEF EnsureJobTask
  <2>13. ASSUME NEW c \in AgCallers, LockTask(c) PROVE AgTypeOK'
    <3>1. Moved(c)
      BY <2>13, <2>3, <2>4, <2>5, <2>7, <2>8 DEF LockTask, AgRuntime, AgPlaces
    <3>2. Runs
      <4>1. CASE agRuntimes' = [agRuntimes EXCEPT ![agCaller[c].runtime].lock = c]
        <5>1. [agRuntimes[agCaller[c].runtime] EXCEPT !.lock = c] \in AgExecutors
          BY <2>3, <2>4, <2>13 DEF AgExecutors, LockTask
        <5> QED
          BY <4>1, <5>1, <2>3, <2>4
      <4> QED
        BY <4>1, <2>13, <2>3 DEF LockTask
    <3> QED
      BY <2>13, <3>1, <3>2, <2>1, <2>2 DEF LockTask
  <2>14. ASSUME NEW c \in AgCallers, RegisterTask(c) PROVE AgTypeOK'
    <3>1. agNext \in AgTasks /\ agNext' \in 2..(AgMaxTasks + 1)
      BY <2>14, <1>3, AgAssumption DEF RegisterTask, AgTypeOK, AgTasks
    <3>2. Moved(c)
      BY <2>14, <3>1, <2>8 DEF RegisterTask, AgPlaces
    <3>3. agAccepted' \subseteq AgTasks
      BY <2>14, <3>1, <2>2 DEF RegisterTask
    <3>4. agFaults' \in 0..AgMaxFaults /\ agOverlap' \in BOOLEAN /\ agStored' \in AgCredentials
      BY <2>14, <1>3 DEF RegisterTask, AgTypeOK
    <3> QED
      BY <2>14, <3>1, <3>2, <3>3, <3>4, <2>0, <2>3 DEF RegisterTask
  <2>15. ASSUME NEW c \in AgCallers PROVE AgUnlocked(c) => Runs
    <3>1. [agRuntimes[agCaller[c].runtime] EXCEPT !.lock = AgNobody] \in AgExecutors
      BY <2>3, <2>4 DEF AgExecutors
    <3> QED
      BY <3>1, <2>3, <2>4 DEF AgUnlocked
  <2>16. AgFault => agFaults' \in 0..AgMaxFaults
    BY <1>3, AgAssumption DEF AgFault, AgTypeOK
  <2>17. ASSUME NEW c \in AgCallers, RenewFails(c) PROVE AgTypeOK'
    <3>1. agNext' \in 2..(AgMaxTasks + 1) /\ agOverlap' \in BOOLEAN /\ agStored' \in AgCredentials
      BY <2>17, <1>3 DEF RenewFails, AgTypeOK
    <3>2. agAccepted' \subseteq AgTasks
      BY <2>17, <2>2 DEF RenewFails
    <3> QED
      BY <2>17, <3>1, <3>2, <2>0, <2>5, <2>15, <2>16 DEF RenewFails
  <2>18. ASSUME NEW c \in AgCallers, LoadForTask(c) PROVE AgTypeOK'
    <3>1. {agStored} \in SUBSET AgCredentials
      BY <1>3 DEF AgTypeOK
    <3>2. Moved(c)
      BY <2>18, <3>1, <2>2, <2>8 DEF LoadForTask, AgPlaces
    <3> QED
      BY <2>18, <3>2, <2>1, <2>2, <2>3 DEF LoadForTask
  <2>19. ASSUME NEW c \in AgCallers, SaveTask(c) PROVE AgTypeOK'
    <3>1. PICK base \in agCaller[c].base :
              agStored' = [base EXCEPT !.task = agCaller[c].new] /\ agOverlap' = (agOverlap \/ base # agStored)
      BY <2>19 DEF SaveTask
    <3>2. base \in AgCredentials /\ agCaller[c].new \in AgTasks
      BY <2>4
    <3>3. agStored' \in AgCredentials
      BY <3>1, <3>2 DEF AgCredentials
    <3>4. agOverlap' \in BOOLEAN
      BY <3>1
    <3>5. Moved(c)
      <4>1. {} \in SUBSET AgCredentials /\ "keep" \in AgPlaces
        BY DEF AgPlaces
      <4>2. AgMoves(c, [agCaller[c] EXCEPT !.pc = "keep", !.base = {}])
        BY <2>19 DEF SaveTask
      <4> QED
        BY <4>1, <4>2, <2>8, <1>0
    <3>6. agNext' \in 2..(AgMaxTasks + 1) /\ agFaults' \in 0..AgMaxFaults
      BY <2>19, <1>3 DEF SaveTask, AgTypeOK
    <3> QED
      BY <2>19, <3>3, <3>4, <3>5, <3>6, <2>0, <2>2, <2>3 DEF SaveTask
  <2>20. ASSUME NEW c \in AgCallers, KeepTask(c) PROVE AgTypeOK'
    <3>1. Moved(c)
      BY <2>20, <2>4, <2>5, <2>7 DEF KeepTask
    <3>2. Runs
      <4>1. [agRuntimes[agCaller[c].runtime] EXCEPT !.task = agCaller[c].new, !.lock = AgNobody] \in AgExecutors
        BY <2>3, <2>4 DEF AgExecutors
      <4>2. CASE agRuntimes' = [agRuntimes EXCEPT ![agCaller[c].runtime].task = agCaller[c].new,
                                                  ![agCaller[c].runtime].lock = AgNobody]
        <5>1. agRuntimes' = [agRuntimes EXCEPT ![agCaller[c].runtime] =
                   [agRuntimes[agCaller[c].runtime] EXCEPT !.task = agCaller[c].new, !.lock = AgNobody]]
          BY <4>2, <2>2, <2>3, <2>4 DEF AgExecutors
        <5> QED
          BY <4>1, <5>1, <2>3, <2>4
      <4> QED
        BY <2>20, <4>2, <2>15 DEF KeepTask
    <3> QED
      BY <2>20, <3>1, <3>2, <2>1, <2>2 DEF KeepTask
  <2>21. Len(agRuntimes) < AgMaxRuntimes /\ agRuntimes' = Append(agRuntimes, AgExecutor(agStored.task)) => Runs
    BY <2>2, <1>1
  <2>22. ASSUME NEW c \in AgCallers, KeepJobTask(c) PROVE AgTypeOK'
    <3>1. Moved(c)
      BY <2>22, <2>2, <2>7 DEF KeepJobTask
    <3>2. Runs
      BY <2>22, <2>3, <2>21 DEF KeepJobTask
    <3> QED
      BY <2>22, <3>1, <3>2, <2>1, <2>2 DEF KeepJobTask
  <2>23. ASSUME NEW c \in AgCallers, AgAnswered(c) PROVE AgTypeOK'
    BY <2>23, <2>1, <2>2, <2>3, <2>5 DEF AgAnswered
  <2>24. ASSUME NEW c \in AgCallers, AgRefused(c) PROVE AgTypeOK'
    <3>1. PICK u \in AgTasks, t \in AgTasks, w \in AgTasks :
              AgMoves(c, [agCaller[c] EXCEPT !.pc = "ensure", !.refused = w, !.expected = u, !.task = t])
      BY <2>24, <2>2, <2>4, <1>0 DEF AgRefused
    <3>2. [agCaller[c] EXCEPT !.pc = "ensure", !.refused = w, !.expected = u, !.task = t] \in AgCallerStates
      BY <2>4, AgRecords DEF AgPlaces
    <3>3. [agCaller[c] EXCEPT !.pc = "ensure", !.refused = w, !.expected = u, !.task = t].runtime = agCaller[c].runtime
      BY <2>4 DEF AgCallerStates
    <3>4. Moved(c)
      BY <3>1, <3>2, <3>3, <2>4
    <3>5. agAccepted' \subseteq AgTasks
      BY <2>24, <2>2 DEF AgRefused
    <3> QED
      BY <2>24, <3>4, <3>5, <2>1, <2>3 DEF AgRefused
  <2>25. CASE LoadForTokens
    BY <1>3, <2>25 DEF LoadForTokens, AgTypeOK, agCalls
  <2>26. CASE AgSaveTokens
    <3>1. PICK base \in agWriter :
              agStored' = [base EXCEPT !.pair = @ + 1] /\ agOverlap' = (agOverlap \/ base # agStored)
      BY <2>26 DEF AgSaveTokens
    <3>2. base \in AgCredentials /\ base.pair < AgMaxTokens
      BY <1>3 DEF AgTypeOK
    <3>3. agStored' \in AgCredentials
      BY <3>1, <3>2, AgAssumption DEF AgCredentials
    <3>4. agOverlap' \in BOOLEAN
      BY <3>1
    <3> QED
      BY <2>26, <3>3, <3>4, <1>3 DEF AgSaveTokens, AgTypeOK
  <2>27. ASSUME Runs, UNCHANGED <<agSide, agStored, agAccepted, agNext, agCaller, agWriter, agOverlap>>,
                agFaults' \in 0..AgMaxFaults
         PROVE  AgTypeOK'
    <3>1. Len(agRuntimes') \in 1..AgMaxRuntimes
      BY <2>27, <2>2
    <3>2. \A d \in AgCallers : agCaller'[d].runtime \in 1..Len(agRuntimes')
      BY <3>1, <2>27, <2>4
    <3> QED
      BY <2>27, <3>1, <3>2, <1>3 DEF AgTypeOK
  <2>28. CASE AgRebuild
    <3>1. agFaults' \in 0..AgMaxFaults
      BY <2>28, <1>3 DEF AgRebuild, AgTypeOK
    <3> QED
      BY <2>28, <3>1, <2>21, <2>27 DEF AgRebuild
  <2>29. CASE AgRetire
    <3>0. DOMAIN agRuntimes = 1..Len(agRuntimes)
      BY <2>2
    <3>1. PICK n \in 1..Len(agRuntimes) : agRuntimes' = [agRuntimes EXCEPT ![n].active = FALSE]
      BY <2>29, <3>0 DEF AgRetire
    <3>2. [agRuntimes[n] EXCEPT !.active = FALSE] \in AgExecutors
      BY <2>3 DEF AgExecutors
    <3>3. Runs
      BY <3>1, <3>2, <2>3
    <3> QED
      BY <2>29, <3>3, <2>16, <2>27 DEF AgRetire
  <2> QED
    BY <1>3, <2>9, <2>10, <2>11, <2>12, <2>13, <2>14, <2>17, <2>18, <2>19, <2>20, <2>22, <2>23, <2>24,
       <2>25, <2>26, <2>28, <2>29 DEF AgNextStep
<1> QED
  BY <1>2, <1>3

\* Without overlapping writes, nothing that tasks are compared with gets older.
AgGrows ==
    /\ agStored.task <= agStored'.task /\ agNext <= agNext' /\ Len(agRuntimes) <= Len(agRuntimes')
    /\ \A n \in 1..Len(agRuntimes) : agRuntimes[n].task <= agRuntimes'[n].task

\* A step of somebody else leaves a caller in order, if it does not take the caller's
\* lock away or change the task that the caller has locked.
LEMMA AgFrame ==
    ASSUME AgTypeOK, AgTypeOK', AgGrows, NEW c \in AgCallers, agCaller'[c] = agCaller[c],
           AgCallerInOrder(c),
           (c \in AgRequests /\ agCaller[c].pc \in AgRenewing) =>
               /\ agRuntimes'[agCaller[c].runtime].lock = agRuntimes[agCaller[c].runtime].lock
               /\ agRuntimes'[agCaller[c].runtime].task = agRuntimes[agCaller[c].runtime].task
    PROVE  AgCallerInOrder(c)'
<1> DEFINE s == agCaller[c]
           n == s.runtime
<1>1. /\ {s.task, s.refused, s.seen, s.new} \subseteq Nat /\ n \in 1..Len(agRuntimes)
      /\ agStored.task \in Nat /\ agStored'.task \in Nat /\ agNext \in Nat /\ agNext' \in Nat
      /\ agRuntimes[n].task \in Nat /\ agRuntimes'[n].task \in Nat
  <2>1. s \in AgCallerStates /\ n \in 1..Len(agRuntimes) /\ n \in 1..Len(agRuntimes')
    BY DEF AgTypeOK
  <2>2. agRuntimes[n] \in AgExecutors /\ agRuntimes'[n] \in AgExecutors
    BY <2>1 DEF AgTypeOK
  <2>3. agStored \in AgCredentials /\ agStored' \in AgCredentials /\ agNext \in Nat /\ agNext' \in Nat
    BY AgAssumption DEF AgTypeOK
  <2>4. \A t \in AgTasks : t \in Nat
    BY AgAssumption DEF AgTasks
  <2> QED
    BY <2>1, <2>2, <2>3, <2>4, AgFields DEF AgExecutors, AgCredentials
<1>2. agRuntimes[n].task <= agRuntimes'[n].task
  BY <1>1 DEF AgGrows
<1>3. AgBehind(c)'
  <2>1. s.expected \in {0, s.refused}
    BY DEF AgBehind, AgCallerInOrder
  <2>2. CASE c \in AgRequests
    <3>1. s.task <= agRuntimes'[n].task /\ s.refused <= agRuntimes'[n].task
      BY SMTT(30), <1>1, <1>2, <2>2 DEF AgBehind, AgCallerInOrder
    <3> QED
      BY <2>1, <2>2, <3>1 DEF AgBehind
  <2>3. CASE c \notin AgRequests
    <3>1. s.task <= agStored'.task /\ s.refused <= agStored'.task
      BY SMTT(30), <1>1, <2>3 DEF AgBehind, AgCallerInOrder, AgGrows
    <3> QED
      BY <2>1, <2>3, <3>1 DEF AgBehind
  <2> QED
    BY <2>2, <2>3
<1>4. AgRenews(c)'
  BY SMTT(30), <1>1 DEF AgRenews, AgGrows, AgCallerInOrder
<1>5. c \in AgRequests => AgLocks(c)'
  BY DEF AgLocks, AgCallerInOrder
<1>6. c \notin AgDiscoveries => AgLooks(c)'
  BY SMTT(30), <1>1, <1>2 DEF AgLooks, AgCallerInOrder
<1> QED
  BY <1>3, <1>4, <1>5, <1>6 DEF AgCallerInOrder

\* As long as writes do not overlap, every step keeps tasks in order.
LEMMA AgOrderStep ==
    ASSUME AgTypeOK, AgTypeOK', AgOrder, AgNextStep, ~agOverlap'
    PROVE  AgOrder'
<1>0. /\ \A t \in AgTasks : t \in Nat
      /\ agStored.task \in Nat /\ agStored'.task \in Nat /\ agNext \in Nat /\ agNext' \in Nat
      /\ Len(agRuntimes) \in Nat /\ Len(agRuntimes') \in Nat
      /\ \A n \in 1..Len(agRuntimes) : agRuntimes[n] \in AgExecutors /\ agRuntimes[n].task \in Nat
      /\ \A n \in 1..Len(agRuntimes') : agRuntimes'[n] \in AgExecutors /\ agRuntimes'[n].task \in Nat
  <2>1. \A t \in AgTasks : t \in Nat
    BY AgAssumption DEF AgTasks
  <2>2. agStored \in AgCredentials /\ agStored' \in AgCredentials
    BY DEF AgTypeOK
  <2>3. agNext \in Nat /\ agNext' \in Nat /\ Len(agRuntimes) \in Nat /\ Len(agRuntimes') \in Nat
    BY AgAssumption DEF AgTypeOK
  <2>4. /\ \A n \in 1..Len(agRuntimes) : agRuntimes[n] \in AgExecutors
        /\ \A n \in 1..Len(agRuntimes') : agRuntimes'[n] \in AgExecutors
    BY DEF AgTypeOK
  <2> QED
    BY <2>1, <2>2, <2>3, <2>4 DEF AgExecutors, AgCredentials
<1>1. ASSUME NEW c \in AgCallers
      PROVE  /\ agCaller[c] \in AgCallerStates /\ agCaller[c].runtime \in 1..Len(agRuntimes)
             /\ {agCaller[c].task, agCaller[c].seen, agCaller[c].new, agCaller[c].refused} \subseteq Nat
             /\ AgCallerInOrder(c)
  <2>1. agCaller[c] \in AgCallerStates /\ agCaller[c].runtime \in 1..Len(agRuntimes)
    BY DEF AgTypeOK
  <2> QED
    BY <2>1, <1>0, AgFields DEF AgOrder
<1>2. ASSUME NEW c \in AgCallers, NEW r, AgMoves(c, r), agStored' = agStored, agRuntimes' = agRuntimes,
             agNext <= agNext', agRenewed' = agRenewed, AgCallerInOrder(c)'
      PROVE  AgOrder'
  <2>1. AgGrows
    BY <1>0, <1>2 DEF AgGrows
  <2>2. ASSUME NEW d \in AgCallers, d # c PROVE AgCallerInOrder(d)'
    <3>1. agCaller'[d] = agCaller[d]
      BY <1>2, <2>2 DEF AgMoves, AgTypeOK
    <3> QED
      BY <3>1, <2>1, <1>1, <1>2, AgFrame
  <2>3. agStored'.task < agNext'
    BY <1>0, <1>2 DEF AgOrder
  <2> QED
    BY <1>2, <2>2, <2>3 DEF AgOrder
<1>3. ASSUME NEW c \in AgCallers, AgPrepare(c) \/ AgPrepareJob(c) PROVE AgOrder'
  <2>1. /\ agCaller'[c].pc = "ensure" /\ agCaller'[c].refused = 0 /\ agCaller'[c].expected = 0
        /\ agCaller'[c].task = IF c \in AgRequests THEN 0 ELSE agStored.task
    <3>1. CASE AgPrepare(c)
      <4>1. c \in AgRequests /\ agCaller'[c] = [AgIdle EXCEPT !.pc = "ensure", !.runtime = Len(agRuntimes)]
        BY <3>1 DEF AgPrepare, AgMoves, AgTypeOK
      <4> QED
        BY <4>1 DEF AgIdle
    <3>2. CASE AgPrepareJob(c)
      <4>1. c \notin AgRequests /\ agCaller'[c] = [AgIdle EXCEPT !.pc = "ensure", !.task = agStored.task]
        BY <3>2, AgAssumption DEF AgPrepareJob, AgMoves, AgTypeOK
      <4> QED
        BY <4>1 DEF AgIdle
    <3> QED
      BY <1>3, <3>1, <3>2
  <2>2. agCaller'[c].runtime \in 1..Len(agRuntimes')
    BY DEF AgTypeOK
  <2>3. agStored' = agStored /\ agRuntimes' = agRuntimes /\ agNext' = agNext /\ agRenewed' = agRenewed
    BY <1>3 DEF AgPrepare, AgPrepareJob
  <2>4. AgCallerInOrder(c)'
    BY <2>1, <2>2, <2>3, <1>0 DEF AgCallerInOrder, AgBehind, AgRenews, AgLocks, AgLooks, AgRenewing
  <2> QED
    BY <1>0, <1>2, <1>3, <2>3, <2>4 DEF AgPrepare, AgPrepareJob
<1>4. ASSUME NEW c \in AgCallers, AgEnds(c) PROVE AgCallerInOrder(c)'
  <2>1. /\ agCaller'[c].pc = "done" /\ agCaller'[c].refused = 0 /\ agCaller'[c].expected = 0
        /\ agCaller'[c].task = 0
    BY <1>4 DEF AgEnds, AgMoves, AgIdle, AgTypeOK
  <2>2. agCaller'[c].runtime \in 1..Len(agRuntimes')
    BY DEF AgTypeOK
  <2> QED
    BY <2>1, <2>2, <1>0 DEF AgCallerInOrder, AgBehind, AgRenews, AgLocks, AgLooks, AgRenewing
<1>5. ASSUME NEW c \in AgCallers, NEW t \in Nat, AgMoves(c, AgProceeds(c, t)), agStored' = agStored,
             agCaller[c].runtime \in 1..Len(agRuntimes'),
             c \in AgRequests => t <= agRuntimes'[agCaller[c].runtime].task,
             c \notin AgRequests => t <= agStored.task,
             c \notin AgDiscoveries => agCaller[c].refused = 0 \/ agCaller[c].refused < t
      PROVE  AgCallerInOrder(c)'
  <2>1. /\ agCaller'[c].runtime = agCaller[c].runtime /\ agCaller'[c].refused = agCaller[c].refused
        /\ agCaller'[c].expected \in {0, agCaller[c].refused} /\ agCaller'[c].pc \in {"ensure", "send"}
        /\ \/ agCaller'[c].task = t
           \/ /\ agCaller'[c].pc = "ensure"
              /\ agCaller'[c].task = IF c \in AgRequests THEN 0 ELSE agStored.task
    <3>1. agCaller'[c] = AgProceeds(c, t)
      BY <1>5 DEF AgMoves, AgTypeOK
    <3>2. agCaller[c].expected \in {0, agCaller[c].refused}
      BY <1>1 DEF AgCallerInOrder, AgBehind
    <3> QED
      BY <3>1, <3>2, <1>1 DEF AgProceeds, AgCallerStates
  <2>2. CASE c \in AgRequests
    <3>1. c \notin AgDiscoveries /\ c \notin AgJobs
      BY <2>2, AgAssumption
    <3> QED
      <4>1. agCaller'[c].task <= agRuntimes'[agCaller[c].runtime].task
        BY <2>1, <2>2, <1>0, <1>5
      <4>2. agCaller[c].refused <= agRuntimes'[agCaller[c].runtime].task
        BY <2>2, <3>1, <1>0, <1>1, <1>5
      <4>3. AgBehind(c)'
        BY <4>1, <4>2, <2>1, <2>2 DEF AgBehind
      <4>4. AgRenews(c)' /\ AgLocks(c)'
        BY <2>1 DEF AgRenews, AgLocks, AgRenewing
      <4>5. AgLooks(c)'
        BY <2>1, <3>1, <1>0, <1>1, <1>5 DEF AgLooks
      <4> QED
        BY <4>3, <4>4, <4>5 DEF AgCallerInOrder
  <2>3. CASE c \notin AgRequests
    <3>1. agCaller[c].refused <= agStored.task
      BY <2>3, <1>1 DEF AgCallerInOrder, AgBehind
    <3> QED
      <4>1. agCaller'[c].task <= agStored'.task /\ agCaller'[c].refused <= agStored'.task
        BY <2>1, <2>3, <3>1, <1>0, <1>5
      <4>2. AgBehind(c)'
        BY <4>1, <2>1, <2>3 DEF AgBehind
      <4>3. AgRenews(c)'
        BY <2>1 DEF AgRenews, AgRenewing
      <4>4. c \notin AgDiscoveries => AgLooks(c)'
        BY <2>1, <2>3, <3>1, <1>0, <1>1, <1>5 DEF AgLooks
      <4> QED
        BY <4>2, <4>3, <4>4, <2>3 DEF AgCallerInOrder
  <2> QED
    BY <2>2, <2>3
<1>6. ASSUME NEW c \in AgCallers, c \notin AgDiscoveries, NEW t \in Nat, t # 0, t # agCaller[c].expected,
             agCaller[c].refused <= t,
             (agCaller[c].refused # 0 /\ agCaller[c].expected = 0) => agCaller[c].refused < t
      PROVE  agCaller[c].refused = 0 \/ agCaller[c].refused < t
  BY <1>1, <1>6 DEF AgCallerInOrder, AgBehind
<1>7. ASSUME NEW c \in AgCallers, EnsureTask(c) PROVE AgOrder'
  <2> DEFINE n == agCaller[c].runtime
             t == agRuntimes[n].task
  <2>1. c \in AgRequests /\ c \notin AgDiscoveries /\ agCaller[c].pc = "ensure" /\ t \in Nat
    BY <1>0, <1>1, <1>7, AgAssumption DEF EnsureTask, AgAt
  <2>2. agStored' = agStored /\ agRuntimes' = agRuntimes /\ agNext' = agNext /\ agRenewed' = agRenewed
    BY <1>7 DEF EnsureTask
  <2>3. CASE AgGoes(c, "lock")
    <3>1. AgMoves(c, [agCaller[c] EXCEPT !.pc = "lock"])
      BY <2>3 DEF AgGoes, AgMoves, AgTypeOK
    <3>2. agCaller'[c] = [agCaller[c] EXCEPT !.pc = "lock"]
      BY <3>1 DEF AgMoves, AgTypeOK
    <3>3. /\ agCaller'[c].pc = "lock" /\ agCaller'[c].runtime = n
          /\ agCaller'[c].task = agCaller[c].task /\ agCaller'[c].refused = agCaller[c].refused
          /\ agCaller'[c].expected = agCaller[c].expected
      BY <3>2, <1>1 DEF AgCallerStates
    <3>4. AgCallerInOrder(c)'
      BY <3>3, <2>1, <2>2, <1>1, AgAssumption
         DEF AgCallerInOrder, AgBehind, AgRenews, AgLocks, AgLooks, AgRenewing
    <3> QED
      BY <3>1, <3>4, <2>2, <1>0, <1>2
  <2>4. CASE AgMoves(c, AgProceeds(c, t)) /\ ~NeedsTask(t, agCaller[c].expected)
    <3>1. agCaller[c].refused <= t /\ ((agCaller[c].refused # 0 /\ agCaller[c].expected = 0) => agCaller[c].refused < t)
      BY <2>1, <1>1 DEF AgCallerInOrder, AgBehind, AgLooks
    <3>2. agCaller[c].refused = 0 \/ agCaller[c].refused < t
      BY <3>1, <2>1, <2>4, <1>6 DEF NeedsTask
    <3>3. AgCallerInOrder(c)'
      <4>1. /\ agCaller[c].runtime \in 1..Len(agRuntimes')
            /\ c \in AgRequests => t <= agRuntimes'[agCaller[c].runtime].task
            /\ c \notin AgRequests => t <= agStored.task
        BY <2>1, <2>2, <1>1
      <4> QED
        BY <4>1, <3>2, <2>1, <2>2, <2>4, <1>5
    <3> QED
      <4>1. agNext <= agNext'
        BY <2>2, <1>0
      <4> QED
        BY <4>1, <3>3, <2>2, <2>4, <1>2
  <2>5. CASE AgEnds(c)
    BY <2>2, <2>5, <1>0, <1>2, <1>4 DEF AgEnds
  <2> QED
    BY <1>7, <2>3, <2>4, <2>5 DEF EnsureTask, AgRuntime
<1>8. ASSUME NEW c \in AgCallers, EnsureJobTask(c) PROVE AgOrder'
  <2> DEFINE t == agCaller[c].task
  <2>1. c \notin AgRequests /\ agCaller[c].pc = "ensure" /\ t \in Nat /\ t <= agStored.task
    BY <1>1, <1>8 DEF EnsureJobTask, AgAt, AgCallerInOrder, AgBehind
  <2>2. agStored' = agStored /\ agRuntimes' = agRuntimes /\ agNext' = agNext /\ agRenewed' = agRenewed
    BY <1>8 DEF EnsureJobTask
  <2>3. c \notin AgDiscoveries =>
            /\ agCaller[c].refused <= t
            /\ (agCaller[c].refused # 0 /\ agCaller[c].expected = 0) => agCaller[c].refused < t
    BY <2>1, <1>1 DEF AgCallerInOrder, AgLooks, AgCallers
  <2>4. CASE AgMoves(c, [agCaller[c] EXCEPT !.pc = "register", !.seen = t])
    <3>1. agCaller'[c] = [agCaller[c] EXCEPT !.pc = "register", !.seen = t]
      BY <2>4 DEF AgMoves, AgTypeOK
    <3>2. /\ agCaller'[c].pc = "register" /\ agCaller'[c].seen = t /\ agCaller'[c].task = t
          /\ agCaller'[c].refused = agCaller[c].refused /\ agCaller'[c].expected = agCaller[c].expected
      BY <3>1, <1>1 DEF AgCallerStates
    <3>3. AgCallerInOrder(c)'
      BY <3>2, <2>1, <2>2, <2>3, <1>1
         DEF AgCallerInOrder, AgBehind, AgRenews, AgLocks, AgLooks, AgRenewing
    <3> QED
      BY <3>3, <2>2, <2>4, <1>0, <1>2
  <2>5. CASE AgMoves(c, AgProceeds(c, t)) /\ ~NeedsTask(t, agCaller[c].expected)
    <3>1. c \notin AgDiscoveries => agCaller[c].refused = 0 \/ agCaller[c].refused < t
      BY <2>1, <2>3, <2>5, <1>6 DEF NeedsTask
    <3>2. AgCallerInOrder(c)'
      BY <3>1, <2>1, <2>2, <2>5, <1>1, <1>5
    <3> QED
      BY SMTT(30), <3>2, <2>2, <2>5, <1>0, <1>2
  <2> QED
    BY <1>8, <2>4, <2>5 DEF EnsureJobTask
<1>9. ASSUME NEW c \in AgCallers, NEW r, AgMoves(c, r), agStored' = agStored, agNext' = agNext,
             Len(agRuntimes') = Len(agRuntimes), c \in AgRequests => agCaller[c].pc \in AgRenewing \/ AgRuntime(c).lock = AgNobody,
             \A n \in 1..Len(agRuntimes) :
                 /\ agRuntimes[n].task <= agRuntimes'[n].task /\ agRuntimes'[n].task <= agStored.task
                 /\ (c \notin AgRequests \/ n # agCaller[c].runtime) => agRuntimes'[n] = agRuntimes[n],
             agRenewed' = agRenewed \/ /\ agRenewed' = agRenewed \cup {<<agCaller[c].runtime, agCaller[c].expected>>}
                                       /\ agCaller[c].expected \in Nat
                                       /\ agCaller[c].expected < agRuntimes'[agCaller[c].runtime].task,
             AgCallerInOrder(c)'
      PROVE  AgOrder'
  <2>1. AgGrows
    BY <1>0, <1>9 DEF AgGrows
  <2>2. ASSUME NEW d \in AgCallers, d # c PROVE AgCallerInOrder(d)'
    <3>1. agCaller'[d] = agCaller[d]
      BY <1>9, <2>2 DEF AgMoves, AgTypeOK
    <3>2. ASSUME d \in AgRequests, agCaller[d].pc \in AgRenewing
          PROVE  agRuntimes'[agCaller[d].runtime] = agRuntimes[agCaller[d].runtime]
      <4>1. agRuntimes[agCaller[d].runtime].lock = d /\ d # AgNobody
        BY <3>2, <1>1, AgAssumption DEF AgCallerInOrder, AgLocks, AgNobody
      <4>2. ASSUME c \in AgRequests, agCaller[c].runtime = agCaller[d].runtime PROVE FALSE
        BY <4>1, <4>2, <2>2, <1>1, <1>9 DEF AgCallerInOrder, AgLocks, AgRuntime
      <4> QED
        BY <4>2, <1>1, <1>9
    <3> QED
      BY <3>1, <3>2, <2>1, <1>1, AgFrame
  <2>3. agStored'.task < agNext' /\ \A n \in 1..Len(agRuntimes') : agRuntimes'[n].task <= agStored'.task
    BY <1>9 DEF AgOrder
  <2>4. \A p \in agRenewed' : p[1] \in 1..Len(agRuntimes') /\ p[2] \in Nat /\ p[2] < agRuntimes'[p[1]].task
    <3>1. ASSUME NEW p \in agRenewed PROVE p[1] \in 1..Len(agRuntimes') /\ p[2] \in Nat /\ p[2] < agRuntimes'[p[1]].task
      <4>1. p[1] \in 1..Len(agRuntimes) /\ p[2] \in Nat /\ p[2] < agRuntimes[p[1]].task
        BY DEF AgOrder
      <4> QED
        BY <4>1, <1>0, <1>9
    <3> QED
      BY <3>1, <1>1, <1>9
  <2> QED
    BY <1>9, <2>2, <2>3, <2>4 DEF AgOrder
<1>10. ASSUME NEW c \in AgCallers, LockTask(c) PROVE AgOrder'
  <2> DEFINE n == agCaller[c].runtime
             t == agRuntimes[n].task
  <2>1. /\ c \in AgRequests /\ c \notin AgDiscoveries /\ c \notin AgJobs /\ agCaller[c].pc = "lock"
        /\ t \in Nat /\ n \in 1..Len(agRuntimes) /\ agRuntimes[n].lock = AgNobody /\ t <= agStored.task
    BY <1>0, <1>1, <1>10, AgAssumption DEF LockTask, AgAt, AgRuntime, AgOrder
  <2>2. agStored' = agStored /\ agNext' = agNext /\ agRenewed' = agRenewed
    BY <1>10 DEF LockTask
  <2>3. agCaller[c].refused <= t /\ ((agCaller[c].refused # 0 /\ agCaller[c].expected = 0) => agCaller[c].refused < t)
    BY SMTT(30), <2>1, <1>1 DEF AgCallerInOrder, AgBehind, AgLooks
  <2>4. CASE /\ agRuntimes' = [agRuntimes EXCEPT ![n].lock = c]
             /\ AgMoves(c, [agCaller[c] EXCEPT !.pc = "register", !.seen = t])
             /\ NeedsTask(t, agCaller[c].expected)
    <3>0. agCaller[c].expected = t
      BY <2>1, <2>3, <2>4, <1>1 DEF NeedsTask, AgCallerInOrder, AgBehind
    <3>1. agCaller'[c] = [agCaller[c] EXCEPT !.pc = "register", !.seen = t]
      BY <2>4 DEF AgMoves, AgTypeOK
    <3>2. /\ agCaller'[c].pc = "register" /\ agCaller'[c].seen = t /\ agCaller'[c].runtime = n
          /\ agCaller'[c].task = agCaller[c].task
          /\ agCaller'[c].refused = agCaller[c].refused /\ agCaller'[c].expected = agCaller[c].expected
      BY <3>1, <1>1 DEF AgCallerStates
    <3>3. /\ Len(agRuntimes') = Len(agRuntimes)
          /\ \A m \in 1..Len(agRuntimes) :
                 agRuntimes'[m].task = agRuntimes[m].task /\ (m # n => agRuntimes'[m] = agRuntimes[m])
          /\ agRuntimes'[n].lock = c
      <4>1. agRuntimes \in Seq(AgExecutors)
        BY DEF AgTypeOK
      <4>2. Len(agRuntimes') = Len(agRuntimes)
        BY <2>4, <4>1
      <4>3. \A m \in 1..Len(agRuntimes) : m # n => agRuntimes'[m] = agRuntimes[m]
        BY <2>4, <4>1
      <4>4. agRuntimes'[n] = [agRuntimes[n] EXCEPT !.lock = c]
        BY <2>1, <2>4, <4>1
      <4>5. agRuntimes'[n].lock = c /\ agRuntimes'[n].task = agRuntimes[n].task
        BY <2>1, <4>4, <1>0 DEF AgExecutors
      <4> QED
        BY <4>2, <4>3, <4>5
    <3>4. AgCallerInOrder(c)'
      <4>1. agRuntimes'[n].task = t /\ n \in 1..Len(agRuntimes)
        BY <3>3, <2>1
      <4>2. agCaller[c].task <= t /\ agCaller[c].expected \in {0, agCaller[c].refused}
        BY <2>1, <1>1 DEF AgCallerInOrder, AgBehind
      <4>3. AgBehind(c)'
        BY <4>1, <4>2, <3>2, <2>1, <2>3 DEF AgBehind
      <4>4. AgRenews(c)'
        BY <3>2, <2>1, <2>2, <2>3 DEF AgRenews
      <4>5. AgLocks(c)'
        BY <4>1, <3>0, <3>2, <3>3 DEF AgLocks
      <4>6. AgLooks(c)'
        BY <3>2, <2>1 DEF AgLooks
      <4> QED
        BY <4>3, <4>4, <4>5, <4>6 DEF AgCallerInOrder
    <3>5. \A m \in 1..Len(agRuntimes) :
              /\ agRuntimes[m].task <= agRuntimes'[m].task /\ agRuntimes'[m].task <= agStored.task
              /\ (c \notin AgRequests \/ m # n) => agRuntimes'[m] = agRuntimes[m]
      <4>1. ASSUME NEW m \in 1..Len(agRuntimes)
            PROVE  agRuntimes[m].task \in Nat /\ agRuntimes[m].task <= agStored.task
        BY <1>0 DEF AgOrder
      <4>2. ASSUME NEW m \in 1..Len(agRuntimes)
            PROVE  agRuntimes[m].task <= agRuntimes'[m].task /\ agRuntimes'[m].task <= agStored.task
        BY <4>1, <3>3
      <4> QED
        BY <4>2, <3>3, <2>1
    <3> QED
      BY <3>3, <3>4, <3>5, <2>1, <2>2, <2>4, <1>9 DEF AgRuntime
  <2>5. CASE agRuntimes' = agRuntimes /\ AgMoves(c, AgProceeds(c, t)) /\ ~NeedsTask(t, agCaller[c].expected)
    <3>1. agCaller[c].refused = 0 \/ agCaller[c].refused < t
      BY <2>1, <2>3, <2>5, <1>6 DEF NeedsTask
    <3>2. AgCallerInOrder(c)'
      BY <3>1, <2>1, <2>2, <2>5, <1>1, <1>5
    <3> QED
      BY <3>2, <2>2, <2>5, <1>0, <1>2
  <2>6. CASE agRuntimes' = agRuntimes /\ AgEnds(c)
    BY <2>2, <2>6, <1>0, <1>2, <1>4 DEF AgEnds
  <2> QED
    BY <1>10, <2>4, <2>5, <2>6 DEF LockTask, AgRuntime
<1>11. ASSUME NEW c \in AgCallers, RegisterTask(c) PROVE AgOrder'
  <2>1. /\ agCaller[c].pc = "register" /\ agStored' = agStored /\ agRuntimes' = agRuntimes
        /\ agRenewed' = agRenewed /\ agNext' = agNext + 1
    BY <1>11 DEF RegisterTask, AgAt
  <2>2. agCaller'[c] = [agCaller[c] EXCEPT !.pc = "load", !.new = agNext]
    BY <1>11 DEF RegisterTask, AgMoves, AgTypeOK
  <2>3. /\ agCaller'[c].pc = "load" /\ agCaller'[c].new = agNext /\ agCaller'[c].seen = agCaller[c].seen
        /\ agCaller'[c].runtime = agCaller[c].runtime /\ agCaller'[c].task = agCaller[c].task
        /\ agCaller'[c].refused = agCaller[c].refused /\ agCaller'[c].expected = agCaller[c].expected
    BY <2>2, <1>1 DEF AgCallerStates
  <2>4. agCaller[c].seen < agNext /\ agNext < agNext'
    BY <2>1, <1>0, <1>1 DEF AgOrder, AgCallerInOrder, AgRenews, AgRenewing
  <2>5. AgCallerInOrder(c)'
    BY <2>1, <2>3, <2>4, <1>1 DEF AgCallerInOrder, AgBehind, AgRenews, AgLocks, AgLooks, AgRenewing
  <2> QED
    BY <1>11, <2>1, <2>4, <2>5, <1>0, <1>2 DEF RegisterTask
<1>12. ASSUME NEW c \in AgCallers, LoadForTask(c) PROVE AgOrder'
  <2>1. /\ agCaller[c].pc = "load" /\ agStored' = agStored /\ agRuntimes' = agRuntimes
        /\ agRenewed' = agRenewed /\ agNext' = agNext
        /\ agCaller[c].seen <= agStored.task
    BY <1>1, <1>12 DEF LoadForTask, AgAt, AgCallerInOrder, AgRenews, AgRenewing
  <2>2. PICK r : /\ AgMoves(c, r)
                 /\ \/ agStored.task \in {0, agCaller[c].seen} /\ r = [agCaller[c] EXCEPT !.pc = "save", !.base = {agStored}]
                    \/ agStored.task \notin {0, agCaller[c].seen} /\ r = [agCaller[c] EXCEPT !.pc = "keep", !.new = agStored.task]
    BY <1>12 DEF LoadForTask
  <2>3. agCaller'[c] = r
    BY <2>2 DEF AgMoves, AgTypeOK
  <2>4. /\ r.seen = agCaller[c].seen /\ r.runtime = agCaller[c].runtime /\ r.task = agCaller[c].task
        /\ r.refused = agCaller[c].refused /\ r.expected = agCaller[c].expected
        /\ \/ r.pc = "save" /\ r.new = agCaller[c].new /\ r.base = {agStored} /\ agStored.task \in {0, r.seen}
           \/ r.pc = "keep" /\ r.new = agStored.task /\ agStored.task # r.seen
    BY <2>2, <1>1 DEF AgCallerStates
  <2>5. AgCallerInOrder(c)'
    <3>1. AgBehind(c) /\ AgRenews(c) /\ (c \in AgRequests => AgLocks(c))
      BY <1>1 DEF AgCallerInOrder
    <3>2. AgBehind(c)'
      BY <3>1, <2>1, <2>3, <2>4 DEF AgBehind
    <3>3. AgRenews(c)'
      BY <3>1, <2>1, <2>3, <2>4, <1>0, <1>1 DEF AgRenews, AgRenewing
    <3>4. c \in AgRequests => AgLocks(c)'
      BY <3>1, <2>1, <2>3, <2>4 DEF AgLocks, AgRenewing
    <3>5. AgLooks(c)'
      BY <2>3, <2>4 DEF AgLooks
    <3> QED
      BY <3>2, <3>3, <3>4, <3>5 DEF AgCallerInOrder
  <2> QED
    BY <2>1, <2>2, <2>5, <1>0, <1>2
<1>13. ASSUME NEW c \in AgCallers, AgAnswered(c) PROVE AgOrder'
  BY <1>0, <1>2, <1>4, <1>13 DEF AgAnswered, AgEnds
<1>14. ASSUME NEW c \in AgCallers, AgRefused(c) PROVE AgOrder'
  <2> DEFINE t == agCaller[c].task
  <2>1. /\ agStored' = agStored /\ agRuntimes' = agRuntimes /\ agRenewed' = agRenewed /\ agNext' = agNext
    BY <1>14 DEF AgRefused
  <2>2. PICK e, u : /\ AgMoves(c, [agCaller[c] EXCEPT !.pc = "ensure", !.refused = t, !.expected = e, !.task = u])
                    /\ e = (IF c \in AgDiscoveries THEN 0 ELSE t)
                    /\ c \in AgRequests => u = 0
                    /\ c \notin AgRequests => u \in {agStored.task, t}
    BY <1>14 DEF AgRefused
  <2>3. agCaller'[c] = [agCaller[c] EXCEPT !.pc = "ensure", !.refused = t, !.expected = e, !.task = u]
    BY <2>2 DEF AgMoves, AgTypeOK
  <2>4. /\ agCaller'[c].pc = "ensure" /\ agCaller'[c].refused = t /\ agCaller'[c].expected = e
        /\ agCaller'[c].task = u /\ agCaller'[c].runtime = agCaller[c].runtime
    BY <2>3, <1>1 DEF AgCallerStates
  <2>5. CASE c \in AgRequests
    <3>1. c \notin AgDiscoveries /\ c \notin AgJobs /\ t <= agRuntimes[agCaller[c].runtime].task
      BY <2>5, <1>1, AgAssumption DEF AgCallerInOrder, AgBehind
    <3>2. AgCallerInOrder(c)'
      BY <2>1, <2>2, <2>4, <2>5, <3>1, <1>0, <1>1
         DEF AgCallerInOrder, AgBehind, AgRenews, AgLocks, AgLooks, AgRenewing
    <3> QED
      BY <2>1, <2>2, <3>2, <1>0, <1>2
  <2>6. CASE c \notin AgRequests
    <3>1. t <= agStored.task /\ t <= u /\ u <= agStored.task
      BY <2>2, <2>6, <1>0, <1>1 DEF AgCallerInOrder, AgBehind
    <3>2. AgCallerInOrder(c)'
      BY <2>1, <2>2, <2>4, <2>6, <3>1, <1>0, <1>1
         DEF AgCallerInOrder, AgBehind, AgRenews, AgLocks, AgLooks, AgRenewing
    <3> QED
      BY <2>1, <2>2, <3>2, <1>0, <1>2
  <2> QED
    BY <2>5, <2>6
<1>15. ASSUME NEW c \in AgCallers, SaveTask(c) PROVE AgOrder'
  <2>1. /\ agCaller[c].pc = "save" /\ agRuntimes' = agRuntimes /\ agRenewed' = agRenewed /\ agNext' = agNext
    BY <1>15 DEF SaveTask, AgAt
  <2>2. PICK base \in agCaller[c].base :
            agStored' = [base EXCEPT !.task = agCaller[c].new] /\ agOverlap' = (agOverlap \/ base # agStored)
    BY <1>15 DEF SaveTask
  <2>3. base = agStored
    BY <2>2
  <2>4. agStored'.task = agCaller[c].new
    BY <2>2, <2>3 DEF AgTypeOK, AgCredentials
  <2>5. /\ agStored.task \in {0, agCaller[c].seen} /\ agCaller[c].seen < agCaller[c].new
        /\ agCaller[c].new < agNext
    BY <2>1, <2>2, <2>3, <1>1 DEF AgCallerInOrder, AgRenews
  <2>6. agStored.task < agStored'.task
    BY <2>4, <2>5, <1>0, <1>1
  <2>7. AgGrows
    BY <2>1, <2>6, <1>0 DEF AgGrows
  <2>8. AgCallerInOrder(c)'
    <3>1. agCaller'[c] = [agCaller[c] EXCEPT !.pc = "keep", !.base = {}]
      BY <1>15 DEF SaveTask, AgMoves, AgTypeOK
    <3>2. /\ agCaller'[c].pc = "keep" /\ agCaller'[c].new = agCaller[c].new /\ agCaller'[c].seen = agCaller[c].seen
          /\ agCaller'[c].runtime = agCaller[c].runtime /\ agCaller'[c].task = agCaller[c].task
          /\ agCaller'[c].refused = agCaller[c].refused /\ agCaller'[c].expected = agCaller[c].expected
      BY <3>1, <1>1 DEF AgCallerStates
    <3>3. CASE c \in AgRequests
      <4>1. AgBehind(c) /\ AgRenews(c) /\ AgLocks(c)
        BY <3>3, <1>1 DEF AgCallerInOrder
      <4>2. AgBehind(c)'
        BY <4>1, <2>1, <3>2, <3>3 DEF AgBehind
      <4>3. AgRenews(c)'
        BY <4>1, <2>1, <2>4, <2>5, <3>2, <1>0, <1>1 DEF AgRenews, AgRenewing
      <4>4. AgLocks(c)'
        BY <4>1, <2>1, <3>2 DEF AgLocks, AgRenewing
      <4>5. AgLooks(c)'
        BY <3>2 DEF AgLooks
      <4> QED
        BY <4>2, <4>3, <4>4, <4>5 DEF AgCallerInOrder
    <3>4. CASE c \notin AgRequests
      <4>1. AgBehind(c) /\ AgRenews(c)
        BY <1>1 DEF AgCallerInOrder
      <4>2. AgBehind(c)'
        BY <4>1, <2>6, <3>2, <3>4, <1>0, <1>1 DEF AgBehind
      <4>3. AgRenews(c)'
        BY <4>1, <2>1, <2>4, <2>5, <3>2, <1>0, <1>1 DEF AgRenews, AgRenewing
      <4>4. AgLooks(c)'
        BY <3>2 DEF AgLooks
      <4> QED
        BY <4>2, <4>3, <4>4, <3>4 DEF AgCallerInOrder
    <3> QED
      BY <3>3, <3>4
  <2>9. ASSUME NEW d \in AgCallers, d # c PROVE AgCallerInOrder(d)'
    <3>1. agCaller'[d] = agCaller[d]
      BY SMTT(30), <1>15, <2>9 DEF SaveTask, AgMoves, AgTypeOK
    <3> QED
      BY <3>1, <2>1, <2>7, <1>1, AgFrame
  <2>10. agStored'.task < agNext' /\ \A n \in 1..Len(agRuntimes') : agRuntimes'[n].task <= agStored'.task
    <3>1. agStored'.task < agNext'
      BY <2>1, <2>4, <2>5
    <3>2. ASSUME NEW n \in 1..Len(agRuntimes) PROVE agRuntimes[n].task <= agStored'.task
      <4>1. agRuntimes[n].task \in Nat /\ agRuntimes[n].task <= agStored.task
        BY <1>0 DEF AgOrder
      <4> QED
        BY <4>1, <2>6, <1>0
    <3> QED
      BY <3>1, <3>2, <2>1
  <2> QED
    BY <2>1, <2>8, <2>9, <2>10 DEF AgOrder
<1>16. ASSUME NEW c \in AgCallers, AgUnlocked(c)
       PROVE  /\ Len(agRuntimes') = Len(agRuntimes)
              /\ \A m \in 1..Len(agRuntimes) :
                     /\ agRuntimes[m].task <= agRuntimes'[m].task /\ agRuntimes'[m].task <= agStored.task
                     /\ (c \notin AgRequests \/ m # agCaller[c].runtime) => agRuntimes'[m] = agRuntimes[m]
  <2>1. CASE c \notin AgRequests
    BY <2>1, <1>0, <1>16 DEF AgUnlocked, AgOrder
  <2>2. CASE c \in AgRequests
    <3> DEFINE n == agCaller[c].runtime
    <3>1. agRuntimes' = [agRuntimes EXCEPT ![n].lock = AgNobody] /\ agRuntimes \in Seq(AgExecutors)
      BY <2>2, <1>16 DEF AgUnlocked, AgTypeOK
    <3>2. Len(agRuntimes') = Len(agRuntimes) /\ n \in 1..Len(agRuntimes)
      BY <3>1, <1>1
    <3>3. \A m \in 1..Len(agRuntimes) : m # n => agRuntimes'[m] = agRuntimes[m]
      BY <3>1
    <3>4. agRuntimes'[n] = [agRuntimes[n] EXCEPT !.lock = AgNobody]
      BY <3>1, <3>2
    <3>5. agRuntimes'[n].task = agRuntimes[n].task
      BY <3>2, <3>4, <1>0 DEF AgExecutors
    <3> QED
      BY <2>2, <3>2, <3>3, <3>5, <1>0 DEF AgOrder
  <2> QED
    BY <2>1, <2>2
<1>17. ASSUME NEW c \in AgCallers, RenewFails(c) PROVE AgOrder'
  <2>1. agStored' = agStored /\ agRenewed' = agRenewed /\ agNext' = agNext /\ agCaller[c].pc \in AgRenewing
    BY <1>17 DEF RenewFails, AgRenewing
  <2>2. AgUnlocked(c) /\ AgEnds(c)
    BY <1>17 DEF RenewFails
  <2> QED
    BY <2>1, <2>2, <1>4, <1>9, <1>16 DEF AgEnds
<1>18. ASSUME NEW c \in AgCallers, KeepTask(c) PROVE AgOrder'
  <2> DEFINE n == agCaller[c].runtime
             t == agCaller[c].new
  <2>1. /\ c \in AgRequests /\ c \notin AgDiscoveries /\ agCaller[c].pc = "keep" /\ agCaller[c].pc \in AgRenewing
        /\ agStored' = agStored /\ agNext' = agNext /\ n \in 1..Len(agRuntimes)
    BY <1>1, <1>18, AgAssumption DEF KeepTask, AgAt, AgRenewing
  <2>2. /\ t \in Nat /\ agCaller[c].seen < t /\ t <= agStored.task /\ agCaller[c].refused <= agCaller[c].seen
        /\ agRuntimes[n].task = agCaller[c].seen /\ agCaller[c].expected = agCaller[c].seen
    BY SMTT(30), <2>1, <1>1 DEF AgCallerInOrder, AgRenews, AgLocks
  <2>3. CASE /\ agRuntimes' = [agRuntimes EXCEPT ![n].task = t, ![n].lock = AgNobody]
             /\ agRenewed' = agRenewed \cup {<<n, agCaller[c].expected>>} /\ AgMoves(c, AgProceeds(c, t))
    <3>1. agRuntimes \in Seq(AgExecutors)
      BY DEF AgTypeOK
    <3>2. Len(agRuntimes') = Len(agRuntimes)
      BY <2>3, <3>1
    <3>3. \A m \in 1..Len(agRuntimes) : m # n => agRuntimes'[m] = agRuntimes[m]
      BY <2>3, <3>1
    <3>4. agRuntimes'[n].task = t
      BY SMTT(30), <2>1, <2>3, <3>1, <1>0 DEF AgExecutors
    <3>5. AgCallerInOrder(c)'
      <4>1. agCaller[c].refused = 0 \/ agCaller[c].refused < t
        BY <2>2, <1>1
      <4>2. n \in 1..Len(agRuntimes') /\ t <= agRuntimes'[n].task
        BY <3>2, <3>4, <2>1, <2>2
      <4> QED
        BY <4>2, <4>1, <2>1, <2>2, <2>3, <1>5
    <3>6. \A m \in 1..Len(agRuntimes) :
              /\ agRuntimes[m].task <= agRuntimes'[m].task /\ agRuntimes'[m].task <= agStored.task
              /\ (c \notin AgRequests \/ m # n) => agRuntimes'[m] = agRuntimes[m]
      <4>1. agRuntimes[n].task <= agRuntimes'[n].task /\ agRuntimes'[n].task <= agStored.task
        BY <3>4, <2>1, <2>2, <1>0
      <4>2. \A m \in 1..Len(agRuntimes) : m # n =>
                /\ agRuntimes[m].task <= agRuntimes'[m].task /\ agRuntimes'[m].task <= agStored.task
        BY <3>3, <1>0 DEF AgOrder
      <4> QED
        BY <4>1, <4>2, <3>3, <2>1
    <3> QED
      BY <3>2, <3>4, <3>5, <3>6, <2>1, <2>2, <2>3, <1>1, <1>9
  <2>4. CASE AgUnlocked(c) /\ AgEnds(c) /\ agRenewed' = agRenewed
    BY <2>1, <2>4, <1>4, <1>9, <1>16 DEF AgEnds
  <2> QED
    BY <1>18, <2>3, <2>4 DEF KeepTask
<1>19. ASSUME agStored' = agStored, agNext' = agNext, agRenewed' = agRenewed, agRuntimes' = Append(agRuntimes, AgExecutor(agStored.task))
       PROVE  /\ AgGrows /\ Len(agRuntimes') = Len(agRuntimes) + 1
              /\ \A n \in 1..Len(agRuntimes) : agRuntimes'[n] = agRuntimes[n]
              /\ \A n \in 1..Len(agRuntimes') : agRuntimes'[n].task <= agStored'.task
              /\ \A p \in agRenewed' : p[1] \in 1..Len(agRuntimes') /\ p[2] \in Nat /\ p[2] < agRuntimes'[p[1]].task
  <2>0. agRuntimes \in Seq(AgExecutors)
    BY DEF AgTypeOK
  <2>1. /\ Len(agRuntimes') = Len(agRuntimes) + 1
        /\ \A n \in 1..Len(agRuntimes) : agRuntimes'[n] = agRuntimes[n]
        /\ agRuntimes'[Len(agRuntimes) + 1] = AgExecutor(agStored.task)
    BY <1>19, <2>0
  <2>2. AgExecutor(agStored.task).task = agStored.task
    BY DEF AgExecutor
  <2>3. \A n \in 1..Len(agRuntimes') : n \in 1..Len(agRuntimes) \/ n = Len(agRuntimes) + 1
    BY <2>1, <1>0
  <2>4. AgGrows
    BY <1>19, <2>1, <1>0 DEF AgGrows
  <2>5. \A n \in 1..Len(agRuntimes') : agRuntimes'[n].task <= agStored'.task
    BY <1>19, <2>1, <2>2, <2>3, <1>0 DEF AgOrder
  <2>6. \A n \in 1..Len(agRuntimes) : n \in 1..Len(agRuntimes')
    BY <2>1, <1>0
  <2> QED
    BY <1>19, <2>1, <2>4, <2>5, <2>6 DEF AgOrder
<1>20. ASSUME NEW c \in AgCallers, KeepJobTask(c) PROVE AgOrder'
  <2> DEFINE t == agStored.task
  <2>1. /\ c \notin AgRequests /\ agCaller[c].pc = "keep" /\ AgMoves(c, AgProceeds(c, t))
        /\ agStored' = agStored /\ agNext' = agNext /\ agRenewed' = agRenewed
    BY <1>20 DEF KeepJobTask, AgAt
  <2>2. c \notin AgDiscoveries => agCaller[c].refused < t
    BY <2>1, <1>0, <1>1 DEF AgCallerInOrder, AgRenews, AgRenewing
  <2>3. CASE agRuntimes' = agRuntimes
    <3>1. AgCallerInOrder(c)'
      BY SMTT(30), <2>1, <2>2, <2>3, <1>0, <1>1, <1>5
    <3> QED
      BY SMTT(30), <2>1, <2>3, <3>1, <1>0, <1>2
  <2>4. CASE agRuntimes' = Append(agRuntimes, AgExecutor(agStored.task))
    <3>1. AgCallerInOrder(c)'
      <4>1. agCaller[c].runtime \in 1..Len(agRuntimes')
        BY SMTT(30), <2>1, <2>4, <1>0, <1>1, <1>19
      <4> QED
        BY <4>1, <2>1, <2>2, <1>0, <1>5
    <3>2. ASSUME NEW d \in AgCallers, d # c PROVE AgCallerInOrder(d)'
      <4>1. agCaller'[d] = agCaller[d]
        BY <2>1, <3>2 DEF AgMoves, AgTypeOK
      <4> QED
        BY <4>1, <2>1, <2>4, <1>1, <1>19, AgFrame
    <3>3. agStored'.task < agNext'
      BY <2>1 DEF AgOrder
    <3> QED
      BY <2>1, <2>4, <3>1, <3>2, <3>3, <1>19 DEF AgOrder
  <2> QED
    BY <1>20, <2>3, <2>4 DEF KeepJobTask
<1>21. ASSUME agCaller' = agCaller, agStored'.task = agStored.task, agNext' = agNext, agRenewed' = agRenewed,
              Len(agRuntimes') = Len(agRuntimes),
              \A n \in 1..Len(agRuntimes) : /\ agRuntimes'[n].task = agRuntimes[n].task
                                             /\ agRuntimes'[n].lock = agRuntimes[n].lock
       PROVE  AgOrder'
  <2>1. AgGrows
    BY <1>0, <1>21 DEF AgGrows
  <2>2. \A c \in AgCallers : AgCallerInOrder(c)'
    BY <2>1, <1>1, <1>21, AgFrame
  <2> QED
    BY <2>2, <1>21 DEF AgOrder
<1>22. CASE LoadForTokens
  BY <1>21, <1>22 DEF LoadForTokens, agCalls
<1>23. CASE AgSaveTokens
  <2>1. PICK base \in agWriter :
            agStored' = [base EXCEPT !.pair = @ + 1] /\ agOverlap' = (agOverlap \/ base # agStored)
    BY <1>23 DEF AgSaveTokens
  <2>2. base = agStored
    BY <2>1
  <2>3. agStored'.task = agStored.task
    BY <2>1, <2>2 DEF AgTypeOK, AgCredentials
  <2> QED
    BY <2>3, <1>21, <1>23 DEF AgSaveTokens
<1>24. CASE AgRebuild
  <2>1. /\ agCaller' = agCaller /\ agStored' = agStored /\ agNext' = agNext /\ agRenewed' = agRenewed
        /\ agRuntimes' = Append(agRuntimes, AgExecutor(agStored.task))
    BY <1>24 DEF AgRebuild
  <2>2. \A c \in AgCallers : AgCallerInOrder(c)'
    BY <2>1, <1>1, <1>19, AgFrame
  <2> QED
    BY <2>1, <2>2, <1>19 DEF AgOrder
<1>25. CASE AgRetire
  <2>0. agRuntimes \in Seq(AgExecutors) /\ DOMAIN agRuntimes = 1..Len(agRuntimes)
    BY DEF AgTypeOK
  <2>1. PICK n \in 1..Len(agRuntimes) : agRuntimes' = [agRuntimes EXCEPT ![n].active = FALSE]
    BY <1>25, <2>0 DEF AgRetire
  <2>2. Len(agRuntimes') = Len(agRuntimes) /\ \A m \in 1..Len(agRuntimes) : m # n => agRuntimes'[m] = agRuntimes[m]
    BY <2>0, <2>1
  <2>3. agRuntimes'[n] = [agRuntimes[n] EXCEPT !.active = FALSE]
    BY <2>0, <2>1
  <2>4. agRuntimes'[n].task = agRuntimes[n].task /\ agRuntimes'[n].lock = agRuntimes[n].lock
    BY <2>3, <1>0 DEF AgExecutors
  <2> QED
    BY <1>25, <2>2, <2>4, <1>21 DEF AgRetire
<1> QED
  BY <1>3, <1>7, <1>8, <1>10, <1>11, <1>12, <1>13, <1>14, <1>15, <1>17, <1>18, <1>20, <1>22, <1>23,
     <1>24, <1>25 DEF AgNextStep

\* An overlap is not forgotten, so that a step into a state without one starts in one
\* without (SaveTask and AgSaveTokens alone touch the ghost).
LEMMA AgOverlapStays == ASSUME [AgNextStep]_agVars, agOverlap PROVE agOverlap'
BY DEF AgNextStep, agVars, agCalls, AgPrepare, AgPrepareJob, EnsureTask, EnsureJobTask, LockTask,
       RegisterTask, RenewFails, LoadForTask, SaveTask, KeepTask, KeepJobTask, AgAnswered, AgRefused,
       LoadForTokens, AgSaveTokens, AgRebuild, AgRetire

\* However many requests, jobs and runtimes there are: unless two writes of the
\* credential overlap, a repeated request carries another task than the one that was
\* refused, and a runtime renews a task once (RetryIsRenewed, OneRenewal).
THEOREM SpecAgentSafe == AgSpec => [](AgTypeOK /\ RetryIsRenewed /\ OneRenewal)
<1>1. AgInit => AgInv
  <2> SUFFICES ASSUME AgInit PROVE AgInv
    OBVIOUS
  <2>1. AgTypeOK
    BY AgTypeInduction
  <2>2. ASSUME NEW c \in AgCallers PROVE AgCallerInOrder(c)
    BY AgAssumption DEF AgInit, AgIdle, AgExecutor, AgCallerInOrder, AgBehind, AgRenews, AgLocks, AgLooks, AgRenewing
  <2>3. AgOrder
    BY <2>2, AgAssumption DEF AgInit, AgOrder, AgExecutor
  <2> QED
    BY <2>1, <2>3 DEF AgInv
<1>2. AgInv /\ [AgNextStep]_agVars => AgInv'
  <2> SUFFICES ASSUME AgInv, [AgNextStep]_agVars PROVE AgInv'
    OBVIOUS
  <2>1. AgTypeOK /\ AgTypeOK'
    BY AgTypeInduction DEF AgInv
  <2>2. ASSUME ~agOverlap', AgNextStep PROVE AgOrder'
    BY <2>1, <2>2, AgOverlapStays, AgOrderStep DEF AgInv
  <2>3. ASSUME ~agOverlap', UNCHANGED agVars PROVE AgOrder'
    BY <2>3 DEF AgInv, agVars, agCalls, AgOrder, AgCallerInOrder, AgBehind, AgRenews, AgLocks, AgLooks
  <2> QED
    BY <2>1, <2>2, <2>3 DEF AgInv
<1>3. AgInv => AgTypeOK /\ RetryIsRenewed /\ OneRenewal
  <2> SUFFICES ASSUME AgInv, ~agOverlap PROVE RetryIsRenewed /\ OneRenewal
    BY DEF AgInv, RetryIsRenewed, OneRenewal
  <2>1. ASSUME NEW c \in AgCallers
        PROVE  /\ AgCallerInOrder(c) /\ agCaller[c].runtime \in 1..Len(agRuntimes)
               /\ {agCaller[c].task, agCaller[c].refused, agCaller[c].seen} \subseteq Nat
    <3>1. agCaller[c] \in AgCallerStates
      BY DEF AgInv, AgTypeOK
    <3>2. \A t \in AgTasks : t \in Nat
      BY AgAssumption DEF AgTasks
    <3> QED
      BY <3>1, <3>2, AgFields DEF AgInv, AgTypeOK, AgOrder
  <2>2. RetryIsRenewed
    <3> SUFFICES ASSUME NEW c \in AgRequests \cup AgJobs, AgAt(c, "send"), agCaller[c].refused # 0
                 PROVE  agCaller[c].task # agCaller[c].refused
      BY DEF RetryIsRenewed
    <3>1. c \in AgCallers /\ c \notin AgDiscoveries
      BY AgAssumption DEF AgCallers
    <3> QED
      BY <3>1, <2>1 DEF AgCallerInOrder, AgLooks, AgAt
  <2>3. OneRenewal
    <3> SUFFICES ASSUME NEW c \in AgRequests, AgAt(c, "register"),
                        <<agCaller[c].runtime, agCaller[c].expected>> \in agRenewed
                 PROVE  FALSE
      BY DEF OneRenewal
    <3>1. /\ c \in AgCallers /\ agRuntimes[agCaller[c].runtime].task = agCaller[c].seen
          /\ agCaller[c].expected = agCaller[c].seen
      BY <2>1 DEF AgCallers, AgCallerInOrder, AgLocks, AgAt, AgRenewing
    <3>2. agCaller[c].expected < agRuntimes[agCaller[c].runtime].task
      BY DEF AgInv, AgOrder
    <3> QED
      BY <3>1, <3>2, <2>1
  <2> QED
    BY <2>2, <2>3
<1> QED
  BY <1>1, <1>2, <1>3, PTL DEF AgSpec
=============================================================================
