-------------------------------- MODULE MCLive --------------------------------
(***************************************************************************)
(* Five components with something that has to end, side by side: they share *)
(* no state, and a behaviour moves only the one that part names.           *)
(***************************************************************************)
EXTENDS DesktopQuotaWorker, GatewayExecution, OwnershipTransfer, ServerWake,
        PortableUpdate

CONSTANTS a1, a2

VARIABLE part

Parts == {"worker", "execution", "ownership", "wake", "update"}

-----------------------------------------------------------------------------
\* The parts that do not move rest in one of their initial states.
MCInit ==
    /\ part \in Parts
    /\ WorkerInit /\ ExecInit /\ OwnInit /\ SwInit /\ PuInit
    /\ part # "worker" => next_generation = 1
    /\ part # "execution" =>
          req = [history |-> "inline", tool_output |-> FALSE, broken |-> {}, sealed |-> FALSE]

NotWorker == UNCHANGED <<part, execVars, ownVars, swVars, puVars>>
NotExec == UNCHANGED <<part, allWorkerVars, ownVars, swVars, puVars>>
NotOwn == UNCHANGED <<part, allWorkerVars, execVars, swVars, puVars>>
NotWake == UNCHANGED <<part, allWorkerVars, execVars, ownVars, puVars>>
NotUpdate == UNCHANGED <<part, allWorkerVars, execVars, ownVars, swVars>>

MCNext ==
    \/ part = "worker" /\ WorkerNext /\ NotWorker
    \/ part = "execution" /\ ExecNext /\ NotExec
    \/ part = "ownership" /\ OwnNext /\ NotOwn
    \/ part = "wake" /\ SwNext /\ NotWake
    \/ part = "update" /\ PuNext /\ NotUpdate

mcVars == <<part, allWorkerVars, execVars, ownVars, swVars, puVars>>

\* The fairness of the components (WorkerSpec, ExecFairSpec,
\* OwnFairSpec, SwFairSpec, PuFairSpec), each while it is the one that moves.
Fair1 == CASE part = "worker" -> (LoopStart \/ CheckDue \/ Claim) /\ NotWorker
           [] part = "execution" -> ExecNext /\ NotExec
           [] part = "ownership" -> OwnStep /\ NotOwn
           [] part = "wake" -> SwClaimDue /\ NotWake
           [] part = "update" -> PuHelperStep /\ NotUpdate
Fair2 == CASE part = "worker" -> (SessionEnds \/ WakeByNotice \/ WakeByTimer) /\ NotWorker
           [] part = "ownership" -> RecoverOwnership /\ NotOwn
           [] part = "wake" -> (SwExecute \/ SwExecuteFails) /\ NotWake
           [] OTHER -> FALSE
Fair3 == CASE part = "worker" -> Clock /\ NotWorker
           [] part = "wake" -> SwCompletePermit /\ NotWake
           [] OTHER -> FALSE
Fair4 == part = "worker" /\ (\E p \in permits : Settle(p)) /\ NotWorker

MCFairness == WF_mcVars(Fair1) /\ WF_mcVars(Fair2) /\ WF_mcVars(Fair3) /\ WF_mcVars(Fair4)

MCSpec == MCInit /\ [][MCNext]_mcVars /\ MCFairness

-----------------------------------------------------------------------------
\* What is begun and has not ended; a component with two accounts has two.
Pending(k) ==
    CASE part = "worker" -> Due(IF k = 1 THEN a1 ELSE a2)
      [] part = "execution" -> execPc # "Done"
      [] part = "ownership" -> ownOp.kind = "move"
      [] part = "wake" -> CycleIsOpen(IF k = 1 THEN <<"a", 1>> ELSE <<"b", 1>>)
      [] part = "update" -> puHelper.pc # "none"

\* Whatever has begun ends: while the session stays active, a quota refresh that
\* is due is claimed or withdrawn (background.rs:143-162, 312-379); no
\* cycle of repairs, replays and incompatible routes keeps a request from its
\* answer (request.rs:129-969); a move of accounts to the server is finished or
\* undone, although retries may create more accounts than its entry can name
\* (recover_pending_remote_ownership); an automatic wake cycle is completed
\* although its outcomes are dropped (quota_wake.rs:203-215); and a portable
\* update's helper ends whatever becomes of the applications it waits for
\* (wait_for_process_exit, wait_for_ack).
BegunEnds ==
    <>[](part = "worker" => session) => \A k \in 1..2 : Pending(k) ~> ~Pending(k)
===============================================================================
