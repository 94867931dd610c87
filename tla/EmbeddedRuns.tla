--------------------------- MODULE EmbeddedRuns ---------------------------
(***************************************************************************)
(* Agent runs on the command queue: how one run nests its lanes.  A run is *)
(* enqueued in the lane of its session (enqueueSession of                  *)
(* src/src/agents/embedded-agent-runner/run.ts); the task of that command  *)
(* enqueues the attempt in a global lane (enqueueGlobal) and awaits it.  A *)
(* manual cron run holds one more slot: the cron lane of enqueueRun in     *)
(* src/src/cron/service/ops.ts, whose task awaits the whole run.           *)
(*                                                                         *)
(* The queue itself is CommandQueue; a step here is one of its operations, *)
(* restricted to the commands the runs really enqueue and to the moments   *)
(* at which their task functions do so.                                    *)
(***************************************************************************)
EXTENDS Integers, Sequences, FiniteSets

CONSTANTS
  Runs,           \* identities of the agent runs
  Sessions,       \* session keys; also the names of their lanes
  SessionOf,      \* run -> its session
  CronRuns,       \* the runs started by a manual cron run
  MaxGeneration   \* bound: a lane is reset at most this many times

ASSUME SessionOfAssumption == SessionOf \in [Runs -> Sessions]
ASSUME RunsFinite == IsFiniteSet(Runs)
ASSUME CronRunsAssumption == CronRuns \subseteq Runs
ASSUME MaxGenerationAssumption == MaxGeneration \in Nat

VARIABLES queue, active, maxConcurrent, generation, gatewayDraining,
          nextQueueSequence, entry, promise, inFlight, body, waiters

\* The three commands of a run: its cron slot, its session slot, its attempt.
CronSlot(r) == <<"cron", r>>
SessionSlot(r) == <<"session", r>>
Attempt(r) == <<"attempt", r>>
Commands == {"cron", "session", "attempt"} \X Runs

GlobalLanes == {"main", "cron", "cron-nested"}
Foreground == 1
Normal == 0
Background == -1

Q == INSTANCE CommandQueue WITH
       Lanes <- Sessions \cup GlobalLanes, ProbeLanes <- {}, Limits <- {},
       Priorities <- {Background, Normal, Foreground}, Waiters <- {}

vars == Q!vars

\* The lane a run asks for: cron runs pass "cron" (buildGatewayCronService), the
\* others pass none.
LaneParam(r) == IF r \in CronRuns THEN "cron" ELSE "none"

\* Mutant: the inner work of a cron run queues in the lane whose slot it holds.
resolveGlobalLaneSame(lane) == IF lane = "none" THEN "main" ELSE lane

\* resolveGlobalLane: a run that holds a cron slot does its inner work elsewhere.
resolveGlobalLane(lane) ==
  CASE lane = "cron" -> "cron-nested"
    [] lane = "none" -> "main"
    [] OTHER -> lane

\* resolveEmbeddedRunSessionQueuePriority by the trigger of the run.
resolveEmbeddedRunSessionQueuePriority(r) ==
  IF r \in CronRuns THEN Background ELSE Foreground

Settled(c) == promise[c] \in Q!Settled

-----------------------------------------------------------------------------

\* enqueueRun: a manual cron run queues for a slot of the cron lane.
EnqueueCronRun(r) ==
  /\ r \in CronRuns
  /\ Q!enqueueCommandInLane(CronSlot(r), "cron", Normal)

\* runEmbeddedAgent: the run queues in the lane of its session, called by a
\* channel or, for a cron run, by the task that holds the cron slot.
EnqueueSession(r) ==
  /\ r \in CronRuns => body[CronSlot(r)] = "executing"
  /\ Q!enqueueCommandInLane(SessionSlot(r), SessionOf[r],
                            resolveEmbeddedRunSessionQueuePriority(r))

\* The task of the session command enqueues the attempt in the global lane.
EnqueueGlobal(r) ==
  /\ body[SessionSlot(r)] = "executing"
  /\ Q!enqueueCommandInLane(Attempt(r), resolveGlobalLane(LaneParam(r)),
                            resolveEmbeddedRunSessionQueuePriority(r))

\* The attempt returns, or the lane timeout that only it has (withLaneTimeout)
\* releases its slot while it unwinds, or it ends after that.
AttemptReturns(r) == Q!TaskReturns(Attempt(r))
AttemptTimesOut(r) == Q!TaskTimesOut(Attempt(r))
AttemptUnwinds(r) == Q!LateReturn(Attempt(r))

\* Mutant: the session task does not await its attempt.
SessionReturnsAtOnce(r) == body[SessionSlot(r)] = "executing" /\ Q!TaskReturns(SessionSlot(r))

\* The session command ends with the promise of its attempt.
SessionReturns(r) == Settled(Attempt(r)) /\ Q!TaskReturns(SessionSlot(r))

\* The run was aborted while it queued: throwIfAborted ends the session command
\* before its task enqueues the attempt.
SessionAborts(r) == promise[Attempt(r)] = "none" /\ Q!TaskReturns(SessionSlot(r))

\* The cron command ends with the run, or without it once the job timeout of
\* executeJobCoreWithTimeout fires.
CronReturns(r) == Settled(SessionSlot(r)) /\ Q!TaskReturns(CronSlot(r))
CronJobTimesOut(r) == Q!TaskReturns(CronSlot(r))

\* clearSessionQueues, the recovery of a stuck session, and an in-process
\* restart of the gateway.
ClearSessionQueues(s) == Q!clearCommandLane(s)
RecoverStuckSession(s) == Q!resetCommandLane(s)
BeginRestart == Q!markGatewayDraining
FinishRestart == gatewayDraining /\ Q!resetAllLanes

-----------------------------------------------------------------------------

Init == Q!Init

RunNext ==
  \E r \in Runs :
    \/ EnqueueCronRun(r) \/ EnqueueSession(r) \/ EnqueueGlobal(r)
    \/ AttemptReturns(r) \/ AttemptTimesOut(r) \/ AttemptUnwinds(r)
    \/ SessionReturns(r) \/ SessionAborts(r) \/ CronReturns(r) \/ CronJobTimesOut(r)

GatewayNext ==
  \/ \E s \in Sessions : ClearSessionQueues(s) \/ RecoverStuckSession(s)
  \/ BeginRestart
  \/ FinishRestart

Next == RunNext \/ GatewayNext

Spec == Init /\ [][Next]_vars

\* A task function that may go on does, and every attempt that holds a slot ends
\* (it returns, or its lane timeout fires where its timeout is positive; only one
\* without any may not return).  Nothing forces an abort, a cron job timeout, a
\* recovery or a restart.
Fairness ==
  \A r \in Runs :
    /\ WF_vars(EnqueueGlobal(r))
    /\ WF_vars(r \in CronRuns /\ EnqueueSession(r))
    /\ WF_vars(AttemptReturns(r) \/ AttemptTimesOut(r))
    /\ WF_vars(SessionReturns(r))
    /\ WF_vars(CronReturns(r))

FairSpec == Spec /\ Fairness

-----------------------------------------------------------------------------
(* Properties *)

Attempting(r) == body[Attempt(r)] = "executing"
HoldsSessionSlot(r) == SessionSlot(r) \in active[SessionOf[r]]

\* An attempt that is queued or holds a global slot still has its session
\* command in flight: no path settles the outer promise before the inner one.
AttemptInsideSession ==
  \A r \in Runs : promise[Attempt(r)] = "pending" => SessionSlot(r) \in inFlight

\* Two attempts of one session execute together only if one of them was given up
\* before: its lane timeout fired, or a reset took the session slot of a session
\* command that is still in flight.  docs/concepts/queue.md promises that no two ever do.
OverlapOnlyAfterGivingUp ==
  \A r1, r2 \in Runs :
    r1 # r2 /\ SessionOf[r1] = SessionOf[r2] /\ Attempting(r1) /\ Attempting(r2)
      => \E r \in {r1, r2} :
           \/ promise[Attempt(r)] = "timedOut"
           \/ SessionSlot(r) \in inFlight /\ ~HoldsSessionSlot(r)

\* Every command that a run enqueues is eventually settled: a chain of nested
\* slots never waits on itself, whatever is cleared, reset or timed out meanwhile.
RunsSettle == \A c \in Commands : promise[c] = "pending" ~> Settled(c)
=============================================================================
