--------------------------- MODULE LaneSuspension ---------------------------
(***************************************************************************)
(* The limits of the command lanes over time: the configured one, which    *)
(* applyGatewayLaneConcurrency of src/src/gateway/server-lanes.ts pushes   *)
(* into the queue at start and at every config reload, and the zero that   *)
(* suspendSession of src/src/agents/session-suspension.ts sets when the    *)
(* provider of a run is out of quota, with a timer that resumes the lane.  *)
(*                                                                         *)
(* The queue is CommandQueue.  A command here is an agent run in its       *)
(* global lane.  It captures the config when it is enqueued (params.config *)
(* of runEmbeddedAgent), and its failure suspends the lane in the          *)
(* background: the session store is patched first, and only a patch that   *)
(* succeeds throttles the lane.                                            *)
(***************************************************************************)
EXTENDS Integers, Sequences, FiniteSets

CONSTANTS
  Runs,          \* identities of the agent runs
  Lanes,         \* the global lanes: main, subagent, cron, cron-nested
  LaneOf,        \* run -> its global lane
  ConfigLimits   \* the limits a config may give a lane

ASSUME RunsFinite == IsFiniteSet(Runs)
ASSUME LaneOfAssumption == LaneOf \in [Runs -> Lanes]
\* resolveAgentMaxConcurrent and its siblings clamp to at least one.
ASSUME ConfigLimitsAssumption == ConfigLimits \subseteq Nat \ {0}

VARIABLES queue, active, maxConcurrent, generation, gatewayDraining,
          nextQueueSequence, entry, promise, inFlight, body, waiters

VARIABLES
  config,           \* lane -> the limit the current config gives it
  captured,         \* run -> the limit its own config gives its lane
  suspension,       \* run -> its call of suspendSession: none, patching or over
  laneResumeTimers  \* lane -> the limit its armed timer will set, 0 if none

queueVars == <<queue, active, maxConcurrent, generation, gatewayDraining,
               nextQueueSequence, entry, promise, inFlight, body, waiters>>
vars == <<queueVars, config, captured, suspension, laneResumeTimers>>

Normal == 0

Q == INSTANCE CommandQueue WITH
       Commands <- Runs, ProbeLanes <- {}, Limits <- ConfigLimits \cup {0},
       Priorities <- {Normal}, Waiters <- {}, MaxGeneration <- 0

\* The gateway just started and applied its config to its idle lanes.
Init ==
  /\ config \in [Lanes -> ConfigLimits]
  /\ queue = [l \in Lanes |-> <<>>]
  /\ active = [l \in Lanes |-> {}]
  /\ maxConcurrent = config
  /\ generation = [l \in Lanes |-> 0]
  /\ gatewayDraining = FALSE
  /\ nextQueueSequence = 1
  /\ entry = [r \in Runs |-> Q!NoEntry]
  /\ promise = [r \in Runs |-> "none"]
  /\ inFlight = {}
  /\ body = [r \in Runs |-> "idle"]
  /\ waiters = [w \in {} |-> 0]
  /\ captured = [r \in Runs |-> 0]
  /\ suspension = [r \in Runs |-> "none"]
  /\ laneResumeTimers = [l \in Lanes |-> 0]

-----------------------------------------------------------------------------

\* A run enters its global lane with the config of that moment.
StartRun(r) ==
  /\ Q!enqueueCommandInLane(r, LaneOf[r], Normal)
  /\ captured' = [captured EXCEPT ![r] = config[LaneOf[r]]]
  /\ UNCHANGED <<config, suspension, laneResumeTimers>>

EndRun(r) ==
  /\ Q!TaskReturns(r) \/ Q!TaskTimesOut(r) \/ Q!LateReturn(r)
  /\ UNCHANGED <<config, captured, suspension, laneResumeTimers>>

\* A run whose provider fails calls suspendSession and goes on; the store patch
\* is awaited.  Bound: a run does so once.
SuspendSession(r) ==
  /\ body[r] = "executing"
  /\ suspension[r] = "none"
  /\ suspension' = [suspension EXCEPT ![r] = "patching"]
  /\ UNCHANGED <<queueVars, config, captured, laneResumeTimers>>

\* The patch fails: the lane is not throttled.
PatchFails(r) ==
  /\ suspension[r] = "patching"
  /\ suspension' = [suspension EXCEPT ![r] = "over"]
  /\ UNCHANGED <<queueVars, config, captured, laneResumeTimers>>

\* Mutant: the timer is to restore the limit the lane had, zero if it was
\* suspended already.
PatchSucceedsSavingLimit(r) ==
  /\ suspension[r] = "patching"
  /\ suspension' = [suspension EXCEPT ![r] = "over"]
  /\ Q!setCommandLaneConcurrency(LaneOf[r], 0)
  /\ laneResumeTimers' = [laneResumeTimers EXCEPT ![LaneOf[r]] = maxConcurrent[LaneOf[r]]]
  /\ UNCHANGED <<config, captured>>

\* The patch succeeds: the lane is throttled and its timer, armed anew, will
\* resume it to the limit of the run's own config.
PatchSucceeds(r) ==
  /\ suspension[r] = "patching"
  /\ suspension' = [suspension EXCEPT ![r] = "over"]
  /\ Q!setCommandLaneConcurrency(LaneOf[r], 0)
  /\ laneResumeTimers' = [laneResumeTimers EXCEPT ![LaneOf[r]] = captured[r]]
  /\ UNCHANGED <<config, captured>>

\* The timer of scheduleLaneAutoResume fires.
ResumeLane(l) ==
  /\ laneResumeTimers[l] # 0
  /\ Q!setCommandLaneConcurrency(l, laneResumeTimers[l])
  /\ laneResumeTimers' = [laneResumeTimers EXCEPT ![l] = 0]
  /\ UNCHANGED <<config, captured, suspension>>

\* applyGatewayLaneConcurrency on a hot reload: every lane gets the limit of the
\* new config and is pumped, whether it was suspended or not; timers stay.
applyGatewayLaneConcurrency(cfg) ==
  /\ config' = cfg
  /\ maxConcurrent' = cfg
  /\ Q!drainLanes(Lanes, queue, active, cfg, generation, entry, inFlight)
  /\ Q!StartBodies(body)
  /\ UNCHANGED <<generation, gatewayDraining, nextQueueSequence, promise, waiters,
                 captured, suspension, laneResumeTimers>>

-----------------------------------------------------------------------------

Next ==
  \/ \E r \in Runs :
       \/ StartRun(r) \/ EndRun(r)
       \/ SuspendSession(r) \/ PatchFails(r) \/ PatchSucceeds(r)
  \/ \E l \in Lanes : ResumeLane(l)
  \/ \E cfg \in [Lanes -> ConfigLimits] : applyGatewayLaneConcurrency(cfg)

Spec == Init /\ [][Next]_vars

\* Runs end (they have a lane timeout), a started patch ends, timers fire.
\* Nothing forces a reload.
FairSpec ==
  /\ Spec
  /\ \A r \in Runs : WF_vars(EndRun(r)) /\ WF_vars(PatchFails(r) \/ PatchSucceeds(r))
  /\ \A l \in Lanes : WF_vars(ResumeLane(l))

-----------------------------------------------------------------------------
(* Properties *)

\* A suspended lane always has a timer that will resume it: overlapping
\* suspensions replace the timer but never lose it.
SuspendedLaneHasTimer ==
  \A l \in Lanes : maxConcurrent[l] = 0 => laneResumeTimers[l] # 0

\* Every run that was accepted settles although any run may suspend the lane at
\* any time.  This is what the fairness of CommandQueue takes for granted.
RunsSettle == Q!AcceptedSettles
=============================================================================
