------------------------- MODULE EmbeddedRunsProofs -------------------------
(***************************************************************************)
(* Proofs about EmbeddedRuns, for all sets of runs and sessions.           *)
(*                                                                         *)
(* Every step of the runs is a step of the queue, so what CommandQueue-    *)
(* Proofs shows of one step holds here as well.  The first part makes that *)
(* precise for the instance of the queue this module has; the second adds  *)
(* what the nesting of the lanes guarantees beyond the queue; and the last *)
(* takes over the theorems of the queue, which the runs implement.         *)
(***************************************************************************)
EXTENDS EmbeddedRuns, FiniteSetTheorems, TLAPS

Lanes == Sessions \cup GlobalLanes

P == INSTANCE CommandQueueProofs WITH
       ProbeLanes <- {}, Limits <- {},
       Priorities <- {Background, Normal, Foreground}, Waiters <- {}

-----------------------------------------------------------------------------
(* The queue of the runs is the queue the proofs are about *)

LEMMA CommandsAreFinite == IsFiniteSet(Commands)
<1>1. IsFiniteSet({"cron"}) /\ IsFiniteSet({"session"}) /\ IsFiniteSet({"attempt"})
  BY FS_Singleton
<1>2. IsFiniteSet({"cron"} \cup {"session"})
  BY <1>1, FS_Union
<1>3. IsFiniteSet(({"cron"} \cup {"session"}) \cup {"attempt"})
  BY <1>1, <1>2, FS_Union
<1>4. ({"cron"} \cup {"session"}) \cup {"attempt"} = {"cron", "session", "attempt"}
  OBVIOUS
<1>. QED  BY <1>3, <1>4, RunsFinite, FS_Product DEF Commands

LEMMA SameCardinality ==
  /\ \A S : Cardinality(S) = P!Cardinality(S)
  /\ \A S : Cardinality(S) = Q!Cardinality(S)
BY DEF Cardinality, P!Cardinality, Q!Cardinality

\* The assumptions of the queue hold of this instance.
LEMMA QueueAssumptions ==
  /\ P!CommandsFinite /\ P!LanesAssumption /\ P!LimitsAssumption
  /\ P!PrioritiesAssumption /\ P!MaxGenerationAssumption
<1>1. P!CommandsFinite
  BY CommandsAreFinite DEF P!CommandsFinite, P!IsFiniteSet, IsFiniteSet
<1>2. P!LanesAssumption /\ P!LimitsAssumption
  BY DEF P!LanesAssumption, P!LimitsAssumption
<1>3. P!PrioritiesAssumption
  BY DEF P!PrioritiesAssumption, Background, Normal, Foreground
<1>4. P!MaxGenerationAssumption
  BY MaxGenerationAssumption DEF P!MaxGenerationAssumption
<1>. QED  BY <1>1, <1>2, <1>3, <1>4

LEMMA SamePump ==
  ASSUME NEW ls, NEW q, NEW a, NEW m, NEW g, NEW e, NEW f,
         Q!drainLanes(ls, q, a, m, g, e, f)
  PROVE  P!drainLanes(ls, q, a, m, g, e, f)
<1>1. \A s, b, n : Q!PumpCount(s, b, n) = P!PumpCount(s, b, n)
  BY SameCardinality DEF Q!PumpCount, P!PumpCount
<1>2. \A s, b, n : Q!Started(s, b, n) = P!Started(s, b, n)
  BY <1>1 DEF Q!Started, P!Started
<1>. QED  BY <1>1, <1>2 DEF Q!drainLanes, P!drainLanes, Lanes

LEMMA SameBodies == \A b : Q!StartBodies(b) => P!StartBodies(b)
BY DEF Q!StartBodies, P!StartBodies

LEMMA SameNotify == \A a : Q!notifyActiveTaskWaiters(a) => P!notifyActiveTaskWaiters(a)
BY DEF Q!notifyActiveTaskWaiters, P!notifyActiveTaskWaiters, Q!hasPendingActiveTasks,
       P!hasPendingActiveTasks, Lanes

LEMMA SameEnqueue ==
  ASSUME NEW c \in Commands, NEW l, NEW p, Q!enqueueCommandInLane(c, l, p)
  PROVE  P!enqueueCommandInLane(c, l, p)
<1>1. Q!EnqueueRefused(c) => P!EnqueueRefused(c)
  BY DEF Q!EnqueueRefused, P!EnqueueRefused, Q!laneVars, P!laneVars
<1>2. ASSUME Q!EnqueueAccepted(c, l, p) PROVE P!EnqueueAccepted(c, l, p)
  <2>. DEFINE e == [lane |-> l, priority |-> p, sequence |-> nextQueueSequence,
                    taskGeneration |-> 0]
  <2>1. PICK i \in 1..(Len(queue[l]) + 1) :
          /\ Q!InsertsAt(queue[l], i, e)
          /\ Q!drainLanes({l}, [queue EXCEPT ![l] = Q!InsertAt(@, i, c)], active,
                          maxConcurrent, generation, [entry EXCEPT ![c] = e], inFlight)
    BY <1>2 DEF Q!EnqueueAccepted
  <2>2. P!InsertsAt(queue[l], i, e)
    BY <2>1 DEF Q!InsertsAt, P!InsertsAt, Q!YieldsTo, P!YieldsTo
  <2>3. Q!InsertAt(queue[l], i, c) = P!InsertAt(queue[l], i, c)
    BY DEF Q!InsertAt, P!InsertAt
  <2>. HIDE DEF e
  <2>4. P!drainLanes({l}, [queue EXCEPT ![l] = P!InsertAt(@, i, c)], active,
                     maxConcurrent, generation, [entry EXCEPT ![c] = e], inFlight)
    BY <2>1, <2>3, SamePump
  <2>. QED  BY <1>2, <2>2, <2>4, SameBodies DEF Q!EnqueueAccepted, P!EnqueueAccepted, e
<1>. QED  BY <1>1, <1>2 DEF Q!enqueueCommandInLane, P!enqueueCommandInLane

LEMMA SameSettle ==
  ASSUME NEW c, NEW outcome, NEW b, Q!Settle(c, outcome, b)
  PROVE  P!Settle(c, outcome, b)
<1>1. Q!completeTask(c) => P!completeTask(c)
  BY SamePump, SameNotify DEF Q!completeTask, P!completeTask, Q!NoEntry, P!NoEntry
<1>. QED  BY <1>1, SameBodies DEF Q!Settle, P!Settle

LEMMA SameReset == ASSUME NEW ls, Q!ResetLanes(ls) PROVE P!ResetLanes(ls)
BY SamePump, SameBodies, SameNotify DEF Q!ResetLanes, P!ResetLanes, Lanes

LEMMA SameOthers ==
  /\ \A c : Q!LateReturn(c) => P!LateReturn(c)
  /\ \A l : Q!clearCommandLane(l) => P!clearCommandLane(l)
  /\ Q!markGatewayDraining => P!markGatewayDraining
BY DEF Q!LateReturn, P!LateReturn, Q!clearCommandLane, P!clearCommandLane, Q!NoEntry, P!NoEntry,
       Q!ToSet, P!ToSet, Q!markGatewayDraining, P!markGatewayDraining, Q!laneVars, P!laneVars

\* What a step of the runs is: one of the operations of the queue, on a command
\* of some kind at some moment of its run.
LEMMA StepKinds ==
  ASSUME Next
  PROVE  \/ \E c \in Commands, l \in Lanes, p \in {Background, Normal, Foreground} :
              /\ P!enqueueCommandInLane(c, l, p)
              /\ \A r \in Runs : c = Attempt(r) => body[SessionSlot(r)] = "executing"
         \/ \E c \in Commands :
              /\ P!TaskReturns(c)
              /\ \A r \in Runs : c = SessionSlot(r) => promise[Attempt(r)] # "pending"
         \/ \E r \in Runs : P!TaskTimesOut(Attempt(r))
         \/ \E c \in Commands : P!LateReturn(c)
         \/ \E l \in Lanes : P!clearCommandLane(l) \/ P!resetCommandLane(l)
         \/ P!resetAllLanes
         \/ P!markGatewayDraining
<1>. DEFINE Enqueues == \E c \in Commands, l \in Lanes, p \in {Background, Normal, Foreground} :
                          /\ P!enqueueCommandInLane(c, l, p)
                          /\ \A r \in Runs : c = Attempt(r) => body[SessionSlot(r)] = "executing"
            Returns == \E c \in Commands :
                         /\ P!TaskReturns(c)
                         /\ \A r \in Runs : c = SessionSlot(r) => promise[Attempt(r)] # "pending"
<1>1. \A r \in Runs : CronSlot(r) \in Commands /\ SessionSlot(r) \in Commands
                      /\ Attempt(r) \in Commands
  BY DEF CronSlot, SessionSlot, Attempt, Commands
<1>2. \A r, s \in Runs : /\ CronSlot(r) # SessionSlot(s) /\ CronSlot(r) # Attempt(s)
                         /\ SessionSlot(r) # Attempt(s)
                         /\ SessionSlot(r) = SessionSlot(s) => r = s
                         /\ Attempt(r) = Attempt(s) => r = s
  BY DEF CronSlot, SessionSlot, Attempt
<1>3. \A c : Q!TaskReturns(c) => P!TaskReturns(c)
  BY SameSettle DEF Q!TaskReturns, P!TaskReturns
<1>4. ASSUME NEW r \in Runs, EnqueueCronRun(r) \/ EnqueueSession(r) \/ EnqueueGlobal(r)
      PROVE  Enqueues
  <2>1. CASE EnqueueCronRun(r)
    <3>1. P!enqueueCommandInLane(CronSlot(r), "cron", Normal)
      BY <1>1, <2>1, SameEnqueue DEF EnqueueCronRun
    <3>2. "cron" \in Lanes
      BY DEF Lanes, GlobalLanes
    <3>. QED  BY <1>1, <1>2, <3>1, <3>2
  <2>2. CASE EnqueueSession(r)
    <3>1. P!enqueueCommandInLane(SessionSlot(r), SessionOf[r],
                                 resolveEmbeddedRunSessionQueuePriority(r))
      BY <1>1, <2>2, SameEnqueue DEF EnqueueSession
    <3>2. SessionOf[r] \in Lanes
      BY SessionOfAssumption DEF Lanes
    <3>3. resolveEmbeddedRunSessionQueuePriority(r) \in {Background, Normal, Foreground}
      BY DEF resolveEmbeddedRunSessionQueuePriority
    <3>. QED  BY <1>1, <1>2, <3>1, <3>2, <3>3
  <2>3. CASE EnqueueGlobal(r)
    <3>1. /\ P!enqueueCommandInLane(Attempt(r), resolveGlobalLane(LaneParam(r)),
                                    resolveEmbeddedRunSessionQueuePriority(r))
          /\ body[SessionSlot(r)] = "executing"
      BY <1>1, <2>3, SameEnqueue DEF EnqueueGlobal
    <3>2. resolveGlobalLane(LaneParam(r)) \in Lanes
      BY DEF resolveGlobalLane, LaneParam, Lanes, GlobalLanes
    <3>3. resolveEmbeddedRunSessionQueuePriority(r) \in {Background, Normal, Foreground}
      BY DEF resolveEmbeddedRunSessionQueuePriority
    <3>. QED  BY <1>1, <1>2, <3>1, <3>2, <3>3
  <2>. QED  BY <1>4, <2>1, <2>2, <2>3
<1>5. ASSUME NEW r \in Runs,
             \/ AttemptReturns(r) \/ SessionReturns(r) \/ SessionAborts(r)
             \/ CronReturns(r) \/ CronJobTimesOut(r)
      PROVE  Returns
  <2>1. CASE AttemptReturns(r)
    BY <1>1, <1>2, <1>3, <2>1 DEF AttemptReturns
  <2>2. CASE SessionReturns(r) \/ SessionAborts(r)
    BY <1>1, <1>2, <1>3, <2>2 DEF SessionReturns, SessionAborts, Settled, Q!Settled
  <2>3. CASE CronReturns(r) \/ CronJobTimesOut(r)
    BY <1>1, <1>2, <1>3, <2>3 DEF CronReturns, CronJobTimesOut
  <2>. QED  BY <1>5, <2>1, <2>2, <2>3
<1>6. ASSUME NEW r \in Runs, AttemptTimesOut(r) PROVE P!TaskTimesOut(Attempt(r))
  BY <1>6, SameSettle DEF AttemptTimesOut, Q!TaskTimesOut, P!TaskTimesOut
<1>7. ASSUME NEW r \in Runs, AttemptUnwinds(r) PROVE P!LateReturn(Attempt(r))
  BY <1>7, SameOthers DEF AttemptUnwinds
<1>8. ASSUME NEW s \in Sessions, ClearSessionQueues(s) \/ RecoverStuckSession(s)
      PROVE  s \in Lanes /\ (P!clearCommandLane(s) \/ P!resetCommandLane(s))
  BY <1>8, SameOthers, SameReset
  DEF ClearSessionQueues, RecoverStuckSession, Q!resetCommandLane, P!resetCommandLane, Lanes
<1>9. BeginRestart => P!markGatewayDraining
  BY SameOthers DEF BeginRestart
<1>10. FinishRestart => P!resetAllLanes
  BY SameReset DEF FinishRestart, Q!resetAllLanes, P!resetAllLanes, Lanes
<1>. HIDE DEF Enqueues, Returns
<1>11. CASE RunNext
  <2>. PICK r \in Runs :
         \/ EnqueueCronRun(r) \/ EnqueueSession(r) \/ EnqueueGlobal(r)
         \/ AttemptReturns(r) \/ AttemptTimesOut(r) \/ AttemptUnwinds(r)
         \/ SessionReturns(r) \/ SessionAborts(r) \/ CronReturns(r) \/ CronJobTimesOut(r)
    BY <1>11 DEF RunNext
  <2>1. CASE EnqueueCronRun(r) \/ EnqueueSession(r) \/ EnqueueGlobal(r)
    BY <1>4, <2>1 DEF Enqueues
  <2>2. CASE \/ AttemptReturns(r) \/ SessionReturns(r) \/ SessionAborts(r)
             \/ CronReturns(r) \/ CronJobTimesOut(r)
    BY <1>5, <2>2 DEF Returns
  <2>3. CASE AttemptTimesOut(r) \/ AttemptUnwinds(r)
    BY <1>1, <1>6, <1>7, <2>3
  <2>. QED  BY <2>1, <2>2, <2>3
<1>12. CASE GatewayNext
  BY <1>8, <1>9, <1>10, <1>12 DEF GatewayNext
<1>. QED  BY <1>11, <1>12 DEF Next

LEMMA StepOfQueue == Next => P!Next
<1>. SUFFICES ASSUME Next PROVE P!Next
  OBVIOUS
<1>1. ASSUME NEW c \in Commands, NEW l \in Lanes, NEW p \in {Background, Normal, Foreground},
             P!enqueueCommandInLane(c, l, p)
      PROVE  P!Next
  BY <1>1 DEF P!Next, P!CommandNext
<1>2. ASSUME NEW c \in Commands, P!TaskReturns(c) \/ P!TaskTimesOut(c) \/ P!LateReturn(c)
      PROVE  P!Next
  BY <1>2 DEF P!Next, P!CommandNext
<1>3. ASSUME NEW l \in Lanes, P!clearCommandLane(l) \/ P!resetCommandLane(l)
      PROVE  P!Next
  BY <1>3 DEF P!Next, P!LaneNext
<1>4. P!resetAllLanes \/ P!markGatewayDraining => P!Next
  BY DEF P!Next
<1>5. \A r \in Runs : Attempt(r) \in Commands
  BY DEF Attempt, Commands
<1>. QED  BY <1>1, <1>2, <1>3, <1>4, <1>5, StepKinds

-----------------------------------------------------------------------------
(* What the nesting adds *)

\* A task function that executes is in flight, or its lane timeout released it;
\* a session command has no timeout.
BodiesPlaced ==
  \A c \in Commands : body[c] = "executing" =>
    \/ c \in inFlight
    \/ promise[c] = "timedOut" /\ \A r \in Runs : c # SessionSlot(r)

\* Nobody changes the limit of a lane, and no lane runs two commands at once.
OneAtATime ==
  \A l \in Lanes : maxConcurrent[l] = 1 /\ Cardinality(active[l]) =< 1

IInv == P!IInv /\ P!NoIdleCapacity /\ BodiesPlaced /\ AttemptInsideSession /\ OneAtATime

LEMMA InitOfQueue == Init => P!Init
BY DEF Init, Q!Init, P!Init, Q!NoEntry, P!NoEntry, Lanes

LEMMA InitEstablishes == Init => IInv
<1>. SUFFICES ASSUME Init PROVE IInv
  OBVIOUS
<1>2. P!Init
  BY InitOfQueue
<1>3. P!IInv
  BY <1>2, P!InitEstablishes, QueueAssumptions
<1>4. P!NoIdleCapacity
  BY <1>2 DEF P!Init, P!NoIdleCapacity
<1>5. BodiesPlaced /\ AttemptInsideSession
  BY <1>2 DEF P!Init, BodiesPlaced, AttemptInsideSession, Attempt, Commands
<1>6. OneAtATime
  BY <1>2, FS_EmptySet DEF P!Init, OneAtATime
<1>. QED  BY <1>3, <1>4, <1>5, <1>6 DEF IInv

\* What the invariant of the queue says of the promises.
LEMMA PromisesTyped ==
  ASSUME P!IInv
  PROVE  /\ promise \in [Commands -> {"none", "pending"} \cup P!Settled]
         /\ body \in [Commands -> {"idle", "executing", "returned"}]
         /\ inFlight \subseteq Commands
         /\ \A c \in inFlight : promise[c] = "pending"
         /\ active \in [Lanes -> SUBSET Commands]
         /\ \A l \in Lanes : \A c \in P!ToSet(queue[l]) : promise[c] = "pending"
BY DEF P!IInv, P!WellFormed, P!Typed, P!Rest, P!FlightHolds, P!QueuesHold, P!ToSet

LEMMA SlotNames ==
  \A r, s \in Runs : /\ SessionSlot(r) \in Commands /\ Attempt(r) \in Commands
                     /\ SessionSlot(r) # Attempt(s)
                     /\ SessionSlot(r) = SessionSlot(s) => r = s
                     /\ Attempt(r) = Attempt(s) => r = s
BY DEF SessionSlot, Attempt, Commands

\* The frame of the steps that settle nothing: bodies start only with a closure.
StartsOnly ==
  /\ inFlight \subseteq inFlight'
  /\ \A c \in Commands : body'[c] = "executing" => body[c] = "executing" \/ c \in inFlight'

LEMMA StartKeeps ==
  ASSUME IInv, StartsOnly,
         \A c \in Commands : promise'[c] # promise[c] =>
           /\ promise[c] # "timedOut"
           /\ \A r \in Runs : c = Attempt(r) /\ promise'[c] = "pending"
                => body[SessionSlot(r)] = "executing"
  PROVE  BodiesPlaced' /\ AttemptInsideSession'
<1>1. BodiesPlaced'
  BY DEF IInv, StartsOnly, BodiesPlaced
<1>2. ASSUME NEW r \in Runs, promise'[Attempt(r)] = "pending" PROVE SessionSlot(r) \in inFlight'
  <2>1. CASE promise[Attempt(r)] = "pending"
    BY <2>1 DEF IInv, StartsOnly, AttemptInsideSession
  <2>2. CASE promise[Attempt(r)] # "pending"
    <3>1. body[SessionSlot(r)] = "executing"
      BY <1>2, <2>2, SlotNames
    <3>. QED  BY <3>1, SlotNames DEF IInv, BodiesPlaced, StartsOnly
  <2>. QED  BY <2>1, <2>2
<1>. QED  BY <1>1, <1>2 DEF AttemptInsideSession

\* A command that settles leaves the others where they are.
LEMMA SettleKeeps ==
  ASSUME IInv, NEW c \in Commands, NEW outcome \in P!Settled,
         NEW b \in {"returned", "executing"}, P!Settle(c, outcome, b),
         b = "executing" => outcome = "timedOut" /\ \A r \in Runs : c # SessionSlot(r),
         \A r \in Runs : c = SessionSlot(r) => promise[Attempt(r)] # "pending"
  PROVE  BodiesPlaced' /\ AttemptInsideSession' /\ maxConcurrent' = maxConcurrent
<1>0. /\ promise \in [Commands -> {"none", "pending"} \cup P!Settled]
      /\ body \in [Commands -> {"idle", "executing", "returned"}]
  BY PromisesTyped DEF IInv
<1>1. /\ c \in inFlight
      /\ promise' = [promise EXCEPT ![c] = outcome]
      /\ P!StartBodies([body EXCEPT ![c] = b])
      /\ maxConcurrent' = maxConcurrent
  BY DEF P!Settle
<1>2. inFlight \ {c} \subseteq inFlight'
  BY DEF P!Settle, P!completeTask, P!drainLanes
<1>3. \A d \in Commands : body'[d] = "executing" =>
        \/ d \in inFlight'
        \/ d = c /\ b = "executing"
        \/ d # c /\ body[d] = "executing"
  BY <1>0, <1>1 DEF P!StartBodies
<1>4. \A d \in Commands : d # c => promise'[d] = promise[d]
  BY <1>0, <1>1
<1>5. BodiesPlaced'
  <2>. SUFFICES ASSUME NEW d \in Commands, body'[d] = "executing", d \notin inFlight'
                PROVE  promise'[d] = "timedOut" /\ \A r \in Runs : d # SessionSlot(r)
    BY DEF BodiesPlaced
  <2>1. CASE d = c
    BY <1>0, <1>1, <1>3, <2>1
  <2>2. CASE d # c
    BY <1>2, <1>3, <1>4, <2>2 DEF IInv, BodiesPlaced
  <2>. QED  BY <2>1, <2>2
<1>6. ASSUME NEW r \in Runs, promise'[Attempt(r)] = "pending" PROVE SessionSlot(r) \in inFlight'
  <2>1. Attempt(r) # c
    BY <1>0, <1>1, <1>6 DEF P!Settled
  <2>2. promise[Attempt(r)] = "pending"
    BY <1>4, <1>6, <2>1, SlotNames
  <2>3. SessionSlot(r) # c
    BY <2>2
  <2>. QED  BY <1>2, <2>2, <2>3 DEF IInv, AttemptInsideSession
<1>. QED  BY <1>1, <1>5, <1>6 DEF AttemptInsideSession

\* A step keeps bodies and attempts in their place, and the limits.
LEMMA StepNests ==
  ASSUME IInv, Next
  PROVE  BodiesPlaced' /\ AttemptInsideSession' /\ maxConcurrent' = maxConcurrent
<1>. DEFINE Goal == BodiesPlaced' /\ AttemptInsideSession' /\ maxConcurrent' = maxConcurrent
<1>0. /\ promise \in [Commands -> {"none", "pending"} \cup P!Settled]
      /\ body \in [Commands -> {"idle", "executing", "returned"}]
      /\ \A l \in Lanes : \A c \in P!ToSet(queue[l]) : promise[c] = "pending"
  BY PromisesTyped DEF IInv
<1>1. ASSUME NEW c \in Commands, NEW l \in Lanes, NEW p, P!enqueueCommandInLane(c, l, p),
             \A r \in Runs : c = Attempt(r) => body[SessionSlot(r)] = "executing"
      PROVE  Goal
  <2>1. promise[c] = "none" /\ maxConcurrent' = maxConcurrent
    BY <1>1 DEF P!enqueueCommandInLane, P!EnqueueRefused, P!EnqueueAccepted, P!laneVars
  <2>2. \A d \in Commands : d # c => promise'[d] = promise[d]
    BY <1>0, <1>1 DEF P!enqueueCommandInLane, P!EnqueueRefused, P!EnqueueAccepted
  <2>3. StartsOnly
    BY <1>1 DEF P!enqueueCommandInLane, P!EnqueueRefused, P!EnqueueAccepted, P!drainLanes,
                P!StartBodies, StartsOnly
  <2>. QED  BY <1>1, <2>1, <2>2, <2>3, StartKeeps
<1>2. ASSUME NEW c \in Commands, P!TaskReturns(c),
             \A r \in Runs : c = SessionSlot(r) => promise[Attempt(r)] # "pending"
      PROVE  Goal
  BY <1>2, SettleKeeps DEF P!TaskReturns, P!Settled
<1>3. ASSUME NEW r \in Runs, P!TaskTimesOut(Attempt(r)) PROVE Goal
  BY <1>3, SettleKeeps, SlotNames DEF P!TaskTimesOut, P!Settled
<1>4. ASSUME NEW c \in Commands, P!LateReturn(c) PROVE Goal
  <2>1. maxConcurrent' = maxConcurrent /\ promise' = promise /\ StartsOnly
    BY <1>0, <1>4 DEF P!LateReturn, P!laneVars, StartsOnly
  <2>. QED  BY <2>1, StartKeeps
<1>5. ASSUME NEW l \in Lanes, P!clearCommandLane(l) PROVE Goal
  <2>1. maxConcurrent' = maxConcurrent /\ StartsOnly
    BY <1>5 DEF P!clearCommandLane, StartsOnly
  <2>2. \A c \in Commands : promise'[c] # promise[c] =>
          promise[c] = "pending" /\ promise'[c] = "cleared"
    BY <1>0, <1>5 DEF P!clearCommandLane
  <2>. QED  BY <2>1, <2>2, StartKeeps
<1>6. ASSUME NEW ls, P!ResetLanes(ls) PROVE Goal
  <2>1. maxConcurrent' = maxConcurrent /\ promise' = promise /\ StartsOnly
    BY <1>6 DEF P!ResetLanes, P!drainLanes, P!StartBodies, StartsOnly
  <2>. QED  BY <2>1, StartKeeps
<1>7. ASSUME P!markGatewayDraining PROVE Goal
  <2>1. maxConcurrent' = maxConcurrent /\ promise' = promise /\ StartsOnly
    BY <1>7 DEF P!markGatewayDraining, P!laneVars, StartsOnly
  <2>. QED  BY <2>1, StartKeeps
<1>. QED
  BY <1>1, <1>2, <1>3, <1>4, <1>5, <1>6, <1>7, StepKinds DEF P!resetCommandLane, P!resetAllLanes

LEMMA StepPreserves == IInv /\ [Next]_vars => IInv'
<1>. SUFFICES ASSUME IInv, [Next]_vars PROVE IInv'
  OBVIOUS
<1>1. CASE UNCHANGED vars
  <2>1. UNCHANGED <<queue, active, maxConcurrent, generation, gatewayDraining,
                    nextQueueSequence, entry, promise, inFlight, body, waiters>>
    BY <1>1 DEF vars, Q!vars, Q!laneVars
  <2>2. P!IInv'
    BY <2>1, P!StepPreserves, QueueAssumptions DEF IInv, P!vars, P!laneVars
  <2>. QED
    BY <2>1, <2>2 DEF IInv, P!NoIdleCapacity, BodiesPlaced, AttemptInsideSession, OneAtATime
<1>2. CASE Next
  <2>1. P!Next
    BY <1>2, StepOfQueue
  <2>2. P!IInv'
    BY <2>1, P!StepPreserves, QueueAssumptions DEF IInv
  <2>3. /\ P!NoIdleCapacity'
        /\ \A l \in Lanes : ~(active'[l] \subseteq active[l])
             => P!Cardinality(active'[l]) =< maxConcurrent'[l]
    BY <2>1, P!StepsFill, QueueAssumptions DEF IInv
  <2>4. BodiesPlaced' /\ AttemptInsideSession' /\ maxConcurrent' = maxConcurrent
    BY <1>2, StepNests
  <2>5. OneAtATime'
    <3>. SUFFICES ASSUME NEW l \in Lanes PROVE Cardinality(active'[l]) =< 1
      BY <2>4 DEF IInv, OneAtATime
    <3>1. CASE active'[l] \subseteq active[l]
      <4>1. IsFiniteSet(active[l])
        BY PromisesTyped, CommandsAreFinite, FS_Subset DEF IInv
      <4>2. Cardinality(active'[l]) =< Cardinality(active[l])
        BY <3>1, <4>1, FS_Subset
      <4>3. Cardinality(active[l]) \in Nat /\ Cardinality(active'[l]) \in Nat
        BY <3>1, <4>1, FS_Subset, FS_CardinalityType
      <4>. QED  BY <4>2, <4>3 DEF IInv, OneAtATime
    <3>2. CASE ~(active'[l] \subseteq active[l])
      BY <2>3, <2>4, <3>2, SameCardinality DEF IInv, OneAtATime
    <3>. QED  BY <3>1, <3>2
  <2>. QED  BY <2>2, <2>3, <2>4, <2>5 DEF IInv
<1>. QED  BY <1>1, <1>2

\* The inductive invariant: that of the queue, with every executing body and every
\* attempt where the lanes of its run put it, and limits that stay at one.
THEOREM InvariantHolds == Spec => []IInv
<1>. QED  BY InitEstablishes, StepPreserves, PTL DEF Spec

\* An attempt that is queued or holds a global slot has its session command in
\* flight, whatever is cleared, reset, restarted or timed out around it.
THEOREM Nested == Spec => []AttemptInsideSession
<1>1. IInv => AttemptInsideSession
  BY DEF IInv
<1>. QED  BY <1>1, InvariantHolds, PTL

\* Attempts of one session overlap only once a timeout or a reset gave one up:
\* else both would hold the one slot of the session's lane.
THEOREM OverlapExplained == Spec => []OverlapOnlyAfterGivingUp
<1>1. ASSUME IInv PROVE OverlapOnlyAfterGivingUp
  <2>. SUFFICES ASSUME NEW r1 \in Runs, NEW r2 \in Runs, r1 # r2,
                       SessionOf[r1] = SessionOf[r2], Attempting(r1), Attempting(r2),
                       \A r \in {r1, r2} :
                         /\ promise[Attempt(r)] # "timedOut"
                         /\ SessionSlot(r) \in inFlight => HoldsSessionSlot(r)
                PROVE  FALSE
    BY DEF OverlapOnlyAfterGivingUp
  <2>1. \A r \in {r1, r2} : promise[Attempt(r)] = "pending"
    BY <1>1, PromisesTyped, SlotNames DEF IInv, BodiesPlaced, Attempting
  <2>2. \A r \in {r1, r2} : HoldsSessionSlot(r)
    BY <1>1, <2>1 DEF IInv, AttemptInsideSession
  <2>. DEFINE l == SessionOf[r1]
  <2>3. l \in Lanes
    BY SessionOfAssumption DEF Lanes
  <2>4. {SessionSlot(r1), SessionSlot(r2)} \subseteq active[l]
    BY <2>2 DEF HoldsSessionSlot
  <2>5. IsFiniteSet(active[l]) /\ Cardinality(active[l]) \in Nat
    BY <1>1, <2>3, PromisesTyped, CommandsAreFinite, FS_Subset, FS_CardinalityType DEF IInv
  <2>6. Cardinality({SessionSlot(r1), SessionSlot(r2)}) = 2
    <3>1. SessionSlot(r1) # SessionSlot(r2)
      BY SlotNames
    <3>2. /\ IsFiniteSet({SessionSlot(r1)}) /\ Cardinality({SessionSlot(r1)}) = 1
          /\ SessionSlot(r2) \notin {SessionSlot(r1)}
      BY <3>1, FS_Singleton
    <3>3. Cardinality({SessionSlot(r1)} \cup {SessionSlot(r2)}) = Cardinality({SessionSlot(r1)}) + 1
      BY <3>2, FS_AddElement
    <3>4. {SessionSlot(r1)} \cup {SessionSlot(r2)} = {SessionSlot(r1), SessionSlot(r2)}
      OBVIOUS
    <3>. QED  BY <3>2, <3>3, <3>4
  <2>7. 2 =< Cardinality(active[l])
    BY <2>4, <2>5, <2>6, FS_Subset
  <2>. QED  BY <1>1, <2>3, <2>5, <2>7 DEF IInv, OneAtATime
<1>. QED  BY <1>1, InvariantHolds, PTL

\* The runs use the queue as its specification allows: whatever CommandQueueProofs
\* shows of every behaviour of the queue holds of theirs.
THEOREM ImplementsQueue == Spec => P!Spec
<1>1. UNCHANGED vars => UNCHANGED P!vars
  BY DEF vars, Q!vars, Q!laneVars, P!vars, P!laneVars
<1>2. [Next]_vars => [P!Next]_P!vars
  BY <1>1, StepOfQueue
<1>. QED  BY <1>2, InitOfQueue, PTL DEF Spec, P!Spec

\* No command of a run is lost between its three slots, settled while it waits or
\* started twice, and it settles once.
THEOREM CommandsAccountedFor == Spec => []P!PendingIsQueuedOrInFlight /\ P!SettlesOnce
<1>1. /\ P!Spec => []P!PendingIsQueuedOrInFlight
      /\ P!Spec => P!SettlesOnce
  BY P!CommandsAccountedFor, P!SettledOnce, QueueAssumptions
<1>. QED  BY <1>1, ImplementsQueue

\* In the lane of a session and in a global lane the runs of a user start before those of
\* cron, and runs of one priority in the order they came.
THEOREM StartedByPriority == Spec => P!StartsInOrder
BY ImplementsQueue, P!StartedInOrder, QueueAssumptions
=============================================================================
