------------------------ MODULE LaneSuspensionProofs ------------------------
(***************************************************************************)
(* Proof that a suspended lane always has a timer, and that the queue      *)
(* beneath it stays sound, for all sets of runs and lanes and all limits a *)
(* config may give.                                                        *)
(*                                                                         *)
(* A suspension arms its timer with the limit its run captured, so that    *)
(* limit must not be zero.  It is captured when the run is enqueued, and   *)
(* only a run that executes suspends: the invariant says that the queues,  *)
(* the pump and the bodies only ever hold runs that captured a limit.      *)
(*                                                                         *)
(* All steps but the reload, which sets every limit at once, are steps of  *)
(* the queue, so the invariants of CommandQueueProofs hold here as well.   *)
(***************************************************************************)
EXTENDS LaneSuspension, FiniteSetTheorems, TLAPS

Captured == {r \in Runs : captured[r] # 0}

LimitsTyped ==
  /\ maxConcurrent \in [Lanes -> Nat]
  /\ config \in [Lanes -> ConfigLimits]
  /\ captured \in [Runs -> ConfigLimits \cup {0}]
  /\ suspension \in [Runs -> {"none", "patching", "over"}]
  /\ laneResumeTimers \in [Lanes -> ConfigLimits \cup {0}]

\* What waits, runs or suspends has captured a limit.
OnlyCaptured ==
  /\ queue \in [Lanes -> Seq(Captured)]
  /\ active \in [Lanes -> SUBSET Runs]
  /\ inFlight \subseteq Captured
  /\ \A r \in Runs : body[r] = "executing" \/ suspension[r] = "patching" => r \in Captured

IInv == LimitsTyped /\ OnlyCaptured /\ SuspendedLaneHasTimer

-----------------------------------------------------------------------------
(* The pump *)

LEMMA PumpCountBounds ==
  ASSUME NEW S, NEW q \in Seq(S), NEW a \in SUBSET Runs, NEW m \in Nat
  PROVE  Q!PumpCount(q, a, m) \in 0..Len(q)
<1>1. Q!Cardinality(a) \in Nat
  <2>1. Cardinality(a) \in Nat
    BY FS_Subset, FS_CardinalityType, RunsFinite
  <2>2. Q!Cardinality(a) = Cardinality(a)
    BY DEF Q!Cardinality, Cardinality
  <2> QED
    BY <2>1, <2>2
<1>2. Len(q) \in Nat
  OBVIOUS
<1> QED
  BY <1>1, <1>2 DEF Q!PumpCount

\* A pump puts in flight what was queued and leaves the rest queued.
LEMMA DrainKeeps ==
  ASSUME NEW S \in SUBSET Runs, NEW ls,
         NEW q \in [Lanes -> Seq(S)], NEW a \in [Lanes -> SUBSET Runs],
         NEW mc \in [Lanes -> Nat], NEW g, NEW e, NEW f,
         Q!drainLanes(ls, q, a, mc, g, e, f)
  PROVE  /\ queue' \in [Lanes -> Seq(S)]
         /\ active' \in [Lanes -> SUBSET Runs]
         /\ inFlight' \subseteq f \cup S
<1> DEFINE n == [l \in Lanes |-> IF l \in ls THEN Q!PumpCount(q[l], a[l], mc[l]) ELSE 0]
           start == [l \in Lanes |-> IF l \in ls THEN Q!Started(q[l], a[l], mc[l]) ELSE {}]
           started == UNION {start[l] : l \in Lanes}
<1>1. \A l \in Lanes : n[l] \in 0..Len(q[l]) /\ Len(q[l]) \in Nat
  BY PumpCountBounds
<1>2. \A l \in Lanes : start[l] = {q[l][i] : i \in 1..n[l]}
  BY DEF Q!Started
<1>3. /\ queue' = [l \in Lanes |-> SubSeq(q[l], n[l] + 1, Len(q[l]))]
      /\ active' = [l \in Lanes |-> a[l] \cup start[l]]
      /\ inFlight' = f \cup started
  BY DEF Q!drainLanes
<1> HIDE DEF n, start
<1>4. \A l \in Lanes : start[l] \subseteq S
  <2> SUFFICES ASSUME NEW l \in Lanes, NEW i \in 1..n[l] PROVE q[l][i] \in S
    BY <1>2
  <2>1. i \in 1..Len(q[l]) /\ q[l] \in Seq(S)
    BY <1>1
  <2> QED
    BY <2>1
<1>5. \A l \in Lanes : SubSeq(q[l], n[l] + 1, Len(q[l])) \in Seq(S)
  <2> SUFFICES ASSUME NEW l \in Lanes PROVE SubSeq(q[l], n[l] + 1, Len(q[l])) \in Seq(S)
    OBVIOUS
  <2> DEFINE s == q[l]  k == n[l]
  <2>1. s \in Seq(S) /\ k \in Nat /\ k =< Len(s)
    BY <1>1
  <2> HIDE DEF s, k
  <2>2. SubSeq(s, k + 1, Len(s)) \in Seq(S)
    BY <2>1
  <2> QED
    BY <2>2 DEF s, k
<1>6. queue' \in [Lanes -> Seq(S)]
  BY <1>3, <1>5
<1>7. active' \in [Lanes -> SUBSET Runs]
  BY <1>3, <1>4
<1>8. inFlight' \subseteq f \cup S
  BY <1>3, <1>4
<1> QED
  BY <1>6, <1>7, <1>8

\* What a pump starts executing is captured, and so is what executed before.
LEMMA StartBodiesKeeps ==
  ASSUME NEW S, NEW b, NEW f, f \subseteq inFlight, inFlight' \subseteq f \cup S,
         Q!StartBodies(b), \A r \in Runs : b[r] = "executing" => r \in S
  PROVE  \A r \in Runs : body'[r] = "executing" => r \in S
BY DEF Q!StartBodies

\* The pump after a change of the limits alone.
LEMMA LimitChangeKeeps ==
  ASSUME IInv, NEW ls, NEW mc \in [Lanes -> Nat],
         Q!drainLanes(ls, queue, active, mc, generation, entry, inFlight),
         Q!StartBodies(body), UNCHANGED captured,
         \A r \in Runs : suspension'[r] = "patching" => suspension[r] = "patching"
  PROVE  OnlyCaptured'
<1>1. /\ Captured' = Captured
      /\ Captured \in SUBSET Runs
  BY DEF Captured
<1>2. /\ queue \in [Lanes -> Seq(Captured)]
      /\ active \in [Lanes -> SUBSET Runs]
      /\ inFlight \subseteq Captured
      /\ \A r \in Runs : body[r] = "executing" \/ suspension[r] = "patching" => r \in Captured
  BY DEF IInv, OnlyCaptured
<1>3. /\ queue' \in [Lanes -> Seq(Captured)]
      /\ active' \in [Lanes -> SUBSET Runs]
      /\ inFlight' \subseteq inFlight \cup Captured
  BY <1>1, <1>2, DrainKeeps
<1>4. \A r \in Runs : body'[r] = "executing" => r \in Captured
  BY <1>2, <1>3, StartBodiesKeeps
<1> QED
  BY <1>1, <1>2, <1>3, <1>4 DEF OnlyCaptured

LEMMA InsertAtKeeps ==
  ASSUME NEW S, NEW s \in Seq(S), NEW c \in S, NEW i \in 1..(Len(s) + 1)
  PROVE  Q!InsertAt(s, i, c) \in Seq(S)
<1>1. Len(s) \in Nat /\ i \in Int
  OBVIOUS
<1>2. SubSeq(s, 1, i - 1) \in Seq(S) /\ SubSeq(s, i, Len(s)) \in Seq(S)
  BY <1>1
<1> DEFINE u == SubSeq(s, 1, i - 1)  v == SubSeq(s, i, Len(s))  w == u \o <<c>>
<1>3. u \in Seq(S) /\ v \in Seq(S)
  BY <1>2
<1> HIDE DEF u, v
<1>4. w \in Seq(S)
  BY <1>3
<1> HIDE DEF w
<1>5. w \o v \in Seq(S)
  BY <1>3, <1>4
<1> QED
  BY <1>5 DEF Q!InsertAt, u, v, w

-----------------------------------------------------------------------------
(* The steps *)

LEMMA InitEstablishes == Init => IInv
<1> SUFFICES ASSUME Init PROVE IInv
  OBVIOUS
<1>1. LimitsTyped /\ SuspendedLaneHasTimer
  BY ConfigLimitsAssumption DEF Init, LimitsTyped, SuspendedLaneHasTimer
<1>2. <<>> \in Seq(Captured)
  OBVIOUS
<1>3. OnlyCaptured
  BY <1>2 DEF Init, OnlyCaptured
<1> QED
  BY <1>1, <1>3 DEF IInv

LEMMA StartPreserves ==
  ASSUME IInv, NEW r \in Runs, StartRun(r)
  PROVE  IInv'
<1> DEFINE l == LaneOf[r]
<1>1. LimitsTyped /\ OnlyCaptured /\ SuspendedLaneHasTimer /\ l \in Lanes
  BY LaneOfAssumption DEF IInv
<1>2. /\ captured' = [captured EXCEPT ![r] = config[l]]
      /\ UNCHANGED <<config, suspension, laneResumeTimers>>
      /\ Q!EnqueueRefused(r) \/ Q!EnqueueAccepted(r, l, Normal)
  BY DEF StartRun, Q!enqueueCommandInLane
<1>3. /\ captured' \in [Runs -> ConfigLimits \cup {0}]
      /\ r \in Captured' /\ Captured \subseteq Captured' /\ Captured' \in SUBSET Runs
  BY <1>1, <1>2, ConfigLimitsAssumption DEF LimitsTyped, Captured
<1>4. UNCHANGED maxConcurrent
  BY <1>2 DEF Q!EnqueueRefused, Q!EnqueueAccepted, Q!laneVars
<1>5. LimitsTyped' /\ SuspendedLaneHasTimer'
  BY <1>1, <1>2, <1>3, <1>4 DEF LimitsTyped, SuspendedLaneHasTimer
<1> DEFINE S == Captured'
<1>6. /\ queue \in [Lanes -> Seq(S)]
      /\ active \in [Lanes -> SUBSET Runs]
      /\ inFlight \subseteq S
      /\ \A s \in Runs : body[s] = "executing" \/ suspension[s] = "patching" => s \in S
      /\ maxConcurrent \in [Lanes -> Nat]
  BY <1>1, <1>3 DEF OnlyCaptured, LimitsTyped
<1>7. CASE Q!EnqueueRefused(r)
  <2>1. UNCHANGED <<queue, active, body, inFlight>>
    BY <1>7 DEF Q!EnqueueRefused, Q!laneVars
  <2> QED
    BY <1>2, <1>5, <1>6, <2>1 DEF OnlyCaptured, IInv
<1>8. CASE Q!EnqueueAccepted(r, l, Normal)
  <2>0. PICK i \in 1..(Len(queue[l]) + 1) :
          \E e :
            /\ Q!drainLanes({l}, [queue EXCEPT ![l] = Q!InsertAt(@, i, r)], active,
                            maxConcurrent, generation, [entry EXCEPT ![r] = e], inFlight)
            /\ Q!StartBodies(body)
    BY <1>8 DEF Q!EnqueueAccepted
  <2>1. PICK e :
          /\ Q!drainLanes({l}, [queue EXCEPT ![l] = Q!InsertAt(@, i, r)], active,
                          maxConcurrent, generation, [entry EXCEPT ![r] = e], inFlight)
          /\ Q!StartBodies(body)
    BY <2>0
  <2> DEFINE q == [queue EXCEPT ![l] = Q!InsertAt(@, i, r)]
  <2>2. q \in [Lanes -> Seq(S)]
    <3>1. queue[l] \in Seq(S) /\ r \in S
      BY <1>1, <1>3, <1>6
    <3> HIDE DEF S
    <3>2. Q!InsertAt(queue[l], i, r) \in Seq(S)
      BY <3>1, InsertAtKeeps
    <3> QED
      BY <1>6, <3>2
  <2>3. S \in SUBSET Runs /\ S = Captured'
    BY <1>3
  <2>4. Q!drainLanes({l}, q, active, maxConcurrent, generation, [entry EXCEPT ![r] = e],
                     inFlight)
    BY <2>1
  <2> HIDE DEF q, S
  <2>5. /\ queue' \in [Lanes -> Seq(S)]
        /\ active' \in [Lanes -> SUBSET Runs]
        /\ inFlight' \subseteq inFlight \cup S
    BY <1>6, <2>2, <2>3, <2>4, DrainKeeps
  <2>6. \A s \in Runs : body'[s] = "executing" => s \in S
    BY <1>6, <2>1, <2>5, StartBodiesKeeps
  <2> QED
    BY <1>2, <1>5, <1>6, <2>3, <2>5, <2>6 DEF OnlyCaptured, IInv
<1> QED
  BY <1>2, <1>7, <1>8

LEMMA EndPreserves ==
  ASSUME IInv, NEW r \in Runs, EndRun(r)
  PROVE  IInv'
<1>1. LimitsTyped /\ OnlyCaptured /\ SuspendedLaneHasTimer
  BY DEF IInv
<1>2. UNCHANGED <<maxConcurrent, config, captured, suspension, laneResumeTimers>>
  BY DEF EndRun, Q!TaskReturns, Q!TaskTimesOut, Q!Settle, Q!LateReturn, Q!laneVars
<1>3. Captured' = Captured /\ Captured \in SUBSET Runs
  BY <1>2 DEF Captured
<1>4. LimitsTyped' /\ SuspendedLaneHasTimer'
  BY <1>1, <1>2 DEF LimitsTyped, SuspendedLaneHasTimer
<1>5. /\ queue \in [Lanes -> Seq(Captured)]
      /\ active \in [Lanes -> SUBSET Runs]
      /\ maxConcurrent \in [Lanes -> Nat]
      /\ inFlight \subseteq Captured
      /\ \A s \in Runs : body[s] = "executing" \/ suspension[s] = "patching" => s \in Captured
  BY <1>1 DEF OnlyCaptured, LimitsTyped
<1>6. CASE Q!LateReturn(r)
  <2>1. /\ UNCHANGED <<queue, active, inFlight>>
        /\ \A s \in Runs : body'[s] = "executing" => body[s] = "executing"
    BY <1>6 DEF Q!LateReturn, Q!laneVars
  <2> QED
    BY <1>2, <1>3, <1>4, <1>5, <2>1 DEF OnlyCaptured, IInv
<1>7. ASSUME NEW b, Q!completeTask(r), r \in inFlight, Q!StartBodies([body EXCEPT ![r] = b]),
             b = "executing" => r \in Captured
      PROVE  IInv'
  <2>1. /\ queue' \in [Lanes -> Seq(Captured)]
        /\ active' \in [Lanes -> SUBSET Runs]
        /\ inFlight' \subseteq inFlight \cup Captured
    <3> DEFINE l == entry[r].lane
               released == [active EXCEPT ![l] = @ \ {r}]
    <3>1. CASE Q!drainLanes({l}, queue, released, maxConcurrent, generation,
                            [entry EXCEPT ![r] = Q!NoEntry], inFlight \ {r})
      <4>1. released \in [Lanes -> SUBSET Runs]
        BY <1>5
      <4> HIDE DEF released
      <4>2. /\ queue' \in [Lanes -> Seq(Captured)]
            /\ active' \in [Lanes -> SUBSET Runs]
            /\ inFlight' \subseteq (inFlight \ {r}) \cup Captured
        BY <1>3, <1>5, <3>1, <4>1, DrainKeeps
      <4> QED
        BY <4>2
    <3>2. CASE inFlight' = inFlight \ {r} /\ UNCHANGED <<queue, active>>
      BY <1>5, <3>2
    <3> QED
      BY <1>7, <3>1, <3>2 DEF Q!completeTask
  <2> DEFINE bs == [body EXCEPT ![r] = b]
  <2>2. \A s \in Runs : bs[s] = "executing" => s \in Captured
    BY <1>5, <1>7
  <2>3. Q!StartBodies(bs)
    BY <1>7
  <2> HIDE DEF bs
  <2>4. \A s \in Runs : body'[s] = "executing" => s \in Captured
    BY <2>1, <2>2, <2>3, StartBodiesKeeps
  <2> QED
    BY <1>2, <1>3, <1>4, <1>5, <2>1, <2>4 DEF OnlyCaptured, IInv
<1>8. CASE Q!TaskReturns(r)
  <2>1. /\ Q!completeTask(r) /\ r \in inFlight
        /\ Q!StartBodies([body EXCEPT ![r] = "returned"])
    BY <1>8 DEF Q!TaskReturns, Q!Settle
  <2> QED
    BY <2>1, <1>7, Zenon
<1>9. CASE Q!TaskTimesOut(r)
  <2>1. /\ Q!completeTask(r) /\ r \in inFlight
        /\ Q!StartBodies([body EXCEPT ![r] = "executing"])
    BY <1>9 DEF Q!TaskTimesOut, Q!Settle
  <2>2. r \in Captured
    BY <1>5, <2>1
  <2> QED
    BY <2>1, <2>2, <1>7
<1> QED
  BY <1>6, <1>8, <1>9 DEF EndRun

\* The patch of the store is awaited: nothing of the queue moves.
LEMMA PatchStepPreserves ==
  ASSUME IInv, NEW r \in Runs, SuspendSession(r) \/ PatchFails(r)
  PROVE  IInv'
<1>1. LimitsTyped /\ OnlyCaptured /\ SuspendedLaneHasTimer
  BY DEF IInv
<1>2. /\ UNCHANGED <<queue, active, inFlight, body, maxConcurrent, config, captured,
                     laneResumeTimers>>
      /\ suspension' \in [Runs -> {"none", "patching", "over"}]
      /\ \A s \in Runs : suspension'[s] = "patching" =>
                           suspension[s] = "patching" \/ body[s] = "executing"
  <2>1. suspension \in [Runs -> {"none", "patching", "over"}]
    BY <1>1 DEF LimitsTyped
  <2>2. CASE SuspendSession(r)
    BY <2>1, <2>2 DEF SuspendSession, queueVars
  <2>3. CASE PatchFails(r)
    BY <2>1, <2>3 DEF PatchFails, queueVars
  <2> QED
    BY <2>2, <2>3
<1>3. Captured' = Captured
  BY <1>2 DEF Captured
<1>4. LimitsTyped' /\ SuspendedLaneHasTimer'
  BY <1>1, <1>2 DEF LimitsTyped, SuspendedLaneHasTimer
<1>5. OnlyCaptured'
  BY <1>1, <1>2, <1>3 DEF OnlyCaptured
<1> QED
  BY <1>4, <1>5 DEF IInv

\* A limit set by setCommandLaneConcurrency, with the pump it may start.
LEMMA LimitSetKeeps ==
  ASSUME IInv, NEW l \in Lanes, NEW n \in Nat, Q!setCommandLaneConcurrency(l, n),
         UNCHANGED captured,
         \A r \in Runs : suspension'[r] = "patching" => suspension[r] = "patching"
  PROVE  /\ OnlyCaptured'
         /\ maxConcurrent' \in [Lanes -> Nat]
         /\ maxConcurrent' = [maxConcurrent EXCEPT ![l] = n]
<1>1. maxConcurrent \in [Lanes -> Nat]
  BY DEF IInv, LimitsTyped
<1>2. /\ maxConcurrent' = [maxConcurrent EXCEPT ![l] = n]
      /\ Q!drainLanes(IF n > 0 THEN {l} ELSE {}, queue, active, maxConcurrent',
                      generation, entry, inFlight)
      /\ Q!StartBodies(body)
  <2> DEFINE least == IF l \in {} THEN 1 ELSE 0
             m == IF n < least THEN least ELSE n
  <2>1. m = n
    OBVIOUS
  <2>2. /\ maxConcurrent' = [maxConcurrent EXCEPT ![l] = m]
        /\ Q!drainLanes(IF m > 0 THEN {l} ELSE {}, queue, active, maxConcurrent',
                        generation, entry, inFlight)
        /\ Q!StartBodies(body)
    BY Zenon DEF Q!setCommandLaneConcurrency
  <2> HIDE DEF m
  <2> QED
    BY <2>1, <2>2, Zenon
<1>3. maxConcurrent' \in [Lanes -> Nat]
  BY <1>1, <1>2
<1>4. OnlyCaptured'
  BY <1>2, <1>3, LimitChangeKeeps
<1> QED
  BY <1>2, <1>3, <1>4

LEMMA SuspensionPreserves ==
  ASSUME IInv, NEW r \in Runs, PatchSucceeds(r)
  PROVE  IInv'
<1> DEFINE l == LaneOf[r]
<1>1. LimitsTyped /\ OnlyCaptured /\ SuspendedLaneHasTimer /\ l \in Lanes
  BY LaneOfAssumption DEF IInv
<1>2. /\ suspension[r] = "patching"
      /\ suspension' = [suspension EXCEPT ![r] = "over"]
      /\ Q!setCommandLaneConcurrency(l, 0)
      /\ laneResumeTimers' = [laneResumeTimers EXCEPT ![l] = captured[r]]
      /\ UNCHANGED <<config, captured>>
  BY DEF PatchSucceeds
<1>3. \A s \in Runs : suspension'[s] = "patching" => suspension[s] = "patching"
  BY <1>2
<1> HIDE DEF l
<1>4. /\ OnlyCaptured'
      /\ maxConcurrent' \in [Lanes -> Nat]
      /\ maxConcurrent' = [maxConcurrent EXCEPT ![l] = 0]
  BY <1>1, <1>2, <1>3, LimitSetKeeps
\* The run that suspends captured a limit, so the timer is armed.
<1>5. captured[r] # 0 /\ captured[r] \in ConfigLimits \cup {0}
  BY <1>1, <1>2 DEF OnlyCaptured, LimitsTyped, Captured
<1>6. LimitsTyped'
  BY <1>1, <1>2, <1>4, <1>5 DEF LimitsTyped
<1>7. SuspendedLaneHasTimer'
  BY <1>1, <1>2, <1>4, <1>5 DEF LimitsTyped, SuspendedLaneHasTimer
<1> QED
  BY <1>4, <1>6, <1>7 DEF IInv

LEMMA ResumePreserves ==
  ASSUME IInv, NEW l \in Lanes, ResumeLane(l)
  PROVE  IInv'
<1> DEFINE n == laneResumeTimers[l]
<1>1. LimitsTyped /\ OnlyCaptured /\ SuspendedLaneHasTimer
  BY DEF IInv
<1>2. /\ n # 0 /\ Q!setCommandLaneConcurrency(l, n)
      /\ laneResumeTimers' = [laneResumeTimers EXCEPT ![l] = 0]
      /\ UNCHANGED <<config, captured, suspension>>
  BY DEF ResumeLane
<1>3. n \in Nat
  <2>1. n \in ConfigLimits \cup {0}
    BY <1>1 DEF LimitsTyped
  <2> HIDE DEF n
  <2> QED
    BY <2>1, ConfigLimitsAssumption
<1> HIDE DEF n
<1>4. /\ OnlyCaptured'
      /\ maxConcurrent' \in [Lanes -> Nat]
      /\ maxConcurrent' = [maxConcurrent EXCEPT ![l] = n]
  BY <1>2, <1>3, LimitSetKeeps
<1>5. LimitsTyped'
  BY <1>1, <1>2, <1>4 DEF LimitsTyped
<1>6. SuspendedLaneHasTimer'
  BY <1>1, <1>2, <1>4 DEF LimitsTyped, SuspendedLaneHasTimer
<1> QED
  BY <1>4, <1>5, <1>6 DEF IInv

\* No config gives a lane the limit zero, so a reload suspends none.
LEMMA ReloadPreserves ==
  ASSUME IInv, NEW cfg \in [Lanes -> ConfigLimits], applyGatewayLaneConcurrency(cfg)
  PROVE  IInv'
<1>1. LimitsTyped /\ OnlyCaptured
  BY DEF IInv
<1>2. /\ config' = cfg /\ maxConcurrent' = cfg
      /\ Q!drainLanes(Lanes, queue, active, cfg, generation, entry, inFlight)
      /\ Q!StartBodies(body)
      /\ UNCHANGED <<captured, suspension, laneResumeTimers>>
  BY DEF applyGatewayLaneConcurrency
<1>3. cfg \in [Lanes -> Nat] /\ \A l \in Lanes : cfg[l] # 0
  BY ConfigLimitsAssumption
<1>4. OnlyCaptured'
  BY <1>2, <1>3, LimitChangeKeeps
<1>5. LimitsTyped' /\ SuspendedLaneHasTimer'
  BY <1>1, <1>2, <1>3 DEF LimitsTyped, SuspendedLaneHasTimer
<1> QED
  BY <1>4, <1>5 DEF IInv

LEMMA StutterPreserves ==
  ASSUME IInv, UNCHANGED vars
  PROVE  IInv'
<1>1. UNCHANGED <<queue, active, inFlight, body, maxConcurrent, config, captured,
                  suspension, laneResumeTimers>>
  BY DEF vars, queueVars
<1>2. Captured' = Captured
  BY <1>1 DEF Captured
<1> QED
  BY <1>1, <1>2 DEF IInv, LimitsTyped, OnlyCaptured, SuspendedLaneHasTimer

LEMMA StepPreserves == IInv /\ [Next]_vars => IInv'
<1> SUFFICES ASSUME IInv, [Next]_vars PROVE IInv'
  OBVIOUS
<1>1. ASSUME NEW r \in Runs, StartRun(r) PROVE IInv'
  BY <1>1, StartPreserves
<1>2. ASSUME NEW r \in Runs, EndRun(r) PROVE IInv'
  BY <1>2, EndPreserves
<1>3. ASSUME NEW r \in Runs, SuspendSession(r) \/ PatchFails(r) PROVE IInv'
  BY <1>3, PatchStepPreserves
<1>4. ASSUME NEW r \in Runs, PatchSucceeds(r) PROVE IInv'
  BY <1>4, SuspensionPreserves
<1>5. ASSUME NEW l \in Lanes, ResumeLane(l) PROVE IInv'
  BY <1>5, ResumePreserves
<1>6. ASSUME NEW cfg \in [Lanes -> ConfigLimits], applyGatewayLaneConcurrency(cfg)
      PROVE  IInv'
  BY <1>6, ReloadPreserves
<1>7. CASE UNCHANGED vars
  BY <1>7, StutterPreserves
<1> QED
  BY <1>1, <1>2, <1>3, <1>4, <1>5, <1>6, <1>7 DEF Next

-----------------------------------------------------------------------------
(* A suspended lane resumes *)

\* A lane whose limit a quota suspension set to zero always has an armed timer
\* that will restore a limit above zero, whatever suspensions, patches, timers
\* and config reloads overlap (suspendSession and scheduleLaneAutoResume).
THEOREM SuspensionResumes == Spec => []SuspendedLaneHasTimer
<1>1. IInv => SuspendedLaneHasTimer
  BY DEF IInv
<1>. QED  BY <1>1, InitEstablishes, StepPreserves, PTL DEF Spec

-----------------------------------------------------------------------------
(* What the queue guarantees under suspensions and reloads *)

P == INSTANCE CommandQueueProofs WITH
       Commands <- Runs, ProbeLanes <- {}, Limits <- ConfigLimits \cup {0},
       Priorities <- {Normal}, Waiters <- {}, MaxGeneration <- 0

LEMMA SameCardinality ==
  \A S : Cardinality(S) = P!Cardinality(S) /\ Cardinality(S) = Q!Cardinality(S)
BY DEF Cardinality, P!Cardinality, Q!Cardinality

\* The assumptions of the queue hold of this instance.
LEMMA QueueAssumptions ==
  /\ P!CommandsFinite /\ P!LanesAssumption /\ P!LimitsAssumption
  /\ P!PrioritiesAssumption /\ P!MaxGenerationAssumption
<1>1. P!CommandsFinite
  BY RunsFinite DEF P!CommandsFinite, P!IsFiniteSet, IsFiniteSet
<1>2. P!LanesAssumption /\ P!LimitsAssumption
  BY ConfigLimitsAssumption DEF P!LanesAssumption, P!LimitsAssumption
<1>3. P!PrioritiesAssumption
  BY DEF P!PrioritiesAssumption, Normal
<1>4. P!MaxGenerationAssumption
  BY DEF P!MaxGenerationAssumption
<1>. QED  BY <1>1, <1>2, <1>3, <1>4

LEMMA SamePump ==
  ASSUME NEW ls, NEW q, NEW a, NEW m, NEW g, NEW e, NEW f,
         Q!drainLanes(ls, q, a, m, g, e, f)
  PROVE  P!drainLanes(ls, q, a, m, g, e, f)
<1>1. \A s, b, n : Q!PumpCount(s, b, n) = P!PumpCount(s, b, n)
  BY SameCardinality DEF Q!PumpCount, P!PumpCount
<1>2. \A s, b, n : Q!Started(s, b, n) = P!Started(s, b, n)
  BY <1>1 DEF Q!Started, P!Started
<1>. QED  BY <1>1, <1>2 DEF Q!drainLanes, P!drainLanes

LEMMA SameBodies == \A b : Q!StartBodies(b) => P!StartBodies(b)
BY DEF Q!StartBodies, P!StartBodies

LEMMA SameEnqueue ==
  ASSUME NEW r \in Runs, NEW l, NEW p, Q!enqueueCommandInLane(r, l, p)
  PROVE  P!enqueueCommandInLane(r, l, p)
<1>1. Q!EnqueueRefused(r) => P!EnqueueRefused(r)
  BY DEF Q!EnqueueRefused, P!EnqueueRefused, Q!laneVars, P!laneVars
<1>2. ASSUME Q!EnqueueAccepted(r, l, p) PROVE P!EnqueueAccepted(r, l, p)
  <2>. DEFINE e == [lane |-> l, priority |-> p, sequence |-> nextQueueSequence,
                    taskGeneration |-> 0]
  <2>1. PICK i \in 1..(Len(queue[l]) + 1) :
          /\ Q!InsertsAt(queue[l], i, e)
          /\ Q!drainLanes({l}, [queue EXCEPT ![l] = Q!InsertAt(@, i, r)], active,
                          maxConcurrent, generation, [entry EXCEPT ![r] = e], inFlight)
    BY <1>2 DEF Q!EnqueueAccepted
  <2>2. P!InsertsAt(queue[l], i, e)
    BY <2>1 DEF Q!InsertsAt, P!InsertsAt, Q!YieldsTo, P!YieldsTo
  <2>3. Q!InsertAt(queue[l], i, r) = P!InsertAt(queue[l], i, r)
    BY DEF Q!InsertAt, P!InsertAt
  <2>. HIDE DEF e
  <2>4. P!drainLanes({l}, [queue EXCEPT ![l] = P!InsertAt(@, i, r)], active,
                     maxConcurrent, generation, [entry EXCEPT ![r] = e], inFlight)
    BY <2>1, <2>3, SamePump
  <2>. QED  BY <1>2, <2>2, <2>4, SameBodies DEF Q!EnqueueAccepted, P!EnqueueAccepted, e
<1>. QED  BY <1>1, <1>2 DEF Q!enqueueCommandInLane, P!enqueueCommandInLane

LEMMA SameEnd ==
  ASSUME NEW r, Q!TaskReturns(r) \/ Q!TaskTimesOut(r) \/ Q!LateReturn(r)
  PROVE  P!TaskReturns(r) \/ P!TaskTimesOut(r) \/ P!LateReturn(r)
<1>1. \A a : Q!notifyActiveTaskWaiters(a) => P!notifyActiveTaskWaiters(a)
  BY DEF Q!notifyActiveTaskWaiters, P!notifyActiveTaskWaiters, Q!hasPendingActiveTasks,
         P!hasPendingActiveTasks
<1>2. Q!completeTask(r) => P!completeTask(r)
  BY <1>1, SamePump DEF Q!completeTask, P!completeTask, Q!NoEntry, P!NoEntry
<1>3. \A outcome, b : Q!Settle(r, outcome, b) => P!Settle(r, outcome, b)
  BY <1>2, SameBodies DEF Q!Settle, P!Settle
<1>4. Q!LateReturn(r) => P!LateReturn(r)
  BY DEF Q!LateReturn, P!LateReturn, Q!laneVars, P!laneVars
<1>. QED
  BY <1>3, <1>4 DEF Q!TaskReturns, P!TaskReturns, Q!TaskTimesOut, P!TaskTimesOut

LEMMA SameLimit ==
  ASSUME NEW l, NEW n, Q!setCommandLaneConcurrency(l, n)
  PROVE  P!setCommandLaneConcurrency(l, n)
BY SamePump, SameBodies DEF Q!setCommandLaneConcurrency, P!setCommandLaneConcurrency

\* Every step is a step of the queue, the reload of all limits, or none of the queue's.
LEMMA StepOfQueue ==
  ASSUME IInv, Next
  PROVE  \/ P!Next
         \/ \E cfg \in [Lanes -> ConfigLimits] : applyGatewayLaneConcurrency(cfg)
         \/ UNCHANGED queueVars
<1>1. ASSUME NEW r \in Runs, StartRun(r) PROVE P!Next
  <2>1. LaneOf[r] \in Lanes /\ P!enqueueCommandInLane(r, LaneOf[r], Normal)
    BY <1>1, LaneOfAssumption, SameEnqueue DEF StartRun
  <2>. QED  BY <2>1 DEF P!Next, P!CommandNext
<1>2. ASSUME NEW r \in Runs, EndRun(r) PROVE P!Next
  <2>1. P!TaskReturns(r) \/ P!TaskTimesOut(r) \/ P!LateReturn(r)
    BY <1>2, SameEnd DEF EndRun
  <2>. QED  BY <2>1 DEF P!Next, P!CommandNext
<1>3. ASSUME NEW l \in Lanes, NEW n \in ConfigLimits \cup {0}, Q!setCommandLaneConcurrency(l, n)
      PROVE  P!Next
  BY <1>3, SameLimit DEF P!Next, P!LaneNext
<1>4. ASSUME NEW r \in Runs, PatchSucceeds(r) PROVE P!Next
  BY <1>3, <1>4, LaneOfAssumption DEF PatchSucceeds
<1>5. ASSUME NEW l \in Lanes, ResumeLane(l) PROVE P!Next
  BY <1>3, <1>5 DEF ResumeLane, IInv, LimitsTyped
<1>6. ASSUME NEW r \in Runs, SuspendSession(r) \/ PatchFails(r) PROVE UNCHANGED queueVars
  BY <1>6 DEF SuspendSession, PatchFails
<1>. QED  BY <1>1, <1>2, <1>4, <1>5, <1>6 DEF Next

\* A step starts runs of a lane only within the limit it leaves.
WithinLimits ==
  \A l \in Lanes : ~(active'[l] \subseteq active[l]) => Cardinality(active'[l]) =< maxConcurrent'[l]

QueueInv == P!IInv /\ P!NoIdleCapacity

\* A reload pumps every lane with its new limit.
LEMMA ReloadPumps ==
  ASSUME QueueInv, NEW cfg \in [Lanes -> ConfigLimits], applyGatewayLaneConcurrency(cfg)
  PROVE  QueueInv' /\ WithinLimits
<1>1. /\ maxConcurrent' = cfg
      /\ P!drainLanes(Lanes, queue, active, cfg, generation, entry, inFlight)
      /\ P!StartBodies(body)
      /\ UNCHANGED <<generation, gatewayDraining, nextQueueSequence, promise, waiters>>
  BY SamePump, SameBodies DEF applyGatewayLaneConcurrency
<1>2. /\ P!WellFormed(queue, active, generation, entry, inFlight, promise)
      /\ P!Rest /\ P!NoLostWakeup /\ cfg \in [Lanes -> Nat]
  BY ConfigLimitsAssumption DEF QueueInv, P!IInv
<1>3. /\ P!WellFormed(queue', active', generation, entry', inFlight', promise)
      /\ \A l \in Lanes : active[l] \subseteq active'[l]
  BY <1>1, <1>2, P!DrainWellFormed, QueueAssumptions
<1>4. /\ \A l \in Lanes : queue'[l] # <<>> => P!Cardinality(active'[l]) >= cfg[l]
      /\ \A l \in Lanes : active'[l] # active[l] => P!Cardinality(active'[l]) =< cfg[l]
  BY <1>1, <1>2, P!DrainFills, QueueAssumptions
<1>5. P!Rest'
  BY <1>1, <1>2, P!StartBodiesTyped, QueueAssumptions DEF P!Rest
<1>6. P!NoLostWakeup'
  BY <1>1 DEF P!NoLostWakeup
<1>. QED
  BY <1>1, <1>3, <1>4, <1>5, <1>6, SameCardinality
     DEF QueueInv, P!IInv, P!NoIdleCapacity, WithinLimits

LEMMA QueueInit == Init => QueueInv
<1>. SUFFICES ASSUME Init PROVE QueueInv
  OBVIOUS
<1>1. maxConcurrent \in [Lanes -> Nat]
  BY ConfigLimitsAssumption DEF Init
<1>2. P!WellFormed(queue, active, generation, entry, inFlight, promise)
  BY DEF Init, P!WellFormed, P!Typed, P!QueuesHold, P!NoDuplicates, P!FlightHolds,
         P!NothingLost, P!SlotsMatch, P!NoEntry, Q!NoEntry
<1>3. P!Rest /\ P!NoLostWakeup /\ P!NoIdleCapacity
  BY <1>1 DEF Init, P!Rest, P!Waiter, P!NoLostWakeup, P!NoIdleCapacity
<1>. QED  BY <1>2, <1>3 DEF QueueInv, P!IInv

LEMMA QueueStep == ASSUME IInv, QueueInv, [Next]_vars PROVE QueueInv' /\ WithinLimits
<1>1. CASE UNCHANGED queueVars
  <2>1. P!IInv'
    BY <1>1, P!StepPreserves, QueueAssumptions DEF QueueInv, queueVars, P!vars, P!laneVars
  <2>. QED  BY <1>1, <2>1 DEF QueueInv, queueVars, P!NoIdleCapacity, WithinLimits
<1>2. CASE P!Next
  <2>1. P!IInv'
    BY <1>2, P!StepPreserves, QueueAssumptions DEF QueueInv
  <2>2. /\ P!NoIdleCapacity'
        /\ \A l \in Lanes : ~(active'[l] \subseteq active[l])
             => P!Cardinality(active'[l]) =< maxConcurrent'[l]
    BY <1>2, P!StepsFill, QueueAssumptions DEF QueueInv
  <2>. QED  BY <2>1, <2>2, SameCardinality DEF QueueInv, WithinLimits
<1>3. CASE UNCHANGED vars
  BY <1>1, <1>3 DEF vars
<1>. QED  BY <1>1, <1>2, <1>3, StepOfQueue, ReloadPumps

\* The invariants of the lanes and of the queue beneath them.
THEOREM QueueHolds == Spec => [](IInv /\ QueueInv)
<1>1. Init => IInv /\ QueueInv
  BY InitEstablishes, QueueInit
<1>2. IInv /\ QueueInv /\ [Next]_vars => (IInv /\ QueueInv)'
  BY StepPreserves, QueueStep
<1>. QED  BY <1>1, <1>2, PTL DEF Spec

\* No run is lost, settled while it waits or started twice, whatever is suspended,
\* resumed and reloaded.
THEOREM RunsAccountedFor == Spec => []P!PendingIsQueuedOrInFlight
<1>1. P!IInv => P!PendingIsQueuedOrInFlight
  BY QueueAssumptions, P!InvariantAccounts
<1>. QED  BY <1>1, QueueHolds, PTL DEF QueueInv

\* A resumed or reloaded lane keeps no run waiting beside a free slot.
THEOREM NoLaneIdles == Spec => []P!NoIdleCapacity
<1>1. QueueInv => P!NoIdleCapacity
  BY DEF QueueInv
<1>. QED  BY <1>1, QueueHolds, PTL

\* A lane whose limit is zero starts nothing: neither a run that is enqueued nor one
\* that ends nor the suspension itself pumps it.
SuspendedStartsNothing ==
  [][\A l \in Lanes : maxConcurrent'[l] = 0 => active'[l] \subseteq active[l]]_vars

\* A suspended lane stays throttled until its timer or a reload sets a limit.
THEOREM SuspensionHolds == Spec => SuspendedStartsNothing
<1>. DEFINE A == \A l \in Lanes : maxConcurrent'[l] = 0 => active'[l] \subseteq active[l]
<1>1. IInv /\ QueueInv /\ [Next]_vars => [A]_vars
  <2>. SUFFICES ASSUME IInv, QueueInv, [Next]_vars, NEW l \in Lanes, maxConcurrent'[l] = 0
                PROVE  active'[l] \subseteq active[l]
    OBVIOUS
  <2>1. QueueInv' /\ WithinLimits
    BY QueueStep
  <2>2. active'[l] \in SUBSET Runs
    BY <2>1 DEF QueueInv, P!IInv, P!WellFormed, P!Typed
  <2>3. IsFiniteSet(active'[l])
    BY <2>2, RunsFinite, FS_Subset
  <2>4. Cardinality(active'[l]) = 0 => active'[l] = {}
    BY <2>3, FS_EmptySet
  <2>5. Cardinality(active'[l]) \in Nat
    BY <2>3, FS_CardinalityType
  <2>. QED  BY <2>1, <2>4, <2>5 DEF WithinLimits
<1>. HIDE DEF A
<1>2. Spec => [][A]_vars
  BY <1>1, QueueHolds, PTL DEF Spec
<1>. QED  BY <1>2 DEF A, SuspendedStartsNothing

\* A run settles once, and a suspension or a reload takes back none that has started.
THEOREM RunsSettleOnce == Spec => P!SettlesOnce
<1>. DEFINE A == \A c \in Runs :
                   /\ promise[c] \in P!Settled => promise'[c] = promise[c]
                   /\ c \in inFlight => promise'[c] \in {"pending", "returned", "timedOut"}
<1>1. ASSUME IInv, QueueInv, [Next]_vars PROVE A
  <2>1. CASE promise' = promise
    BY <1>1, <2>1 DEF QueueInv, P!IInv, P!WellFormed, P!Typed, P!FlightHolds
  <2>2. CASE P!Next
    BY <1>1, <2>2, P!StepsSettle, QueueAssumptions DEF QueueInv
  <2>. QED
    BY <1>1, <2>1, <2>2, StepOfQueue DEF vars, queueVars, applyGatewayLaneConcurrency
<1>. HIDE DEF A
<1>2. IInv /\ QueueInv /\ [Next]_vars => [A]_P!vars
  BY <1>1
<1>3. Spec => [][A]_P!vars
  BY <1>2, QueueHolds, PTL DEF Spec
<1>. QED  BY <1>3 DEF A, P!SettlesOnce, P!Settled

\* The runs that wait while their lane is suspended start in the order they came.
THEOREM RunsStartInOrder == Spec => P!StartsInOrder
<1>. DEFINE S == P!Sorted(queue, entry, nextQueueSequence)
            A == \A c \in inFlight' \ inFlight :
                   \A d \in P!ToSet(queue'[entry'[c].lane]) : P!Before(c, d)
<1>1. Init => S
  BY DEF Init, P!Sorted
<1>2. ASSUME IInv, QueueInv, S, [Next]_vars PROVE S' /\ P!StartsAhead(inFlight)
  <2>1. CASE UNCHANGED queueVars
    BY <1>2, <2>1 DEF queueVars, P!StartsAhead
  <2>2. CASE P!Next
    BY <1>2, <2>2, P!StepsSorted, QueueAssumptions DEF QueueInv
  <2>3. ASSUME NEW cfg \in [Lanes -> ConfigLimits], applyGatewayLaneConcurrency(cfg)
        PROVE  S' /\ P!StartsAhead(inFlight)
    <3>1. /\ P!drainLanes(Lanes, queue, active, cfg, generation, entry, inFlight)
          /\ nextQueueSequence' = nextQueueSequence
      BY <2>3, SamePump DEF applyGatewayLaneConcurrency
    <3>2. P!WellFormed(queue, active, generation, entry, inFlight, promise)
      BY <1>2 DEF QueueInv, P!IInv
    <3>3. cfg \in [Lanes -> Nat]
      BY ConfigLimitsAssumption
    <3>4. P!Sorted(queue', entry', nextQueueSequence) /\ P!StartsAhead(inFlight)
      BY <1>2, <3>1, <3>2, <3>3, P!DrainSorted, QueueAssumptions
    <3>. QED  BY <3>1, <3>4
  <2>4. CASE UNCHANGED vars
    BY <2>1, <2>4 DEF vars
  <2>. QED  BY <1>2, <2>1, <2>2, <2>3, <2>4, StepOfQueue
<1>3. IInv /\ QueueInv /\ S /\ [Next]_vars => S' /\ [A]_P!vars
  BY <1>2 DEF P!StartsAhead, P!Ahead, P!Before
<1>. HIDE DEF S, A
<1>4. Spec => [][A]_P!vars
  BY <1>1, <1>3, QueueHolds, PTL DEF Spec
<1>. QED  BY <1>4 DEF A, P!StartsInOrder
=============================================================================
