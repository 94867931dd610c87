------------------------- MODULE HeartbeatWakeProofs -------------------------
(***************************************************************************)
(* Theorems about HeartbeatWake, for all sets of wakes and targets, delays *)
(* and numbers of registrations.                                           *)
(***************************************************************************)
EXTENDS HeartbeatWake, FiniteSetTheorems, TLAPS

RunsInFlight == {s \in Slots : InFlight(s)}

\* Registrations and disposals each took one generation, and a set handler is one
\* of the registrations that were not disposed of.
GenerationsCounted ==
  /\ IsFiniteSet(registered)
  /\ Cardinality(registered) =< MaxRegistrations
  /\ handlerGeneration =< Cardinality(registered) + Cardinality(disposed)
  /\ handler # 0 => handler \in registered

\* A run in flight is at a target of its batch, and so is what it has to do.
BatchesCovered ==
  \A s \in Slots : InFlight(s) =>
    \A t \in {runs[s].current} \cup runs[s].todo : runs[s].batch[t] # NoWake

\* A handler that is not running has a run left to start below the bound.
RunsCounted ==
  IF registered = {} THEN RunsInFlight = {}
  ELSE Cardinality(RunsInFlight) + (IF running THEN 0 ELSE 1) =< Cardinality(registered)

IInv ==
  /\ TypeOK
  /\ GenerationsCounted
  /\ BatchesCovered
  /\ RunsCounted
  /\ NoWakeLost
  /\ PendingHasTimer
  /\ LatestHandlerStays

-----------------------------------------------------------------------------
(* The helpers *)

LEMMA WakeKinds ==
  /\ NoWake \in Wake
  /\ NoWake.covers = {}
  /\ \A k \in Wake : k.covers \subseteq Wakes
  /\ \A k \in Wake : k # NoWake => k.from \in Wakes
  /\ \A w \in Wakes, c \in SUBSET Wakes :
       /\ [from |-> w, covers |-> c] \in Wake
       /\ [from |-> w, covers |-> c] # NoWake
BY DEF Wake, NoWake

\* Merging keeps every request that either wake stands for.
LEMMA MergedKeeps ==
  ASSUME NEW p \in Wake, NEW k \in Wake, k # NoWake
  PROVE  /\ Merged(p, k) \in Wake
         /\ Merged(p, k) # NoWake
         /\ Merged(p, k).covers = p.covers \cup k.covers
<1>1. CASE p = NoWake
  BY <1>1, WakeKinds DEF Merged
<1>2. CASE p # NoWake
  <2> DEFINE f == IF Priority[k.from] >= Priority[p.from] THEN k.from ELSE p.from
  <2>1. f \in Wakes /\ p.covers \cup k.covers \in SUBSET Wakes
    BY <1>2, WakeKinds
  <2>2. Merged(p, k) = [from |-> f, covers |-> p.covers \cup k.covers]
    BY <1>2 DEF Merged
  <2> QED
    BY <2>1, <2>2, WakeKinds
<1> QED
  BY <1>1, <1>2

\* A request that is queued adds its cover at one target and takes none away.
LEMMA QueuedKeeps ==
  ASSUME NEW p \in [Targets -> Wake], NEW u \in Targets, NEW k \in Wake, k # NoWake
  PROVE  /\ Queued(p, u, k) \in [Targets -> Wake]
         /\ \A t \in Targets : p[t].covers \subseteq Queued(p, u, k)[t].covers
         /\ k.covers \subseteq Queued(p, u, k)[u].covers
BY MergedKeeps DEF Queued

LEMMA QueuedBatchKeeps ==
  ASSUME NEW p \in [Targets -> Wake], NEW b \in [Targets -> Wake]
  PROVE  /\ QueuedBatch(p, b) \in [Targets -> Wake]
         /\ \A t \in Targets :
              p[t].covers \cup b[t].covers \subseteq QueuedBatch(p, b)[t].covers
<1> SUFFICES ASSUME NEW t \in Targets
             PROVE  /\ QueuedBatch(p, b)[t] \in Wake
                    /\ p[t].covers \cup b[t].covers \subseteq QueuedBatch(p, b)[t].covers
  BY DEF QueuedBatch
<1>1. CASE b[t] = NoWake
  BY <1>1, WakeKinds DEF QueuedBatch
<1>2. CASE b[t] # NoWake
  BY <1>2, MergedKeeps DEF QueuedBatch
<1> QED
  BY <1>1, <1>2

\* Scheduling leaves a timer armed.
LEMMA ScheduledArms ==
  ASSUME NEW tm \in Timer, NEW d \in Nat, NEW kind \in {"normal", "retry"}
  PROVE  Scheduled(tm, d, kind) \in Timer /\ Scheduled(tm, d, kind) # NoTimer
BY DEF Scheduled, Timer, NoTimer

LEMMA TimerTypes == NoTimer \in Timer /\ \A tm \in Timer : tm # NoTimer <=> tm.kind # "none"
BY DEF Timer, NoTimer

LEMMA CoolTypes ==
  /\ Cool \in [left : 0..RetryTicks, armed : BOOLEAN]
  /\ \A n \in 0..RetryTicks, b \in BOOLEAN :
       [left |-> n, armed |-> b] \in [left : 0..RetryTicks, armed : BOOLEAN]
<1>1. \A n \in 0..RetryTicks, b \in BOOLEAN :
        [left |-> n, armed |-> b] \in [left : 0..RetryTicks, armed : BOOLEAN]
  BY Zenon
<1>2. 0 \in 0..RetryTicks
  BY CoalesceAssumption
<1> QED
  BY <1>1, <1>2, Zenon DEF Cool

LEMMA RunKinds ==
  \A r \in {NoRun} \cup Run : r # NoRun =>
    /\ r.of \in Generations
    /\ r.batch \in [Targets -> Wake]
    /\ r.current \in Targets
    /\ r.todo \in SUBSET Targets
    /\ r.delay \in Nat
BY DEF Run

LEMMA InitInvariant == Init => IInv
<1> SUFFICES ASSUME Init PROVE IInv
  OBVIOUS
<1> USE DEF Init
<1>1. TypeOK
  <2>1. cooldown \in [Targets -> [left : 0..RetryTicks, armed : BOOLEAN]]
    BY CoolTypes, Zenon
  <2>2. /\ pendingWakes \in [Targets -> Wake]
        /\ runs \in [Slots -> {NoRun} \cup Run]
    BY WakeKinds
  <2>3. handler \in 0..handlerGeneration
    OBVIOUS
  <2> QED
    BY <2>1, <2>2, <2>3, TimerTypes DEF TypeOK
<1>2. GenerationsCounted
  BY FS_EmptySet, MaxRegistrationsAssumption DEF GenerationsCounted
<1>3. \A s \in Slots : ~InFlight(s)
  BY DEF InFlight
<1>4. BatchesCovered /\ RunsCounted
  BY <1>3 DEF BatchesCovered, RunsCounted, RunsInFlight
<1>5. NoWakeLost /\ PendingHasTimer /\ LatestHandlerStays
  BY DEF NoWakeLost, PendingHasTimer, LatestHandlerStays
<1> QED
  BY <1>1, <1>2, <1>4, <1>5 DEF IInv

-----------------------------------------------------------------------------
(* Registrations and disposals *)

LEMMA RegisterInvariant ==
  ASSUME IInv, setHeartbeatWakeHandler
  PROVE  IInv'
<1> USE DEF setHeartbeatWakeHandler
<1> DEFINE g == handlerGeneration + 1
<1>1. /\ TypeOK /\ GenerationsCounted /\ BatchesCovered /\ RunsCounted /\ NoWakeLost
      /\ LatestHandlerStays
  BY DEF IInv
<1>2. /\ handlerGeneration \in Nat
      /\ registered \subseteq 1..handlerGeneration
      /\ disposed \subseteq registered
      /\ IsFiniteSet(registered)
  BY <1>1, MaxRegistrationsAssumption DEF TypeOK, Generations, GenerationsCounted
<1>3. g \notin registered /\ registered' = registered \cup {g}
  BY <1>2
<1>4. /\ IsFiniteSet(registered')
      /\ Cardinality(registered') = Cardinality(registered) + 1
      /\ Cardinality(registered) \in Nat
  BY <1>2, <1>3, FS_AddElement, FS_CardinalityType
<1>5. Cardinality(disposed) \in Nat /\ Cardinality(disposed) =< Cardinality(registered)
  BY <1>2, FS_Subset, FS_CardinalityType
<1>6. GenerationsCounted'
  BY <1>1, <1>2, <1>3, <1>4, <1>5, MaxRegistrationsAssumption DEF GenerationsCounted
<1>7. g \in Generations
  BY <1>1, <1>2, <1>4, <1>5, MaxRegistrationsAssumption DEF GenerationsCounted, Generations
<1>8. timer' \in Timer /\ (SomePending(pendingWakes) => timer' # NoTimer)
  BY ScheduledArms, TimerTypes, CoalesceAssumption
<1>9. TypeOK'
  <2>1. cooldown' \in [Targets -> [left : 0..RetryTicks, armed : BOOLEAN]]
    BY CoolTypes, Zenon
  <2>2. registered' \subseteq 1..handlerGeneration' /\ disposed' \subseteq registered'
    BY <1>2, <1>3
  <2>3. handler' \in 0..handlerGeneration' /\ handlerGeneration' \in Generations
    BY <1>2, <1>7
  <2> QED
    BY <1>1, <1>8, <2>1, <2>2, <2>3 DEF TypeOK
<1>10. RunsInFlight' = RunsInFlight /\ BatchesCovered' /\ NoWakeLost'
  BY <1>1 DEF RunsInFlight, InFlight, BatchesCovered, NoWakeLost, InHand
<1>11. Cardinality(RunsInFlight) \in Nat
  BY SlotsAssumption, FS_Subset, FS_CardinalityType DEF RunsInFlight
<1>12. RunsCounted'
  <2>1. registered' # {} /\ ~running'
    BY <1>3
  <2>2. registered = {} => Cardinality(RunsInFlight) = 0 /\ Cardinality(registered) = 0
    BY <1>1, FS_EmptySet DEF RunsCounted
  <2> QED
    BY <1>1, <1>4, <1>10, <1>11, <2>1, <2>2 DEF RunsCounted
<1>13. PendingHasTimer'
  BY <1>8 DEF PendingHasTimer, SomePending
<1>14. LatestHandlerStays'
  BY <1>2, <1>3 DEF LatestHandlerStays
<1> QED
  BY <1>6, <1>9, <1>10, <1>12, <1>13, <1>14 DEF IInv

LEMMA DisposeInvariant ==
  ASSUME IInv, NEW g \in Generations, disposeWakeHandler(g)
  PROVE  IInv'
<1> USE DEF disposeWakeHandler
<1>1. TypeOK /\ GenerationsCounted /\ LatestHandlerStays
  BY DEF IInv
<1>2. /\ handlerGeneration \in Nat
      /\ registered \subseteq 1..handlerGeneration
      /\ disposed \subseteq registered /\ disposed' \subseteq registered
      /\ IsFiniteSet(registered)
      /\ handlerGeneration' \in {handlerGeneration, handlerGeneration + 1}
      /\ handler' \in {0, handler}
  BY <1>1, MaxRegistrationsAssumption DEF TypeOK, Generations, GenerationsCounted
<1>3. /\ IsFiniteSet(disposed) /\ IsFiniteSet(disposed')
      /\ Cardinality(disposed') = Cardinality(disposed) + 1
      /\ Cardinality(disposed) \in Nat
      /\ Cardinality(disposed') =< Cardinality(registered)
      /\ Cardinality(registered) \in Nat
  BY <1>2, FS_Subset, FS_AddElement, FS_CardinalityType
<1>4. GenerationsCounted'
  BY <1>1, <1>2, <1>3 DEF GenerationsCounted
<1>5. handlerGeneration' \in {0} \cup Generations
  BY <1>1, <1>2, <1>3, MaxRegistrationsAssumption DEF GenerationsCounted, Generations
<1>6. handler' \in 0..handlerGeneration'
  BY <1>1, <1>2 DEF TypeOK
<1>7. registered' \subseteq 1..handlerGeneration' /\ disposed' \subseteq registered'
  BY <1>2
<1>8. TypeOK'
  BY <1>1, <1>5, <1>6, <1>7 DEF TypeOK
<1>9. LatestHandlerStays'
  <2> SUFFICES ASSUME NEW h \in registered \ disposed', \A g2 \in registered : g2 =< h
               PROVE  handler' = h
    BY DEF LatestHandlerStays
  <2>1. handler = h
    BY <1>1 DEF LatestHandlerStays
  <2>2. h # g
    OBVIOUS
  <2> QED
    BY <2>1, <2>2
<1>10. PendingHasTimer'
  BY <1>1 DEF IInv, PendingHasTimer, SomePending, InFlight, TypeOK
<1>11. BatchesCovered' /\ RunsCounted' /\ NoWakeLost'
  BY DEF IInv, BatchesCovered, RunsCounted, RunsInFlight, NoWakeLost, InFlight, InHand
<1> QED
  BY <1>4, <1>8, <1>9, <1>10, <1>11 DEF IInv

-----------------------------------------------------------------------------
(* Requests, time and the timer *)

\* What the steps that touch neither the registrations nor the runs keep.
LEMMA SameRuns ==
  ASSUME IInv,
         UNCHANGED <<running, handler, handlerGeneration, runs, registered, disposed>>
  PROVE  GenerationsCounted' /\ BatchesCovered' /\ RunsCounted' /\ LatestHandlerStays'
<1>1. \A s \in Slots : InFlight(s)' <=> InFlight(s)
  BY DEF InFlight
<1>2. RunsInFlight' = RunsInFlight
  BY <1>1 DEF RunsInFlight
<1> QED
  BY <1>1, <1>2
  DEF IInv, GenerationsCounted, BatchesCovered, RunsCounted, LatestHandlerStays

LEMMA RequestInvariant ==
  ASSUME IInv, NEW w \in Wakes, requestHeartbeat(w)
  PROVE  IInv'
<1> DEFINE k == [from |-> w, covers |-> {w}]
           u == TargetOf[w]
<1> USE DEF requestHeartbeat
<1>1. TypeOK /\ NoWakeLost
  BY DEF IInv
<1>2. k \in Wake /\ k # NoWake /\ k.covers = {w} /\ u \in Targets
  BY WakeKinds, TargetOfAssumption
<1>3. /\ pendingWakes' \in [Targets -> Wake]
      /\ \A t \in Targets : pendingWakes[t].covers \subseteq pendingWakes'[t].covers
      /\ w \in pendingWakes'[u].covers
  <2>1. k.covers \subseteq Queued(pendingWakes, u, k)[u].covers
    BY <1>1, <1>2, QueuedKeeps DEF TypeOK
  <2> HIDE DEF k, u
  <2>2. pendingWakes \in [Targets -> Wake]
    BY <1>1 DEF TypeOK
  <2>3. pendingWakes' = Queued(pendingWakes, u, k)
    BY DEF k, u
  <2>4. /\ Queued(pendingWakes, u, k) \in [Targets -> Wake]
        /\ \A t \in Targets : pendingWakes[t].covers \subseteq Queued(pendingWakes, u, k)[t].covers
    BY <1>2, <2>2, QueuedKeeps
  <2> QED
    BY <1>2, <2>1, <2>3, <2>4
<1>4. timer' \in Timer /\ timer' # NoTimer
  BY <1>1, ScheduledArms, CoalesceAssumption DEF TypeOK
<1>5. TypeOK'
  BY <1>1, <1>3, <1>4 DEF TypeOK
<1>6. NoWakeLost'
  <2>0. \A s \in Slots : InFlight(s)' = InFlight(s) /\ InHand(s)' = InHand(s)
    BY DEF InFlight, InHand
  <2> SUFFICES ASSUME NEW v \in requested', v \notin served,
                      \A s \in Slots : ~(InFlight(s) /\ v \in InHand(s))
               PROVE  \E t \in Targets : v \in pendingWakes'[t].covers
    BY <2>0 DEF NoWakeLost
  <2>1. CASE v = w
    BY <1>2, <1>3, <2>1
  <2>2. CASE v # w
    BY <1>1, <1>3, <2>2 DEF NoWakeLost
  <2> QED
    BY <2>1, <2>2
<1> QED
  BY <1>4, <1>5, <1>6, SameRuns DEF IInv, PendingHasTimer

LEMMA TickInvariant ==
  ASSUME IInv, Tick
  PROVE  IInv'
<1> USE DEF Tick
<1>1. TypeOK /\ NoWakeLost /\ PendingHasTimer
  BY DEF IInv
<1>2. /\ timer' \in Timer
      /\ timer # NoTimer => timer' # NoTimer
  BY <1>1 DEF TypeOK, Timer, NoTimer, Minus1
<1>3. cooldown' \in [Targets -> [left : 0..RetryTicks, armed : BOOLEAN]]
  <2> SUFFICES ASSUME NEW t \in Targets
               PROVE  cooldown'[t] \in [left : 0..RetryTicks, armed : BOOLEAN]
    BY Zenon
  <2> DEFINE c == cooldown[t]
  <2>1. c \in [left : 0..RetryTicks, armed : BOOLEAN]
    BY <1>1 DEF TypeOK
  <2>2. CASE c.left =< 1
    BY <2>2, CoolTypes, Zenon
  <2>3. CASE ~(c.left =< 1)
    <3>1. c.left - 1 \in 0..RetryTicks
      BY <2>1, <2>3, CoalesceAssumption
    <3>2. cooldown'[t] = [c EXCEPT !.left = c.left - 1]
      BY <2>3
    <3> QED
      BY <2>1, <3>1, <3>2, Zenon
  <2> QED
    BY <2>2, <2>3
<1>4. TypeOK'
  BY <1>1, <1>2, <1>3 DEF TypeOK
<1>5. NoWakeLost' /\ PendingHasTimer'
  BY <1>1, <1>2 DEF NoWakeLost, PendingHasTimer, InFlight, InHand, SomePending
<1> QED
  BY <1>4, <1>5, SameRuns DEF IInv

LEMMA FireInvariant ==
  ASSUME IInv, FireIdle \/ FireWhileRunning
  PROVE  IInv'
<1>1. TypeOK /\ NoWakeLost
  BY DEF IInv
<1>2. timer.kind \in {"normal", "retry"} /\ timer.delay \in Nat
  BY <1>1 DEF FireIdle, FireWhileRunning, Due, TypeOK, Timer, NoTimer
<1>3. /\ timer' \in Timer
      /\ FireWhileRunning => timer' # NoTimer
  BY <1>2, ScheduledArms, TimerTypes DEF FireIdle, FireWhileRunning
<1>4. TypeOK'
  BY <1>1, <1>3 DEF FireIdle, FireWhileRunning, TypeOK
<1>5. NoWakeLost'
  BY <1>1 DEF FireIdle, FireWhileRunning, NoWakeLost, InFlight, InHand
<1>6. PendingHasTimer'
  BY <1>3 DEF FireIdle, FireWhileRunning, PendingHasTimer, SomePending
<1>7. UNCHANGED <<running, handler, handlerGeneration, runs, registered, disposed>>
  BY DEF FireIdle, FireWhileRunning
<1> QED
  BY <1>4, <1>5, <1>6, <1>7, SameRuns DEF IInv

-----------------------------------------------------------------------------
(* Runs *)

LEMMA InFlightRun ==
  ASSUME TypeOK, BatchesCovered, NEW s \in Slots, InFlight(s)
  PROVE  /\ runs[s] \in Run
         /\ runs[s].batch \in [Targets -> Wake]
         /\ runs[s].current \in Targets
         /\ runs[s].todo \in SUBSET Targets
         /\ runs[s].delay \in Nat
         /\ Current(s) \in Wake /\ Current(s) # NoWake
         /\ \A t \in Targets : runs[s].batch[t].covers \subseteq Wakes
<1>1. runs[s] \in {NoRun} \cup Run /\ runs[s] # NoRun
  BY DEF TypeOK, InFlight
<1>2. /\ runs[s].batch \in [Targets -> Wake]
      /\ runs[s].current \in Targets
      /\ runs[s].todo \in SUBSET Targets
      /\ runs[s].delay \in Nat
  BY <1>1, RunKinds
<1> QED
  BY <1>1, <1>2, WakeKinds DEF BatchesCovered, Current

LEMMA RunsInFlightFinite ==
  IsFiniteSet(RunsInFlight) /\ Cardinality(RunsInFlight) \in Nat
BY SlotsAssumption, FS_Subset, FS_CardinalityType DEF RunsInFlight

LEMMA StartInvariant ==
  ASSUME IInv, NEW s \in Slots, NEW t \in Targets, StartRun(s, t)
  PROVE  IInv'
<1> DEFINE todo == {t2 \in Targets \ {t} : pendingWakes[t2] # NoWake}
           r == [of |-> handler, batch |-> pendingWakes, current |-> t,
                 todo |-> todo, delay |-> timer.delay]
<1>1. TypeOK /\ GenerationsCounted /\ BatchesCovered /\ RunsCounted /\ NoWakeLost
      /\ LatestHandlerStays
  BY DEF IInv
<1>2. /\ runs[s] = NoRun /\ handler # 0 /\ ~running /\ pendingWakes[t] # NoWake
      /\ runs' = [runs EXCEPT ![s] = r]
      /\ pendingWakes' = [t2 \in Targets |-> NoWake]
      /\ timer' = NoTimer /\ scheduled' = FALSE /\ running' = TRUE
      /\ UNCHANGED <<handler, handlerGeneration, requested, served, registered, disposed,
                     cooldown>>
  BY DEF StartRun, FreeSlot
<1>3. r \in Run
  <2>1. handler \in Generations
    BY <1>1, <1>2, MaxRegistrationsAssumption DEF TypeOK, Generations
  <2>2. timer.delay \in Nat
    BY <1>1 DEF TypeOK, Timer, NoTimer
  <2> QED
    BY <1>1, <2>1, <2>2 DEF TypeOK, Run
<1>4. r # NoRun
  BY <1>2 DEF NoRun
<1> HIDE DEF r
<1>5. runs' \in [Slots -> {NoRun} \cup Run] /\ runs'[s] = r
  BY <1>1, <1>2, <1>3 DEF TypeOK
<1>6. TypeOK'
  BY <1>1, <1>2, <1>5, WakeKinds, TimerTypes DEF TypeOK
<1>7. /\ ~InFlight(s) /\ InFlight(s)'
      /\ \A s2 \in Slots \ {s} : runs'[s2] = runs[s2] /\ (InFlight(s2)' <=> InFlight(s2))
  BY <1>1, <1>2, <1>4, <1>5 DEF InFlight, TypeOK
<1>8. BatchesCovered'
  <2>1. \A t2 \in {r.current} \cup r.todo : r.batch[t2] # NoWake
    BY <1>2 DEF r
  <2> QED
    BY <1>1, <1>5, <1>7, <2>1 DEF BatchesCovered
<1>9. RunsCounted'
  <2>1. RunsInFlight' = RunsInFlight \cup {s} /\ s \notin RunsInFlight
    BY <1>7 DEF RunsInFlight
  <2>2. Cardinality(RunsInFlight') = Cardinality(RunsInFlight) + 1
    BY <2>1, RunsInFlightFinite, FS_AddElement
  <2>3. registered # {}
    BY <1>1, <1>2 DEF GenerationsCounted
  <2> QED
    BY <1>1, <1>2, <2>2, <2>3, RunsInFlightFinite DEF RunsCounted
<1>10. NoWakeLost'
  <2> SUFFICES ASSUME NEW w \in requested, w \notin served
               PROVE  \E s2 \in Slots : InFlight(s2)' /\ w \in InHand(s2)'
    BY <1>2 DEF NoWakeLost
  <2>1. CASE \E t2 \in Targets : w \in pendingWakes[t2].covers
    <3>1. PICK t2 \in Targets : w \in pendingWakes[t2].covers
      BY <2>1
    <3>2. pendingWakes[t2] # NoWake
      BY <3>1, WakeKinds
    <3>3. t2 \in {r.current} \cup r.todo /\ r.batch = pendingWakes
      BY <3>2 DEF r
    <3>4. w \in InHand(s)'
      BY <1>5, <3>1, <3>3 DEF InHand
    <3> QED
      BY <1>7, <3>4
  <2>2. CASE \E s2 \in Slots : InFlight(s2) /\ w \in InHand(s2)
    <3>1. PICK s2 \in Slots : InFlight(s2) /\ w \in InHand(s2)
      BY <2>2
    <3>2. s2 # s /\ InFlight(s2)' /\ InHand(s2)' = InHand(s2)
      BY <1>7, <3>1 DEF InHand
    <3> QED
      BY <3>1, <3>2
  <2> QED
    BY <1>1, <2>1, <2>2 DEF NoWakeLost
<1>11. GenerationsCounted' /\ LatestHandlerStays'
  BY <1>1, <1>2 DEF GenerationsCounted, LatestHandlerStays
<1>12. PendingHasTimer'
  BY <1>7 DEF PendingHasTimer
<1> QED
  BY <1>6, <1>8, <1>9, <1>10, <1>11, <1>12 DEF IInv

\* The end of a run frees its slot and clears the running flag, which nobody else
\* set unless a new handler cleared it before.
LEMMA EndRunKeeps ==
  ASSUME IInv, NEW s \in Slots, InFlight(s),
         NEW p \in [Targets -> Wake], NEW tm \in Timer, EndRun(s, p, tm),
         UNCHANGED <<handler, registered>>
  PROVE  /\ pendingWakes' = p /\ running' = FALSE /\ timer' \in Timer
         /\ runs' = [runs EXCEPT ![s] = NoRun]
         /\ runs' \in [Slots -> {NoRun} \cup Run]
         /\ \A s2 \in Slots \ {s} : InFlight(s2) => InFlight(s2)' /\ InHand(s2)' = InHand(s2)
         /\ BatchesCovered' /\ RunsCounted' /\ PendingHasTimer'
<1>1. TypeOK /\ BatchesCovered /\ RunsCounted
  BY DEF IInv
<1>2. runs[s].delay \in Nat
  BY <1>1, InFlightRun
<1>3. /\ pendingWakes' = p /\ running' = FALSE
      /\ runs' = [runs EXCEPT ![s] = NoRun]
      /\ timer' = IF SomePending(p) \/ scheduled
                  THEN Scheduled(tm, runs[s].delay, "normal") ELSE tm
  BY DEF EndRun
<1>4. runs' \in [Slots -> {NoRun} \cup Run] /\ runs'[s] = NoRun
      /\ \A s2 \in Slots \ {s} : runs'[s2] = runs[s2]
  BY <1>1, <1>3 DEF TypeOK
<1>5. timer' \in Timer /\ (SomePending(p) => timer' # NoTimer)
  BY <1>2, <1>3, ScheduledArms
<1>6. /\ ~InFlight(s)'
      /\ \A s2 \in Slots \ {s} : /\ InFlight(s2)' <=> InFlight(s2)
                                 /\ InHand(s2)' = InHand(s2)
  BY <1>4 DEF InFlight, InHand
<1>7. BatchesCovered'
  BY <1>1, <1>4, <1>6 DEF BatchesCovered
<1>8. RunsCounted'
  <2>1. RunsInFlight' = RunsInFlight \ {s} /\ s \in RunsInFlight
    BY <1>6 DEF RunsInFlight
  <2>2. Cardinality(RunsInFlight') = Cardinality(RunsInFlight) - 1
    BY <2>1, RunsInFlightFinite, FS_RemoveElement
  <2>3. registered # {}
    BY <1>1, <2>1 DEF RunsCounted
  <2>4. Cardinality(RunsInFlight) =< Cardinality(registered)
        /\ Cardinality(registered) \in Nat
    BY <1>1, <2>3, RunsInFlightFinite, FS_CardinalityType
    DEF RunsCounted, IInv, GenerationsCounted
  <2> QED
    BY <1>3, <2>2, <2>3, <2>4, RunsInFlightFinite DEF RunsCounted
<1>9. PendingHasTimer'
  BY <1>3, <1>5 DEF PendingHasTimer, SomePending
<1> QED
  BY <1>3, <1>4, <1>5, <1>6, <1>7, <1>8, <1>9

\* A run goes on to its next wake or ends; what it had in hand besides its current
\* wake stays in hand, or the stopped runner has answered it.
LEMMA NextWakeKeeps ==
  ASSUME IInv, NEW s \in Slots, InFlight(s),
         NEW p \in [Targets -> Wake], NEW tm \in Timer, NEW done \in SUBSET Wakes,
         NextWake(s, p, tm, done), UNCHANGED <<handler, registered>>
  PROVE  /\ pendingWakes' = p /\ running' \in BOOLEAN /\ timer' \in Timer
         /\ runs' \in [Slots -> {NoRun} \cup Run]
         /\ served' \subseteq Wakes /\ served \cup done \subseteq served'
         /\ BatchesCovered' /\ RunsCounted' /\ PendingHasTimer'
         /\ \A s2 \in Slots \ {s} : InFlight(s2) => InFlight(s2)' /\ InHand(s2)' = InHand(s2)
         /\ \A w \in InHand(s) : \/ w \in Current(s).covers
                                 \/ w \in served'
                                 \/ InFlight(s)' /\ w \in InHand(s)'
<1>1. TypeOK /\ BatchesCovered /\ RunsCounted
  BY DEF IInv
<1>2. /\ runs[s] \in Run
      /\ runs[s].current \in Targets /\ runs[s].todo \in SUBSET Targets
      /\ \A t \in Targets : runs[s].batch[t].covers \subseteq Wakes
  BY <1>1, InFlightRun
<1>3. CASE /\ EndRun(s, p, tm)
           /\ served' = served \cup done
                          \cup UNION {runs[s].batch[t].covers : t \in runs[s].todo}
  <2>1. served' \subseteq Wakes /\ served \cup done \subseteq served'
    BY <1>1, <1>2, <1>3 DEF TypeOK
  <2>2. \A w \in InHand(s) : w \in Current(s).covers \/ w \in served'
    BY <1>3 DEF InHand, Current
  <2> QED
    BY <1>3, <2>1, <2>2, EndRunKeeps
<1>4. CASE /\ \E t \in runs[s].todo :
                runs' = [runs EXCEPT ![s].current = t, ![s].todo = @ \ {t}]
           /\ pendingWakes' = p
           /\ timer' = tm
           /\ served' = served \cup done
           /\ UNCHANGED running
  <2>1. PICK t \in runs[s].todo :
               runs' = [runs EXCEPT ![s].current = t, ![s].todo = @ \ {t}]
    BY <1>4
  <2> DEFINE r == [runs[s] EXCEPT !.current = t, !.todo = @ \ {t}]
  <2>2. /\ r \in Run
        /\ r.current = t /\ r.todo = runs[s].todo \ {t} /\ r.batch = runs[s].batch
        /\ r.of = runs[s].of
    BY <1>2, <2>1 DEF Run
  <2>3. runs' = [runs EXCEPT ![s] = r]
    BY <2>1
  <2> HIDE DEF r
  <2>4. r # NoRun
    BY <1>1, <1>2, <2>2, RunKinds DEF NoRun, Run, Generations
  <2>5. /\ runs'[s] = r
        /\ \A s2 \in Slots \ {s} : runs'[s2] = runs[s2]
        /\ runs' \in [Slots -> {NoRun} \cup Run]
    BY <1>1, <2>2, <2>3 DEF TypeOK
  <2>6. /\ InFlight(s)'
        /\ \A s2 \in Slots \ {s} : /\ InFlight(s2)' <=> InFlight(s2)
                                   /\ InHand(s2)' = InHand(s2)
    BY <2>4, <2>5 DEF InFlight, InHand
  <2>7. BatchesCovered'
    BY <1>1, <2>1, <2>2, <2>5, <2>6 DEF BatchesCovered
  <2>8. RunsCounted'
    <3>1. RunsInFlight' = RunsInFlight
      BY <2>6 DEF RunsInFlight
    <3> QED
      BY <1>1, <1>4, <3>1 DEF RunsCounted
  <2>9. \A w \in InHand(s) : w \in Current(s).covers \/ w \in InHand(s)'
    BY <2>1, <2>2, <2>5 DEF InHand, Current
  <2>10. PendingHasTimer'
    BY <2>6 DEF PendingHasTimer
  <2>11. served' \subseteq Wakes /\ running' \in BOOLEAN
    BY <1>1, <1>4 DEF TypeOK
  <2> QED
    BY <1>4, <2>5, <2>6, <2>7, <2>8, <2>9, <2>10, <2>11
<1> QED
  BY <1>3, <1>4 DEF NextWake

LEMMA AnswersInvariant ==
  ASSUME IInv, NEW s \in Slots, NEW t \in Targets, HandlerAnswers(s, t)
  PROVE  IInv'
<1>1. TypeOK /\ BatchesCovered /\ NoWakeLost /\ GenerationsCounted /\ LatestHandlerStays
  BY DEF IInv
<1>2. /\ InFlight(s)
      /\ NextWake(s, pendingWakes, timer, Current(s).covers)
      /\ UNCHANGED <<scheduled, handler, handlerGeneration, requested, registered, disposed,
                     cooldown>>
  BY DEF HandlerAnswers, InFlight
<1> DEFINE done == Current(s).covers
<1>3. pendingWakes \in [Targets -> Wake] /\ timer \in Timer /\ done \in SUBSET Wakes
  BY <1>1, <1>2, InFlightRun DEF TypeOK, Current
<1> HIDE DEF done
<1>4. NextWake(s, pendingWakes, timer, done)
  BY <1>2 DEF done
<1>5. /\ pendingWakes' = pendingWakes /\ running' \in BOOLEAN /\ timer' \in Timer
      /\ runs' \in [Slots -> {NoRun} \cup Run]
      /\ served' \subseteq Wakes /\ served \cup done \subseteq served'
      /\ BatchesCovered' /\ RunsCounted' /\ PendingHasTimer'
  BY <1>2, <1>3, <1>4, NextWakeKeeps
<1>6. /\ \A s2 \in Slots \ {s} : InFlight(s2) => InFlight(s2)' /\ InHand(s2)' = InHand(s2)
      /\ \A w \in InHand(s) : \/ w \in Current(s).covers
                              \/ w \in served'
                              \/ InFlight(s)' /\ w \in InHand(s)'
  BY <1>2, <1>3, <1>4, NextWakeKeeps
<1>7. TypeOK'
  BY <1>1, <1>2, <1>5 DEF TypeOK
<1>8. NoWakeLost'
  <2> SUFFICES ASSUME NEW w \in requested, w \notin served',
                      \A u \in Targets : w \notin pendingWakes[u].covers
               PROVE  \E s2 \in Slots : InFlight(s2)' /\ w \in InHand(s2)'
    BY <1>2, <1>5 DEF NoWakeLost
  <2>1. PICK s2 \in Slots : InFlight(s2) /\ w \in InHand(s2)
    BY <1>1, <1>5 DEF NoWakeLost
  <2>2. CASE s2 = s
    BY <1>5, <1>6, <2>1, <2>2 DEF done
  <2>3. CASE s2 # s
    BY <1>6, <2>1, <2>3
  <2> QED
    BY <2>2, <2>3
<1>9. GenerationsCounted' /\ LatestHandlerStays'
  BY <1>1, <1>2 DEF GenerationsCounted, LatestHandlerStays
<1> QED
  BY <1>5, <1>7, <1>8, <1>9 DEF IInv

LEMMA CooledTypes ==
  ASSUME TypeOK, NEW ts \in SUBSET Targets
  PROVE  Cooled(ts) \in [Targets -> [left : 0..RetryTicks, armed : BOOLEAN]]
<1> DEFINE tm == Scheduled(timer, RetryTicks, "retry")
           a == tm.kind = "retry" /\ tm.left = RetryTicks
<1>1. Cooled(ts) = [t \in Targets |->
                      IF t \in ts THEN [left |-> RetryTicks, armed |-> a] ELSE cooldown[t]]
  BY DEF Cooled
<1>2. a \in BOOLEAN /\ RetryTicks \in 0..RetryTicks
  BY CoalesceAssumption
<1> HIDE DEF a
<1>3. [left |-> RetryTicks, armed |-> a] \in [left : 0..RetryTicks, armed : BOOLEAN]
  BY <1>2, Zenon
<1> QED
  BY <1>1, <1>3, Zenon DEF TypeOK

LEMMA BusyInvariant ==
  ASSUME IInv, NEW s \in Slots, HandlerBusy(s)
  PROVE  IInv'
<1>1. TypeOK /\ BatchesCovered /\ NoWakeLost /\ GenerationsCounted /\ LatestHandlerStays
  BY DEF IInv
<1> DEFINE p == Queued(pendingWakes, runs[s].current, Current(s))
           tm == Scheduled(timer, RetryTicks, "retry")
<1>2. /\ InFlight(s)
      /\ NextWake(s, p, tm, {})
      /\ cooldown' = Cooled({runs[s].current})
      /\ UNCHANGED <<scheduled, handler, handlerGeneration, requested, registered, disposed>>
  BY DEF HandlerBusy, InFlight
<1>3. /\ p \in [Targets -> Wake]
      /\ \A t \in Targets : pendingWakes[t].covers \subseteq p[t].covers
      /\ \E t \in Targets : Current(s).covers \subseteq p[t].covers
  <2>1. /\ runs[s].current \in Targets
        /\ Current(s) \in Wake /\ Current(s) # NoWake
        /\ pendingWakes \in [Targets -> Wake]
    BY <1>1, <1>2, InFlightRun DEF TypeOK
  <2> QED
    BY <2>1, QueuedKeeps
<1>4. tm \in Timer
  BY <1>1, ScheduledArms, CoalesceAssumption DEF TypeOK
<1>5. cooldown' \in [Targets -> [left : 0..RetryTicks, armed : BOOLEAN]]
  BY <1>1, <1>2, CooledTypes, InFlightRun
<1> HIDE DEF p, tm
<1>6. /\ pendingWakes' = p /\ running' \in BOOLEAN /\ timer' \in Timer
      /\ runs' \in [Slots -> {NoRun} \cup Run]
      /\ served' \subseteq Wakes /\ served \subseteq served'
      /\ BatchesCovered' /\ RunsCounted' /\ PendingHasTimer'
  BY <1>2, <1>3, <1>4, NextWakeKeeps
<1>7. /\ \A s2 \in Slots \ {s} : InFlight(s2) => InFlight(s2)' /\ InHand(s2)' = InHand(s2)
      /\ \A w \in InHand(s) : \/ w \in Current(s).covers
                              \/ w \in served'
                              \/ InFlight(s)' /\ w \in InHand(s)'
  BY <1>2, <1>3, <1>4, NextWakeKeeps
<1>8. TypeOK'
  BY <1>1, <1>2, <1>3, <1>5, <1>6 DEF TypeOK
<1>9. NoWakeLost'
  <2> SUFFICES ASSUME NEW w \in requested, w \notin served',
                      \A u \in Targets : w \notin p[u].covers
               PROVE  \E s2 \in Slots : InFlight(s2)' /\ w \in InHand(s2)'
    BY <1>2, <1>6 DEF NoWakeLost
  <2>1. PICK s2 \in Slots : InFlight(s2) /\ w \in InHand(s2)
    BY <1>1, <1>3, <1>6 DEF NoWakeLost
  <2>2. CASE s2 = s
    BY <1>3, <1>7, <2>1, <2>2
  <2>3. CASE s2 # s
    BY <1>7, <2>1, <2>3
  <2> QED
    BY <2>2, <2>3
<1>10. GenerationsCounted' /\ LatestHandlerStays'
  BY <1>1, <1>2 DEF GenerationsCounted, LatestHandlerStays
<1> QED
  BY <1>6, <1>8, <1>9, <1>10 DEF IInv

LEMMA ThrowsInvariant ==
  ASSUME IInv, NEW s \in Slots, HandlerThrows(s)
  PROVE  IInv'
<1>1. TypeOK /\ BatchesCovered /\ NoWakeLost /\ GenerationsCounted /\ LatestHandlerStays
  BY DEF IInv
<1> DEFINE p == QueuedBatch(pendingWakes, runs[s].batch)
           tm == Scheduled(timer, RetryTicks, "retry")
<1>2. /\ InFlight(s)
      /\ EndRun(s, p, tm)
      /\ cooldown' = Cooled({t \in Targets : runs[s].batch[t] # NoWake})
      /\ UNCHANGED <<scheduled, handler, handlerGeneration, requested, served, registered,
                     disposed>>
  BY DEF HandlerThrows, InFlight
<1>3. /\ p \in [Targets -> Wake]
      /\ \A t \in Targets :
           pendingWakes[t].covers \cup runs[s].batch[t].covers \subseteq p[t].covers
  <2>1. runs[s].batch \in [Targets -> Wake] /\ pendingWakes \in [Targets -> Wake]
    BY <1>1, <1>2, InFlightRun DEF TypeOK
  <2> QED
    BY <2>1, QueuedBatchKeeps
<1>4. tm \in Timer
  BY <1>1, ScheduledArms, CoalesceAssumption DEF TypeOK
<1>5. cooldown' \in [Targets -> [left : 0..RetryTicks, armed : BOOLEAN]]
  BY <1>1, <1>2, CooledTypes
<1> HIDE DEF p, tm
<1>6. /\ pendingWakes' = p /\ running' = FALSE /\ timer' \in Timer
      /\ runs' \in [Slots -> {NoRun} \cup Run]
      /\ \A s2 \in Slots \ {s} : InFlight(s2) => InFlight(s2)' /\ InHand(s2)' = InHand(s2)
      /\ BatchesCovered' /\ RunsCounted' /\ PendingHasTimer'
  BY <1>2, <1>3, <1>4, EndRunKeeps
<1>7. TypeOK'
  BY <1>1, <1>2, <1>3, <1>5, <1>6 DEF TypeOK
<1>8. NoWakeLost'
  <2> SUFFICES ASSUME NEW w \in requested, w \notin served,
                      \A u \in Targets : w \notin p[u].covers
               PROVE  \E s2 \in Slots : InFlight(s2)' /\ w \in InHand(s2)'
    BY <1>2, <1>6 DEF NoWakeLost
  <2>1. PICK s2 \in Slots : InFlight(s2) /\ w \in InHand(s2)
    BY <1>1, <1>3 DEF NoWakeLost
  <2>2. s2 # s
    <3>1. {runs[s].current} \cup runs[s].todo \subseteq Targets
      BY <1>1, <1>2, InFlightRun
    <3>2. w \notin InHand(s)
      BY <1>3, <3>1 DEF InHand
    <3> QED
      BY <2>1, <3>2
  <2> QED
    BY <1>6, <2>1, <2>2
<1>9. GenerationsCounted' /\ LatestHandlerStays'
  BY <1>1, <1>2 DEF GenerationsCounted, LatestHandlerStays
<1> QED
  BY <1>6, <1>7, <1>8, <1>9 DEF IInv

-----------------------------------------------------------------------------
(* The invariant and the theorems *)

LEMMA StepInvariant == IInv /\ [Next]_vars => IInv'
<1> SUFFICES ASSUME IInv, [Next]_vars PROVE IInv'
  OBVIOUS
<1>1. CASE UNCHANGED vars
  <2>1. UNCHANGED <<pendingWakes, timer, scheduled, running, handler, handlerGeneration,
                    runs, requested, served, registered, disposed, cooldown>>
    BY <1>1 DEF vars, moduleVars
  <2>2. TypeOK' /\ NoWakeLost' /\ PendingHasTimer'
    BY <2>1 DEF IInv, TypeOK, NoWakeLost, PendingHasTimer, InFlight, InHand, SomePending
  <2> QED
    BY <2>1, <2>2, SameRuns DEF IInv
<1>2. CASE Next
  BY <1>2, RequestInvariant, RegisterInvariant, DisposeInvariant, TickInvariant,
     FireInvariant, StartInvariant, AnswersInvariant, BusyInvariant, ThrowsInvariant
  DEF Next
<1> QED
  BY <1>1, <1>2

LEMMA Invariant == Spec => []IInv
BY InitInvariant, StepInvariant, PTL DEF Spec

\* The lists of wakes, the timer, the generations and the runs keep their types.
THEOREM TypeCorrect == Spec => []TypeOK
<1>1. IInv => TypeOK
  BY DEF IInv
<1> QED
  BY <1>1, Invariant, PTL

\* queuePendingWakeReason, the busy retry, the throw and the change of the handler
\* lose no wake, however many requests coalesce: it is pending, in hand or answered.
THEOREM WakesKept == Spec => []NoWakeLost
<1>1. IInv => NoWakeLost
  BY DEF IInv
<1> QED
  BY <1>1, Invariant, PTL

\* A registered handler never sits beside a pending wake without a timer or a run.
THEOREM PendingScheduled == Spec => []PendingHasTimer
<1>1. IInv => PendingHasTimer
  BY DEF IInv
<1> QED
  BY <1>1, Invariant, PTL

\* The disposer of an old runner leaves the handler of a newer one in place.
THEOREM LatestKept == Spec => []LatestHandlerStays
<1>1. IInv => LatestHandlerStays
  BY DEF IInv
<1> QED
  BY <1>1, Invariant, PTL

\* As many runs may overlap as handlers were registered, and no more.
THEOREM OverlapBound == Spec => []OverlapBounded
<1>1. IInv => OverlapBounded
  <2> SUFFICES ASSUME IInv PROVE Cardinality(RunsInFlight) =< Cardinality(registered)
    BY DEF OverlapBounded, RunsInFlight
  <2>1. Cardinality(registered) \in Nat
    BY FS_CardinalityType DEF IInv, GenerationsCounted
  <2> QED
    BY <2>1, RunsInFlightFinite, FS_EmptySet DEF IInv, RunsCounted
<1> QED
  BY <1>1, Invariant, PTL

-----------------------------------------------------------------------------
(* Retry delays *)

\* A target whose retry is armed has all of its delay before the one timer, which is
\* a retry timer and gives way to nothing.
RetryAhead ==
  \A t \in Targets : cooldown[t].armed =>
    timer.kind = "retry" /\ timer.left >= cooldown[t].left /\ cooldown[t].left > 0

CoolInv == TypeOK /\ RetryAhead

LEMMA TimerFields ==
  /\ \A tm \in Timer : tm.left \in Nat /\ tm.delay \in Nat
  /\ NoTimer.kind # "retry" /\ NoTimer.left = 0
BY DEF Timer, NoTimer

LEMMA RetryStays ==
  \A tm, d, k : tm.kind = "retry" => Scheduled(tm, d, k) = tm
BY DEF Scheduled

LEMMA NothingArmedWhenDue ==
  ASSUME CoolInv, Due
  PROVE  \A t \in Targets : ~cooldown[t].armed
<1>1. \A t \in Targets : cooldown[t].left \in Nat
  BY CoalesceAssumption DEF CoolInv, TypeOK
<1>. QED  BY <1>1, TimerFields DEF CoolInv, TypeOK, RetryAhead, Due

\* The end of the handling of a wake keeps a retry timer.
LEMMA RetryKeptByRun ==
  ASSUME NEW s, NEW pending, NEW tm, NEW done, tm.kind = "retry",
         NextWake(s, pending, tm, done) \/ EndRun(s, pending, tm)
  PROVE  timer' = tm
BY RetryStays DEF NextWake, EndRun

\* What a retry of the targets ts leaves, if the timer of the step is kept.
LEMMA CooledAhead ==
  ASSUME CoolInv, NEW ts \in SUBSET Targets, cooldown' = Cooled(ts),
         Scheduled(timer, RetryTicks, "retry").kind = "retry"
           => timer' = Scheduled(timer, RetryTicks, "retry")
  PROVE  RetryAhead'
<1>. DEFINE tm == Scheduled(timer, RetryTicks, "retry")
<1>. SUFFICES ASSUME NEW t \in Targets, cooldown'[t].armed
              PROVE  timer'.kind = "retry" /\ timer'.left >= cooldown'[t].left
                     /\ cooldown'[t].left > 0
  BY DEF RetryAhead
<1>1. CASE t \in ts
  <2>1. cooldown'[t] = [left |-> RetryTicks,
                        armed |-> tm.kind = "retry" /\ tm.left = RetryTicks]
    BY <1>1 DEF Cooled
  <2>2. cooldown'[t].left = RetryTicks
    BY <2>1
  <2>3. tm.kind = "retry" /\ tm.left = RetryTicks
    <3>1. \A b : [left |-> RetryTicks, armed |-> b].armed = b
      BY Zenon
    <3>2. \E b : /\ cooldown'[t] = [left |-> RetryTicks, armed |-> b]
                 /\ b = (tm.kind = "retry" /\ tm.left = RetryTicks)
      BY <2>1, Zenon
    <3>3. cooldown'[t].armed = (tm.kind = "retry" /\ tm.left = RetryTicks)
      BY <3>1, <3>2, Zenon
    <3>. QED  BY <3>3, Zenon
  <2>. QED  BY <2>2, <2>3, CoalesceAssumption
<1>2. CASE t \notin ts
  <2>1. cooldown'[t] = cooldown[t]
    BY <1>2 DEF Cooled
  <2>2. timer.kind = "retry" /\ timer.left >= cooldown[t].left /\ cooldown[t].left > 0
    BY <2>1 DEF CoolInv, RetryAhead
  <2>. QED  BY <2>1, <2>2, RetryStays
<1>. QED  BY <1>1, <1>2

LEMMA CoolStep == ASSUME CoolInv, [Next]_vars PROVE RetryAhead'
<1>1. CASE UNCHANGED vars
  BY <1>1 DEF vars, moduleVars, CoolInv, RetryAhead
<1>2. ASSUME NEW w \in Wakes, requestHeartbeat(w) PROVE RetryAhead'
  BY <1>2, RetryStays DEF requestHeartbeat, CoolInv, RetryAhead
<1>3. CASE setHeartbeatWakeHandler
  <2>1. Cool.armed = FALSE
    BY Zenon DEF Cool
  <2>. QED  BY <1>3, <2>1 DEF setHeartbeatWakeHandler, RetryAhead
<1>4. ASSUME NEW g \in Generations, disposeWakeHandler(g) PROVE RetryAhead'
  BY <1>4 DEF disposeWakeHandler, CoolInv, RetryAhead
<1>5. CASE Tick
  <2>. SUFFICES ASSUME NEW t \in Targets, cooldown'[t].armed
                PROVE  timer'.kind = "retry" /\ timer'.left >= cooldown'[t].left
                       /\ cooldown'[t].left > 0
    BY DEF RetryAhead
  <2>1. Cool.armed = FALSE
    BY Zenon DEF Cool
  <2>2. cooldown[t].left > 1 /\ cooldown'[t] = [cooldown[t] EXCEPT !.left = @ - 1]
    BY <1>5, <2>1, CoalesceAssumption DEF Tick, CoolInv, TypeOK
  <2>3. cooldown'[t].left = cooldown[t].left - 1 /\ cooldown[t].armed
        /\ cooldown[t].left \in Int
    BY <2>2, CoalesceAssumption DEF CoolInv, TypeOK
  <2>4. timer.kind = "retry" /\ timer.left >= cooldown[t].left /\ timer.left \in Nat
    BY <2>3, TimerFields DEF CoolInv, RetryAhead, TypeOK
  <2>5. timer'.kind = timer.kind /\ timer'.left = timer.left - 1
    BY <1>5, <2>2, <2>3, <2>4, TimerFields DEF Tick, Minus1, CoolInv, TypeOK, Timer, NoTimer
  <2>. QED  BY <2>2, <2>3, <2>4, <2>5
<1>6. CASE FireIdle \/ FireWhileRunning
  BY <1>6, NothingArmedWhenDue DEF FireIdle, FireWhileRunning, RetryAhead
<1>7. ASSUME NEW s \in Slots, NEW t \in Targets, StartRun(s, t) PROVE RetryAhead'
  BY <1>7, NothingArmedWhenDue DEF StartRun, RetryAhead
<1>8. ASSUME NEW s \in Slots, NEW t \in Targets, HandlerAnswers(s, t) PROVE RetryAhead'
  BY <1>8, RetryKeptByRun DEF HandlerAnswers, CoolInv, RetryAhead
<1>9. ASSUME NEW s \in Slots, HandlerBusy(s) PROVE RetryAhead'
  <2>1. runs[s].current \in Targets
    BY <1>9, RunKinds DEF HandlerBusy, CoolInv, TypeOK
  <2>. QED  BY <1>9, <2>1, RetryKeptByRun, CooledAhead DEF HandlerBusy
<1>10. ASSUME NEW s \in Slots, HandlerThrows(s) PROVE RetryAhead'
  BY <1>10, RetryKeptByRun, CooledAhead DEF HandlerThrows
<1>. QED  BY <1>1, <1>2, <1>3, <1>4, <1>5, <1>6, <1>7, <1>8, <1>9, <1>10 DEF Next

\* Only the timer starts a pass over the pending wakes.
LEMMA OnlyTimerStarts ==
  ASSUME CoolInv, [Next]_vars, NEW s \in Slots, ~InFlight(s), runs'[s] # NoRun
  PROVE  Due
<1>1. runs[s] = NoRun
  BY DEF InFlight
<1>2. runs' # runs
  BY <1>1
<1>3. ASSUME NEW s2 \in Slots, runs[s2] # NoRun PROVE \A r : runs' # [runs EXCEPT ![s2] = r]
  BY <1>1, <1>3 DEF CoolInv, TypeOK
<1>4. ASSUME NEW s2 \in Slots, runs[s2] # NoRun, NEW pending, NEW tm, NEW done,
             NextWake(s2, pending, tm, done) \/ EndRun(s2, pending, tm)
      PROVE  FALSE
  <2>1. CASE EndRun(s2, pending, tm)
    BY <1>3, <1>4, <2>1 DEF EndRun
  <2>2. ASSUME NEW t \in Targets,
               runs' = [runs EXCEPT ![s2].current = t, ![s2].todo = @ \ {t}]
        PROVE  FALSE
    <3>1. runs'[s] = runs[s]
      BY <1>1, <1>4, <2>2 DEF CoolInv, TypeOK
    <3>. QED  BY <1>1, <3>1
  <2>3. runs[s2].todo \subseteq Targets
    BY <1>4, RunKinds DEF CoolInv, TypeOK
  <2>. QED  BY <1>4, <2>1, <2>2, <2>3 DEF NextWake
<1>5. ~UNCHANGED vars
  BY <1>2 DEF vars, moduleVars
<1>6. ~(\E s2 \in Slots : \/ HandlerBusy(s2) \/ HandlerThrows(s2)
                          \/ \E t \in Targets : HandlerAnswers(s2, t))
  BY <1>4 DEF HandlerBusy, HandlerThrows, HandlerAnswers
<1>7. ~(\/ \E w \in Wakes : requestHeartbeat(w)
        \/ setHeartbeatWakeHandler
        \/ \E g \in Generations : disposeWakeHandler(g)
        \/ Tick \/ FireIdle \/ FireWhileRunning)
  BY <1>2 DEF requestHeartbeat, setHeartbeatWakeHandler, disposeWakeHandler, Tick, FireIdle,
    FireWhileRunning
<1>8. \E s2 \in Slots, t \in Targets : StartRun(s2, t)
  BY <1>5, <1>6, <1>7 DEF Next
<1>. QED  BY <1>8 DEF StartRun

\* A retry whose timer was armed for all of its delay is a minimum delay: a handler
\* never gets the target before, whatever is requested, answered or thrown meanwhile.
THEOREM ArmedDelayKept == Spec => ArmedCooldownKept
<1>. DEFINE Step == \A s \in Slots, t \in Targets : StartsWith(s, t) => ~cooldown[t].armed
<1>1. Init => RetryAhead
  <2>1. Cool.armed = FALSE
    BY Zenon DEF Cool
  <2>. QED  BY <2>1 DEF Init, RetryAhead
<1>2. TypeOK /\ RetryAhead /\ [Next]_vars => RetryAhead'
  BY CoolStep DEF CoolInv
<1>3. TypeOK /\ RetryAhead /\ [Next]_vars => [Step]_vars
  BY OnlyTimerStarts, NothingArmedWhenDue DEF CoolInv, StartsWith
<1>4. Spec => []RetryAhead
  BY <1>1, <1>2, TypeCorrect, PTL DEF Spec
<1>. QED  BY <1>3, <1>4, TypeCorrect, PTL DEF Spec, ArmedCooldownKept
=============================================================================
