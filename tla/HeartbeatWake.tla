---------------------------- MODULE HeartbeatWake ----------------------------
(***************************************************************************)
(* The wake requests of src/src/infra/heartbeat-wake.ts: requests coalesce *)
(* per target, one timer starts a run that hands the pending wakes to the  *)
(* registered handler one by one, a busy answer puts a wake back and arms  *)
(* a retry, and an in-process restart replaces the handler while a run of  *)
(* the old one may still be in flight.                                     *)
(*                                                                         *)
(* Time is a countdown in ticks.  A registration is named by the value     *)
(* handlerGeneration gets with it.  The order of the targets in a batch is *)
(* any order (the code: that of the first request of each).                *)
(***************************************************************************)
EXTENDS Integers, FiniteSets

CONSTANTS
  Wakes,           \* identities of the wake requests
  Targets,         \* the agent and session pairs they are for
  TargetOf,        \* wake -> its target
  Priority,        \* wake -> REASON_PRIORITY of its source and intent
  CoalesceOf,      \* wake -> the ticks its request waits for others
  CoalesceTicks,   \* DEFAULT_COALESCE_MS
  RetryTicks,      \* DEFAULT_RETRY_MS
  Slots,           \* names for the runs in flight
  MaxRegistrations \* bound on the registrations of a handler

ASSUME TargetOfAssumption == TargetOf \in [Wakes -> Targets]
ASSUME PriorityAssumption == Priority \in [Wakes -> Nat]
ASSUME CoalesceAssumption ==
  CoalesceOf \in [Wakes -> Nat] /\ CoalesceTicks \in Nat /\ RetryTicks \in Nat \ {0}
ASSUME MaxRegistrationsAssumption == MaxRegistrations \in Nat
ASSUME SlotsAssumption == Slots \subseteq Nat /\ IsFiniteSet(Slots)

VARIABLES
  pendingWakes,       \* target -> the wake to run and the requests it stands for
  timer,              \* the one timer: its kind, ticks left and full delay
  scheduled,
  running,
  handler,            \* the current registration, 0 for none
  handlerGeneration,
  runs                \* slot -> a pass of the timer callback over its batch

\* History: what became of the requests and of the registrations.
VARIABLES
  requested,          \* the wakes asked for so far
  served,             \* the wakes some handler call has answered for good
  registered,         \* the registrations made
  disposed,           \* the registrations whose disposer was called
  cooldown            \* target -> ticks left of its retry delay, and whether
                      \* the retry timer was armed for all of it

moduleVars == <<pendingWakes, timer, scheduled, running, handler, handlerGeneration, runs>>
vars == <<moduleVars, requested, served, registered, disposed, cooldown>>

\* A registration and its disposal each take a generation.
Generations == 1..(2 * MaxRegistrations)
NoWake == [covers |-> {}]
Wake == {NoWake} \cup [from : Wakes, covers : SUBSET Wakes]
NoTimer == [kind |-> "none", left |-> 0, delay |-> 0]
Timer == {NoTimer} \cup [kind : {"normal", "retry"}, left : Nat, delay : Nat]
NoRun == [of |-> 0]
Run == [of : Generations, batch : [Targets -> Wake], current : Targets,
        todo : SUBSET Targets, delay : Nat]
Cool == [left |-> 0, armed |-> FALSE]

TypeOK ==
  /\ pendingWakes \in [Targets -> Wake]
  /\ timer \in Timer
  /\ scheduled \in BOOLEAN
  /\ running \in BOOLEAN
  /\ handlerGeneration \in {0} \cup Generations
  /\ handler \in 0..handlerGeneration
  /\ runs \in [Slots -> {NoRun} \cup Run]
  /\ requested \subseteq Wakes
  /\ served \subseteq Wakes
  /\ registered \subseteq 1..handlerGeneration
  /\ disposed \subseteq registered
  /\ cooldown \in [Targets -> [left : 0..RetryTicks, armed : BOOLEAN]]

Init ==
  /\ pendingWakes = [t \in Targets |-> NoWake]
  /\ timer = NoTimer
  /\ scheduled = FALSE
  /\ running = FALSE
  /\ handler = 0
  /\ handlerGeneration = 0
  /\ runs = [s \in Slots |-> NoRun]
  /\ requested = {}
  /\ served = {}
  /\ registered = {}
  /\ disposed = {}
  /\ cooldown = [t \in Targets |-> Cool]

-----------------------------------------------------------------------------
(* queuePendingWakeReason and schedule *)

\* A wake joins the pending one of its target; the higher priority gives the
\* reason, the later of two equal ones.
Merged(previous, next) ==
  IF previous = NoWake THEN next
  ELSE [from |-> IF Priority[next.from] >= Priority[previous.from]
                 THEN next.from ELSE previous.from,
        covers |-> previous.covers \cup next.covers]

Queued(pending, t, wake) == [pending EXCEPT ![t] = Merged(@, wake)]

\* Put back every wake of a batch, those already served included.
QueuedBatch(pending, batch) ==
  [t \in Targets |-> IF batch[t] = NoWake THEN pending[t] ELSE Merged(pending[t], batch[t])]

SomePending(pending) == \E t \in Targets : pending[t] # NoWake

\* Mutant: a retry timer gives way like any other.
ScheduledPreempting(tm, delay, kind) ==
  IF tm.kind # "none" /\ tm.left =< delay
  THEN tm ELSE [kind |-> kind, left |-> delay, delay |-> delay]

\* The timer after schedule: a retry timer, and one due no later, stay.
Scheduled(tm, delay, kind) ==
  IF tm.kind = "retry" \/ (tm.kind # "none" /\ tm.left =< delay)
  THEN tm ELSE [kind |-> kind, left |-> delay, delay |-> delay]

-----------------------------------------------------------------------------
(* Requests, registrations, time *)

requestHeartbeat(w) ==
  /\ w \notin requested
  /\ requested' = requested \cup {w}
  /\ pendingWakes' = Queued(pendingWakes, TargetOf[w], [from |-> w, covers |-> {w}])
  /\ timer' = Scheduled(timer, CoalesceOf[w], "normal")
  /\ UNCHANGED <<scheduled, running, handler, handlerGeneration, runs,
                 served, registered, disposed, cooldown>>

\* Mutant: the new handler waits for the next request.
setHeartbeatWakeHandlerSilently ==
  /\ Cardinality(registered) < MaxRegistrations
  /\ handlerGeneration' = handlerGeneration + 1
  /\ handler' = handlerGeneration'
  /\ registered' = registered \cup {handler'}
  /\ running' = FALSE
  /\ scheduled' = FALSE
  /\ timer' = NoTimer
  /\ cooldown' = [t \in Targets |-> Cool]
  /\ UNCHANGED <<pendingWakes, runs, requested, served, disposed>>

\* A runner registers: the timer and the flags of the lifecycle before it are
\* reset, whatever is still in flight.
setHeartbeatWakeHandler ==
  /\ Cardinality(registered) < MaxRegistrations
  /\ handlerGeneration' = handlerGeneration + 1
  /\ handler' = handlerGeneration'
  /\ registered' = registered \cup {handler'}
  /\ running' = FALSE
  /\ scheduled' = FALSE
  /\ timer' = IF SomePending(pendingWakes)
              THEN Scheduled(NoTimer, CoalesceTicks, "normal") ELSE NoTimer
  /\ cooldown' = [t \in Targets |-> Cool]
  /\ UNCHANGED <<pendingWakes, runs, requested, served, disposed>>

\* Mutant: a disposal takes its generation back.
disposeWakeHandlerRewinding(g) ==
  /\ g \in registered \ disposed
  /\ disposed' = disposed \cup {g}
  /\ IF handlerGeneration = g /\ handler = g
     THEN /\ handlerGeneration' = handlerGeneration - 1
          /\ handler' = 0
     ELSE UNCHANGED <<handlerGeneration, handler>>
  /\ UNCHANGED <<pendingWakes, timer, scheduled, running, runs,
                 requested, served, registered, cooldown>>

\* The runner of registration g stops: only the current registration is cleared.
disposeWakeHandler(g) ==
  /\ g \in registered \ disposed
  /\ disposed' = disposed \cup {g}
  /\ IF handlerGeneration = g /\ handler = g
     THEN /\ handlerGeneration' = handlerGeneration + 1
          /\ handler' = 0
     ELSE UNCHANGED <<handlerGeneration, handler>>
  /\ UNCHANGED <<pendingWakes, timer, scheduled, running, runs,
                 requested, served, registered, cooldown>>

Minus1(n) == IF n > 0 THEN n - 1 ELSE 0

Tick ==
  /\ timer.left > 0 \/ \E t \in Targets : cooldown[t].left > 0
  /\ timer' = [timer EXCEPT !.left = Minus1(@)]
  /\ cooldown' = [t \in Targets |->
                    IF cooldown[t].left =< 1 THEN Cool
                    ELSE [cooldown[t] EXCEPT !.left = @ - 1]]
  /\ UNCHANGED <<pendingWakes, scheduled, running, handler, handlerGeneration, runs,
                 requested, served, registered, disposed>>

-----------------------------------------------------------------------------
(* The callback of the timer *)

Due == timer.kind # "none" /\ timer.left = 0

\* Nobody listens, or nothing is pending: the wakes stay where they are.
FireIdle ==
  /\ Due
  /\ handler = 0 \/ (~running /\ ~SomePending(pendingWakes))
  /\ timer' = NoTimer
  /\ scheduled' = FALSE
  /\ UNCHANGED <<pendingWakes, running, handler, handlerGeneration, runs,
                 requested, served, registered, disposed, cooldown>>

\* A run is in flight: look again after the same delay.
FireWhileRunning ==
  /\ Due
  /\ handler # 0
  /\ running
  /\ timer' = Scheduled(NoTimer, timer.delay, timer.kind)
  /\ scheduled' = TRUE
  /\ UNCHANGED <<pendingWakes, running, handler, handlerGeneration, runs,
                 requested, served, registered, disposed, cooldown>>

FreeSlot(s) == runs[s] = NoRun /\ \A s2 \in Slots : s2 < s => runs[s2] # NoRun

\* Mutant: the running flag is not looked at.
StartRunUnguarded(s, t) ==
  /\ Due
  /\ handler # 0
  /\ FreeSlot(s)
  /\ pendingWakes[t] # NoWake
  /\ timer' = NoTimer
  /\ scheduled' = FALSE
  /\ running' = TRUE
  /\ runs' = [runs EXCEPT ![s] =
                [of |-> handler, batch |-> pendingWakes, current |-> t,
                 todo |-> {t2 \in Targets \ {t} : pendingWakes[t2] # NoWake},
                 delay |-> timer.delay]]
  /\ pendingWakes' = [t2 \in Targets |-> NoWake]
  /\ UNCHANGED <<handler, handlerGeneration, requested, served, registered, disposed,
                 cooldown>>

\* The pending wakes become a batch, and the handler is called with the first.
StartRun(s, t) ==
  /\ Due
  /\ handler # 0
  /\ ~running
  /\ FreeSlot(s)
  /\ pendingWakes[t] # NoWake
  /\ timer' = NoTimer
  /\ scheduled' = FALSE
  /\ running' = TRUE
  /\ runs' = [runs EXCEPT ![s] =
                [of |-> handler, batch |-> pendingWakes, current |-> t,
                 todo |-> {t2 \in Targets \ {t} : pendingWakes[t2] # NoWake},
                 delay |-> timer.delay]]
  /\ pendingWakes' = [t2 \in Targets |-> NoWake]
  /\ UNCHANGED <<handler, handlerGeneration, requested, served, registered, disposed,
                 cooldown>>

\* The finally block: running is cleared for whichever run set it.
EndRun(s, pending, tm) ==
  /\ runs' = [runs EXCEPT ![s] = NoRun]
  /\ running' = FALSE
  /\ pendingWakes' = pending
  /\ timer' = IF SomePending(pending) \/ scheduled
              THEN Scheduled(tm, runs[s].delay, "normal") ELSE tm

\* After the call for the current wake: the next one, or the end.  A runner that
\* was stopped answers every further call at once ("disabled"), and those wakes
\* are gone.
NextWake(s, pending, tm, done) ==
  \/ /\ runs[s].of \in disposed \/ runs[s].todo = {}
     /\ EndRun(s, pending, tm)
     /\ served' = served \cup done \cup UNION {runs[s].batch[t].covers : t \in runs[s].todo}
  \/ /\ runs[s].of \notin disposed
     /\ \E t \in runs[s].todo :
          runs' = [runs EXCEPT ![s].current = t, ![s].todo = @ \ {t}]
     /\ pendingWakes' = pending
     /\ timer' = tm
     /\ served' = served \cup done
     /\ UNCHANGED running

Current(s) == runs[s].batch[runs[s].current]

\* The handler ran, failed, or skipped for a reason that is not retried.
HandlerAnswers(s, t) ==
  /\ runs[s] # NoRun
  /\ runs[s].current = t
  /\ NextWake(s, pendingWakes, timer, Current(s).covers)
  /\ UNCHANGED <<scheduled, handler, handlerGeneration, requested, registered, disposed,
                 cooldown>>

\* The targets ts are to be retried after RetryTicks; armed when the timer that
\* stands after schedule leaves them all of it.
Cooled(ts) ==
  [t \in Targets |->
     IF t \in ts
     THEN [left |-> RetryTicks,
           armed |-> LET tm == Scheduled(timer, RetryTicks, "retry")
                     IN tm.kind = "retry" /\ tm.left = RetryTicks]
     ELSE cooldown[t]]

\* The target is busy: its wake goes back and a retry is scheduled.
HandlerBusy(s) ==
  /\ runs[s] # NoRun
  /\ NextWake(s, Queued(pendingWakes, runs[s].current, Current(s)),
              Scheduled(timer, RetryTicks, "retry"), {})
  /\ cooldown' = Cooled({runs[s].current})
  /\ UNCHANGED <<scheduled, handler, handlerGeneration, requested, registered, disposed>>

\* Mutant: only the wake that failed is put back.
HandlerThrowsKeepingOne(s) ==
  /\ runs[s] # NoRun
  /\ EndRun(s, Queued(pendingWakes, runs[s].current, Current(s)),
            Scheduled(timer, RetryTicks, "retry"))
  /\ cooldown' = Cooled({runs[s].current})
  /\ UNCHANGED <<scheduled, handler, handlerGeneration, requested, served, registered,
                 disposed>>

\* The handler throws: the whole batch goes back.
HandlerThrows(s) ==
  /\ runs[s] # NoRun
  /\ EndRun(s, QueuedBatch(pendingWakes, runs[s].batch),
            Scheduled(timer, RetryTicks, "retry"))
  /\ cooldown' = Cooled({t \in Targets : runs[s].batch[t] # NoWake})
  /\ UNCHANGED <<scheduled, handler, handlerGeneration, requested, served, registered,
                 disposed>>

-----------------------------------------------------------------------------

Next ==
  \/ \E w \in Wakes : requestHeartbeat(w)
  \/ setHeartbeatWakeHandler
  \/ \E g \in Generations : disposeWakeHandler(g)
  \/ Tick
  \/ FireIdle
  \/ FireWhileRunning
  \/ \E s \in Slots :
       \/ \E t \in Targets : StartRun(s, t) \/ HandlerAnswers(s, t)
       \/ HandlerBusy(s)
       \/ HandlerThrows(s)

Spec == Init /\ [][Next]_vars

\* Time passes, a due timer fires, a call of the handler returns, and a wake that
\* is handed over again and again does not meet a busy target every time.
FairSpec ==
  /\ Spec
  /\ WF_vars(Tick)
  /\ WF_vars(FireIdle \/ \E s \in Slots, t \in Targets : StartRun(s, t))
  /\ \A s \in Slots :
       WF_vars(HandlerBusy(s) \/ HandlerThrows(s) \/ \E t \in Targets : HandlerAnswers(s, t))
  /\ \A w \in Wakes :
       SF_vars(\E s \in Slots, t \in Targets :
                 HandlerAnswers(s, t) /\ w \in runs[s].batch[t].covers)

-----------------------------------------------------------------------------
(* Properties *)

InFlight(s) == runs[s] # NoRun

\* The wakes a run still answers for: those of the call in progress and those to
\* come.  The ones already answered may go back too when a later one throws.
InHand(s) ==
  UNION {runs[s].batch[t].covers : t \in {runs[s].current} \cup runs[s].todo}

\* No wake is lost in the coalescing, the retries or the change of the handler: one
\* that was asked for is pending, in the hands of a run, or was answered.
NoWakeLost ==
  \A w \in requested :
    \/ w \in served
    \/ \E t \in Targets : w \in pendingWakes[t].covers
    \/ \E s \in Slots : InFlight(s) /\ w \in InHand(s)

\* A handler never sits idle over a pending wake: a timer is armed, or a run is in
\* flight whose end arms one.
PendingHasTimer ==
  handler # 0 /\ SomePending(pendingWakes) =>
    timer # NoTimer \/ \E s \in Slots : InFlight(s)

\* Runs overlap only because a new handler clears the running flag of a run in
\* flight: there are never more of them than registrations were made.
OverlapBounded == Cardinality({s \in Slots : InFlight(s)}) =< Cardinality(registered)

\* A late disposer of an old runner does not clear the handler of a newer one.
LatestHandlerStays ==
  \A g \in registered \ disposed :
    (\A g2 \in registered : g2 =< g) => handler = g

StartsWith(s, t) == ~InFlight(s) /\ runs'[s] # NoRun /\ runs'[s].batch[t] # NoWake

\* A retry that armed its timer is a minimum delay: no request, no other retry and
\* no finally block brings the target back before it is over.
ArmedCooldownKept ==
  [][\A s \in Slots, t \in Targets : StartsWith(s, t) => ~cooldown[t].armed]_vars

\* The comment in schedule: "Keep retry cooldown as a hard minimum delay."  A
\* target that was busy is not tried again before the retry delay is over.
RetryCooldownKept ==
  [][\A s \in Slots, t \in Targets : StartsWith(s, t) => cooldown[t].left = 0]_vars

\* Every wake is answered when some handler stays registered in the end and its
\* calls do not throw for ever.
WakesServed ==
  <>[](handler # 0) /\ <>[][\A s \in Slots : ~HandlerThrows(s)]_vars =>
    \A w \in Wakes : (w \in requested) ~> (w \in served)
=============================================================================
