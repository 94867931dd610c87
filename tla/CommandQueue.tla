--------------------------- MODULE CommandQueue ---------------------------
(***************************************************************************)
(* The in-process command queue of src/src/process/command-queue.ts: named *)
(* lanes that each run at most maxConcurrent commands and queue the rest.  *)
(*                                                                         *)
(* One call of a queue function is one step: the process is single         *)
(* threaded and none of them awaits, so a pump (drainLane) started by a    *)
(* call ends inside it.  LaneState.draining is therefore FALSE between     *)
(* steps and has no variable.  A lane that was never used is modelled by   *)
(* the state getLaneState would create for it.  A command keeps one        *)
(* identity from enqueueCommandInLane to the end of its closure; it stands *)
(* for the QueueEntry and for the taskId the pump draws for it, which      *)
(* nextTaskId never draws twice in the life of the process.                *)
(***************************************************************************)
EXTENDS Integers, Sequences, FiniteSets, SequencesExt

CONSTANTS
  Commands,        \* identities of the commands that callers may enqueue
  Lanes,           \* lane names
  ProbeLanes,      \* the lanes named "auth-probe:..." or "session:probe-..."
  Limits,          \* arguments of setCommandLaneConcurrency
  Priorities,      \* what resolveQueuePriority returns: within -1..1
  Waiters,         \* callers of waitForActiveTasks
  MaxGeneration    \* bound: a lane is reset at most this many times

ASSUME CommandsFinite == IsFiniteSet(Commands)
ASSUME LanesAssumption == ProbeLanes \subseteq Lanes
ASSUME LimitsAssumption == Limits \subseteq Int
ASSUME PrioritiesAssumption == Priorities \subseteq -1..1
ASSUME MaxGenerationAssumption == MaxGeneration \in Nat

VARIABLES
  queue,            \* lane -> sequence of the commands waiting in it
  active,           \* lane -> its activeTaskIds
  maxConcurrent,    \* lane -> concurrency limit
  generation,       \* lane -> number of resets, captured by started commands
  gatewayDraining,  \* TRUE after markGatewayDraining until resetAllLanes
  nextQueueSequence,
  entry,            \* command -> its QueueEntry while its promise is pending
  promise,          \* command -> what its caller's promise shows
  inFlight,         \* commands whose pump closure has not settled them yet
  body,             \* command -> the task function itself
  waiters           \* waiter -> its state and the task ids it captured

laneVars == <<queue, active, maxConcurrent, generation>>
vars == <<laneVars, gatewayDraining, nextQueueSequence, entry, promise,
          inFlight, body, waiters>>

\* taskGeneration is what the pump closure captures when it starts the entry.
Entry == [lane : Lanes, priority : Priorities, sequence : Nat, taskGeneration : Nat]
NoEntry == [lane |-> "none"]

\* How a promise ends: the task function's own result or error, the lane
\* timeout, a cleared lane (CommandLaneClearedError) or a draining gateway
\* (GatewayDrainingError).
Settled == {"returned", "timedOut", "cleared", "refused"}

Waiter == [state : {"idle", "waiting", "drained", "expired"}, ids : SUBSET Commands]

TypeOK ==
  /\ queue \in [Lanes -> Seq(Commands)]
  /\ active \in [Lanes -> SUBSET Commands]
  /\ maxConcurrent \in [Lanes -> Nat]
  /\ generation \in [Lanes -> Nat]
  /\ gatewayDraining \in BOOLEAN
  /\ nextQueueSequence \in Nat
  /\ entry \in [Commands -> Entry \cup {NoEntry}]
  /\ promise \in [Commands -> {"none", "pending"} \cup Settled]
  /\ inFlight \in SUBSET Commands
  /\ body \in [Commands -> {"idle", "executing", "returned"}]
  /\ waiters \in [Waiters -> Waiter]

Init ==
  /\ queue = [l \in Lanes |-> <<>>]
  /\ active = [l \in Lanes |-> {}]
  /\ maxConcurrent = [l \in Lanes |-> 1]
  /\ generation = [l \in Lanes |-> 0]
  /\ gatewayDraining = FALSE
  /\ nextQueueSequence = 1
  /\ entry = [c \in Commands |-> NoEntry]
  /\ promise = [c \in Commands |-> "none"]
  /\ inFlight = {}
  /\ body = [c \in Commands |-> "idle"]
  /\ waiters = [w \in Waiters |-> [state |-> "idle", ids |-> {}]]

-----------------------------------------------------------------------------
(* Helpers *)

\* Some captured id is still in the active set of some lane.
hasPendingActiveTasks(ids, act) == \E l \in Lanes : ids \cap act[l] # {}

\* Resolves every waiter none of whose captured ids is in act any more.
notifyActiveTaskWaiters(act) ==
  waiters' = [w \in Waiters |->
    IF waiters[w].state = "waiting" /\ ~hasPendingActiveTasks(waiters[w].ids, act)
    THEN [state |-> "drained", ids |-> {}]
    ELSE waiters[w]]

\* Mutant: an entry of equal priority gives way too (LIFO within a priority).
YieldsToEqual(d, e) == entry[d].priority =< e.priority

\* The queued command d gives way to the new entry e.
YieldsTo(d, e) ==
  \/ entry[d].priority < e.priority
  \/ entry[d].priority = e.priority /\ entry[d].sequence > e.sequence

\* Place i of queue q is where the new entry e goes: before the first that
\* yields, at the end if none does.
InsertsAt(q, i, e) ==
  /\ \A j \in 1..(i - 1) : ~YieldsTo(q[j], e)
  /\ i =< Len(q) => YieldsTo(q[i], e)

\* Mutant: the pump compares with =< and starts one command too many.
PumpCountOneMore(q, a, m) ==
  IF m + 1 - Cardinality(a) =< 0 \/ q = <<>> THEN 0
  ELSE IF m + 1 - Cardinality(a) < Len(q) THEN m + 1 - Cardinality(a) ELSE Len(q)

\* How many commands of queue q the pump starts beside the set a under limit m.
PumpCount(q, a, m) ==
  IF m - Cardinality(a) =< 0 THEN 0
  ELSE IF m - Cardinality(a) < Len(q) THEN m - Cardinality(a) ELSE Len(q)

Started(q, a, m) == {q[i] : i \in 1..PumpCount(q, a, m)}

\* drainLane(l) for every l in ls, on the state the calling step left: queues q,
\* active sets a, limits m, generations g, entries e, closures f in flight.
drainLanes(ls, q, a, m, g, e, f) ==
  LET start == [l \in Lanes |-> IF l \in ls THEN Started(q[l], a[l], m[l]) ELSE {}]
      n == [l \in Lanes |-> IF l \in ls THEN PumpCount(q[l], a[l], m[l]) ELSE 0]
      started == UNION {start[l] : l \in Lanes}
  IN  /\ queue' = [l \in Lanes |-> SubSeq(q[l], n[l] + 1, Len(q[l]))]
      /\ active' = [l \in Lanes |-> a[l] \cup start[l]]
      /\ inFlight' = f \cup started
      /\ entry' = [c \in Commands |->
           IF c \in started THEN [e[c] EXCEPT !.taskGeneration = g[e[c].lane]] ELSE e[c]]

\* The bodies after a pump: those it put in flight execute.
StartBodies(b) ==
  body' = [c \in Commands |-> IF c \in inFlight' \ inFlight THEN "executing" ELSE b[c]]

-----------------------------------------------------------------------------
(* Callers *)

\* enqueueCommandInLane: refused while the gateway drains for a restart, else
\* queued by priority, and the lane is pumped.
EnqueueRefused(c) ==
  /\ promise[c] = "none"
  /\ gatewayDraining
  /\ promise' = [promise EXCEPT ![c] = "refused"]
  /\ UNCHANGED <<laneVars, gatewayDraining, nextQueueSequence, entry, inFlight,
                 body, waiters>>

EnqueueAccepted(c, l, p) ==
  LET e == [lane |-> l, priority |-> p, sequence |-> nextQueueSequence, taskGeneration |-> 0]
  IN  /\ promise[c] = "none"
      /\ ~gatewayDraining
      /\ nextQueueSequence' = nextQueueSequence + 1
      /\ promise' = [promise EXCEPT ![c] = "pending"]
      /\ \E i \in 1..(Len(queue[l]) + 1) :
           /\ InsertsAt(queue[l], i, e)
           /\ drainLanes({l}, [queue EXCEPT ![l] = InsertAt(@, i, c)], active,
                         maxConcurrent, generation, [entry EXCEPT ![c] = e], inFlight)
      /\ StartBodies(body)
      /\ UNCHANGED <<maxConcurrent, generation, gatewayDraining, waiters>>

enqueueCommandInLane(c, l, p) == EnqueueRefused(c) \/ EnqueueAccepted(c, l, p)

\* completeTask: only a closure of the lane's current generation gives its slot
\* back and pumps the lane.
completeTask(c) ==
  LET l == entry[c].lane
      released == [active EXCEPT ![l] = @ \ {c}]
      rest == [entry EXCEPT ![c] = NoEntry]
  IN  \/ /\ entry[c].taskGeneration = generation[l]
         /\ notifyActiveTaskWaiters(released)
         /\ drainLanes({l}, queue, released, maxConcurrent, generation, rest,
                       inFlight \ {c})
      \/ /\ entry[c].taskGeneration # generation[l]
         /\ inFlight' = inFlight \ {c}
         /\ entry' = rest
         /\ UNCHANGED <<queue, active, waiters>>

\* The closure of the pump ends with the promise settled either way; b is the
\* state it leaves the task function in.
Settle(c, outcome, b) ==
  /\ c \in inFlight
  /\ completeTask(c)
  /\ promise' = [promise EXCEPT ![c] = outcome]
  /\ StartBodies([body EXCEPT ![c] = b])
  /\ UNCHANGED <<maxConcurrent, generation, gatewayDraining, nextQueueSequence>>

\* The task function returns or throws before any lane timeout.
TaskReturns(c) == Settle(c, "returned", "returned")

\* The lane timeout of runQueueEntryTask wins the race: the lane is released
\* while the task function goes on unwinding.  Any command may have a timeout.
TaskTimesOut(c) == Settle(c, "timedOut", "executing")

\* A task function whose promise timed out ends; nobody reads its result.
LateReturn(c) ==
  /\ c \notin inFlight
  /\ body[c] = "executing"
  /\ body' = [body EXCEPT ![c] = "returned"]
  /\ UNCHANGED <<laneVars, gatewayDraining, nextQueueSequence, entry, promise,
                 inFlight, waiters>>

-----------------------------------------------------------------------------
(* Operators of the queue *)

\* Mutant: the limit is stored unclamped.
setCommandLaneConcurrencyUnclamped(l, n) ==
  /\ maxConcurrent' = [maxConcurrent EXCEPT ![l] = n]
  /\ UNCHANGED <<queue, active, generation, gatewayDraining, nextQueueSequence,
                 entry, promise, inFlight, body, waiters>>

\* Mutant: raising the limit of a lane does not pump it.
setCommandLaneConcurrencyNoPump(l, n) ==
  /\ maxConcurrent' = [maxConcurrent EXCEPT ![l] = IF n < 0 THEN 0 ELSE n]
  /\ UNCHANGED <<queue, active, generation, gatewayDraining, nextQueueSequence,
                 entry, promise, inFlight, body, waiters>>

\* setCommandLaneConcurrency: the limit is at least zero, and one for a probe
\* lane; a lane set to zero is not pumped.
setCommandLaneConcurrency(l, n) ==
  LET minConcurrent == IF l \in ProbeLanes THEN 1 ELSE 0
      m == IF n < minConcurrent THEN minConcurrent ELSE n
  IN  /\ maxConcurrent' = [maxConcurrent EXCEPT ![l] = m]
      /\ drainLanes(IF m > 0 THEN {l} ELSE {}, queue, active, maxConcurrent',
                    generation, entry, inFlight)
      /\ StartBodies(body)
      /\ UNCHANGED <<generation, gatewayDraining, nextQueueSequence, promise,
                     waiters>>

\* Mutant: running commands are rejected with the queued ones.
clearCommandLaneAndActive(l) ==
  /\ queue' = [queue EXCEPT ![l] = <<>>]
  /\ promise' = [c \in Commands |->
       IF c \in ToSet(queue[l]) \cup active[l] THEN "cleared" ELSE promise[c]]
  /\ UNCHANGED <<active, maxConcurrent, generation, gatewayDraining, entry,
                 nextQueueSequence, inFlight, body, waiters>>

\* clearCommandLane: every queued command is rejected, running ones go on.
clearCommandLane(l) ==
  /\ queue[l] # <<>>
  /\ queue' = [queue EXCEPT ![l] = <<>>]
  /\ promise' = [c \in Commands |-> IF c \in ToSet(queue[l]) THEN "cleared" ELSE promise[c]]
  /\ entry' = [c \in Commands |-> IF c \in ToSet(queue[l]) THEN NoEntry ELSE entry[c]]
  /\ UNCHANGED <<active, maxConcurrent, generation, gatewayDraining,
                 nextQueueSequence, inFlight, body, waiters>>

\* Mutant: a reset also drops the queued commands.
ResetLanesDroppingQueue(ls) ==
  /\ \A l \in ls : generation[l] < MaxGeneration
  /\ generation' = [l \in Lanes |-> IF l \in ls THEN generation[l] + 1 ELSE generation[l]]
  /\ queue' = [l \in Lanes |-> IF l \in ls THEN <<>> ELSE queue[l]]
  /\ active' = [l \in Lanes |-> IF l \in ls THEN {} ELSE active[l]]
  /\ notifyActiveTaskWaiters(active')
  /\ UNCHANGED <<maxConcurrent, nextQueueSequence, entry, promise, inFlight, body>>

\* Mutant: a reset starts a new generation but keeps the old active ids.
ResetLanesKeepingActive(ls) ==
  /\ \A l \in ls : generation[l] < MaxGeneration
  /\ generation' = [l \in Lanes |-> IF l \in ls THEN generation[l] + 1 ELSE generation[l]]
  /\ UNCHANGED <<queue, active, maxConcurrent, nextQueueSequence, entry, promise,
                 inFlight, body, waiters>>

\* Mutant: a reset does not notify the waiters.
ResetLanesSilently(ls) ==
  /\ \A l \in ls : generation[l] < MaxGeneration
  /\ generation' = [l \in Lanes |-> IF l \in ls THEN generation[l] + 1 ELSE generation[l]]
  /\ drainLanes(ls, queue, [l \in Lanes |-> IF l \in ls THEN {} ELSE active[l]],
                maxConcurrent, generation', entry, inFlight)
  /\ StartBodies(body)
  /\ UNCHANGED <<maxConcurrent, nextQueueSequence, promise, waiters>>

\* Lanes ls lose their active sets to a new generation and are pumped, then the
\* waiters are notified.  Queued commands stay.
ResetLanes(ls) ==
  LET idle == [l \in Lanes |-> IF l \in ls THEN {} ELSE active[l]]
  IN  /\ \A l \in ls : generation[l] < MaxGeneration
      /\ generation' = [l \in Lanes |-> IF l \in ls THEN generation[l] + 1 ELSE generation[l]]
      /\ drainLanes(ls, queue, idle, maxConcurrent, generation', entry, inFlight)
      /\ StartBodies(body)
      /\ notifyActiveTaskWaiters(active')
      /\ UNCHANGED <<maxConcurrent, nextQueueSequence, promise>>

\* resetCommandLane, called by the recovery of a stuck session.
resetCommandLane(l) == ResetLanes({l}) /\ UNCHANGED gatewayDraining

\* resetAllLanes, called after an in-process restart.
resetAllLanes == ResetLanes(Lanes) /\ gatewayDraining' = FALSE

\* markGatewayDraining, called before a restart.
markGatewayDraining ==
  /\ gatewayDraining' = TRUE
  /\ UNCHANGED <<laneVars, nextQueueSequence, entry, promise, inFlight,
                 body, waiters>>

\* waitForActiveTasks captures the ids active now; without any it is drained at
\* once, and with a timeout of zero it expires at once.
waitForActiveTasks(w, immediate) ==
  LET ids == UNION {active[l] : l \in Lanes}
      state == IF ids = {} THEN "drained" ELSE IF immediate THEN "expired" ELSE "waiting"
  IN  /\ waiters[w].state # "waiting"
      /\ waiters' = [waiters EXCEPT ![w] =
           [state |-> state, ids |-> IF state = "waiting" THEN ids ELSE {}]]
      /\ UNCHANGED <<laneVars, gatewayDraining, nextQueueSequence, entry, promise,
                     inFlight, body>>

\* The timer of a waiter fires before its tasks are done.
WaitExpires(w) ==
  /\ waiters[w].state = "waiting"
  /\ waiters' = [waiters EXCEPT ![w] = [state |-> "expired", ids |-> {}]]
  /\ UNCHANGED <<laneVars, gatewayDraining, nextQueueSequence, entry, promise,
                 inFlight, body>>

-----------------------------------------------------------------------------

CommandNext ==
  \E c \in Commands :
    \/ \E l \in Lanes, p \in Priorities : enqueueCommandInLane(c, l, p)
    \/ TaskReturns(c)
    \/ TaskTimesOut(c)
    \/ LateReturn(c)

LaneNext ==
  \E l \in Lanes :
    \/ \E n \in Limits : setCommandLaneConcurrency(l, n)
    \/ clearCommandLane(l)
    \/ resetCommandLane(l)

WaiterNext ==
  \E w \in Waiters :
    \/ \E immediate \in BOOLEAN : waitForActiveTasks(w, immediate)
    \/ WaitExpires(w)

Next == CommandNext \/ LaneNext \/ WaiterNext \/ resetAllLanes \/ markGatewayDraining

Spec == Init /\ [][Next]_vars

\* Every started command ends, by itself or at its lane timeout, and a lane set
\* to zero is resumed (the suspension that set it arms a timer to resume it).
Resumed(l) ==
  /\ maxConcurrent[l] = 0
  /\ \E n \in {m \in Limits : m > 0} : setCommandLaneConcurrency(l, n)
Ended(c) == TaskReturns(c) \/ TaskTimesOut(c)

Fairness ==
  /\ \A c \in Commands : WF_vars(Ended(c))
  /\ \A l \in Lanes : WF_vars(Resumed(l))

FairSpec == Spec /\ Fairness

-----------------------------------------------------------------------------
(* Properties *)

\* A command's promise is pending exactly while the command is in one place of
\* its own lane's queue or in flight: no enqueue, pump, clear or reset loses a
\* command, settles one it keeps, or starts one twice.
Queued(c) == \E l \in Lanes : c \in ToSet(queue[l])

PendingIsQueuedOrInFlight ==
  /\ \A c \in Commands : promise[c] = "pending" <=> Queued(c) \/ c \in inFlight
  /\ \A c \in inFlight : ~Queued(c)
  /\ \A l \in Lanes : IsInjective(queue[l]) /\ \A c \in ToSet(queue[l]) : entry[c].lane = l

\* The slots of a lane are exactly its closures of the current generation: a
\* reset or a timeout neither leaks a slot nor lets a stale completion free the
\* slot of a command started after it.
SlotsAreCurrentClosures ==
  \A l \in Lanes :
    active[l] = {c \in inFlight : entry[c].lane = l /\ entry[c].taskGeneration = generation[l]}

\* A lane never keeps a command queued beside a free slot: every path that frees
\* a slot, raises the limit or resets the lane also pumps it.
NoIdleCapacity ==
  \A l \in Lanes : queue[l] # <<>> => Cardinality(active[l]) >= maxConcurrent[l]

\* A waiter still waiting waits for a task that is still active: every path
\* that empties an active set wakes the waiters it was the last to hold.
NoLostWakeup ==
  \A w \in Waiters :
    waiters[w].state = "waiting" => hasPendingActiveTasks(waiters[w].ids, active)

\* A step that starts a command leaves its lane within the limit, also when the
\* limit was lowered below the number of running commands before.
StartsRespectLimit ==
  [][\A l \in Lanes :
       ~(active'[l] \subseteq active[l]) => Cardinality(active'[l]) =< maxConcurrent'[l]]_vars

\* Of two commands of one lane, the pump starts the one of higher priority
\* first, and those of one priority in the order they were enqueued.
Before(c, d) ==
  \/ entry'[c].priority > entry'[d].priority
  \/ entry'[c].priority = entry'[d].priority /\ entry'[c].sequence < entry'[d].sequence

StartsInOrder ==
  [][\A c \in inFlight' \ inFlight :
       \A d \in ToSet(queue'[entry'[c].lane]) : Before(c, d)]_vars

\* A promise settles at most once, and a command that is in flight is never
\* cleared or refused.
SettlesOnce ==
  [][\A c \in Commands :
       /\ promise[c] \in Settled => promise'[c] = promise[c]
       /\ c \in inFlight => promise'[c] \in {"pending", "returned", "timedOut"}]_vars

\* Every accepted command is eventually settled: no sequence of timeouts,
\* resets, suspensions and restarts leaves it queued or running for ever.
AcceptedSettles ==
  \A c \in Commands : promise[c] = "pending" ~> promise[c] \in Settled

\* Every wait for the active tasks ends, also without a timeout.
WaitsEnd == \A w \in Waiters : waiters[w].state = "waiting" ~> waiters[w].state # "waiting"
=============================================================================
