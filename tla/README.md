# Verification of the gateway's scheduling and delivery core

TLA+ modules, TLC configurations and TLAPS proofs for the parts of this repository whose correctness depends on the
order of events: the queue that runs agent turns, the lanes those turns nest in, the suspension of lanes, the
write-ahead queue of outbound messages, heartbeat wakes, approvals of commands on nodes, and the followup queue of a
session. The repository is a self-hosted AI gateway in TypeScript: one Node process takes messages from chat channels,
runs an agent for each session and sends the replies back. Everything interesting in it is a race between callbacks,
timers, awaited I/O and crashes of that process; there are no threads.

Paths below are those of the repository, under `src/`.

## Inventory

| Component | Source | State it keeps | Operations | What is hard | What makes it correct |
|---|---|---|---|---|---|
| Command queue | `src/process/command-queue.ts` | lanes: queue, active task ids, limit, generation; draining flag; waiters | enqueue, pump, task end, lane timeout, set limit, clear, reset one/all, mark draining, wait for active tasks | a timeout racing the end of a task, a reset racing a stale end, a lost pump or wakeup | nothing lost or run twice, limits, order, no idle slot, no lost wakeup |
| Nesting of agent runs | `src/agents/embedded-agent-runner/{lanes,run}.ts` | none of its own | cron slot, session slot, attempt | nested slots, the timeout of the inner one, recovery, restart | no self-deadlock; attempts of one session overlap only after one was given up |
| Lane suspension | `src/agents/session-suspension.ts`, `src/gateway/server-lanes.ts` | one resume timer per lane | suspend, resume, reload of limits | overlapping suspensions, awaited patch, reload with an armed timer | a throttled lane resumes |
| Outbound delivery queue | `src/infra/outbound/delivery-queue-*.ts`, `deliver.ts`, `src/infra/delivery-queue-sqlite.ts` | rows of `delivery_queue_entries`, claims in memory | enqueue, claim, mark, send, ack, fail, recover, drain, reconcile | crashes between any two steps, lost answers, failing writes, several drains | a message is sent or visibly failed; no blind replay after a mark |
| Exec approvals | `src/gateway/exec-approval-manager.ts`, `src/gateway/server-methods/exec-approval.ts`, `node-invoke-system-run-approval.ts`, `src/agents/bash-tools.exec-host-node.ts` | records, promises, expiry and cleanup timers | register, deliver, wait, resolve, expire, forward, consume once | an answer racing the expiry, two operators, a cleanup racing the call, a repeated call | the command runs as ruled, allow-once once, every request is answered |
| Heartbeat wake | `src/infra/heartbeat-wake.ts` | pending wakes, one timer, running flag, handler and its generation | request, fire, retry, replace and dispose the handler | a handler replaced while it runs, cooldown against earlier timers | no wake lost, none left without a timer |
| Reply runs, followup queue | `src/auto-reply/reply/{reply-run-registry,reply-turn-admission,agent-runner,followup-runner}.ts`, `queue/` | one active operation per session, queue objects, their drains | begin, complete, enqueue, overflow, drain, retry, summarise, `/stop` | a message between the end of a run and the drain, a `/stop` under a drain | a message is run once, in order, with its sender's rights, or its loss is one of those named below |
| Cron service | `src/cron/service` | jobs and their running marks | tick, manual run, restart catch-up | timer re-arm, two runs of one job, restart | a job runs once per due time |
| Session delivery queue, task registry, gateway lock, session write lock, channel lifecycle, config reload, restart, process supervisor, pairing | see `PROJECT.json` | | | | see Plan |
| Protocol servers, model turns, channel plugins, config, plugins, UI, apps | see `PROJECT.json` | | | stateless, I/O bound or sequential | not modelled |

How they interact: a channel delivers a message to auto-reply. The dispatch takes the reply slot of the session or
leaves the message to the **followup queue**; the turn calls `runEmbeddedAgent`. That enqueues a command in the
session's lane, whose task enqueues the attempt in a global lane (`main`, `cron-nested`, ...) of the **command queue**
and awaits it. A provider failure inside an attempt calls `suspendSession`, which sets the limit of the global lane to
zero and arms a timer; a config reload sets the limits of all lanes. A command the agent wants to run on a node goes
through an **approval**. The reply goes through `deliverOutboundPayloads`, which writes a row, claims it, marks it,
sends and removes it; the start of the gateway and the reconnect of a channel drain what is left. **Heartbeat wakes**
start agent runs that no message asked for, and go back to sleep while the command queue is busy. A restart inside the
process marks the queue draining, waits for the active tasks, resets every lane and registers a new wake handler.

## Modules

| Module | Models |
|---|---|
| `CommandQueue` | every function of the queue that changes state. One call is one step: no queue function awaits, and a pump ends inside the call that started it |
| `EmbeddedRuns` | agent runs as an instance of `CommandQueue`: which commands are enqueued, where, and when their tasks end |
| `LaneSuspension` | suspensions, timers and reloads, over the same queue |
| `DurableSend` | abstract: what the delivery queue promises for a message |
| `OutboundDelivery` | the delivery queue: row, claim, live call, drains, platform; a step ends where the code awaits |
| `HeartbeatWake` | the wake module: requests, the one timer, the passes of its callback, registrations |
| `ExecApprovals` | an approval across the gateway, its operators, the agent that asks and the check of `node.invoke` |
| `FollowupQueue` | one session: reply slot, competing turns, queue objects and their drains |
| `*Proofs` | the theorems about the module they are named after |
| `MC*` | model values and instances for TLC |

### State

- `CommandQueue`: `queue`, `active`, `maxConcurrent`, `generation` are the fields of `LaneState`; `entry` is the
  `QueueEntry` of a command, `promise` what its caller's promise shows, `inFlight` the pump closures that have not
  settled, `body` the task function itself (it outlives a lane timeout), `waiters` the pending calls of
  `waitForActiveTasks`.
- `OutboundDelivery`: `row` is the row of the state database, `entriesInProgress` the set of that name, `live` and
  `drain` the local variables and program counters of the two kinds of call, `platform` how often the outside world
  has each part.
- `HeartbeatWake`: `pendingWakes`, `timer`, `scheduled`, `running`, `handler`, `handlerGeneration` are the module's
  variables, `runs` the passes of the timer callback over their batches; `requested`, `served`, `registered`,
  `disposed` and `cooldown` are history.
- `ExecApprovals`: `pending`, `promise`, `timer`, `cleanup` are the manager's map and what hangs on an entry;
  `request`, `agent`, `call` the program counters of the handlers, the agent and the operators; `ruling` and `ran`
  are history.
- `FollowupQueue`: `operations` and `slot` are the registry, `queues` and `current` the queue objects and the one in
  `FOLLOWUP_QUEUES`, `drains` the drain of each object, `turns` the dispatches. The rest is history: how each
  message left the queue.

### Choices of abstraction

- A command keeps one identity for its queue entry and its task id. `LaneState.draining` is false between steps and has
  no variable. The wait notice (`onWait`) is left out: its one user logs.
- Lane timeouts, resume timers, backoff, quiet windows and admission time-outs have no clock: they may fire at any
  moment after they were armed. `HeartbeatWake` counts ticks, since its properties compare delays; `ExecApprovals`
  keeps whether the clock is before, at or after the expiry: the timer fires at it, and a call is still good then.
- A part of a delivery is one send to the platform. It may be committed and its answer lost. Adapters that reconcile
  are truthful. Reading `delivery_queue_entries` does not fail, only writes may (`StorageErrors`).
- The live call claims its row a few microtasks after it wrote it. A drain may get its claim in between, and then the
  live call leaves the row to it; that the drain is not already sending by then is assumed in the guard of `Proceed`.
- An error before the first platform send (the channel's handler, the hooks, rendering) ends the live call with its row
  unmarked (`FailsUnsent`), or a replay before its first part (`ReplayFailsUnsent`). That a drain no longer selects a
  row it has claimed is part of `SkipEntry`: the recovery at startup selects every row, a reconnect may not.
- An approval is named by a fresh id; what the command is, and that the call names the same one, is left out. Whether
  the policy of a command admits `allow-always`, and whether it contains inline code that asks for a real approval, is
  left open at the step that looks (`ResolveUnavailable`, `Undecided`). The agent's call of `node.invoke` always carries
  the scope that `clientHasApprovals` asks for.
- A summary line is the message it tells of, so lines are distinct. `FollowupQueue` keeps the lines and their cap; the
  count of dropped messages, which the prompt gives too, is not what "told of" means. A restore whose preview is no
  longer a prefix of the lines puts lines twice (`Restored`); with the caps of the instance that needs a fifth message,
  the theorems cover it.
- The phases `preflight_compacting` and `memory_flushing` count as running: an abort in any of the three leaves the
  slot to the end of the run. `RouteOf` keeps of an origin whether it is one of the routes, missing (`Neutral`) or
  unroutable (`Unroutable`).

## Runs

| Run | Instance | Question and result |
|---|---|---|
| `queue` | 1 lane, 3 commands, 2 priorities, 1 waiter, 1 reset, limits 1, -1 and 2 | slots, queues, promises and waiters stay consistent under every order of operations; starts respect limit and order; a command settles once, and it settles; waits end |
| `runs` | 2 runs (one cron) of one session, 2 resets per lane | an attempt lives inside its session command; two attempts overlap only after one was given up; nested slots never wait on themselves |
| `lane_suspension` | 3 runs in one lane of limit 2 | a lane at zero has an armed timer; every run settles whatever is suspended |
| `delivery_safety` | 2 deliveries of one part, required and best-effort, 2 drainers, 1 crash, failing writes | one owner per row, no claim left behind, no failure counted past the limit of retries |
| `delivery_durable` | 1 required delivery of 2 parts, failing writes, lost answers, 2 crashes | implements `DurableSend`; no part is sent twice once the row is marked; a pending row of a channel that drains again settles |
| `delivery_duplicate` | 1 required delivery, 1 crash | **violated**: a crash during a replay leads to a second blind replay |
| `heartbeat` | 2 wakes of two targets, 3 passes in flight, 2 registrations | no wake is lost or without a timer, overlaps are bounded by registrations, an armed cooldown is kept, every wake is served |
| `heartbeat_cooldown` | the same | **violated**: a request during a run cuts the retry delay short |
| `approvals` | 1 approval, 2 operators, 2 calls of the node | the record stays in step, operators agree, the command runs as ruled and an allow-once once, every request is answered |
| `approvals_fallback` | the same | **violated**: a prompt nobody receives ends in a refusal although `askFallback` is full |
| `followup` | 4 messages, 1 fault (`/stop` or a throwing run) | the slot belongs to the live operation; messages are lost in the named ways only, run once and in order; without a `/stop` a backlog is left alone by a plain `complete()` only; messages that are not left alone settle |
| `followup_orphaned` | the same | **violated**: a message queued behind a turn that is answered without a run has no drain |

### Disagreements with runs

1. `delivery-queue-recovery.ts:381` says that a crash after the start of a platform send is never blindly replayed.
   A replay is itself sent with `skipQueue` and is not marked, so a crash during it is. `MarkedSendsOnce` states what
   holds: once a row is marked, no part is repeated.
2. `heartbeat-wake.ts:192` calls the retry cooldown a hard minimum delay. Only a timer of kind retry is one: a request
   that arrives during a run arms a normal timer, the busy answer after it finds that timer sooner and arms none, and
   the busy target is tried again early. `ArmedCooldownKept` states what holds: a retry that armed its timer is kept.
3. `docs/tools/exec-approvals.md:162` says that `askFallback` decides when no interface can be reached. The gateway
   expires such a prompt with `resolvedBy: "no-approval-route"`, and honours the fallback only for records whose
   `resolvedBy` is null (`node-invoke-system-run-approval.ts:420`).
4. `docs/concepts/queue.md:44` says that a message is kept for a turn after the current run, and `agent-runner.ts:1289`
   that the check after the enqueue keeps the queue from being left idle. The check (`isEmbeddedAgentRunActive`) is
   also true while any reply operation holds the session (`agents/embedded-agent-runner/runs.ts:508`). A message of
   another Slack thread, say, passes such an operation before it has a run, is enqueued and gets no drain; if a command
   or a hook then answers the turn, it ends by a plain `complete()` that starts none (`dispatch-from-config.ts:3020`).
   The same happens behind the operation that delivers a reply. The message waits until a run of the session ends or
   an enqueue finds no operation. `LeftByPlainEndOnly` states what holds: without a `/stop` no other step leaves a
   backlog alone.

### Disagreements seen while modelling

These have no run of their own; the traces are in the modules under the constants named.

- `docs/concepts/queue.md:121` promises one agent run per session at a time. When the lane timeout of an attempt fires
  the queue frees its slot and settles its promise, but cannot stop the task; the session command ends with the
  promise and the next run of the session starts beside it. `OverlapOnlyAfterGivingUp` of `runs` states what holds.
- `docs/concepts/queue.md:20` promises that the configured limit caps parallelism. The resume timer of a suspension
  (`session-suspension.ts:58`) carries the limit of the config its run started with, and sets it after a reload
  lowered it (`LaneSuspension` with `ConfigLimits = {1, 2}`).
- `deliver.ts:1317` tracks failed parts of a best-effort delivery so as not to acknowledge it. The replay by a drain
  bypasses that bookkeeping and acknowledges a row none of whose parts was sent (`BestEffort = {d1}`).
- `deliver.ts:1257` says that a row is removed after success. The catch of the live call acknowledges the row for every
  error named AbortError, meaning the caller's abort; an adapter whose own request times out may throw one too (the
  container client of the Signal extension does), and the message is lost without a retry (`AbortErrors = TRUE`).
- A `/stop` leaves a backlog alone as well. While the drain of a queue object runs a followup, `/stop` removes the
  object; a message enqueued then goes into a new one, its turn sees the run active and schedules no drain, and the end
  of the old drain does nothing for the new object (`drain.ts:557`).
- A heartbeat runner that is stopped in the middle of a batch answers the rest as disabled (`heartbeat-runner.ts:2343`):
  those wakes count as served and are never run. `NoWakeLost` is about answers.
- An overflow summary loses messages in three ways: it keeps as many lines as the cap, and later drops shift the older
  ones out (`queue-helpers.ts:121-125`, `elided`; the prompt still counts them); lines that come while its run is on are
  cleared with it (`drain.ts:542`, `forgotten`); and in followup mode its run removes the message at the head without
  its prompt (`drain.ts:523`, `taken`). `QueuedAccountedFor` names all three.

### Bounds

- Queue: one reset makes a stale completion possible, and `runs` has two so that one meets a second. Three commands are
  one running, one queued before and one behind it, in two priorities. The limits, initially 1 and then -1 (clamped to
  0) or 2, are below and above what competes. One lane suffices since lanes share only the draining flag, the sequence
  numbers and the waiters; the nested lanes of `runs` cover several.
- Suspension: one limit keeps the liveness checkable; a run suspends its lane once, three of them overlap.
- Delivery: the second crash is the first that can hit a replay. `MAX_RETRIES` is 2 (5 in the code) so that the limit
  is reached. `MaxCopies` saturates the count of copies of a part: 2 is enough to tell "sent twice". Two deliveries
  meet only in the scans of the drains, two drainers are all there are for a channel.
- Heartbeat: two registrations let the pass of the old handler meet the new one, three slots let no pass be missing.
  Two requests for one target do not meet in this instance; the theorems `WakesKept` and `PendingScheduled` do cover
  coalescing.
- Approvals share nothing but the operators, who act once each: one approval and two operators are what can race.
  `MaxInvokes = 2` is one call and its repetition.
- Followups: four messages are one that runs, and three to queue, of which the second has no
  origin metadata, the third other rights and the fourth another route; the cap of 2 (collect) or 1 (followup)
  overflows, the latter twice. All messages may pass an operation (`Bypassing`). One fault reaches every recovery path
  once.

Deadlock is not checked: each system may really stop, with every command settled and every row removed.

### Fairness

- Queue: a started task function ends or its lane timeout fires. In `CommandQueue`, a lane at limit zero is set to a
  positive limit again; `LaneSuspension` discharges that assumption, with only timers and running tasks being fair.
- Runs: every attempt ends or its lane timeout fires, and a task that may continue does. `run.ts:306` gives no timeout
  to an attempt whose `timeoutMs` is zero or not finite; of such an attempt it is assumed that it ends. Nothing is assumed
  of recoveries, restarts and cron job timeouts.
- Suspension: timers fire, a started patch of the session store ends.
- Delivery: calls and drains that have started go on; drains of the channels in `Periodic` start again; their backoff
  does elapse, and their rows are not unmatched every time (strong fairness of `Proceed`, which each drain meets again
  with a later clock), and the state database
  does not fail every time (strong fairness of `EntryWritten`). No crash is fair.
- Heartbeat: time passes, due timers fire, handler calls return, and a handler is not busy for a wake for ever
  (strong fairness). Nobody has to register a handler: `WakesServed` says what it needs of one.
- Approvals: time passes, timers fire, handlers and agents go on. No operator ever has to decide, and no call has to
  be repeated.
- Followups: turns and drains go on, which includes that a run ends. No message has to arrive, nobody has to `/stop`.
  `MessagesSettle` excepts messages of a queue that stays without a drain, disagreement 4.

## Proofs

All theorems hold for every value of the constants that the named assumptions of the modules admit.

| Module | Theorem | Property |
|---|---|---|
| `CommandQueueProofs` | `TypeCorrect` | `TypeOK` |
| | `SlotsCorrect` | `SlotsAreCurrentClosures`: a reset or a timeout neither leaks a slot nor frees another's |
| | `CommandsAccountedFor` | `PendingIsQueuedOrInFlight`: no command is lost or started twice |
| | `WaitersWoken`, `WorkConserving`, `LimitRespected` | `NoLostWakeup`, `NoIdleCapacity`, `StartsRespectLimit` |
| | `SettledOnce`, `StartedInOrder` | `SettlesOnce`, `StartsInOrder` |
| `EmbeddedRunsProofs` | `Nested` | `AttemptInsideSession` |
| | `OverlapExplained` | `OverlapOnlyAfterGivingUp` |
| | `ImplementsQueue` | the runs implement `CommandQueue!Spec` |
| | `CommandsAccountedFor`, `StartedByPriority` | of the runs: `PendingIsQueuedOrInFlight`, `SettlesOnce`, `StartsInOrder` |
| `LaneSuspensionProofs` | `SuspensionResumes` | `SuspendedLaneHasTimer` |
| | `SuspensionHolds` | a lane at zero starts nothing (`SuspendedStartsNothing`) |
| | `RunsAccountedFor`, `NoLaneIdles` | `PendingIsQueuedOrInFlight`, `NoIdleCapacity` under suspensions and reloads |
| | `RunsSettleOnce`, `RunsStartInOrder` | `SettlesOnce`, `StartsInOrder` under suspensions and reloads |
| `OutboundDeliveryProofs` | `TypeCorrect`, `RetryBound` | `TypeOK`, `RetriesBounded`: no failure is counted past the limit |
| | `ClaimExclusion` | `ClaimsExclusive`: a claim has exactly one holder |
| | `MarkedOnce` | `MarkedSendsOnce`: a marked row is never replayed blindly |
| | `Durability` | `ImplementsDurableSend`, if `NothingPassedOver` |
| | `Copies` | `CopiesBounded`: at most `MAX_RETRIES` copies of a part and one more per crash, if `WritesSucceed` |
| `HeartbeatWakeProofs` | `TypeCorrect`, `WakesKept`, `PendingScheduled`, `OverlapBound` | `TypeOK`, `NoWakeLost`, `PendingHasTimer`, `OverlapBounded` |
| | `ArmedDelayKept` | `ArmedCooldownKept` |
| | `LatestKept` | the disposer of an old registration never removes a newer handler (`LatestHandlerStays`) |
| `ExecApprovalsProofs` | `TypeCorrect`, `RecordStaysInStep`, `Agreement` | `TypeOK`, `RecordInStep`, `OperatorsAgree` |
| | `RunsFollowRuling`, `AllowOnceConsumed` | `RunsAsRuled`, `AllowOnceRunsOnce` |
| `FollowupQueueProofs` | `SlotExclusive` | `SlotHeldByLiveOperation` |
| | `LeftAloneOnlyByPlainEnds` | `LeftByPlainEndOnly` |
| `FollowupContentProofs` | `TypeCorrect`, `ContentHolds` | `TypeOK`; the inductive invariant `FInv` |
| | `Accounted` | `QueuedAccountedFor`: a message leaves a queue answered, told of, or by a loss with a name |
| | `AnsweredOnce`, `AnsweredInOrder` | `OneRunEach`, `RunsInOrder` |
| | `NeverMixed` | a prompt combines one authorization and at most one route besides messages without origin (`PromptsTogether`) |

How the arguments go:

- **Command queue.** `IInv` strengthens the properties by what ties an entry to its place: whatever is queued has an
  entry of that lane, is pending and not in flight; whatever is in flight was started in a generation not later than
  its lane's. Without the last part a completion of an old generation could not be told from a current one. Every
  operation builds an intermediate state and pumps it, so the argument has two layers: `DrainWellFormed` and
  `DrainFills` show that a pump preserves the invariant and leaves no free slot beside a queued command, and each
  operation shows the invariant of the state it hands to the pump. `StartedInOrder` adds that every queue is `Sorted`
  by priority and sequence, with all its numbers below the next one: `InsertSorted` shows it of the place an enqueue
  picks, `DrainSorted` of what a pump leaves.
- **Agent runs.** Every step is a step of the queue (`StepOfQueue`), so `EmbeddedRunsProofs` instantiates the proofs of
  the queue, with the commands and lanes of the runs for its constants, and takes over their invariants and what they
  say of one step; `ImplementsQueue` is the refinement itself. What it adds is about nesting: a body that executes is
  in flight or was given up, the attempt of a run is queued only while its session command is in flight, and a
  session's lane keeps its limit of one. Sets of runs have to be finite (`RunsFinite`) for the slots of a lane to be
  counted.
- **Lane suspension.** The limits are numbers, a timer carries a limit some run captured (`OnlyCaptured`, hence above
  zero), and a lane at zero has a timer. The steps of the queue that these modules share never touch a limit.
  A suspension, a resumption and the steps of a run are steps of the queue (`StepOfQueue`). A reload is not: it sets
  all limits and then pumps all lanes, which the lemmas about the pump cover (`ReloadPumps`), so that the invariants
  of the queue hold here too.
- **Outbound delivery.** `IInv` has one part per delivery (`DInv`), one per drain (`DrainInStep`) and two about claims.
  `DInv` says what a row and the platform look like in each phase of the live call: a call before its claim has a
  fresh row and an untouched platform, one that holds its claim has sent each part at most once and the parts to come
  not at all, a delivery that bypassed the queue has neither row nor claim. `DrainInStep` says that the entry of a
  drain is claimed and held by no live call and, once the drain works on it, pending with a retry left, and that a
  marked row under replay has the rest of its parts untouched. The frame lemmas `LiveFrame` and `DrainFrame` reduce
  a step to the delivery and the drain it concerns; `CallMoves`, `WorkMoves` and `ReleaseMoves` then cover the
  steps of a call, of a drain at work and of one that lets go of its entry.
- **Refinement.** `Durability` adds `RInv`: nothing before the current part was skipped, and a call or a drain that is
  about to acknowledge has all parts on the platform or, for a call, was aborted. `IntentKept`, `IntentsStay`
  and `IntentMoves` map every step to a step of `DurableSend` or to a stutter. Its premise `NothingPassedOver` excludes
  best-effort errors and timeouts that look like aborts: with either, the two disagreements about `deliver.ts` above
  are counterexamples.
- **Copies of a part.** `NoDuplicates` fails (see above), so `Copies` says how many there can be where the writes of
  the state database succeed. `CInv` charges each copy: the live call marks its row before it sends (`MarkedFirst`), and
  of a row without a mark a part is on the platform once per retry counted and per crash, and once more only while a
  drain is `AtWork` with that part behind it (`Counted`). A replay sends a part no drain has behind it; the end of an
  attempt counts a retry, removes the row or fails it; a crash takes the copy of the attempt it cuts short on itself. A
  write that fails would end an attempt without counting it, hence the premise. Best-effort errors, lost answers and
  drains that run again and again are all admitted.
- **Heartbeat wake.** `IInv` adds to the properties what the passes of the timer callback owe: every request they cover
  is in their batch (`BatchesCovered`), no more of them are in flight than registrations admit (`RunsCounted`), and
  registrations and disposals take one generation each (`GenerationsCounted`). `ArmedDelayKept` has an invariant of its
  own, `RetryAhead`: an armed delay is at most what is left of the one timer, which is a retry timer and gives way to
  nothing; it needs a retry delay above zero (`CoalesceAssumption`; the code has one second).
- **Exec approvals.** `AInv` relates, for one approval, the record, the promise, the timers, the phase of the request,
  what the agent heard, the first ruling and what ran; `ToldAsRuled` ties each operator's answer to it.
- **Followups.** Whoever may end an operation has its name: a turn that holds one, or a drain from its admission to the
  end of its run (`TurnsInv`, `QueuesInv`). `Ended` then frees the slot only for the operation it is held by, and a new
  one is made only in a free slot. For the backlog, `OwnDrains`: without a `/stop` the drain at work is that of the
  object in the map, so that its next round, restart or end (`Took`) leaves a drain or no object at all. Each step then
  shows the invariant and `Cares`, the action inside `LeftByPlainEndOnly`: an end of a run schedules the drain, an
  arrival schedules it unless an operation or a run is there, and what may take that away is a plain `complete()`. What
  the objects and calls hold does not matter to either theorem and is left open.
- **What the followup queue holds.** A drain keeps the messages of its call in its hand and in the object until the run
  returns, so a message is in two places of one object, and after a `/stop` two objects are drained at once. `FInv`
  therefore speaks of what an object *and its drain* hold: two of them have nothing in common, the hand is in the order
  of arrival and older than what came to the object since, nothing held was answered, and, until a `/stop`, nothing
  held is older than what was answered (`OrderInv`; after a `/stop` the old drain and the new one interleave). Most
  steps only shrink what one object holds (`Shrunk`, `ShrinkFrame`); an arrival (`Place`) and the end of a run
  (`AfterCall`) are the steps that do more. `Accounted` follows each message that leaves an object (`Gone`).
  Lines that an overflow shifts out or a restore repeats are covered as sets: what the summary has is the lines it had,
  the dropped messages, less the elided ones.
  `NeverMixed` says that the rest of a snapshot, from which later groups are taken, never crosses routes (`StepCalls`).
  The lemmas about sequences need induction, over what the recursive function of `Without` keeps. It is done over sets:
  a set of naturals has a least element (`Least`, from the well-foundedness of `<`), hence a set that has zero
  and every successor up to `n` has all of them (`UpTo`), and the hypothesis is a set instead of a predicate.

Only model-checked: the liveness properties (temporal reasoning under fairness is out of the prover's reach). Every
invariant and every action property of a passing run is also a theorem.

## Plan

What is left, in order:

1. The `quotaSuspension` record in `LaneSuspension`; steering and interrupts in `FollowupQueue`, composed with
   `EmbeddedRuns` for clearing and aborts; plugin approvals and the gateway host in `ExecApprovals`.
2. Cron jobs above `EmbeddedRuns`; the session delivery queue beside `OutboundDelivery`.
3. Task registry, gateway lock and session write lock, channel lifecycle, config reload and restart.

## Not modelled

The contents of messages, prompts and configuration; the clock, beyond what is said above; diagnostics; commit hooks
and mirroring after a delivery, which change no row; the model turn. Of the modelled components:

- lane suspension: the `quotaSuspension` record of the session store;
- delivery: planning, hooks, chunking and media, which are the parts of a delivery;
- exec approvals: plugin approvals, the automatic review, the client's own wait timeout, approvals of commands on the
  gateway host;
- heartbeat wake: what a handler does (`heartbeat-runner.ts`), apart from its answers;
- followup queue: steering, interrupt mode, heartbeat turns, aborted room events, removal of duplicates by message id,
  re-admission of a turn that only enqueued, and rebinding of an operation to another session id.

`PROJECT.json` lists every other component with the reason. The modules cover a small share of the repository's lines
by design: most of the repository is user interfaces, platform adapters, plugins, scripts and generated code, which
are sequential, I/O bound or owned by a service; the modules cover the files whose state several callbacks share.
