---------------------------- MODULE FollowupQueue ----------------------------
(***************************************************************************)
(* One session of the auto-reply pipeline: the reply slot of               *)
(* src/src/auto-reply/reply/reply-run-registry.ts, the turns that compete  *)
(* for it (dispatch-from-config.ts, reply-turn-admission.ts,               *)
(* agent-runner.ts), and the followup queue with its drains (queue/*.ts,   *)
(* followup-runner.ts).                                                    *)
(*                                                                         *)
(* A reply operation is named by its creation, a queue object too: /stop   *)
(* removes the object from the map while a drain may still work on it.     *)
(* Quiet windows and admission time-outs are steps that may happen; the    *)
(* line of a summary is the message it tells of.                           *)
(***************************************************************************)
EXTENDS Integers, Sequences, SequencesExt, FiniteSets

CONSTANTS
  Messages,   \* the inbound messages of the session, numbered as they arrive
  SettingsOf, \* message -> the queue settings it may be enqueued with
  RouteOf,    \* message -> the channel and thread it came from, or one of the two below
  AuthOf,     \* message -> resolveFollowupAuthorizationKey of its run
  Bypassing,  \* the messages that can be queued while an operation has the session: those
              \* of Slack threads, which pass one of another thread, and those that come
              \* to getReplyFromConfig without an operation of a dispatch
  MaxFaults   \* bound on the /stop commands and the followup runs that throw

Neutral == 0      \* no origin metadata: it joins any route
Unroutable == -1  \* an origin without a route, or metadata of its own turn

Modes == {"followup", "collect"}
QueueSettings == [mode : Modes, cap : Nat \ {0}, drop : {"summarize", "old", "new"}]
ASSUME SettingsAssumption == \A m \in Messages : SettingsOf[m] \subseteq QueueSettings
ASSUME MessagesAssumption == Messages \subseteq Nat /\ Bypassing \subseteq Messages
ASSUME MaxFaultsAssumption == MaxFaults \in Nat

VARIABLES
  operations, \* the reply operations created, in order
  slot,       \* activeRunsByKey: the operation that holds the session, 0 for none
  turns,      \* message -> its dispatch and the run of its turn
  queues,     \* the queue objects created, in order
  current,    \* FOLLOWUP_QUEUES: the object in the map, 0 for none
  drains      \* queue object -> its drain

\* History: how the messages left the queue, and the faults so far.
VARIABLES
  enqueued,   \* the messages in the order they were enqueued
  answered,   \* the messages in the order of the followup runs that had them as prompt
  summarised, \* told of in the overflow summary of a run
  elided,     \* shifted out of the summary by the lines of later drops
  taken,      \* removed by the run of a summary, which does not have their prompt
  forgotten,  \* dropped on overflow while the run of an older summary was on
  discarded,  \* dropped on overflow, or refused by a full queue
  cleared,    \* removed by /stop
  faults

slotVars == <<operations, slot>>
queueVars == <<queues, current, drains>>
fates == <<answered, summarised, elided, taken, forgotten, discarded, cleared>>
vars == <<slotVars, turns, queueVars, enqueued, fates, faults>>

Queues == 1..Len(queues)
TurnStates ==
  {"new", "pre", "wait", "enqueue", "held", "running", "ended", "readmit", "deliver", "done"}
NoTurn == [pc |-> "new", seen |-> 0, op |-> 0]
\* The call of the followup runner: the messages it removes when it is done, those of
\* the snapshot still to come, the summary lines in its prompt.
NoCall == [kind |-> "item", items |-> <<>>, rest |-> <<>>, summary |-> <<>>]
Idle == [pc |-> "idle", force |-> FALSE, op |-> 0, call |-> NoCall]

TypeOK ==
  /\ operations \in Seq([result : {"none", "completed", "failed"}, cleared : BOOLEAN])
  /\ slot \in 0..Len(operations)
  /\ turns \in [Messages -> [pc : TurnStates, seen : 0..Len(operations),
                           op : 0..Len(operations)]]
  /\ queues \in Seq([items : Seq(Messages), lines : Seq(Messages),
                     mode : Modes, cap : Nat, drop : {"summarize", "old", "new"}])
  /\ current \in 0..Len(queues)
  /\ DOMAIN drains = Queues
  /\ \A g \in Queues : drains[g].pc \in {"idle", "debounce", "admit", "admitted", "running"}
  /\ ToSet(enqueued) \cup ToSet(answered) \cup summarised \cup elided \cup taken
       \cup forgotten \cup discarded \cup cleared \subseteq Messages

Init ==
  /\ operations = <<>>
  /\ slot = 0
  /\ turns = [m \in Messages |-> NoTurn]
  /\ queues = <<>>
  /\ current = 0
  /\ drains = <<>>
  /\ enqueued = <<>>
  /\ answered = <<>>
  /\ summarised = {} /\ elided = {} /\ taken = {}
  /\ forgotten = {} /\ discarded = {} /\ cleared = {}
  /\ faults = [stops |-> 0, errors |-> 0]

-----------------------------------------------------------------------------
(* The reply slot *)

\* Mutant: the slot is one ahead of the operation.
createReplyOperationAhead ==
  /\ slot = 0
  /\ operations' = Append(operations, [result |-> "none", cleared |-> FALSE])
  /\ slot' = Len(operations') + 1

createReplyOperation ==
  /\ slot = 0
  /\ operations' = Append(operations, [result |-> "none", cleared |-> FALSE])
  /\ slot' = Len(operations')

\* Mutant: an operation that is over frees the slot whoever holds it now.
EndedAgain(op, result) ==
  /\ operations' = [operations EXCEPT ![op].result = IF @ = "none" THEN result ELSE @,
                                      ![op].cleared = TRUE]
  /\ slot' = 0

\* Mutant: only the end that sets the result frees the slot.
EndedByResult(op, result) ==
  /\ operations' = [operations EXCEPT ![op].result = IF @ = "none" THEN result ELSE @,
                                      ![op].cleared = TRUE]
  /\ slot' = IF operations[op].cleared \/ operations[op].result # "none" THEN slot ELSE 0

\* complete and fail: the first result stays, and the slot is freed once.
Ended(op, result) ==
  /\ operations' = [operations EXCEPT ![op].result = IF @ = "none" THEN result ELSE @,
                                      ![op].cleared = TRUE]
  /\ slot' = IF operations[op].cleared THEN slot ELSE 0

\* abortByUser on the active operation: one that still waits for its run is over.
Aborted(queuedPhase) ==
  IF slot = 0 THEN UNCHANGED slotVars
  ELSE IF queuedPhase THEN Ended(slot, "failed")
  ELSE /\ operations' = [operations EXCEPT ![slot].result = IF @ = "none" THEN "failed" ELSE @]
       /\ UNCHANGED slot

-----------------------------------------------------------------------------
(* The queue object and its drain *)

Pending(q) == q.items # <<>> \/ q.lines # <<>>

\* Mutant: as many messages as were run are shifted off the front.
WithoutFront(items, batch) ==
  IF Len(items) < Len(batch) THEN <<>> ELSE SubSeq(items, Len(batch) + 1, Len(items))

\* removeQueuedItemsByRef
Without(items, batch) ==
  LET kept[n \in 0..Len(items)] ==
        IF n = 0 THEN <<>>
        ELSE IF items[n] \in ToSet(batch) THEN kept[n - 1]
        ELSE Append(kept[n - 1], items[n])
  IN kept[Len(items)]

Debounce == [Idle EXCEPT !.pc = "debounce"]

\* scheduleFollowupDrain starts a drain of the object in the map unless it has one.
Scheduled(ds, g) == IF g # 0 /\ ds[g].pc = "idle" THEN [ds EXCEPT ![g] = Debounce] ELSE ds

\* The drain of g is done with a step and its object is q: the next round, or the
\* end, which takes the object out of the map only if it is still there.
NextRound(g, q, force) ==
  /\ queues' = [queues EXCEPT ![g] = q]
  /\ drains' = [drains EXCEPT ![g] = IF Pending(q) THEN [Debounce EXCEPT !.force = force]
                                     ELSE Idle]
  /\ current' = IF ~Pending(q) /\ current = g THEN 0 ELSE current

\* Mutant: the message whose run failed goes to the end of the queue.
RestartedBehind(g, q) ==
  LET stopped == [drains EXCEPT ![g] = Idle]
      rotated == IF q.items = <<>> THEN q ELSE [q EXCEPT !.items = Append(Tail(@), Head(@))] IN
  /\ queues' = [queues EXCEPT ![g] = rotated]
  /\ drains' = IF Pending(q) THEN Scheduled(stopped, current) ELSE stopped
  /\ current' = IF ~Pending(q) /\ current = g THEN 0 ELSE current

\* The drain of g was left by an exception: it is scheduled again for the key, which
\* may mean another object by now.
Restarted(g, q) ==
  LET stopped == [drains EXCEPT ![g] = Idle] IN
  /\ queues' = [queues EXCEPT ![g] = q]
  /\ drains' = IF Pending(q) THEN Scheduled(stopped, current) ELSE stopped
  /\ current' = IF ~Pending(q) /\ current = g THEN 0 ELSE current

\* applyQueueDropPolicy: the messages that leave a full queue for a new one.
Overflow(q) ==
  IF Len(q.items) < q.cap THEN <<>> ELSE SubSeq(q.items, 1, Len(q.items) - q.cap + 1)

\* The lines of the latest drops, as many as the cap, and what is shifted out for them.
LinesKept(lines, cap) ==
  IF Len(lines) =< cap THEN lines ELSE SubSeq(lines, Len(lines) - cap + 1, Len(lines))
LinesElided(lines, cap) == ToSet(lines) \ ToSet(LinesKept(lines, cap))

\* isRunActive: an operation has the session, or the run of an aborted turn goes on.
isRunActive == slot # 0 \/ \E m \in Messages : turns[m].pc = "running"

\* getFollowupQueue: the object in the map with the settings applied, or a new one.
ObjectFor(s) ==
  IF current # 0
  THEN [queues[current] EXCEPT !.mode = s.mode, !.cap = s.cap, !.drop = s.drop]
  ELSE [items |-> <<>>, lines |-> <<>>, mode |-> s.mode, cap |-> s.cap, drop |-> s.drop]

\* enqueueFollowupRun without its restart, then the drain if no run is active.
Enqueue(m, s, schedule) ==
  LET g == IF current # 0 THEN current ELSE Len(queues) + 1
      q == ObjectFor(s)
      out == Overflow(q)
      refused == out # <<>> /\ q.drop = "new"
      summarize == out # <<>> /\ q.drop = "summarize"
      stored == IF refused THEN q
                ELSE [q EXCEPT !.items = Append(SubSeq(@, Len(out) + 1, Len(@)), m),
                               !.lines = IF summarize THEN LinesKept(@ \o out, q.cap) ELSE @]
      before == IF current # 0 THEN drains ELSE Append(drains, Idle)
  IN /\ queues' = IF current # 0 THEN [queues EXCEPT ![g] = stored] ELSE Append(queues, stored)
     /\ current' = g
     /\ drains' = IF schedule THEN Scheduled(before, g) ELSE before
     /\ enqueued' = IF refused THEN enqueued ELSE Append(enqueued, m)
     /\ discarded' = discarded \cup CASE refused -> {m}
                                      [] q.drop = "old" -> ToSet(out)
                                      [] OTHER -> {}
     /\ elided' = elided \cup IF summarize THEN LinesElided(q.lines \o out, q.cap) ELSE {}

-----------------------------------------------------------------------------
(* The turn of a message *)

Turn(m, pc) ==
  turns' = [turns EXCEPT ![m] = IF pc = "done" THEN [NoTurn EXCEPT !.pc = pc]
                                ELSE [@ EXCEPT !.pc = pc]]

\* The dispatch of m gets an operation of its own.
Owns(m, pc) ==
  /\ createReplyOperation
  /\ turns' = [turns EXCEPT ![m] = [pc |-> pc, seen |-> 0, op |-> slot']]

StaysQueued == UNCHANGED <<queueVars, enqueued, fates, faults>>

\* pre_dispatch: a message that meets an active operation goes on with its signal.
PreDispatch(m) ==
  /\ turns[m].pc = "new"
  /\ \A n \in Messages : n < m => turns[n].pc # "new"
  /\ \/ Owns(m, "held")
     \/ /\ slot # 0
        /\ turns' = [turns EXCEPT ![m].pc = "pre", ![m].seen = slot]
        /\ UNCHANGED slotVars
  /\ StaysQueued

\* dispatch: the message is dropped if the operation it met was aborted or failed; else
\* it gets the slot, goes on without it, or waits.
Dispatch(m) ==
  /\ turns[m].pc = "pre"
  /\ IF operations[turns[m].seen].result = "failed" THEN Turn(m, "done") /\ UNCHANGED slotVars
     ELSE IF slot = 0 THEN Owns(m, "held")
     ELSE /\ \/ Turn(m, "wait")
             \/ m \in Bypassing /\ Turn(m, "enqueue")
          /\ UNCHANGED slotVars
  /\ StaysQueued

\* notifyReplyRunEnded woke the waiters; the first of them gets the slot.
Woken(m) ==
  /\ turns[m].pc = "wait"
  /\ Owns(m, "held")
  /\ StaysQueued

\* Mutant: the drain is left to the run that was active when the turn looked.
EnqueueTurnUnchecked(m, s) ==
  /\ turns[m].pc = "enqueue"
  /\ Enqueue(m, s, FALSE)
  /\ Turn(m, "done")
  /\ UNCHANGED <<slotVars, answered, summarised, taken, forgotten, cleared, faults>>

\* The message joins the followup queue, and the turn looks again for an active run.
EnqueueTurn(m, s) ==
  /\ turns[m].pc = "enqueue"
  /\ Enqueue(m, s, ~isRunActive)
  /\ Turn(m, "done")
  /\ UNCHANGED <<slotVars, answered, summarised, taken, forgotten, cleared, faults>>

\* The first setPhase: compaction before the run, flushing of the memory, or the run.
AgentStarts(m) ==
  /\ turns[m].pc = "held"
  /\ operations[turns[m].op].result = "none"
  /\ Turn(m, "running")
  /\ UNCHANGED slotVars
  /\ StaysQueued

\* A command or a hook answered, the turn was aborted, or its reply is delivered.
TurnEnds(m) ==
  /\ turns[m].pc \in {"held", "deliver"}
  /\ Ended(turns[m].op, "completed")
  /\ Turn(m, "done")
  /\ StaysQueued

\* The dispatch of an aborted operation is over at once, its run goes on for a while.
DispatchAborted(m) ==
  /\ turns[m].pc \in {"running", "ended"}
  /\ operations[turns[m].op].result = "failed"
  /\ ~operations[turns[m].op].cleared
  /\ Ended(turns[m].op, "completed")
  /\ UNCHANGED turns
  /\ StaysQueued

\* The embedded run is over, or the turn was aborted before it began.
EmbeddedRunEnds(m) ==
  /\ turns[m].pc = "running"
  /\ Turn(m, "ended")
  /\ UNCHANGED slotVars
  /\ StaysQueued

\* completeThen: the operation is over, then the followup queue is drained.  The
\* dispatch asks for the slot again before it delivers the reply.
AgentEnds(m) ==
  /\ turns[m].pc = "ended"
  /\ Ended(turns[m].op, "completed")
  /\ drains' = Scheduled(drains, current)
  /\ Turn(m, IF operations[turns[m].op].result = "failed" THEN "done" ELSE "readmit")
  /\ UNCHANGED <<queues, current, enqueued, fates, faults>>

Readmitted(m) ==
  /\ turns[m].pc = "readmit"
  /\ Owns(m, "deliver")
  /\ StaysQueued

-----------------------------------------------------------------------------
(* The drain of a queue object *)

\* Messages of more than one route, or one that cannot share a prompt.
IsCrossChannel(items) ==
  LET routes == {RouteOf[m] : m \in ToSet(items)}
  IN Unroutable \in routes \/ Cardinality(routes \ {Neutral}) > 1

\* splitCollectItemsByAuthorization: messages fall into the longest runs of neighbours
\* with one authorization; this is the first.
FirstGroup(items) ==
  SubSeq(items, 1, Max({n \in 1..Len(items) :
                          \A i \in 1..n : AuthOf[items[i]] = AuthOf[items[1]]}))

\* The call for the first group of a snapshot, or of what is left of it.
GroupCall(items, told) ==
  [kind |-> "item", items |-> FirstGroup(items),
   rest |-> SubSeq(items, Len(FirstGroup(items)) + 1, Len(items)), summary |-> told]

\* previewQueueSummaryPrompt
SummaryOf(q) == IF q.drop = "summarize" THEN q.lines ELSE <<>>

Individually(g) ==
  /\ queues[g].mode = "collect"
  /\ \/ IsCrossChannel(queues[g].items)
     \/ drains[g].force /\ Len(queues[g].items) =< 1

\* The calls the drain of g can make next: at most one.
Calls(g) ==
  LET q == queues[g]
      head == SubSeq(q.items, 1, 1)
      summary == SummaryOf(q)
      call(kind, items, told) ==
        {[kind |-> kind, items |-> items, rest |-> <<>>, summary |-> told]}
  IN CASE q.items # <<>> /\ Individually(g) -> call("item", head, <<>>)
       [] q.items # <<>> /\ q.mode = "collect" /\ ~Individually(g) ->
            {GroupCall(q.items, summary)}
       [] q.items = <<>> /\ q.mode = "collect" /\ summary # <<>> ->
            call("summary", <<>>, summary)
       [] q.items # <<>> /\ q.mode = "followup" ->
            call(IF summary = <<>> THEN "item" ELSE "summary", head, summary)
       [] OTHER -> {}

\* The quiet window is over: the next call, the end, or nothing it can do.
DrainStep(g) ==
  /\ drains[g].pc = "debounce"
  /\ IF Calls(g) = {} THEN Restarted(g, queues[g])
     ELSE /\ drains' = [drains EXCEPT ![g] =
                          [@ EXCEPT !.pc = "admit",
                                    !.force = IF queues[g].mode = "collect"
                                              THEN Individually(g) ELSE @,
                                    !.call = CHOOSE c \in Calls(g) : TRUE]]
          /\ UNCHANGED <<queues, current>>
  /\ UNCHANGED <<slotVars, turns, enqueued, fates, faults>>

\* admitReplyTurn for a queued followup
FollowupAdmitted(g) ==
  /\ drains[g].pc = "admit"
  /\ createReplyOperation
  /\ drains' = [drains EXCEPT ![g].pc = "admitted", ![g].op = slot']
  /\ UNCHANGED <<turns, queues, current, enqueued, fates, faults>>

\* The first setPhase, as in AgentStarts.
FollowupStarts(g) ==
  /\ drains[g].pc = "admitted"
  /\ drains' = [drains EXCEPT ![g].pc = "running"]
  /\ UNCHANGED <<slotVars, turns, queues, current, enqueued, fates, faults>>

\* The restore of a preview: lines that still begin with it stay, else it is put back
\* before them, with what is left of it a second time.
Restored(lines, preview) == IF IsPrefix(preview, lines) THEN lines ELSE preview \o lines

\* The slot was not free within REPLY_RUN_IDLE_SETTLE_TIMEOUT_MS: the lines the call
\* was to tell of are restored, and the drain starts again.
FollowupDeferred(g) ==
  /\ drains[g].pc = "admit"
  /\ slot # 0
  /\ Restarted(g, [queues[g] EXCEPT !.lines = Restored(@, drains[g].call.summary)])
  /\ UNCHANGED <<slotVars, turns, enqueued, fates, faults>>

\* The object after the call of the drain: its messages are removed wherever they
\* stand by now, and with a summary all lines are.
AfterCall(g) ==
  LET call == drains[g].call
  IN [queues[g] EXCEPT !.items = Without(@, call.items),
                       !.lines = IF call.summary = <<>> THEN @ ELSE <<>>]

\* The messages of the call leave the queue, with the lines it told of and the ones
\* that came since.
Settled(g) ==
  LET call == drains[g].call
      told == ToSet(call.summary)
  IN /\ answered' = IF call.kind = "item" THEN answered \o call.items ELSE answered
     /\ summarised' = summarised \cup told
     /\ taken' = IF call.kind = "summary" THEN taken \cup ToSet(call.items) ELSE taken
     /\ forgotten' = IF call.summary = <<>> THEN forgotten
                     ELSE forgotten \cup (ToSet(queues[g].lines) \ told)
     /\ UNCHANGED <<elided, discarded, cleared>>

\* Mutant: the messages of a snapshot are removed with its last group.
FollowupDoneLate(g) ==
  /\ drains[g].pc \in {"admitted", "running"}
  /\ Ended(drains[g].op, "completed")
  /\ Settled(g)
  /\ LET rest == drains[g].call.rest
     IN IF rest = <<>> THEN NextRound(g, AfterCall(g), drains[g].force)
        ELSE /\ drains' = [drains EXCEPT ![g].pc = "admit", ![g].op = 0,
                                         ![g].call = GroupCall(rest, <<>>)]
             /\ UNCHANGED <<queues, current>>
  /\ UNCHANGED <<turns, enqueued, faults>>

\* The followup run is over: the next group of the snapshot, or the next round.
FollowupDone(g) ==
  /\ drains[g].pc \in {"admitted", "running"}
  /\ Ended(drains[g].op, "completed")
  /\ Settled(g)
  /\ LET rest == drains[g].call.rest
     IN IF rest = <<>> THEN NextRound(g, AfterCall(g), drains[g].force)
        ELSE /\ drains' = [drains EXCEPT ![g].pc = "admit", ![g].op = 0,
                                         ![g].call = GroupCall(rest, <<>>)]
             /\ queues' = [queues EXCEPT ![g] = AfterCall(g)]
             /\ UNCHANGED current
  /\ UNCHANGED <<turns, enqueued, faults>>

\* The followup run throws: its messages stay, and the drain starts again.
FollowupThrows(g) ==
  /\ faults.stops + faults.errors < MaxFaults
  /\ faults' = [faults EXCEPT !.errors = @ + 1]
  /\ drains[g].pc \in {"admitted", "running"}
  /\ Ended(drains[g].op, "completed")
  /\ Restarted(g, queues[g])
  /\ UNCHANGED <<turns, enqueued, fates>>

-----------------------------------------------------------------------------
(* /stop *)

\* The phase of the operation in the slot is "queued".
QueuedPhase ==
  \/ \E m \in Messages : turns[m].op = slot /\ turns[m].pc \in {"held", "deliver"}
  \/ \E g \in Queues : drains[g].op = slot /\ drains[g].pc = "admitted"

\* The active operation is aborted, the queue object emptied and out of the map.
Stop ==
  /\ faults.stops + faults.errors < MaxFaults
  /\ faults' = [faults EXCEPT !.stops = @ + 1]
  /\ Aborted(QueuedPhase)
  /\ IF current = 0 THEN UNCHANGED <<queues, current, cleared>>
     ELSE /\ queues' = [queues EXCEPT ![current].items = <<>>, ![current].lines = <<>>]
          /\ current' = 0
          /\ cleared' = cleared \cup ToSet(queues[current].items) \cup ToSet(queues[current].lines)
  /\ UNCHANGED <<turns, drains, enqueued, answered, summarised, elided, taken, forgotten,
                 discarded>>

-----------------------------------------------------------------------------

\* The steps of a turn that has begun.
TurnMoves(m) ==
  \/ Dispatch(m) \/ Woken(m) \/ \E s \in SettingsOf[m] : EnqueueTurn(m, s)
  \/ AgentStarts(m) \/ EmbeddedRunEnds(m) \/ AgentEnds(m) \/ DispatchAborted(m)
  \/ Readmitted(m) \/ TurnEnds(m)

Next ==
  \/ \E m \in Messages : PreDispatch(m) \/ TurnMoves(m)
  \/ \E g \in Queues :
       \/ DrainStep(g) \/ FollowupAdmitted(g) \/ FollowupDeferred(g) \/ FollowupStarts(g)
       \/ FollowupDone(g) \/ FollowupThrows(g)
  \/ Stop

Spec == Init /\ [][Next]_vars

\* The steps of a drain but its time-out and its failure.
DrainMoves(g) ==
  /\ g \in Queues
  /\ DrainStep(g) \/ FollowupAdmitted(g) \/ FollowupStarts(g) \/ FollowupDone(g)

\* Runs come to an end, timers fire, and the end of an operation wakes the waiters.
FairSpec ==
  /\ Spec
  /\ \A m \in Messages : WF_vars(TurnMoves(m))
  /\ \A g \in 1..Cardinality(Messages) : WF_vars(DrainMoves(g))

-----------------------------------------------------------------------------
(* Properties *)

\* The operation that holds the session is the one that is not over: a late end of an
\* aborted turn frees nobody else's slot, and no end is missed.
SlotHeldByLiveOperation ==
  \A i \in DOMAIN operations : ~operations[i].cleared <=> i = slot

\* No message is lost between the queue and its drains but by a loss that is named: it
\* is queued, has a line in the summary to come, was answered or told of, or left by
\* /stop, by the policy "old", or by one of the three ways a summary loses messages.
QueuedAccountedFor ==
  \A m \in ToSet(enqueued) :
    \/ m \in ToSet(answered) \cup summarised \cup discarded \cup cleared
    \/ m \in elided \cup taken \cup forgotten
    \/ current # 0 /\ m \in ToSet(queues[current].items) \cup ToSet(queues[current].lines)

\* A message is the prompt of one run: what a snapshot, a retry, an overflow during the
\* run and a new queue object hold of it does not run it again.
OneRunEach == Cardinality(ToSet(answered)) = Len(answered)

IndexOf(m) == CHOOSE i \in DOMAIN enqueued : enqueued[i] = m

\* Without a /stop the followups of a session run in the order they came in, in either
\* mode, whatever is retried, deferred or dropped.
RunsInOrder ==
  faults.stops = 0 =>
    \A i, j \in DOMAIN answered : i < j => IndexOf(answered[i]) < IndexOf(answered[j])

\* A message that waits has somebody to drain it: a drain of its object, or an operation
\* or run it was queued behind.
BacklogHasDrain ==
  current # 0 /\ Pending(queues[current]) =>
    \/ drains[current].pc # "idle"
    \/ isRunActive
    \/ \E m \in Messages : turns[m].pc = "ended"

\* Without a /stop a backlog is left alone in one way: the operation it was queued behind
\* is that of a turn which is answered without a run, or delivers its reply, and ends by
\* complete().  Every other end, deferral, throw or abort, and the check after an enqueue,
\* leaves somebody to drain it.
LeftByPlainEndOnly ==
  [][faults.stops = 0 /\ BacklogHasDrain /\ ~BacklogHasDrain' =>
       \E m \in Messages : turns[m].pc \in {"held", "deliver"} /\ turns'[m].pc = "done"]_vars

Queued(m) == current # 0 /\ m \in ToSet(queues[current].items)

\* Every message that arrived comes to the end of its turn and leaves the queue, unless
\* the queue is left alone: waiting, deferrals and failed runs only delay it.
MessagesSettle ==
  <>[](\A m \in Messages : turns[m].pc # "new" =>
         turns[m].pc = "done" /\ (Queued(m) => ~BacklogHasDrain))
=============================================================================
