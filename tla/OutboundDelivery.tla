-------------------------- MODULE OutboundDelivery --------------------------
(***************************************************************************)
(* The write-ahead queue of outbound messages: a delivery is a row of the  *)
(* state database before its first platform send and until its last, so    *)
(* that a crash loses none (src/src/infra/outbound/deliver.ts,             *)
(* delivery-queue-storage.ts and delivery-queue-recovery.ts beside it).    *)
(*                                                                         *)
(* Two kinds of process work on the rows: the live call that created a     *)
(* row, and drains (the recovery after a start, and those a channel runs   *)
(* when it reconnects) that replay what is left.  They share an in-memory  *)
(* claim per row, entriesInProgress.  A step ends where the code awaits.   *)
(*                                                                         *)
(* A part is one platform send of a delivery: a payload, or one chunk or   *)
(* media unit of it; payloads of a best-effort delivery are of one part.   *)
(* The platform may commit a part and the answer be lost.  Reconciliation  *)
(* is the channel adapter's and truthful: "sent" if every part is on the   *)
(* platform, "not_sent" if none is.                                        *)
(***************************************************************************)
EXTENDS Naturals, FiniteSets

CONSTANTS
  Deliveries,     \* identities of the deliveries
  NoDelivery,     \* the entry of a drain between two rows
  PartsOf,        \* delivery -> number of platform sends its hooks let through
  BestEffort,     \* deliveries with bestEffort: an error of a part is reported
  Required,       \* deliveries with queuePolicy "required", others best_effort
  Reconciling,    \* those whose adapter declares reconcileUnknownSend
  Drainers,       \* drain keys, and Startup for recoverPendingDeliveries
  Startup,
  Periodic,       \* the drain keys that a channel drains again and again
  Matching,       \* drainer -> the deliveries its selectEntry may match
  MAX_RETRIES,
  LostAnswers,    \* whether a part that failed may be on the platform
  AbortErrors,    \* whether the timeout of a platform call may be an AbortError
  StorageErrors,  \* whether writes of the state database may fail
  MaxCopies,      \* bound: copies of a part on the platform are counted up to here
  MaxCrashes      \* bound: the process crashes at most this many times

ASSUME NoDeliveryAssumption == NoDelivery \notin Deliveries
ASSUME PartsOfAssumption == PartsOf \in [Deliveries -> Nat]
ASSUME FlagsAssumption ==
  /\ BestEffort \subseteq Deliveries
  /\ Required \subseteq Deliveries
  /\ Reconciling \subseteq Deliveries
ASSUME DrainersAssumption ==
  /\ Startup \in Drainers
  /\ Periodic \subseteq Drainers \ {Startup}
  /\ Matching \in [Drainers -> SUBSET Deliveries]
  /\ Matching[Startup] = Deliveries
ASSUME BoundsAssumption ==
  /\ MAX_RETRIES \in Nat \ {0}
  /\ {LostAnswers, AbortErrors, StorageErrors} \subseteq BOOLEAN
  /\ MaxCopies \in Nat \ {0, 1}
  /\ MaxCrashes \in Nat

VARIABLES
  row,                \* delivery -> its row of delivery_queue_entries
  entriesInProgress,  \* the deliveries some process of this life claims
  live,               \* delivery -> the call of deliverOutboundPayloads
  drain,              \* drainer -> its pass over the rows
  platform,           \* delivery -> part -> copies of it on the platform
  aborted,            \* the deliveries whose abort signal fired
  crashes

vars == <<row, entriesInProgress, live, drain, platform, aborted, crashes>>

Parts(d) == 1..PartsOf[d]
NoRow == [status |-> "none", retryCount |-> 0, recoveryState |-> "none"]

Row == [status : {"none", "pending", "failed"}, retryCount : Nat,
        recoveryState : {"none", "send_attempt_started", "unknown_after_send"}]

\* started is platformSendStarted and partial hadPartialFailure of the wrapper;
\* queued is FALSE for a delivery sent directly because its row was not written.
Live == [pc : {"idle", "queued", "sending", "calling", "acking", "failing", "over"},
         part : Nat \ {0}, started : BOOLEAN, partial : BOOLEAN, queued : BOOLEAN]

Drain == [pc : {"idle", "scanning", "claimed", "reconciling", "replaying", "acking",
                "retrying", "rejecting", "over"},
          todo : SUBSET Deliveries, entry : Deliveries \cup {NoDelivery}, part : Nat]

IdleDrain == [pc |-> "idle", todo |-> {}, entry |-> NoDelivery, part |-> 0]

TypeOK ==
  /\ row \in [Deliveries -> Row]
  /\ entriesInProgress \in SUBSET Deliveries
  /\ live \in [Deliveries -> Live]
  /\ \A d \in Deliveries : live[d].part =< PartsOf[d] + 1
  /\ drain \in [Drainers -> Drain]
  /\ DOMAIN platform = Deliveries
  /\ \A d \in Deliveries : platform[d] \in [Parts(d) -> 0..MaxCopies]
  /\ aborted \in SUBSET Deliveries
  /\ crashes \in 0..MaxCrashes

Init ==
  /\ row = [d \in Deliveries |-> NoRow]
  /\ entriesInProgress = {}
  /\ live = [d \in Deliveries |->
       [pc |-> "idle", part |-> 1, started |-> FALSE, partial |-> FALSE, queued |-> TRUE]]
  /\ drain = [k \in Drainers |-> IdleDrain]
  /\ platform = [d \in Deliveries |-> [p \in Parts(d) |-> 0]]
  /\ aborted = {}
  /\ crashes = 0

Pending(d) == row[d].status = "pending"

-----------------------------------------------------------------------------
(* Storage: each operation is one synchronous statement; a write that fails *)
(* leaves the row as it was.                                                *)

Deletes(d) == row' = [row EXCEPT ![d] = NoRow]

SetsState(d, state) == row' = [row EXCEPT ![d].recoveryState = state]

failDelivery(d) == row' = [row EXCEPT ![d].retryCount = @ + 1]

moveToFailed(d) == row' = [row EXCEPT ![d].status = "failed"]

Fails == StorageErrors /\ row' = row

release(d) == entriesInProgress' = entriesInProgress \ {d}

\* What the platform does with part p of d: it commits it or not, and answers
\* with a result, with an error, with one that is permanent, or with the AbortError
\* of the adapter's own timeout.
Sends(d, p, answer) ==
  \/ /\ answer = "ok" \/ (LostAnswers /\ answer \in {"error", "abort"})
     /\ platform' = [platform EXCEPT ![d][p] = IF @ < MaxCopies THEN @ + 1 ELSE @]
  \/ /\ answer # "ok"
     /\ platform' = platform

-----------------------------------------------------------------------------
(* The live call: deliverOutboundPayloadsInternal *)

Enqueue(d) ==
  /\ live[d].pc = "idle"
  /\ row' = [row EXCEPT ![d] = [NoRow EXCEPT !.status = "pending"]]
  /\ live' = [live EXCEPT ![d].pc = "queued"]
  /\ UNCHANGED <<entriesInProgress, drain, platform, aborted, crashes>>

\* The row cannot be written: a required delivery throws, another one is sent
\* directly.
EnqueueFails(d) ==
  /\ live[d].pc = "idle"
  /\ Fails
  /\ live' = [live EXCEPT ![d].pc = IF d \in Required THEN "over" ELSE "sending",
                          ![d].queued = FALSE]
  /\ UNCHANGED <<entriesInProgress, drain, platform, aborted, crashes>>

\* Mutant: the live call sends without taking the claim.
ClaimLiveUnclaimed(d) ==
  /\ live[d].pc = "queued"
  /\ live' = [live EXCEPT ![d].pc = "sending"]
  /\ UNCHANGED <<row, entriesInProgress, drain, platform, aborted, crashes>>

\* withActiveDeliveryClaim: a drain may have claimed the new row before; then the
\* call returns without a result and leaves the row to the drain.
ClaimLive(d) ==
  /\ live[d].pc = "queued"
  /\ IF d \in entriesInProgress
     THEN /\ live' = [live EXCEPT ![d].pc = "over"]
          /\ UNCHANGED entriesInProgress
     ELSE /\ live' = [live EXCEPT ![d].pc = "sending"]
          /\ entriesInProgress' = entriesInProgress \cup {d}
  /\ UNCHANGED <<row, drain, platform, aborted, crashes>>

\* The call ends, with its claim.
LiveEnds(d) ==
  /\ live' = [live EXCEPT ![d].pc = "over"]
  /\ IF live[d].queued THEN release(d) ELSE UNCHANGED entriesInProgress
  /\ UNCHANGED <<drain, platform, aborted, crashes>>

\* An error of the current part: thrown, or noted and passed over.
PartFails(d) ==
  live' = IF d \in BestEffort
          THEN [live EXCEPT ![d].pc = "sending", ![d].part = @ + 1, ![d].partial = TRUE]
          ELSE [live EXCEPT ![d].pc = "failing"]

PartsLeft(d) == live[d].pc = "sending" /\ live[d].part =< PartsOf[d]

\* An error before the row is marked: the hooks and the rendering of a part, or the mark
\* of a required delivery, fail as the part does; the channel's handler, made before the
\* first part, throws whatever the policy.
FailsUnsent(d) ==
  /\ live[d].pc = "sending" /\ ~live[d].started
  /\ \/ PartsLeft(d) /\ d \notin aborted /\ PartFails(d)
     \/ live[d].part = 1 /\ live' = [live EXCEPT ![d].pc = "failing"]
  /\ UNCHANGED <<row, entriesInProgress, drain, platform, aborted, crashes>>

\* onPlatformSendStart marks the row once before the first platform send; where the
\* mark fails, a delivery that is not required goes on unmarked.
MarkSendStarted(d) ==
  /\ PartsLeft(d) /\ d \notin aborted
  /\ live[d].queued /\ ~live[d].started
  /\ \/ /\ SetsState(d, "send_attempt_started")
        /\ live' = [live EXCEPT ![d].pc = "calling", ![d].started = TRUE]
     \/ /\ Fails /\ d \notin Required
        /\ live' = [live EXCEPT ![d].pc = "calling"]
  /\ UNCHANGED <<entriesInProgress, drain, platform, aborted, crashes>>

\* An AbortError ends the call, whoever aborted: a thrown one removes the row.
Aborts(d) ==
  IF d \in BestEffort THEN PartFails(d) ELSE live' = [live EXCEPT ![d].pc = "acking"]

CallPlatform(d) ==
  /\ \/ live[d].pc = "calling"
     \/ PartsLeft(d) /\ d \notin aborted /\ (live[d].started \/ ~live[d].queued)
  /\ \E answer \in {"ok", "error", "abort"} :
       /\ Sends(d, live[d].part, answer)
       /\ \/ /\ answer = "ok"
             /\ live' = [live EXCEPT ![d].pc = "sending", ![d].part = @ + 1]
          \/ answer = "error" /\ PartFails(d)
          \/ answer = "abort" /\ AbortErrors /\ Aborts(d)
  /\ UNCHANGED <<row, entriesInProgress, drain, aborted, crashes>>

\* The caller's abort signal fires; it is looked at before each part.
AbortSignal(d) ==
  /\ live[d].pc \in {"sending", "calling"}
  /\ aborted' = aborted \cup {d}
  /\ UNCHANGED <<row, entriesInProgress, live, drain, platform, crashes>>

\* Mutant: the signal is also looked at after the last part.
StopAbortedLate(d) ==
  /\ live[d].pc = "sending" /\ d \in aborted
  /\ Aborts(d)
  /\ UNCHANGED <<row, entriesInProgress, drain, platform, aborted, crashes>>

StopAborted(d) ==
  /\ PartsLeft(d) /\ d \in aborted
  /\ Aborts(d)
  /\ UNCHANGED <<row, entriesInProgress, drain, platform, aborted, crashes>>

\* All parts are through: a noted error leaves the row for a retry, otherwise a
\* started send is marked before the row is removed.
PartsDone(d) == live[d].pc = "sending" /\ live[d].part > PartsOf[d]

FinishPartial(d) ==
  /\ PartsDone(d) /\ live[d].partial
  /\ IF live[d].queued THEN failDelivery(d) \/ Fails ELSE UNCHANGED row
  /\ LiveEnds(d)

FinishSent(d) ==
  /\ PartsDone(d) /\ ~live[d].partial /\ live[d].queued
  /\ \/ /\ IF live[d].started THEN SetsState(d, "unknown_after_send") ELSE UNCHANGED row
        /\ live' = [live EXCEPT ![d].pc = "acking"]
        /\ UNCHANGED <<entriesInProgress, drain, platform, aborted, crashes>>
     \/ /\ live[d].started /\ Fails
        /\ IF d \in Required THEN LiveEnds(d)
           ELSE /\ live' = [live EXCEPT ![d].pc = "acking"]
                /\ UNCHANGED <<entriesInProgress, drain, platform, aborted, crashes>>

FinishUnqueued(d) ==
  /\ PartsDone(d) /\ ~live[d].queued /\ ~live[d].partial
  /\ UNCHANGED row
  /\ LiveEnds(d)

AckLive(d) ==
  /\ live[d].pc = "acking"
  /\ IF live[d].queued THEN Deletes(d) \/ Fails ELSE UNCHANGED row
  /\ LiveEnds(d)

FailLive(d) ==
  /\ live[d].pc = "failing"
  /\ IF live[d].queued THEN failDelivery(d) \/ Fails ELSE UNCHANGED row
  /\ LiveEnds(d)

-----------------------------------------------------------------------------
(* A drain: recoverPendingDeliveries and drainPendingDeliveries *)

Scans(k) == drain' = [drain EXCEPT ![k] = [@ EXCEPT !.pc = "scanning", !.entry = NoDelivery, !.part = 0]]

\* The pending rows are loaded; a drain key has at most one drain in progress.
StartDrain(k) ==
  /\ drain[k].pc = "idle"
  /\ drain' = [drain EXCEPT ![k] =
       [IdleDrain EXCEPT !.pc = "scanning", !.todo = {d \in Matching[k] : Pending(d)}]]
  /\ UNCHANGED <<row, entriesInProgress, live, platform, aborted, crashes>>

\* The next row of the snapshot; one that another process claims is skipped.
\* The order of enqueuedAt is left out.
ClaimEntry(k, d) ==
  /\ drain[k].pc = "scanning" /\ d \in drain[k].todo
  /\ IF d \in entriesInProgress
     THEN /\ drain' = [drain EXCEPT ![k].todo = @ \ {d}]
          /\ UNCHANGED entriesInProgress
     ELSE /\ drain' = [drain EXCEPT ![k] =
               [pc |-> "claimed", todo |-> @.todo \ {d}, entry |-> d, part |-> 1]]
          /\ entriesInProgress' = entriesInProgress \cup {d}
  /\ UNCHANGED <<row, live, platform, aborted, crashes>>

Releases(k) ==
  /\ release(drain[k].entry)
  /\ Scans(k)
  /\ UNCHANGED <<live, platform, aborted, crashes>>

\* The claimed row is read again: it may be gone, wait for its backoff (only the first
\* replay after a crash has none), or no longer match the selectEntry of a drain.
SkipEntry(k) ==
  LET d == drain[k].entry
  IN  /\ drain[k].pc = "claimed"
      /\ ~Pending(d) \/ row[d].retryCount \in 1..(MAX_RETRIES - 1) \/ k # Startup
      /\ UNCHANGED row
      /\ Releases(k)

\* Mutant: a row without retries left is passed over.
ExhaustEntrySkips(k) ==
  LET d == drain[k].entry
  IN  /\ drain[k].pc = "claimed"
      /\ Pending(d) /\ row[d].retryCount >= MAX_RETRIES
      /\ UNCHANGED row
      /\ Releases(k)

\* It may have used up its retries.  A write that fails ends a reconnect drain.
ExhaustEntry(k) ==
  LET d == drain[k].entry
  IN  /\ drain[k].pc = "claimed"
      /\ Pending(d) /\ row[d].retryCount >= MAX_RETRIES
      /\ \/ (moveToFailed(d) \/ (k = Startup /\ Fails)) /\ Scans(k)
         \/ k # Startup /\ Fails /\ drain' = [drain EXCEPT ![k] = IdleDrain]
      /\ release(d)
      /\ UNCHANGED <<live, platform, aborted, crashes>>

Goes(k, pc) ==
  /\ drain' = [drain EXCEPT ![k].pc = pc]
  /\ UNCHANGED <<row, entriesInProgress, live, platform, aborted, crashes>>

\* Mutant: the snapshot is trusted, the row is not read again.
ProceedStale(k) ==
  /\ drain[k].pc = "claimed" /\ live[drain[k].entry].pc # "queued"
  /\ Goes(k, "replaying")

\* Mutant: the retry limit is off by one.
ProceedLate(k) ==
  LET d == drain[k].entry
  IN  /\ drain[k].pc = "claimed" /\ live[d].pc # "queued"
      /\ Pending(d) /\ row[d].retryCount =< MAX_RETRIES
      /\ Goes(k, IF row[d].recoveryState = "none" THEN "replaying" ELSE "reconciling")

\* Or it is replayed, after a reconciliation if a platform send was marked.  The
\* live call that wrote the row looks for its claim a few microtasks after the
\* write, long before a replay gets to the platform.
Proceed(k) ==
  LET d == drain[k].entry
  IN  /\ drain[k].pc = "claimed" /\ live[d].pc # "queued"
      /\ Pending(d) /\ row[d].retryCount < MAX_RETRIES
      /\ Goes(k, IF row[d].recoveryState = "none" THEN "replaying" ELSE "reconciling")

\* Mutant: what is not known to be sent is replayed.
ReconcileOptimistic(k) ==
  LET d == drain[k].entry
  IN  /\ drain[k].pc = "reconciling"
      /\ \/ d \in Reconciling /\ (\A p \in Parts(d) : platform[d][p] > 0) /\ Goes(k, "acking")
         \/ Goes(k, "replaying")

\* reconcileUnknownSend: "sent" acknowledges the row, "not_sent" replays it, and
\* an unresolved state retries only this check or gives the row up, as does an
\* adapter that cannot reconcile.
Reconcile(k) ==
  LET d == drain[k].entry
  IN  /\ drain[k].pc = "reconciling"
      /\ \/ d \in Reconciling /\ (\A p \in Parts(d) : platform[d][p] > 0) /\ Goes(k, "acking")
         \/ d \in Reconciling /\ (\A p \in Parts(d) : platform[d][p] = 0) /\ Goes(k, "replaying")
         \/ d \in Reconciling /\ Goes(k, "retrying")
         \/ Goes(k, "rejecting")

\* The replay calls deliver with skipQueue: nothing marks the row.
CallReplay(k) ==
  LET d == drain[k].entry
      p == drain[k].part
  IN  /\ drain[k].pc = "replaying" /\ p =< PartsOf[d]
      /\ \E answer \in {"ok", "error", "permanent"} :
           /\ Sends(d, p, answer)
           /\ drain' = IF answer = "ok" \/ d \in BestEffort
                       THEN [drain EXCEPT ![k].part = @ + 1]
                       ELSE [drain EXCEPT ![k].pc =
                               IF answer = "error" THEN "retrying" ELSE "rejecting"]
      /\ UNCHANGED <<row, entriesInProgress, live, aborted, crashes>>

\* The handler of a replay throws before its first part, whatever the policy.
ReplayFailsUnsent(k) ==
  /\ drain[k].pc = "replaying" /\ drain[k].part = 1
  /\ Goes(k, "retrying") \/ Goes(k, "rejecting")

Replayed(k) ==
  /\ drain[k].pc = "replaying" /\ drain[k].part > PartsOf[drain[k].entry]
  /\ Goes(k, "acking")

\* A replayed row that cannot be removed counts as one more failed attempt.
AckEntry(k) ==
  /\ drain[k].pc = "acking"
  /\ \/ Deletes(drain[k].entry) /\ Releases(k)
     \/ StorageErrors /\ Goes(k, "retrying")

RetryEntry(k) ==
  /\ drain[k].pc = "retrying"
  /\ failDelivery(drain[k].entry) \/ Fails
  /\ Releases(k)

RejectEntry(k) ==
  /\ drain[k].pc = "rejecting"
  /\ moveToFailed(drain[k].entry) \/ Fails
  /\ Releases(k)

\* A drain ends with its snapshot, the recovery also with its time budget.
EndDrain(k) ==
  /\ drain[k].pc = "scanning"
  /\ drain[k].todo = {} \/ k = Startup
  /\ drain' = [drain EXCEPT ![k] = [IdleDrain EXCEPT !.pc = IF k = Startup THEN "over" ELSE "idle"]]
  /\ UNCHANGED <<row, entriesInProgress, live, platform, aborted, crashes>>

\* The process dies and starts again: rows and platform stay, claims and calls
\* are gone.
Crash ==
  /\ crashes < MaxCrashes
  /\ crashes' = crashes + 1
  /\ entriesInProgress' = {}
  /\ live' = [d \in Deliveries |->
       IF live[d].pc = "idle" THEN live[d] ELSE [live[d] EXCEPT !.pc = "over"]]
  /\ drain' = [k \in Drainers |-> IdleDrain]
  /\ UNCHANGED <<row, platform, aborted>>

-----------------------------------------------------------------------------

LiveNext(d) ==
  \/ Enqueue(d) \/ EnqueueFails(d) \/ ClaimLive(d) \/ FailsUnsent(d)
  \/ MarkSendStarted(d) \/ CallPlatform(d) \/ AbortSignal(d) \/ StopAborted(d)
  \/ FinishPartial(d) \/ FinishSent(d) \/ FinishUnqueued(d)
  \/ AckLive(d) \/ FailLive(d)

DrainNext(k) ==
  \/ StartDrain(k) \/ (\E d \in Deliveries : ClaimEntry(k, d))
  \/ SkipEntry(k) \/ ExhaustEntry(k) \/ Proceed(k) \/ Reconcile(k)
  \/ CallReplay(k) \/ ReplayFailsUnsent(k) \/ Replayed(k)
  \/ AckEntry(k) \/ RetryEntry(k) \/ RejectEntry(k) \/ EndDrain(k)

Next == (\E d \in Deliveries : LiveNext(d)) \/ (\E k \in Drainers : DrainNext(k)) \/ Crash

Spec == Init /\ [][Next]_vars

\* Calls of the platform end, the steps of a call and of a drain follow, the drains in
\* Periodic start again for ever, a row is not found in its backoff or unmatched by every
\* drain, and the state database does not fail every time.  Nothing forces a crash.
LiveSteps(d) ==
  \/ ClaimLive(d) \/ FailsUnsent(d) \/ MarkSendStarted(d) \/ CallPlatform(d) \/ StopAborted(d)
  \/ FinishPartial(d) \/ FinishSent(d) \/ FinishUnqueued(d) \/ AckLive(d) \/ FailLive(d)

\* The last write of an entry's attempt, when it succeeds.
EntryWritten(k) ==
  /\ ExhaustEntry(k) \/ AckEntry(k) \/ RetryEntry(k) \/ RejectEntry(k)
  /\ row' # row

Fairness ==
  /\ \A d \in Deliveries : WF_vars(LiveSteps(d))
  /\ \A k \in Drainers : WF_vars(DrainNext(k) /\ ~StartDrain(k))
  /\ \A k \in Periodic :
       /\ WF_vars(StartDrain(k))
       /\ SF_vars(Proceed(k))
       /\ SF_vars(EntryWritten(k))

FairSpec == Spec /\ Fairness

-----------------------------------------------------------------------------
(* Properties *)

LiveHolds(d) == live[d].queued /\ live[d].pc \in {"sending", "calling", "acking", "failing"}
Holders(d) == {k \in Drainers : drain[k].entry = d} \cup (IF LiveHolds(d) THEN {"live"} ELSE {})

\* The live call and the drains never work on one row at a time, and a claim is
\* never left behind by a path that skips, exhausts, fails or acknowledges a row.
ClaimsExclusive ==
  \A d \in Deliveries : Cardinality(Holders(d)) = (IF d \in entriesInProgress THEN 1 ELSE 0)

\* No part is sent twice while the row says that a platform send was started: a
\* crash, a lost answer or a failed acknowledgement after the mark never leads to
\* a blind replay.
MarkedSendsOnce ==
  \A d \in Deliveries :
    row[d].recoveryState # "none" => \A p \in Parts(d) : platform[d][p] =< 1

\* No failure is counted past MAX_RETRIES: whoever fails a row, its last count is the one
\* that ends its replays.  A failure whose write fails, or that a crash cuts off, is not
\* counted.
RetriesBounded == \A d \in Deliveries : Pending(d) => row[d].retryCount =< MAX_RETRIES

\* What became of a delivery, read off its row, its call and the platform.
Intent(d) ==
  IF row[d] # NoRow THEN row[d].status
  ELSE IF live[d].pc = "idle" THEN "new"
  ELSE IF ~live[d].queued THEN (IF d \in Required THEN "refused" ELSE "bypassed")
  ELSE IF \A p \in Parts(d) : platform[d][p] > 0 THEN "sent"
  ELSE "dropped"

Durable == INSTANCE DurableSend WITH intent <- [d \in Deliveries |-> Intent(d)]

\* The queue implements the durable send: through crashes and failing writes, a row
\* leaves the queue only when all its parts are on the platform, when it is
\* failed or when its caller aborted it, and nothing is sent for it afterwards.
ImplementsDurableSend == Durable!Spec

\* A row is not left pending for ever where its channel drains periodically.
RowsSettle ==
  \A k \in Periodic : \A d \in Matching[k] : Pending(d) ~> ~Pending(d)

\* src/src/infra/outbound/delivery-queue-recovery.ts: "A crash after platform send
\* start cannot be blindly replayed; adapters must reconcile".
NoDuplicates == \A d \in Deliveries : \A p \in Parts(d) : platform[d][p] =< 1
=============================================================================
