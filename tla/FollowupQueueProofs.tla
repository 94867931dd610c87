------------------------ MODULE FollowupQueueProofs ------------------------
(***************************************************************************)
(* Proofs about FollowupQueue, for all sets of messages, settings, routes  *)
(* and authorizations.                                                     *)
(*                                                                         *)
(* SlotHeldByLiveOperation rests on where the names of operations are      *)
(* kept: whoever may end an operation has one.  LeftByPlainEndOnly rests   *)
(* on OwnDrains: without a /stop a drain at work is the drain of the       *)
(* object in the map.  What the queue objects and the calls hold does not  *)
(* matter to either, so the invariant leaves it open.                      *)
(***************************************************************************)
EXTENDS FollowupQueue, TLAPS

Operation == [result : {"none", "completed", "failed"}, cleared : BOOLEAN]
DrainStates == {"idle", "debounce", "admit", "admitted", "running"}

IsSeq(s) == \E S : s \in Seq(S)

\* A drain whose operation, if it has one, is among the first n; it has one from
\* its admission to the end of its run.
DrainRec(p, force, o, call) == [pc |-> p, force |-> force, op |-> o, call |-> call]

IsDrain(d, n) ==
  \E p \in DrainStates, o \in 0..n : \E force, call :
    /\ d = DrainRec(p, force, o, call)
    /\ p \in {"admitted", "running"} => o # 0

AreDrains(ds, k, n) ==
  /\ IsSeq(ds) /\ Len(ds) = k
  /\ \A g \in 1..k : IsDrain(ds[g], n)

SlotInv ==
  /\ operations \in Seq(Operation)
  /\ slot \in 0..Len(operations)
  /\ SlotHeldByLiveOperation

TurnsInv ==
  /\ turns \in [Messages -> [pc : TurnStates, seen : Nat, op : Nat]]
  /\ \A m \in Messages :
       /\ turns[m].op =< Len(operations)
       /\ turns[m].pc \in {"held", "running", "ended", "deliver"} => turns[m].op # 0

QueuesInv ==
  /\ IsSeq(queues)
  /\ current \in 0..Len(queues)
  /\ AreDrains(drains, Len(queues), Len(operations))
  /\ faults \in [stops : Nat, errors : Nat]

\* Until a /stop takes an object out of the map, only the drain of the object in
\* the map is at work.
OwnDrains ==
  faults.stops = 0 => \A g \in Queues : drains[g].pc # "idle" => g = current

IInv == SlotInv /\ TurnsInv /\ QueuesInv /\ OwnDrains

\* A step after which a backlog that had somebody to drain it still has, unless it is
\* the plain end of a turn.
Cares ==
  faults.stops = 0 /\ BacklogHasDrain /\ ~BacklogHasDrain' =>
    \E m \in Messages : turns[m].pc \in {"held", "deliver"} /\ turns'[m].pc = "done"

-----------------------------------------------------------------------------
(* Sequences of any contents *)

\* t is s with x at place g.
Put(s, g, x, t) == t = [s EXCEPT ![g] = x]

LEMMA Replaced ==
  ASSUME NEW s, IsSeq(s), NEW g, g \in 1..Len(s), NEW x, NEW t, Put(s, g, x, t)
  PROVE  /\ IsSeq(t) /\ Len(t) = Len(s) /\ t[g] = x
         /\ \A h \in 1..Len(s) : h # g => t[h] = s[h]
<1>1. PICK S : s \in Seq(S)
  BY DEF IsSeq
<1>2. s \in Seq(S \cup {x})
  BY <1>1
<1>3. t \in Seq(S \cup {x}) /\ Len(t) = Len(s)
  BY <1>2 DEF Put
<1>. QED  BY <1>2, <1>3 DEF IsSeq, Put

LEMMA Appended ==
  ASSUME NEW s, IsSeq(s), NEW x
  PROVE  /\ IsSeq(Append(s, x)) /\ Len(Append(s, x)) = Len(s) + 1 /\ Len(s) \in Nat
         /\ Append(s, x)[Len(s) + 1] = x
         /\ \A h \in 1..Len(s) : Append(s, x)[h] = s[h]
<1>1. PICK S : s \in Seq(S)
  BY DEF IsSeq
<1>2. s \in Seq(S \cup {x})
  BY <1>1
<1>3. /\ Append(s, x) \in Seq(S \cup {x}) /\ Len(Append(s, x)) = Len(s) + 1 /\ Len(s) \in Nat
      /\ Append(s, x)[Len(s) + 1] = x
      /\ \A h \in 1..Len(s) : Append(s, x)[h] = s[h]
  BY <1>2
<1>. QED  BY <1>3 DEF IsSeq

-----------------------------------------------------------------------------
(* The slot *)

LEMMA CreateKeeps ==
  ASSUME SlotInv, createReplyOperation
  PROVE  SlotInv' /\ Len(operations') = Len(operations) + 1 /\ slot' = Len(operations')
<1>. DEFINE new == [result |-> "none", cleared |-> FALSE]
<1>1. operations \in Seq(Operation) /\ new \in Operation /\ slot = 0
      /\ operations' = Append(operations, new) /\ slot' = Len(operations')
  BY DEF SlotInv, createReplyOperation, Operation
<1>2. new.cleared = FALSE
  OBVIOUS
<1>. HIDE DEF new
<1>3. /\ operations' \in Seq(Operation) /\ Len(operations') = Len(operations) + 1
      /\ Len(operations) \in Nat
      /\ operations'[Len(operations) + 1] = new
      /\ \A i \in 1..Len(operations) : operations'[i] = operations[i]
  BY <1>1
<1>4. SlotHeldByLiveOperation'
  <2>. SUFFICES ASSUME NEW i \in 1..Len(operations') PROVE ~operations'[i].cleared <=> i = slot'
    BY <1>3 DEF SlotHeldByLiveOperation
  <2>1. CASE i = Len(operations')
    BY <2>1, <1>1, <1>2, <1>3
  <2>2. CASE i # Len(operations')
    <3>1. i \in 1..Len(operations) /\ i # slot'
      BY <2>2, <1>1, <1>3
    <3>2. operations[i].cleared
      BY <1>1, <3>1 DEF SlotInv, SlotHeldByLiveOperation
    <3>. QED  BY <1>3, <3>1, <3>2
  <2>. QED  BY <2>1, <2>2
<1>. QED  BY <1>1, <1>3, <1>4 DEF SlotInv

LEMMA EndKeeps ==
  ASSUME SlotInv, NEW op \in 1..Len(operations), NEW result \in {"completed", "failed"},
         Ended(op, result)
  PROVE  SlotInv' /\ Len(operations') = Len(operations)
<1>. DEFINE first == [operations[op] EXCEPT !.result = IF @ = "none" THEN result ELSE @]
            ended == [first EXCEPT !.cleared = TRUE]
            mid == [operations EXCEPT ![op] = first]
<1>1. operations \in Seq(Operation) /\ operations[op] \in Operation
      /\ slot \in 0..Len(operations) /\ Len(operations) \in Nat
  BY DEF SlotInv
<1>2. ended \in Operation /\ ended.cleared = TRUE
  <2>1. first \in Operation
    BY <1>1 DEF Operation
  <2>. HIDE DEF first
  <2>. QED  BY <2>1 DEF Operation
<1>3. operations' = [operations EXCEPT ![op] = ended]
  <2>1. operations' = [mid EXCEPT ![op] = [mid[op] EXCEPT !.cleared = TRUE]]
    BY DEF Ended
  <2>2. mid[op] = first
    BY <1>1
  <2>. HIDE DEF first
  <2>. QED  BY <1>1, <2>1, <2>2
<1>. HIDE DEF ended
<1>4. /\ operations' \in Seq(Operation) /\ Len(operations') = Len(operations)
      /\ operations'[op] = ended
      /\ \A i \in 1..Len(operations) : i # op => operations'[i] = operations[i]
  BY <1>1, <1>2, <1>3
<1>5. slot' = IF operations[op].cleared THEN slot ELSE 0
  BY DEF Ended
<1>6. SlotHeldByLiveOperation'
  <2>. SUFFICES ASSUME NEW i \in 1..Len(operations) PROVE ~operations'[i].cleared <=> i = slot'
    BY <1>4 DEF SlotHeldByLiveOperation
  <2>1. \A j \in 1..Len(operations) : ~operations[j].cleared <=> j = slot
    BY <1>1 DEF SlotInv, SlotHeldByLiveOperation
  <2>2. CASE i = op
    BY <2>1, <2>2, <1>2, <1>4, <1>5
  <2>3. CASE i # op
    BY <2>1, <2>3, <1>4, <1>5
  <2>. QED  BY <2>2, <2>3
<1>. QED  BY <1>1, <1>4, <1>5, <1>6 DEF SlotInv

LEMMA AbortKeeps ==
  ASSUME SlotInv, NEW queuedPhase, Aborted(queuedPhase)
  PROVE  SlotInv' /\ Len(operations') = Len(operations)
<1>0. operations \in Seq(Operation) /\ slot \in 0..Len(operations) /\ Len(operations) \in Nat
  BY DEF SlotInv
<1>1. CASE UNCHANGED slotVars
  BY <1>1 DEF SlotInv, SlotHeldByLiveOperation, slotVars
<1>2. CASE slot # 0 /\ Ended(slot, "failed")
  BY <1>0, <1>2, EndKeeps
<1>3. CASE /\ slot # 0 /\ slot' = slot
           /\ operations' = [operations EXCEPT
                ![slot].result = IF @ = "none" THEN "failed" ELSE @]
  <2>. DEFINE aborted == [result |-> IF operations[slot].result = "none" THEN "failed"
                                     ELSE operations[slot].result,
                          cleared |-> operations[slot].cleared]
  <2>1. slot \in 1..Len(operations) /\ operations[slot] \in Operation
    BY <1>0, <1>3
  <2>2. aborted \in Operation /\ aborted.cleared = operations[slot].cleared
    BY <2>1 DEF Operation
  <2>3. operations' = [operations EXCEPT ![slot] = aborted]
    <3>1. operations' = [operations EXCEPT
            ![slot] = [operations[slot] EXCEPT !.result = IF @ = "none" THEN "failed" ELSE @]]
      BY <1>3
    <3>2. [operations[slot] EXCEPT !.result = IF @ = "none" THEN "failed" ELSE @] = aborted
      BY <2>1 DEF Operation
    <3>. QED  BY <3>1, <3>2
  <2>. HIDE DEF aborted
  <2>4. /\ operations' \in Seq(Operation) /\ Len(operations') = Len(operations)
        /\ \A i \in 1..Len(operations) : operations'[i].cleared = operations[i].cleared
    BY <1>0, <2>1, <2>2, <2>3
  <2>. QED  BY <1>0, <1>3, <2>4 DEF SlotInv, SlotHeldByLiveOperation
<1>. QED  BY <1>1, <1>2, <1>3 DEF Aborted

-----------------------------------------------------------------------------
(* The drains *)

WithPc(d, p) == [d EXCEPT !.pc = p]
WithOp(d, o) == [d EXCEPT !.op = o]
WithForce(d, f) == [d EXCEPT !.force = f]
WithCall(d, c) == [d EXCEPT !.call = c]

LEMMA DrainUpdated ==
  ASSUME NEW n \in Nat, NEW k \in Nat, n =< k, NEW d, IsDrain(d, n)
  PROVE  /\ IsDrain(d, k) /\ d.pc \in DrainStates /\ d.op \in 0..n
         /\ d.pc \in {"admitted", "running"} => d.op # 0
         /\ \A c : IsDrain(WithCall(d, c), k) /\ WithCall(d, c).pc = d.pc
         /\ \A f : IsDrain(WithForce(d, f), k) /\ WithForce(d, f).pc = d.pc
         /\ \A p \in DrainStates : (p \in {"admitted", "running"} => d.op # 0)
              => IsDrain(WithPc(d, p), k) /\ WithPc(d, p).pc = p
         /\ \A p \in DrainStates, o \in 0..k : (p \in {"admitted", "running"} => o # 0)
              => IsDrain(WithOp(WithPc(d, p), o), k) /\ WithOp(WithPc(d, p), o).pc = p
<1>1. PICK p0 \in DrainStates, o0 \in 0..n : \E f, c :
        /\ d = DrainRec(p0, f, o0, c)
        /\ p0 \in {"admitted", "running"} => o0 # 0
  BY DEF IsDrain
<1>2. PICK f0, c0 :
        /\ d = DrainRec(p0, f0, o0, c0)
        /\ p0 \in {"admitted", "running"} => o0 # 0
  BY <1>1
<1>3. /\ d.pc = p0 /\ d.op = o0 /\ o0 \in 0..k
      /\ p0 \in {"admitted", "running"} => o0 # 0
  BY <1>2 DEF DrainRec
<1>4. \A p \in DrainStates, o \in 0..k : \A f, c : (p \in {"admitted", "running"} => o # 0)
        => IsDrain(DrainRec(p, f, o, c), k)
  BY DEF IsDrain
<1>5. \A p, f, o, c : /\ DrainRec(p, f, o, c).pc = p
                      /\ \A x : /\ WithPc(DrainRec(p, f, o, c), x) = DrainRec(x, f, o, c)
                                /\ WithOp(DrainRec(p, f, o, c), x) = DrainRec(p, f, x, c)
                                /\ WithForce(DrainRec(p, f, o, c), x) = DrainRec(p, x, o, c)
                                /\ WithCall(DrainRec(p, f, o, c), x) = DrainRec(p, f, o, x)
  BY DEF DrainRec, WithPc, WithOp, WithForce, WithCall
<1>. QED  BY <1>2, <1>3, <1>4, <1>5

LEMMA FreshDrains ==
  ASSUME NEW n \in Nat
  PROVE  /\ IsDrain(Idle, n) /\ Idle.pc = "idle"
         /\ IsDrain(Debounce, n) /\ Debounce.pc = "debounce"
         /\ \A f : IsDrain(WithForce(Debounce, f), n) /\ WithForce(Debounce, f).pc = "debounce"
<1>1. IsDrain(Idle, n) /\ Idle.pc = "idle"
  <2>1. \A f, c : IsDrain(DrainRec("idle", f, 0, c), n)
    BY DEF IsDrain, DrainStates
  <2>2. \A f, c : DrainRec("idle", f, 0, c).pc = "idle"
    BY DEF DrainRec
  <2>3. Idle = DrainRec("idle", FALSE, 0, NoCall)
    BY Zenon DEF Idle, DrainRec
  <2>. QED  BY <2>1, <2>2, <2>3, Zenon
<1>2. Debounce = WithPc(Idle, "debounce")
  BY DEF Debounce, WithPc
<1>3. "debounce" \in DrainStates
  BY DEF DrainStates
<1>4. IsDrain(Debounce, n) /\ Debounce.pc = "debounce"
  BY <1>1, <1>2, <1>3, DrainUpdated
<1>. QED  BY <1>1, <1>4, DrainUpdated

LEMMA DrainReplaced ==
  ASSUME NEW n \in Nat, NEW m \in Nat, n =< m, NEW k \in Nat, NEW ds, AreDrains(ds, k, n),
         NEW g, g \in 1..k, NEW d, IsDrain(d, m), NEW es, Put(ds, g, d, es)
  PROVE  /\ AreDrains(es, k, m) /\ es[g] = d
         /\ \A h \in 1..k : h # g => es[h] = ds[h]
<1>1. /\ IsSeq(es) /\ Len(es) = k /\ es[g] = d
      /\ \A h \in 1..k : h # g => es[h] = ds[h]
  <2>1. IsSeq(ds) /\ g \in 1..Len(ds) /\ Len(ds) = k
    BY DEF AreDrains
  <2>. QED  BY <2>1, Replaced
<1>2. \A h \in 1..k : IsDrain(ds[h], m)
  BY DrainUpdated DEF AreDrains
<1>. QED  BY <1>1, <1>2 DEF AreDrains

LEMMA ScheduledKeeps ==
  ASSUME NEW n \in Nat, NEW k \in Nat, NEW ds, AreDrains(ds, k, n), NEW g, g \in 0..k
  PROVE  /\ AreDrains(Scheduled(ds, g), k, n)
         /\ g # 0 => Scheduled(ds, g)[g].pc # "idle"
         /\ \A h \in 1..k : h # g \/ ds[h].pc # "idle" => Scheduled(ds, g)[h] = ds[h]
<1>1. CASE g # 0 /\ ds[g].pc = "idle"
  <2>1. Put(ds, g, Debounce, Scheduled(ds, g)) /\ g \in 1..k
    BY <1>1 DEF Scheduled, Put
  <2>2. /\ AreDrains(Scheduled(ds, g), k, n) /\ Scheduled(ds, g)[g] = Debounce
        /\ \A h \in 1..k : h # g => Scheduled(ds, g)[h] = ds[h]
    BY <2>1, DrainReplaced, FreshDrains
  <2>. QED  BY <1>1, <2>2, FreshDrains
<1>2. CASE ~(g # 0 /\ ds[g].pc = "idle")
  <2>1. Scheduled(ds, g) = ds
    BY <1>2 DEF Scheduled
  <2>. QED  BY <1>2, <2>1
<1>. QED  BY <1>1, <1>2

LEMMA AnyScheduled ==
  \A n, k \in Nat : \A ds, g : AreDrains(ds, k, n) /\ g \in 0..k =>
    /\ AreDrains(Scheduled(ds, g), k, n)
    /\ g # 0 => Scheduled(ds, g)[g].pc # "idle"
    /\ \A h \in 1..k : h # g \/ ds[h].pc # "idle" => Scheduled(ds, g)[h] = ds[h]
BY ScheduledKeeps

\* What a step of the drain of g leaves, if g is in the map: the drain at work on
\* it, or neither.
Took(g) ==
  current = g =>
    /\ \A h \in Queues : h # g => drains'[h] = drains[h]
    /\ \/ current' = g /\ drains'[g].pc # "idle"
       \/ current' = 0 /\ drains'[g].pc = "idle"

\* The shape of queues and drains after a step; the number of objects is the same.
SameShape ==
  /\ IsSeq(queues') /\ Len(queues') = Len(queues)
  /\ current' \in 0..Len(queues)
  /\ AreDrains(drains', Len(queues), Len(operations'))

LEMMA Lengths ==
  ASSUME IInv
  PROVE  /\ Len(queues) \in Nat /\ Len(operations) \in Nat /\ current \in 0..Len(queues)
         /\ AreDrains(drains, Len(queues), Len(operations)) /\ IsSeq(queues)
         /\ faults \in [stops : Nat, errors : Nat]
         /\ slot \in 0..Len(operations)
<1>1. Len(queues) \in Nat
  BY DEF IInv, QueuesInv, IsSeq
<1>2. Len(operations) \in Nat
  BY DEF IInv, SlotInv
<1>. QED  BY <1>1, <1>2 DEF IInv, QueuesInv, SlotInv

LEMMA NextRoundKeeps ==
  ASSUME IInv, NEW g \in Queues, NEW q, NEW force, NextRound(g, q, force),
         Len(operations') = Len(operations)
  PROVE  SameShape /\ Took(g)
<1>1. g \in 1..Len(queues)
  BY DEF Queues
<1>2. /\ queues' = [queues EXCEPT ![g] = q]
      /\ drains' = [drains EXCEPT ![g] = IF Pending(q) THEN WithForce(Debounce, force)
                                         ELSE Idle]
      /\ current' = IF ~Pending(q) /\ current = g THEN 0 ELSE current
  BY DEF NextRound, WithForce
<1>3. IsSeq(queues') /\ Len(queues') = Len(queues)
  <2>1. Put(queues, g, q, queues')
    BY <1>2 DEF Put
  <2>. QED  BY <1>1, <2>1, Lengths, Replaced
<1>4. CASE Pending(q)
  <2>1. Put(drains, g, WithForce(Debounce, force), drains') /\ current' = current
    BY <1>2, <1>4 DEF Put
  <2>2. /\ AreDrains(drains', Len(queues), Len(operations))
        /\ drains'[g] = WithForce(Debounce, force)
        /\ \A h \in 1..Len(queues) : h # g => drains'[h] = drains[h]
    BY <1>1, <2>1, Lengths, FreshDrains, DrainReplaced
  <2>3. drains'[g].pc = "debounce"
    BY <2>2, Lengths, FreshDrains
  <2>. QED  BY <1>3, <2>1, <2>2, <2>3, Lengths DEF SameShape, Took, Queues
<1>5. CASE ~Pending(q)
  <2>1. Put(drains, g, Idle, drains') /\ current' = IF current = g THEN 0 ELSE current
    BY <1>2, <1>5 DEF Put
  <2>2. /\ AreDrains(drains', Len(queues), Len(operations))
        /\ drains'[g] = Idle
        /\ \A h \in 1..Len(queues) : h # g => drains'[h] = drains[h]
    BY <1>1, <2>1, Lengths, FreshDrains, DrainReplaced
  <2>3. drains'[g].pc = "idle"
    BY <2>2, Lengths, FreshDrains
  <2>. QED  BY <1>3, <2>1, <2>2, <2>3, Lengths DEF SameShape, Took, Queues
<1>. QED  BY <1>4, <1>5

LEMMA RestartedKeeps ==
  ASSUME IInv, NEW g \in Queues, NEW q, Restarted(g, q), Len(operations') = Len(operations)
  PROVE  SameShape /\ Took(g)
<1>. DEFINE stopped == [drains EXCEPT ![g] = Idle]
<1>1. g \in 1..Len(queues)
  BY DEF Queues
<1>2. /\ queues' = [queues EXCEPT ![g] = q]
      /\ drains' = IF Pending(q) THEN Scheduled(stopped, current) ELSE stopped
      /\ current' = IF ~Pending(q) /\ current = g THEN 0 ELSE current
  BY DEF Restarted
<1>3. IsSeq(queues') /\ Len(queues') = Len(queues)
  <2>1. Put(queues, g, q, queues')
    BY <1>2 DEF Put
  <2>. QED  BY <1>1, <2>1, Lengths, Replaced
<1>4. /\ AreDrains(stopped, Len(queues), Len(operations)) /\ stopped[g] = Idle
      /\ \A h \in 1..Len(queues) : h # g => stopped[h] = drains[h]
  <2>1. Put(drains, g, Idle, stopped)
    BY DEF Put
  <2>. HIDE DEF stopped
  <2>. QED  BY <1>1, <2>1, Lengths, FreshDrains, DrainReplaced
<1>5. stopped[g].pc = "idle"
  BY <1>4, Lengths, FreshDrains
<1>. HIDE DEF stopped
<1>6. CASE Pending(q)
  <2>1. drains' = Scheduled(stopped, current) /\ current' = current
    BY <1>2, <1>6
  <2>2. /\ AreDrains(drains', Len(queues), Len(operations))
        /\ current # 0 => drains'[current].pc # "idle"
        /\ \A h \in 1..Len(queues) : h # current => drains'[h] = stopped[h]
    BY <1>4, <2>1, Lengths, AnyScheduled
  <2>. QED  BY <1>1, <1>3, <1>4, <2>1, <2>2, Lengths DEF SameShape, Took, Queues
<1>7. CASE ~Pending(q)
  BY <1>2, <1>3, <1>4, <1>5, <1>7, Lengths DEF SameShape, Took, Queues
<1>. QED  BY <1>6, <1>7

\* A step of a drain at work is the step of the drain of the object in the map, and
\* leaves it at work or the object gone.
LEMMA DrainFrame ==
  ASSUME IInv, NEW g \in Queues, drains[g].pc # "idle", faults'.stops = faults.stops,
         SameShape, Took(g), faults' \in [stops : Nat, errors : Nat]
  PROVE  QueuesInv' /\ OwnDrains' /\ Cares
<1>1. QueuesInv'
  BY DEF QueuesInv, SameShape
<1>2. faults.stops = 0 => current = g
  BY DEF IInv, OwnDrains
<1>3. OwnDrains'
  <2>. SUFFICES ASSUME faults.stops = 0, NEW h \in Queues, drains'[h].pc # "idle"
                PROVE  h = current'
    BY DEF OwnDrains, Queues, SameShape
  <2>1. CASE h = g
    BY <1>2, <2>1 DEF Took
  <2>2. CASE h # g
    BY <1>2, <2>2 DEF Took, IInv, OwnDrains
  <2>. QED  BY <2>1, <2>2
<1>4. Cares
  <2>. SUFFICES ASSUME faults.stops = 0, current' # 0 PROVE drains'[current'].pc # "idle"
    BY DEF Cares, BacklogHasDrain
  <2>. QED  BY <1>2 DEF Took
<1>. QED  BY <1>1, <1>3, <1>4

AtRun(t) == t.pc \in {"running", "ended"}

\* A step of a turn that does not touch the queue: no run and no end of a run gets lost,
\* and the slot is freed, if at all, by a turn that has its run or the end of it to come,
\* or by a plain end.
LEMMA TurnFrame ==
  ASSUME IInv, SlotInv', TurnsInv', Len(operations) =< Len(operations'), StaysQueued,
         \A m \in Messages : AtRun(turns[m]) => AtRun(turns'[m]),
         \/ slot' = slot
         \/ slot' # 0
         \/ \E m \in Messages : AtRun(turns[m])
         \/ \E m \in Messages : turns[m].pc \in {"held", "deliver"} /\ turns'[m].pc = "done"
  PROVE  IInv' /\ Cares
<1>1. /\ queues' = queues /\ current' = current /\ drains' = drains /\ faults' = faults
  BY DEF StaysQueued, queueVars
<1>2. Len(operations') \in Nat
  BY DEF SlotInv
<1>3. AreDrains(drains, Len(queues), Len(operations'))
  BY <1>2, Lengths, DrainUpdated DEF AreDrains
<1>4. QueuesInv'
  BY <1>1, <1>3, Lengths DEF QueuesInv
<1>5. OwnDrains'
  BY <1>1 DEF IInv, OwnDrains, Queues
<1>6. Cares
  BY <1>1 DEF Cares, BacklogHasDrain, isRunActive, AtRun, Pending
<1>. QED  BY <1>4, <1>5, <1>6 DEF IInv

LEMMA TurnsStay ==
  ASSUME IInv, turns' = turns, Len(operations') \in Nat, Len(operations) =< Len(operations')
  PROVE  TurnsInv'
BY Lengths DEF IInv, TurnsInv

-----------------------------------------------------------------------------
(* The steps of a turn *)

TurnRecord == [pc : TurnStates, seen : Nat, op : Nat]

\* Only the turn of m moves, to pc.
MovesTo(m, pc) ==
  turns'[m].pc = pc /\ \A n \in Messages : n # m => turns'[n] = turns[n]

LEMMA TurnReplaced ==
  ASSUME IInv, NEW m \in Messages, NEW t \in TurnRecord, Put(turns, m, t, turns'),
         t.op =< Len(operations'), Len(operations') \in Nat, Len(operations) =< Len(operations'),
         t.pc \in {"held", "running", "ended", "deliver"} => t.op # 0
  PROVE  TurnsInv' /\ MovesTo(m, t.pc)
<1>1. turns \in [Messages -> TurnRecord]
  BY DEF IInv, TurnsInv, TurnRecord
<1>2. turns' \in [Messages -> TurnRecord] /\ turns'[m] = t
      /\ \A n \in Messages : n # m => turns'[n] = turns[n]
  BY <1>1 DEF Put
<1>3. \A n \in Messages :
        /\ turns'[n].op =< Len(operations')
        /\ turns'[n].pc \in {"held", "running", "ended", "deliver"} => turns'[n].op # 0
  <2>. TAKE n \in Messages
  <2>1. CASE n = m
    BY <1>2, <2>1
  <2>2. CASE n # m
    BY <1>1, <1>2, <2>2, Lengths DEF IInv, TurnsInv, TurnRecord
  <2>. QED  BY <2>1, <2>2
<1>. QED  BY <1>2, <1>3 DEF TurnsInv, TurnRecord, MovesTo

LEMMA TurnKeeps ==
  ASSUME IInv, NEW m \in Messages, NEW pc \in TurnStates, Turn(m, pc),
         pc \in {"held", "running", "ended", "deliver"} => turns[m].op # 0,
         Len(operations') \in Nat, Len(operations) =< Len(operations')
  PROVE  TurnsInv' /\ MovesTo(m, pc)
<1>1. turns[m] \in TurnRecord /\ turns[m].op =< Len(operations)
  BY DEF IInv, TurnsInv, TurnRecord
<1>2. CASE pc = "done"
  <2>. DEFINE t == [NoTurn EXCEPT !.pc = "done"]
  <2>1. t \in TurnRecord /\ t.pc = "done" /\ t.op = 0
    BY DEF NoTurn, TurnRecord, TurnStates
  <2>2. Put(turns, m, t, turns')
    BY <1>2 DEF Turn, Put
  <2>. HIDE DEF t
  <2>. QED  BY <1>2, <2>1, <2>2, TurnReplaced
<1>3. CASE pc # "done"
  <2>. DEFINE t == [turns[m] EXCEPT !.pc = pc]
  <2>1. t \in TurnRecord /\ t.pc = pc /\ t.op = turns[m].op
    BY <1>1 DEF TurnRecord
  <2>2. Put(turns, m, t, turns')
    BY <1>3 DEF Turn, Put
  <2>. HIDE DEF t
  <2>3. t.op =< Len(operations')
    BY <1>1, <2>1, Lengths DEF TurnRecord
  <2>. QED  BY <2>1, <2>2, <2>3, TurnReplaced
<1>. QED  BY <1>2, <1>3

LEMMA OwnsKeeps ==
  ASSUME IInv, NEW m \in Messages, NEW pc \in TurnStates, Owns(m, pc)
  PROVE  SlotInv' /\ TurnsInv' /\ Len(operations) =< Len(operations') /\ MovesTo(m, pc)
<1>1. /\ SlotInv' /\ Len(operations') = Len(operations) + 1 /\ slot' = Len(operations')
      /\ Len(operations) \in Nat
  BY CreateKeeps, Lengths DEF IInv, Owns
<1>. DEFINE t == [pc |-> pc, seen |-> 0, op |-> slot']
<1>2. t \in TurnRecord /\ t.pc = pc /\ t.op = Len(operations')
  BY <1>1 DEF TurnRecord
<1>3. Put(turns, m, t, turns')
  BY DEF Owns, Put
<1>. HIDE DEF t
<1>. QED  BY <1>1, <1>2, <1>3, TurnReplaced

\* What a turn that holds an operation knows of it.
LEMMA TurnOperation ==
  ASSUME IInv, NEW m \in Messages, turns[m].pc \in {"held", "running", "ended", "deliver"}
  PROVE  turns[m].op \in 1..Len(operations)
BY Lengths DEF IInv, TurnsInv

LEMMA SlotStays ==
  ASSUME IInv, UNCHANGED slotVars
  PROVE  SlotInv' /\ Len(operations') \in Nat /\ Len(operations) =< Len(operations')
BY Lengths DEF IInv, SlotInv, SlotHeldByLiveOperation, slotVars

\* The turn of m, which is neither running nor at the end of its run, moves.
LEMMA MoveKeeps ==
  ASSUME IInv, NEW m \in Messages, NEW pc, MovesTo(m, pc),
         turns[m].pc \notin {"running", "ended"} \/ pc \in {"running", "ended"},
         \/ slot' = slot
         \/ slot' # 0
         \/ turns[m].pc \in {"held", "deliver"} /\ pc = "done",
         SlotInv', TurnsInv', Len(operations) =< Len(operations'), StaysQueued
  PROVE  IInv' /\ Cares
<1>1. \A n \in Messages : AtRun(turns[n]) => AtRun(turns'[n])
  BY DEF MovesTo, AtRun
<1>. QED  BY <1>1, TurnFrame DEF MovesTo

LEMMA TurnSteps ==
  ASSUME IInv, NEW m \in Messages,
         \/ PreDispatch(m) \/ Dispatch(m) \/ Woken(m) \/ AgentStarts(m) \/ EmbeddedRunEnds(m)
         \/ DispatchAborted(m) \/ Readmitted(m) \/ TurnEnds(m)
  PROVE  IInv' /\ Cares
<1>. USE DEF TurnStates
<1>1. ASSUME NEW pc \in TurnStates, Owns(m, pc), StaysQueued,
             turns[m].pc \notin {"running", "ended"}
      PROVE  IInv' /\ Cares
  <2>1. slot' # 0
    BY <1>1, CreateKeeps, Lengths DEF IInv, Owns
  <2>. QED  BY <1>1, <2>1, OwnsKeeps, MoveKeeps
<1>2. ASSUME NEW pc \in TurnStates, Turn(m, pc), UNCHANGED slotVars, StaysQueued,
             turns[m].pc \notin {"running", "ended"} \/ pc \in {"running", "ended"},
             pc \in {"held", "running", "ended", "deliver"} => turns[m].op # 0
      PROVE  IInv' /\ Cares
  <2>1. SlotInv' /\ Len(operations') \in Nat /\ Len(operations) =< Len(operations')
    BY <1>2, SlotStays
  <2>2. TurnsInv' /\ MovesTo(m, pc)
    BY <1>2, <2>1, TurnKeeps
  <2>. QED  BY <1>2, <2>1, <2>2, MoveKeeps DEF slotVars
<1>3. CASE PreDispatch(m)
  <2>1. CASE Owns(m, "held")
    BY <1>1, <1>3, <2>1 DEF PreDispatch
  <2>2. CASE ~Owns(m, "held")
    <3>1. /\ turns' = [turns EXCEPT ![m].pc = "pre", ![m].seen = slot]
          /\ UNCHANGED slotVars /\ StaysQueued /\ turns[m].pc = "new"
      BY <1>3, <2>2 DEF PreDispatch
    <3>2. turns \in [Messages -> TurnRecord] /\ slot \in Nat
      BY Lengths DEF IInv, TurnsInv, TurnRecord
    <3>. DEFINE t == [[turns[m] EXCEPT !.pc = "pre"] EXCEPT !.seen = slot]
                mid == [turns EXCEPT ![m] = [turns[m] EXCEPT !.pc = "pre"]]
    <3>3. turns' = [mid EXCEPT ![m] = [mid[m] EXCEPT !.seen = slot]]
      BY <3>1
    <3>4. mid[m] = [turns[m] EXCEPT !.pc = "pre"]
      BY <3>2
    <3>5. Put(turns, m, t, turns')
      BY <3>2, <3>3, <3>4 DEF Put
    <3>6. t \in TurnRecord /\ t.pc = "pre" /\ t.op = turns[m].op
      BY <3>2 DEF TurnRecord
    <3>7. SlotInv' /\ Len(operations') \in Nat /\ Len(operations) =< Len(operations')
      BY <3>1, SlotStays
    <3>. HIDE DEF t, mid
    <3>8. t.op =< Len(operations')
      BY <3>2, <3>6, <3>7, Lengths DEF IInv, TurnsInv, TurnRecord
    <3>9. TurnsInv' /\ MovesTo(m, "pre")
      BY <3>5, <3>6, <3>7, <3>8, TurnReplaced
    <3>. QED  BY <3>1, <3>7, <3>9, MoveKeeps DEF slotVars
  <2>. QED  BY <2>1, <2>2
<1>4. CASE Dispatch(m)
  BY <1>1, <1>2, <1>4 DEF Dispatch
<1>5. CASE Woken(m)
  BY <1>1, <1>5 DEF Woken
<1>6. CASE Readmitted(m)
  BY <1>1, <1>6 DEF Readmitted
<1>7. CASE AgentStarts(m)
  BY <1>2, <1>7, TurnOperation DEF AgentStarts
<1>8. CASE EmbeddedRunEnds(m)
  BY <1>2, <1>8, TurnOperation DEF EmbeddedRunEnds
<1>9. CASE TurnEnds(m)
  <2>1. /\ turns[m].pc \in {"held", "deliver"} /\ Ended(turns[m].op, "completed")
        /\ Turn(m, "done") /\ StaysQueued
    BY <1>9 DEF TurnEnds
  <2>2. SlotInv' /\ Len(operations') = Len(operations)
    BY <2>1, TurnOperation, EndKeeps DEF IInv
  <2>3. TurnsInv' /\ MovesTo(m, "done")
    BY <2>1, <2>2, Lengths, TurnKeeps
  <2>. QED  BY <2>1, <2>2, <2>3, Lengths, MoveKeeps
<1>10. CASE DispatchAborted(m)
  <2>1. /\ turns[m].pc \in {"running", "ended"} /\ Ended(turns[m].op, "completed")
        /\ turns' = turns /\ StaysQueued
    BY <1>10 DEF DispatchAborted
  <2>2. SlotInv' /\ Len(operations') = Len(operations)
    BY <2>1, TurnOperation, EndKeeps DEF IInv
  <2>3. TurnsInv'
    BY <2>1, <2>2, Lengths, TurnsStay
  <2>. QED  BY <2>1, <2>2, <2>3, Lengths, TurnFrame DEF AtRun
<1>. QED  BY <1>3, <1>4, <1>5, <1>6, <1>7, <1>8, <1>9, <1>10

\* The end of a run drains the object in the map.
LEMMA AgentEndsKeeps ==
  ASSUME IInv, NEW m \in Messages, AgentEnds(m)
  PROVE  IInv' /\ Cares
<1>1. /\ turns[m].pc = "ended" /\ Ended(turns[m].op, "completed")
      /\ drains' = Scheduled(drains, current)
      /\ queues' = queues /\ current' = current /\ faults' = faults
      /\ \E pc \in {"done", "readmit"} : Turn(m, pc)
  BY DEF AgentEnds
<1>2. SlotInv' /\ Len(operations') = Len(operations)
  BY <1>1, TurnOperation, EndKeeps DEF IInv
<1>3. TurnsInv'
  BY <1>1, <1>2, Lengths, TurnKeeps DEF TurnStates
<1>4. /\ AreDrains(drains', Len(queues), Len(operations))
      /\ current # 0 => drains'[current].pc # "idle"
      /\ \A h \in 1..Len(queues) : h # current => drains'[h] = drains[h]
  BY <1>1, Lengths, AnyScheduled
<1>5. QueuesInv'
  BY <1>1, <1>2, <1>4, Lengths DEF QueuesInv
<1>6. OwnDrains'
  BY <1>1, <1>4 DEF IInv, OwnDrains, Queues
<1>7. Cares
  BY <1>1, <1>4 DEF Cares, BacklogHasDrain
<1>. QED  BY <1>2, <1>3, <1>5, <1>6, <1>7 DEF IInv

\* The message joins the object in the map or a new one; a drain starts, or a run is
\* active.
LEMMA EnqueueKeeps ==
  ASSUME IInv, NEW m \in Messages, NEW s, EnqueueTurn(m, s)
  PROVE  IInv' /\ Cares
<1>. DEFINE g == IF current # 0 THEN current ELSE Len(queues) + 1
            before == IF current # 0 THEN drains ELSE Append(drains, Idle)
            after == Len(queues')
<1>1. /\ turns[m].pc = "enqueue" /\ Turn(m, "done") /\ UNCHANGED slotVars
      /\ faults' = faults /\ current' = g
      /\ drains' = IF ~isRunActive THEN Scheduled(before, g) ELSE before
      /\ \E q : queues' = IF current # 0 THEN [queues EXCEPT ![g] = q] ELSE Append(queues, q)
  BY DEF EnqueueTurn, Enqueue
<1>2. SlotInv' /\ Len(operations') \in Nat /\ Len(operations) =< Len(operations')
      /\ Len(operations') = Len(operations)
  BY <1>1, SlotStays DEF slotVars
<1>3. TurnsInv' /\ MovesTo(m, "done")
  BY <1>1, <1>2, TurnKeeps DEF TurnStates
<1>4. PICK q : queues' = IF current # 0 THEN [queues EXCEPT ![g] = q] ELSE Append(queues, q)
  BY <1>1
<1>5. /\ IsSeq(queues') /\ after \in Nat /\ g \in 1..after /\ Len(queues) =< after
      /\ AreDrains(before, after, Len(operations))
      /\ \A h \in 1..Len(queues) : before[h] = drains[h]
      /\ \A h \in 1..after : h # g => h \in 1..Len(queues)
  <2>1. CASE current # 0
    <3>1. Put(queues, current, q, queues') /\ current \in 1..Len(queues)
      BY <1>4, <2>1, Lengths DEF Put
    <3>2. IsSeq(queues') /\ Len(queues') = Len(queues)
      BY <3>1, Lengths, Replaced
    <3>. QED  BY <2>1, <3>1, <3>2, Lengths
  <2>2. CASE current = 0
    <3>1. queues' = Append(queues, q) /\ g = Len(queues) + 1 /\ before = Append(drains, Idle)
      BY <1>4, <2>2
    <3>2. IsSeq(queues') /\ Len(queues') = Len(queues) + 1
      BY <3>1, Lengths, Appended
    <3>3. /\ IsSeq(before) /\ Len(before) = Len(queues) + 1
          /\ before[Len(queues) + 1] = Idle
          /\ \A h \in 1..Len(queues) : before[h] = drains[h]
      BY <3>1, Lengths, Appended DEF AreDrains
    <3>4. \A h \in 1..(Len(queues) + 1) : IsDrain(before[h], Len(operations))
      <4>. TAKE h \in 1..(Len(queues) + 1)
      <4>1. CASE h = Len(queues) + 1
        BY <3>3, <4>1, Lengths, FreshDrains
      <4>2. CASE h # Len(queues) + 1
        BY <3>3, <4>2, Lengths DEF AreDrains
      <4>. QED  BY <4>1, <4>2
    <3>. HIDE DEF before
    <3>. QED  BY <3>1, <3>2, <3>3, <3>4, Lengths DEF AreDrains
  <2>. QED  BY <2>1, <2>2
<1>. HIDE DEF g, before
<1>6. /\ AreDrains(Scheduled(before, g), after, Len(operations))
      /\ Scheduled(before, g)[g].pc # "idle"
      /\ \A h \in 1..after : h # g \/ before[h].pc # "idle" => Scheduled(before, g)[h] = before[h]
  <2>1. g \in 0..after /\ g # 0
    BY <1>5
  <2>. HIDE DEF after
  <2>. QED  BY <1>5, <2>1, Lengths, AnyScheduled
<1>7. /\ AreDrains(drains', after, Len(operations))
      /\ ~isRunActive => drains'[g].pc # "idle"
      /\ \A h \in 1..Len(queues) : h # g \/ drains[h].pc # "idle" => drains'[h] = drains[h]
  BY <1>1, <1>5, <1>6
<1>8. QueuesInv'
  BY <1>1, <1>2, <1>5, <1>7, Lengths DEF QueuesInv
<1>9. OwnDrains'
  <2>. SUFFICES ASSUME faults.stops = 0, NEW h \in 1..after, drains'[h].pc # "idle", h # g
                PROVE  FALSE
    BY <1>1 DEF OwnDrains, Queues
  <2>1. h \in 1..Len(queues) /\ drains'[h] = drains[h]
    BY <1>5, <1>7
  <2>2. h = current
    BY <2>1 DEF IInv, OwnDrains, Queues
  <2>3. current # 0 => g = current
    BY DEF g
  <2>. QED  BY <2>1, <2>2, <2>3
<1>10. isRunActive => isRunActive'
  BY <1>1, <1>3 DEF MovesTo, isRunActive, slotVars
<1>11. Cares
  BY <1>1, <1>7, <1>10 DEF Cares, BacklogHasDrain
<1>. QED  BY <1>2, <1>3, <1>8, <1>9, <1>11 DEF IInv

-----------------------------------------------------------------------------
(* The steps of a drain *)

LEMMA DrainKnown ==
  ASSUME IInv, NEW g \in Queues
  PROVE  /\ g \in 1..Len(queues) /\ IsDrain(drains[g], Len(operations))
         /\ drains[g].pc \in DrainStates /\ drains[g].op \in 0..Len(operations)
         /\ drains[g].pc \in {"admitted", "running"} => drains[g].op \in 1..Len(operations)
<1>1. g \in 1..Len(queues) /\ IsDrain(drains[g], Len(operations))
  BY Lengths DEF Queues, AreDrains
<1>. QED  BY <1>1, Lengths, DrainUpdated

\* What the steps below write into a drain.
LEMMA AnyUpdated ==
  \A n \in Nat : \A d : IsDrain(d, n) =>
    /\ IsDrain(WithPc(d, "admit"), n) /\ WithPc(d, "admit").pc = "admit"
    /\ d.op # 0 => IsDrain(WithPc(d, "running"), n) /\ WithPc(d, "running").pc = "running"
    /\ IsDrain(WithOp(WithPc(d, "admit"), 0), n) /\ WithOp(WithPc(d, "admit"), 0).pc = "admit"
    /\ /\ IsDrain(WithOp(WithPc(d, "admitted"), n + 1), n + 1)
       /\ WithOp(WithPc(d, "admitted"), n + 1).pc = "admitted"
<1>. SUFFICES ASSUME NEW n \in Nat, NEW d, IsDrain(d, n)
              PROVE  /\ IsDrain(WithPc(d, "admit"), n) /\ WithPc(d, "admit").pc = "admit"
                     /\ d.op # 0 => /\ IsDrain(WithPc(d, "running"), n)
                                    /\ WithPc(d, "running").pc = "running"
                     /\ IsDrain(WithOp(WithPc(d, "admit"), 0), n)
                     /\ WithOp(WithPc(d, "admit"), 0).pc = "admit"
                     /\ IsDrain(WithOp(WithPc(d, "admitted"), n + 1), n + 1)
                     /\ WithOp(WithPc(d, "admitted"), n + 1).pc = "admitted"
  OBVIOUS
<1>1. "admit" \in DrainStates /\ "admitted" \in DrainStates /\ "running" \in DrainStates
  BY DEF DrainStates
<1>2. n + 1 \in Nat /\ n =< n + 1 /\ n =< n /\ 0 \in 0..n /\ n + 1 \in 0..(n + 1) /\ n + 1 # 0
  OBVIOUS
<1>3. \A k \in Nat : n =< k =>
        \A p \in DrainStates, o \in 0..k : (p \in {"admitted", "running"} => o # 0)
          => IsDrain(WithOp(WithPc(d, p), o), k) /\ WithOp(WithPc(d, p), o).pc = p
  BY DrainUpdated
<1>4. \A p \in DrainStates : (p \in {"admitted", "running"} => d.op # 0)
        => IsDrain(WithPc(d, p), n) /\ WithPc(d, p).pc = p
  BY <1>2, DrainUpdated
<1>. QED  BY <1>1, <1>2, <1>3, <1>4

AtAdmit(d, n) == IsDrain(d, n) /\ d.pc = "admit"

LEMMA AnyAtAdmit ==
  \A n \in Nat : \A d :
    /\ IsDrain(d, n) => AtAdmit(WithPc(d, "admit"), n) /\ AtAdmit(WithOp(WithPc(d, "admit"), 0), n)
    /\ \A x : AtAdmit(d, n) => AtAdmit(WithForce(d, x), n) /\ AtAdmit(WithCall(d, x), n)
<1>1. ASSUME NEW n \in Nat, NEW d, IsDrain(d, n)
      PROVE  AtAdmit(WithPc(d, "admit"), n) /\ AtAdmit(WithOp(WithPc(d, "admit"), 0), n)
  BY <1>1, AnyUpdated DEF AtAdmit
<1>2. ASSUME NEW n \in Nat, NEW d, NEW x, AtAdmit(d, n)
      PROVE  AtAdmit(WithForce(d, x), n) /\ AtAdmit(WithCall(d, x), n)
  <2>1. n =< n /\ IsDrain(d, n) /\ d.pc = "admit"
    BY <1>2 DEF AtAdmit
  <2>. QED  BY <2>1, DrainUpdated DEF AtAdmit
<1>. QED  BY <1>1, <1>2

\* The drain of g goes on as d.
LEMMA DrainGoesOn ==
  ASSUME IInv, NEW g \in Queues, NEW d, IsDrain(d, Len(operations')), d.pc # "idle",
         Put(drains, g, d, drains'), current' = current,
         Len(operations') \in Nat, Len(operations) =< Len(operations'),
         queues' = queues \/ \E q : Put(queues, g, q, queues')
  PROVE  SameShape /\ Took(g)
<1>1. IsSeq(queues') /\ Len(queues') = Len(queues)
  BY DrainKnown, Lengths, Replaced
<1>2. /\ AreDrains(drains', Len(queues), Len(operations')) /\ drains'[g] = d
      /\ \A h \in 1..Len(queues) : h # g => drains'[h] = drains[h]
  BY DrainKnown, Lengths, DrainReplaced
<1>. QED  BY <1>1, <1>2, Lengths DEF SameShape, Took, Queues

LEMMA DrainStepped ==
  ASSUME IInv, NEW g \in Queues, drains[g].pc # "idle", SlotInv', turns' = turns,
         Len(operations) =< Len(operations'), faults'.stops = faults.stops,
         faults' \in [stops : Nat, errors : Nat], SameShape, Took(g)
  PROVE  IInv' /\ Cares
<1>1. TurnsInv'
  BY TurnsStay DEF SlotInv
<1>. QED  BY <1>1, DrainFrame DEF IInv

LEMMA DrainSteps ==
  ASSUME IInv, NEW g \in Queues,
         \/ DrainStep(g) \/ FollowupAdmitted(g) \/ FollowupStarts(g) \/ FollowupDeferred(g)
         \/ FollowupDone(g) \/ FollowupThrows(g)
  PROVE  IInv' /\ Cares
<1>0. /\ IsDrain(drains[g], Len(operations)) /\ Len(operations) \in Nat
      /\ drains[g].pc \in {"admitted", "running"} => drains[g].op # 0
  BY DrainKnown, Lengths
<1>1. CASE DrainStep(g)
  <2>1. /\ drains[g].pc = "debounce" /\ UNCHANGED slotVars /\ turns' = turns
        /\ faults' = faults
    BY <1>1 DEF DrainStep
  <2>2. SlotInv' /\ Len(operations') = Len(operations)
    BY <2>1, SlotStays DEF slotVars
  <2>3. SameShape /\ Took(g)
    <3>1. CASE Calls(g) = {}
      BY <1>1, <2>2, <3>1, RestartedKeeps DEF DrainStep
    <3>2. CASE Calls(g) # {}
      <4>1. \E f, c :
              /\ Put(drains, g, WithCall(WithForce(WithPc(drains[g], "admit"), f), c), drains')
              /\ queues' = queues /\ current' = current
        BY <1>1, <3>2, Zenon DEF DrainStep, Put, WithCall, WithForce, WithPc
      <4>2. PICK f, c :
              /\ Put(drains, g, WithCall(WithForce(WithPc(drains[g], "admit"), f), c), drains')
              /\ queues' = queues /\ current' = current
        BY <4>1
      <4>. DEFINE d == WithCall(WithForce(WithPc(drains[g], "admit"), f), c)
      <4>5. AtAdmit(d, Len(operations))
        BY <1>0, AnyAtAdmit
      <4>6. Put(drains, g, d, drains')
        BY <4>2
      <4>. HIDE DEF d
      <4>. QED  BY <2>2, <4>2, <4>5, <4>6, Lengths, DrainGoesOn DEF AtAdmit
    <3>. QED  BY <3>1, <3>2
  <2>. QED  BY <2>1, <2>2, <2>3, Lengths, DrainStepped
<1>2. CASE FollowupAdmitted(g)
  <2>1. /\ drains[g].pc = "admit" /\ createReplyOperation /\ turns' = turns
        /\ faults' = faults /\ queues' = queues /\ current' = current
        /\ Put(drains, g, WithOp(WithPc(drains[g], "admitted"), slot'), drains')
    BY <1>2 DEF FollowupAdmitted, Put, WithOp, WithPc
  <2>2. SlotInv' /\ Len(operations') = Len(operations) + 1 /\ slot' = Len(operations')
    BY <2>1, CreateKeeps DEF IInv
  <2>. DEFINE d == WithOp(WithPc(drains[g], "admitted"), slot')
  <2>3. IsDrain(d, Len(operations')) /\ d.pc = "admitted"
    <3>1. LET n == Len(operations) + 1 IN
            /\ IsDrain(WithOp(WithPc(drains[g], "admitted"), n), n)
            /\ WithOp(WithPc(drains[g], "admitted"), n).pc = "admitted"
      BY <1>0, AnyUpdated, Zenon
    <3>. QED  BY <2>2, <3>1
  <2>4. Put(drains, g, d, drains')
    BY <2>1
  <2>. HIDE DEF d
  <2>5. SameShape /\ Took(g)
    BY <2>1, <2>2, <2>3, <2>4, Lengths, DrainGoesOn
  <2>. QED  BY <2>1, <2>2, <2>5, Lengths, DrainStepped
<1>3. CASE FollowupStarts(g)
  <2>1. /\ drains[g].pc = "admitted" /\ UNCHANGED slotVars /\ turns' = turns
        /\ faults' = faults /\ queues' = queues /\ current' = current
        /\ Put(drains, g, WithPc(drains[g], "running"), drains')
    BY <1>3 DEF FollowupStarts, Put, WithPc
  <2>2. SlotInv' /\ Len(operations') = Len(operations)
    BY <2>1, SlotStays DEF slotVars
  <2>3. IsDrain(WithPc(drains[g], "running"), Len(operations))
        /\ WithPc(drains[g], "running").pc = "running"
    BY <1>0, <2>1, AnyUpdated, Zenon
  <2>4. SameShape /\ Took(g)
    BY <2>1, <2>2, <2>3, Lengths, DrainGoesOn
  <2>. QED  BY <2>1, <2>2, <2>4, Lengths, DrainStepped
<1>4. CASE FollowupDeferred(g)
  <2>1. /\ drains[g].pc = "admit" /\ UNCHANGED slotVars /\ turns' = turns
        /\ faults' = faults /\ \E q : Restarted(g, q)
    BY <1>4 DEF FollowupDeferred
  <2>2. SlotInv' /\ Len(operations') = Len(operations)
    BY <2>1, SlotStays DEF slotVars
  <2>3. SameShape /\ Took(g)
    BY <2>1, <2>2, RestartedKeeps
  <2>. QED  BY <2>1, <2>2, <2>3, Lengths, DrainStepped
<1>5. CASE FollowupDone(g)
  <2>1. /\ drains[g].pc \in {"admitted", "running"} /\ Ended(drains[g].op, "completed")
        /\ turns' = turns /\ faults' = faults
    BY <1>5 DEF FollowupDone
  <2>2. SlotInv' /\ Len(operations') = Len(operations)
    BY <2>1, DrainKnown, EndKeeps DEF IInv
  <2>3. SameShape /\ Took(g)
    <3>1. CASE drains[g].call.rest = <<>>
      BY <1>5, <2>2, <3>1, NextRoundKeeps DEF FollowupDone
    <3>2. CASE drains[g].call.rest # <<>>
      <4>1. \E c : Put(drains, g, WithCall(WithOp(WithPc(drains[g], "admit"), 0), c), drains')
        BY <1>5, <3>2 DEF FollowupDone, Put, WithCall, WithOp, WithPc
      <4>2. current' = current /\ \E q : Put(queues, g, q, queues')
        BY <1>5, <3>2 DEF FollowupDone, Put
      <4>3. PICK c : Put(drains, g, WithCall(WithOp(WithPc(drains[g], "admit"), 0), c), drains')
        BY <4>1
      <4>. DEFINE d == WithCall(WithOp(WithPc(drains[g], "admit"), 0), c)
      <4>4. AtAdmit(d, Len(operations))
        BY <1>0, AnyAtAdmit
      <4>5. Put(drains, g, d, drains')
        BY <4>3
      <4>. HIDE DEF d
      <4>. QED  BY <2>2, <4>2, <4>4, <4>5, Lengths, DrainGoesOn DEF AtAdmit
    <3>. QED  BY <3>1, <3>2
  <2>. QED  BY <2>1, <2>2, <2>3, Lengths, DrainStepped
<1>6. CASE FollowupThrows(g)
  <2>1. /\ drains[g].pc \in {"admitted", "running"} /\ Ended(drains[g].op, "completed")
        /\ turns' = turns /\ faults' = [faults EXCEPT !.errors = @ + 1]
        /\ Restarted(g, queues[g])
    BY <1>6 DEF FollowupThrows
  <2>2. SlotInv' /\ Len(operations') = Len(operations)
    BY <2>1, DrainKnown, EndKeeps DEF IInv
  <2>3. SameShape /\ Took(g)
    BY <2>1, <2>2, RestartedKeeps
  <2>4. faults' \in [stops : Nat, errors : Nat] /\ faults'.stops = faults.stops
    BY <2>1, Lengths
  <2>. QED  BY <2>1, <2>2, <2>3, <2>4, Lengths, DrainStepped
<1>. QED  BY <1>1, <1>2, <1>3, <1>4, <1>5, <1>6

-----------------------------------------------------------------------------
(* The invariant *)

\* A /stop ends what the other parts of the invariant say of drains, and the backlog.
LEMMA StopKeeps == ASSUME IInv, Stop PROVE IInv' /\ Cares
<1>1. /\ faults' = [faults EXCEPT !.stops = @ + 1] /\ Aborted(QueuedPhase)
      /\ turns' = turns /\ drains' = drains
      /\ current' = 0
      /\ IF current = 0 THEN queues' = queues
         ELSE \E q : Put(queues, current, q, queues')
  <2>1. CASE current = 0
    BY <2>1 DEF Stop
  <2>2. CASE current # 0
    <3>. DEFINE mid == [queues EXCEPT ![current] = [queues[current] EXCEPT !.items = <<>>]]
                q == [mid[current] EXCEPT !.lines = <<>>]
    <3>1. queues' = [mid EXCEPT ![current] = q]
      BY <2>2 DEF Stop
    <3>2. Put(queues, current, q, queues')
      <4>1. queues' = [queues EXCEPT ![current] = q]
        <5>1. \A x, y : [[queues EXCEPT ![current] = x] EXCEPT ![current] = y]
                          = [queues EXCEPT ![current] = y]
          OBVIOUS
        <5>. HIDE DEF q
        <5>. QED  BY <3>1, <5>1 DEF mid
      <4>. QED  BY <4>1 DEF Put
    <3>. QED  BY <2>2, <3>2 DEF Stop
  <2>. QED  BY <2>1, <2>2
<1>2. SlotInv' /\ Len(operations') = Len(operations)
  BY <1>1, AbortKeeps DEF IInv
<1>3. TurnsInv'
  BY <1>1, <1>2, Lengths, TurnsStay
<1>4. IsSeq(queues') /\ Len(queues') = Len(queues)
  BY <1>1, Lengths, Replaced
<1>5. faults' \in [stops : Nat, errors : Nat] /\ faults'.stops # 0
  BY <1>1, Lengths
<1>6. QueuesInv'
  BY <1>1, <1>2, <1>4, <1>5, Lengths DEF QueuesInv
<1>7. Cares
  BY <1>1 DEF Cares, BacklogHasDrain
<1>. QED  BY <1>2, <1>3, <1>5, <1>6, <1>7 DEF IInv, OwnDrains

LEMMA InitHolds == ASSUME Init PROVE IInv
<1>1. SlotInv
  BY DEF Init, SlotInv, SlotHeldByLiveOperation
<1>2. TurnsInv
  BY DEF Init, TurnsInv, NoTurn, TurnStates
<1>3. IsSeq(<<>>) /\ Len(<<>>) = 0
  <2>1. <<>> \in Seq({})
    OBVIOUS
  <2>. QED  BY <2>1 DEF IsSeq
<1>4. QueuesInv
  BY <1>3 DEF Init, QueuesInv, AreDrains
<1>5. OwnDrains
  BY DEF Init, OwnDrains, Queues
<1>. QED  BY <1>1, <1>2, <1>4, <1>5 DEF IInv

LEMMA Steps == ASSUME IInv, [Next]_vars PROVE IInv' /\ Cares
<1>1. CASE UNCHANGED vars
  <2>1. IInv'
    BY <1>1 DEF vars, slotVars, queueVars, IInv, SlotInv, SlotHeldByLiveOperation,
      TurnsInv, QueuesInv, OwnDrains, Queues
  <2>2. Cares
    BY <1>1 DEF vars, slotVars, queueVars, Cares, BacklogHasDrain, isRunActive, Pending
  <2>. QED  BY <2>1, <2>2
<1>2. ASSUME NEW m \in Messages, PreDispatch(m) \/ TurnMoves(m) PROVE IInv' /\ Cares
  BY <1>2, TurnSteps, AgentEndsKeeps, EnqueueKeeps DEF TurnMoves
<1>3. CASE Stop
  BY <1>3, StopKeeps
<1>. QED  BY <1>1, <1>2, <1>3, DrainSteps DEF Next

LEMMA StepPreserves == ASSUME IInv, [Next]_vars PROVE IInv'
BY Steps

\* The inductive invariant: the operation in the slot is the live one, whoever may end
\* an operation has its name, and without a /stop no drain but that of the object in
\* the map is at work.
THEOREM InvariantHolds == Spec => []IInv
<1>1. Init => IInv
  BY InitHolds
<1>2. IInv /\ [Next]_vars => IInv'
  BY StepPreserves
<1>. QED  BY <1>1, <1>2, PTL DEF Spec

\* The reply slot is held by the one operation that is not over: completions, failures
\* and aborts in any order free no slot of another and leave none behind.
THEOREM SlotExclusive == Spec => []SlotHeldByLiveOperation
<1>1. IInv => SlotHeldByLiveOperation
  BY DEF IInv, SlotInv
<1>. QED  BY <1>1, InvariantHolds, PTL

\* While nobody used /stop, the only step that leaves a backlog with nobody to drain it
\* is the end of a turn by complete(), without a run or after its reply is delivered:
\* whatever is deferred, fails, is aborted or arrives meanwhile leaves it its drain.
THEOREM LeftAloneOnlyByPlainEnds == Spec => LeftByPlainEndOnly
<1>1. IInv /\ [Next]_vars => [Cares]_vars
  BY Steps
<1>2. Cares <=>
        (faults.stops = 0 /\ BacklogHasDrain /\ ~BacklogHasDrain' =>
           \E m \in Messages : turns[m].pc \in {"held", "deliver"} /\ turns'[m].pc = "done")
  BY DEF Cares
<1>. QED  BY <1>1, <1>2, InvariantHolds, PTL DEF Spec, LeftByPlainEndOnly
=============================================================================
