------------------------ MODULE CommandQueueProofs ------------------------
(***************************************************************************)
(* Proofs about CommandQueue, for every value of its constants.            *)
(*                                                                         *)
(* Every operation of the queue prepares an intermediate state (a command  *)
(* inserted, a slot released, a lane set idle) and pumps it.  The proofs   *)
(* follow that shape: WellFormed is stated of the parts of such a state,   *)
(* DrainWellFormed shows that a pump preserves it, and each operation is   *)
(* left with showing it of the state it hands to the pump.                 *)
(***************************************************************************)
EXTENDS CommandQueue, FiniteSetTheorems, TLAPS

Typed(q, a, g, e, f, p) ==
  /\ q \in [Lanes -> Seq(Commands)]
  /\ a \in [Lanes -> SUBSET Commands]
  /\ g \in [Lanes -> Nat]
  /\ e \in [Commands -> Entry \cup {NoEntry}]
  /\ f \in SUBSET Commands
  /\ p \in [Commands -> {"none", "pending"} \cup Settled]

\* What is queued is pending, not started, and in the lane its entry names.
QueuesHold(q, e, f, p) ==
  \A l \in Lanes : \A i \in 1..Len(q[l]) :
    /\ e[q[l][i]] \in Entry
    /\ e[q[l][i]].lane = l
    /\ p[q[l][i]] = "pending"
    /\ q[l][i] \notin f

NoDuplicates(q) ==
  \A l \in Lanes : \A i, j \in 1..Len(q[l]) : q[l][i] = q[l][j] => i = j

\* What is in flight is pending, and was started in a generation already reached.
FlightHolds(g, e, f, p) ==
  \A c \in f : /\ e[c] \in Entry
               /\ e[c].taskGeneration =< g[e[c].lane]
               /\ p[c] = "pending"

NothingLost(q, f, p) ==
  \A c \in Commands : p[c] = "pending" =>
    c \in f \/ \E l \in Lanes : \E i \in 1..Len(q[l]) : q[l][i] = c

SlotsMatch(a, g, e, f) ==
  \A l \in Lanes :
    a[l] = {c \in f : e[c].lane = l /\ e[c].taskGeneration = g[l]}

WellFormed(q, a, g, e, f, p) ==
  /\ Typed(q, a, g, e, f, p)
  /\ QueuesHold(q, e, f, p)
  /\ NoDuplicates(q)
  /\ FlightHolds(g, e, f, p)
  /\ NothingLost(q, f, p)
  /\ SlotsMatch(a, g, e, f)

\* The inductive invariant of the queue.
Rest ==
  /\ maxConcurrent \in [Lanes -> Nat]
  /\ gatewayDraining \in BOOLEAN
  /\ nextQueueSequence \in Nat
  /\ body \in [Commands -> {"idle", "executing", "returned"}]
  /\ waiters \in [Waiters -> Waiter]

IInv ==
  /\ WellFormed(queue, active, generation, entry, inFlight, promise)
  /\ Rest
  /\ NoLostWakeup

-----------------------------------------------------------------------------
(* The pump *)

\* The pump starts between none and all of the queued commands.
LEMMA PumpCountBounds ==
  ASSUME NEW q \in Seq(Commands), NEW a \in SUBSET Commands, NEW m \in Nat
  PROVE  PumpCount(q, a, m) \in 0..Len(q)
<1>1. Cardinality(a) \in Nat
  BY FS_Subset, FS_CardinalityType, CommandsFinite
<1>2. Len(q) \in Nat
  OBVIOUS
<1>. QED  BY <1>1, <1>2 DEF PumpCount

\* A pump keeps a well-formed state well-formed: what it takes from the front of
\* the queues is exactly what it puts in flight, in slots of the generation g.
LEMMA DrainWellFormed ==
  ASSUME NEW q, NEW a, NEW m \in [Lanes -> Nat], NEW g, NEW e, NEW f, NEW p,
         NEW ls \in SUBSET Lanes,
         WellFormed(q, a, g, e, f, p),
         drainLanes(ls, q, a, m, g, e, f)
  PROVE  /\ WellFormed(queue', active', g, entry', inFlight', p)
         /\ \A l \in Lanes : a[l] \subseteq active'[l]
<1>. DEFINE n == [l \in Lanes |-> IF l \in ls THEN PumpCount(q[l], a[l], m[l]) ELSE 0]
            start == [l \in Lanes |-> IF l \in ls THEN Started(q[l], a[l], m[l]) ELSE {}]
            started == UNION {start[l] : l \in Lanes}
<1>1. \A l \in Lanes : n[l] \in 0..Len(q[l]) /\ Len(q[l]) \in Nat
  BY PumpCountBounds DEF WellFormed, Typed
<1>2. \A l \in Lanes : start[l] = {q[l][i] : i \in 1..n[l]}
  BY DEF Started
<1>3. \A c : c \in started <=> \E l \in Lanes : \E i \in 1..n[l] : c = q[l][i]
  BY <1>2
<1>4. /\ queue' = [l \in Lanes |-> SubSeq(q[l], n[l] + 1, Len(q[l]))]
      /\ active' = [l \in Lanes |-> a[l] \cup start[l]]
      /\ inFlight' = f \cup started
      /\ entry' = [c \in Commands |->
           IF c \in started THEN [e[c] EXCEPT !.taskGeneration = g[e[c].lane]] ELSE e[c]]
  BY DEF drainLanes
<1>. HIDE DEF n, start, started
<1>5. \A l \in Lanes : /\ queue'[l] \in Seq(Commands)
                       /\ Len(queue'[l]) = Len(q[l]) - n[l]
                       /\ \A i \in 1..Len(queue'[l]) : queue'[l][i] = q[l][n[l] + i]
  <2>. SUFFICES ASSUME NEW l \in Lanes
                PROVE  /\ queue'[l] \in Seq(Commands)
                       /\ Len(queue'[l]) = Len(q[l]) - n[l]
                       /\ \A i \in 1..Len(queue'[l]) : queue'[l][i] = q[l][n[l] + i]
    OBVIOUS
  <2>1. queue'[l] = SubSeq(q[l], n[l] + 1, Len(q[l])) /\ q[l] \in Seq(Commands)
    BY <1>4 DEF WellFormed, Typed
  <2>2. n[l] \in Nat /\ n[l] =< Len(q[l]) /\ Len(q[l]) \in Nat
    BY <1>1
  <2>. DEFINE s == q[l]  k == n[l]
  <2>3. s \in Seq(Commands) /\ k \in Nat /\ k =< Len(s)
    BY <2>1, <2>2
  <2>. HIDE DEF s, k
  <2>4. /\ SubSeq(s, k + 1, Len(s)) \in Seq(Commands)
        /\ Len(SubSeq(s, k + 1, Len(s))) = Len(s) - k
        /\ \A i \in 1..(Len(s) - k) : SubSeq(s, k + 1, Len(s))[i] = s[k + i]
    BY <2>3
  <2>. QED  BY <2>1, <2>4 DEF s, k
<1>6. \A c \in started : /\ c \in Commands /\ c \notin f /\ p[c] = "pending"
                         /\ e[c] \in Entry
  <2>. SUFFICES ASSUME NEW c \in started
                PROVE  c \in Commands /\ c \notin f /\ p[c] = "pending" /\ e[c] \in Entry
    OBVIOUS
  <2>1. PICK l \in Lanes : \E i \in 1..n[l] : c = q[l][i]
    BY <1>3
  <2>2. PICK i \in 1..n[l] : c = q[l][i]
    BY <2>1
  <2>3. i \in 1..Len(q[l]) /\ q[l] \in Seq(Commands)
    BY <1>1 DEF WellFormed, Typed
  <2>4. c \in Commands
    BY <2>2, <2>3
  <2>. QED  BY <2>2, <2>3, <2>4 DEF WellFormed, QueuesHold
<1>7. \A c \in Commands : /\ c \in started => /\ entry'[c] \in Entry
                                              /\ entry'[c].lane = e[c].lane
                                              /\ entry'[c].taskGeneration = g[e[c].lane]
                          /\ c \notin started => entry'[c] = e[c]
  BY <1>4, <1>6 DEF WellFormed, Typed, Entry
<1>8. Typed(queue', active', g, entry', inFlight', p)
  <2>1. queue' \in [Lanes -> Seq(Commands)]
    BY <1>4, <1>5
  <2>2. active' \in [Lanes -> SUBSET Commands]
    <3>1. \A l \in Lanes : start[l] \subseteq Commands
      BY <1>2, <1>3, <1>6
    <3>. QED  BY <1>4, <3>1 DEF WellFormed, Typed
  <2>3. entry' \in [Commands -> Entry \cup {NoEntry}]
    BY <1>4, <1>7 DEF WellFormed, Typed
  <2>4. inFlight' \in SUBSET Commands
    BY <1>4, <1>6 DEF WellFormed, Typed
  <2>. QED  BY <2>1, <2>2, <2>3, <2>4 DEF WellFormed, Typed
<1>9. \A l \in Lanes : \A i \in 1..Len(queue'[l]) :
        /\ n[l] + i \in 1..Len(q[l])
        /\ queue'[l][i] = q[l][n[l] + i]
        /\ q[l][n[l] + i] \notin started
  <2>. SUFFICES ASSUME NEW l \in Lanes, NEW i \in 1..Len(queue'[l])
                PROVE  /\ n[l] + i \in 1..Len(q[l])
                       /\ queue'[l][i] = q[l][n[l] + i]
                       /\ q[l][n[l] + i] \notin started
    OBVIOUS
  <2>1. n[l] + i \in 1..Len(q[l]) /\ queue'[l][i] = q[l][n[l] + i]
    BY <1>1, <1>5
  <2>2. ASSUME q[l][n[l] + i] \in started PROVE FALSE
    <3>1. PICK k \in Lanes : \E j \in 1..n[k] : q[l][n[l] + i] = q[k][j]
      BY <2>2, <1>3
    <3>2. PICK j \in 1..n[k] : q[l][n[l] + i] = q[k][j]
      BY <3>1
    <3>3. j \in 1..Len(q[k])
      BY <1>1
    <3>4. k = l
      <4>1. e[q[l][n[l] + i]].lane = l
        BY <2>1 DEF WellFormed, QueuesHold
      <4>2. e[q[k][j]].lane = k
        BY <3>3 DEF WellFormed, QueuesHold
      <4>. QED  BY <3>2, <4>1, <4>2
    <3>5. n[l] + i = j
      BY <2>1, <3>2, <3>3, <3>4 DEF WellFormed, NoDuplicates
    <3>. QED  BY <3>4, <3>5, <1>1
  <2>. QED  BY <2>1, <2>2
<1>10. QueuesHold(queue', entry', inFlight', p)
  <2>. SUFFICES ASSUME NEW l \in Lanes, NEW i \in 1..Len(queue'[l])
                PROVE  /\ entry'[queue'[l][i]] \in Entry
                       /\ entry'[queue'[l][i]].lane = l
                       /\ p[queue'[l][i]] = "pending"
                       /\ queue'[l][i] \notin inFlight'
    BY DEF QueuesHold
  <2>. DEFINE c == q[l][n[l] + i]
  <2>1. queue'[l][i] = c /\ c \notin started /\ n[l] + i \in 1..Len(q[l])
    BY <1>9
  <2>2. e[c] \in Entry /\ e[c].lane = l /\ p[c] = "pending" /\ c \notin f
    BY <2>1 DEF WellFormed, QueuesHold
  <2>3. c \in Commands
    BY <2>1 DEF WellFormed, Typed
  <2>. HIDE DEF c
  <2>. QED  BY <2>1, <2>2, <2>3, <1>7, <1>4
<1>11. NoDuplicates(queue')
  <2>. SUFFICES ASSUME NEW l \in Lanes, NEW i \in 1..Len(queue'[l]),
                       NEW j \in 1..Len(queue'[l]), queue'[l][i] = queue'[l][j]
                PROVE  i = j
    BY DEF NoDuplicates
  <2>1. q[l][n[l] + i] = q[l][n[l] + j]
    BY <1>9
  <2>2. n[l] + i = n[l] + j
    BY <1>9, <2>1 DEF WellFormed, NoDuplicates
  <2>. QED  BY <2>2, <1>1, <1>5
<1>12. FlightHolds(g, entry', inFlight', p)
  <2>. SUFFICES ASSUME NEW c \in inFlight'
                PROVE  /\ entry'[c] \in Entry
                       /\ entry'[c].taskGeneration =< g[entry'[c].lane]
                       /\ p[c] = "pending"
    BY DEF FlightHolds
  <2>1. CASE c \in started
    <3>1. /\ entry'[c] \in Entry
          /\ entry'[c].lane = e[c].lane
          /\ entry'[c].taskGeneration = g[e[c].lane]
      BY <2>1, <1>6, <1>7
    <3>2. g[e[c].lane] \in Nat
      BY <2>1, <1>6 DEF WellFormed, Typed, Entry
    <3>. QED  BY <2>1, <1>6, <3>1, <3>2
  <2>2. CASE c \notin started
    <3>1. c \in f /\ c \in Commands
      BY <2>2, <1>4 DEF WellFormed, Typed
    <3>. QED  BY <2>2, <3>1, <1>7 DEF WellFormed, FlightHolds
  <2>. QED  BY <2>1, <2>2
<1>13. NothingLost(queue', inFlight', p)
  <2>. SUFFICES ASSUME NEW c \in Commands, p[c] = "pending", c \notin inFlight'
                PROVE  \E l \in Lanes : \E i \in 1..Len(queue'[l]) : queue'[l][i] = c
    BY DEF NothingLost
  <2>a. PICK l \in Lanes : \E j \in 1..Len(q[l]) : q[l][j] = c
    BY <1>4 DEF WellFormed, NothingLost
  <2>1. PICK j \in 1..Len(q[l]) : q[l][j] = c
    BY <2>a
  <2>2. ~(j \in 1..n[l])
    BY <2>1, <1>3, <1>4
  <2>3. j - n[l] \in 1..Len(queue'[l])
    BY <2>2, <1>1, <1>5
  <2>4. queue'[l][j - n[l]] = q[l][n[l] + (j - n[l])]
    BY <2>3, <1>5
  <2>5. n[l] + (j - n[l]) = j
    BY <1>1
  <2>. QED  BY <2>1, <2>3, <2>4, <2>5
<1>14. SlotsMatch(active', g, entry', inFlight')
  <2>. SUFFICES ASSUME NEW l \in Lanes, NEW c
                PROVE  c \in active'[l] <=>
                         c \in inFlight' /\ entry'[c].lane = l /\ entry'[c].taskGeneration = g[l]
    BY DEF SlotsMatch
  <2>1. c \in active'[l] <=> c \in a[l] \/ c \in start[l]
    BY <1>4
  <2>2. c \in a[l] <=> c \in f /\ e[c].lane = l /\ e[c].taskGeneration = g[l]
    BY DEF WellFormed, SlotsMatch
  <2>3. CASE c \in started
    <3>1. c \in start[l] <=> e[c].lane = l
      <4>a. PICK k \in Lanes : \E i \in 1..n[k] : c = q[k][i]
        BY <2>3, <1>3
      <4>1. PICK i \in 1..n[k] : c = q[k][i]
        BY <4>a
      <4>2. e[c].lane = k
        BY <4>1, <1>1 DEF WellFormed, QueuesHold
      <4>3. c \in start[k]
        BY <4>1, <1>2
      <4>4. ASSUME c \in start[l] PROVE e[c].lane = l
        <5>1. PICK j \in 1..n[l] : c = q[l][j]
          BY <4>4, <1>2
        <5>. QED  BY <5>1, <1>1 DEF WellFormed, QueuesHold
      <4>. QED  BY <4>2, <4>3, <4>4
    <3>2. c \in inFlight' /\ c \notin f /\ c \in Commands
      BY <2>3, <1>4, <1>6
    <3>. QED  BY <2>1, <2>2, <2>3, <3>1, <3>2, <1>7
  <2>4. CASE c \notin started
    <3>1. c \notin start[l]
      BY <2>4, <1>2, <1>3
    <3>2. c \in inFlight' <=> c \in f
      BY <2>4, <1>4
    <3>3. c \in f => entry'[c] = e[c]
      BY <2>4, <1>7 DEF WellFormed, Typed
    <3>. QED  BY <2>1, <2>2, <3>1, <3>2, <3>3
  <2>. QED  BY <2>3, <2>4
<1>15. \A l \in Lanes : a[l] \subseteq active'[l]
  BY <1>4
<1>. QED  BY <1>8, <1>10, <1>11, <1>12, <1>13, <1>14, <1>15 DEF WellFormed

-----------------------------------------------------------------------------
(* The states the operations hand to the pump *)

LEMMA InsertAtProperties ==
  ASSUME NEW s \in Seq(Commands), NEW c \in Commands, NEW i \in 1..(Len(s) + 1)
  PROVE  /\ InsertAt(s, i, c) \in Seq(Commands)
         /\ Len(InsertAt(s, i, c)) = Len(s) + 1
         /\ \A k \in 1..(Len(s) + 1) :
              InsertAt(s, i, c)[k] = IF k < i THEN s[k] ELSE IF k = i THEN c ELSE s[k - 1]
<1>1. Len(s) \in Nat /\ i \in Int
  OBVIOUS
<1>2. /\ SubSeq(s, 1, i - 1) \in Seq(Commands)
      /\ Len(SubSeq(s, 1, i - 1)) = i - 1
      /\ \A k \in 1..(i - 1) : SubSeq(s, 1, i - 1)[k] = s[k]
  BY <1>1
<1>3. /\ SubSeq(s, i, Len(s)) \in Seq(Commands)
      /\ Len(SubSeq(s, i, Len(s))) = Len(s) - i + 1
      /\ \A k \in 1..(Len(s) - i + 1) : SubSeq(s, i, Len(s))[k] = s[k + i - 1]
  BY <1>1
<1>. DEFINE u == SubSeq(s, 1, i - 1)
            v == SubSeq(s, i, Len(s))
<1>4. InsertAt(s, i, c) = (u \o <<c>>) \o v
  BY DEF InsertAt
<1>. HIDE DEF u, v
<1>5. u \in Seq(Commands) /\ v \in Seq(Commands) /\ <<c>> \in Seq(Commands)
      /\ Len(u) = i - 1 /\ Len(v) = Len(s) - i + 1
  BY <1>2, <1>3 DEF u, v
<1>. DEFINE w == u \o <<c>>
<1>6. /\ w \in Seq(Commands) /\ Len(w) = i
      /\ \A k \in 1..i : w[k] = IF k < i THEN u[k] ELSE c
  BY <1>1, <1>5
<1>. HIDE DEF w
<1>7. /\ w \o v \in Seq(Commands) /\ Len(w \o v) = Len(s) + 1
      /\ \A k \in 1..(Len(s) + 1) : (w \o v)[k] = IF k =< i THEN w[k] ELSE v[k - i]
  <2>1. w \o v \in Seq(Commands) /\ Len(w \o v) = Len(w) + Len(v)
    <3>1. w \in Seq(Commands) /\ v \in Seq(Commands)
      BY <1>5, <1>6
    <3>. QED  BY <3>1
  <2>2. \A k \in 1..(Len(w) + Len(v)) :
          (w \o v)[k] = IF k =< Len(w) THEN w[k] ELSE v[k - Len(w)]
    BY <1>5, <1>6
  <2>3. Len(w) = i /\ Len(w) + Len(v) = Len(s) + 1
    BY <1>1, <1>5, <1>6
  <2>. QED  BY <2>1, <2>2, <2>3
<1>8. \A k \in 1..(Len(s) + 1) : k < i => (w \o v)[k] = s[k]
  <2>. SUFFICES ASSUME NEW k \in 1..(Len(s) + 1), k < i PROVE (w \o v)[k] = s[k]
    OBVIOUS
  <2>1. k \in 1..(i - 1) /\ k \in 1..i /\ k =< i
    BY <1>1
  <2>2. (w \o v)[k] = w[k] /\ w[k] = u[k]
    BY <2>1, <1>6, <1>7
  <2>3. u[k] = s[k]
    BY <2>1, <1>2 DEF u
  <2>. QED  BY <2>2, <2>3
<1>9. (w \o v)[i] = c
  BY <1>1, <1>6, <1>7
<1>10. \A k \in 1..(Len(s) + 1) : k > i => (w \o v)[k] = s[k - 1]
  <2>. SUFFICES ASSUME NEW k \in 1..(Len(s) + 1), k > i PROVE (w \o v)[k] = s[k - 1]
    OBVIOUS
  <2>1. (w \o v)[k] = v[k - i]
    BY <1>1, <1>7
  <2>2. k - i \in 1..(Len(s) - i + 1) /\ (k - i) + i - 1 = k - 1
    BY <1>1
  <2>. QED  BY <1>1, <2>1, <2>2, <1>3 DEF v
<1>. DEFINE z == w \o v
<1>. HIDE DEF z
<1>11. \A k \in 1..(Len(s) + 1) :
         z[k] = IF k < i THEN s[k] ELSE IF k = i THEN c ELSE s[k - 1]
  <2>1. /\ \A k \in 1..(Len(s) + 1) : k < i => z[k] = s[k]
        /\ z[i] = c
        /\ \A k \in 1..(Len(s) + 1) : k > i => z[k] = s[k - 1]
    BY <1>8, <1>9, <1>10 DEF z
  <2>. QED  BY <1>1, <2>1
<1>. QED  BY <1>4, <1>7, <1>11 DEF w, z

\* A new command in one queue.
LEMMA EnqueueWellFormed ==
  ASSUME WellFormed(queue, active, generation, entry, inFlight, promise),
         NEW c \in Commands, NEW l \in Lanes, NEW e \in Entry,
         NEW i \in 1..(Len(queue[l]) + 1),
         e.lane = l, promise[c] = "none"
  PROVE  WellFormed([queue EXCEPT ![l] = InsertAt(@, i, c)], active, generation,
                    [entry EXCEPT ![c] = e], inFlight, [promise EXCEPT ![c] = "pending"])
<1>. DEFINE q == [queue EXCEPT ![l] = InsertAt(@, i, c)]
            e2 == [entry EXCEPT ![c] = e]
            p == [promise EXCEPT ![c] = "pending"]
<1>. USE DEF WellFormed
<1>1. c \notin inFlight
  BY DEF FlightHolds
<1>2. \A k \in Lanes : \A j \in 1..Len(queue[k]) : queue[k][j] # c /\ queue[k][j] \in Commands
  BY DEF QueuesHold, Typed
<1>3. /\ q[l] \in Seq(Commands)
      /\ Len(q[l]) = Len(queue[l]) + 1
      /\ \A k \in 1..(Len(queue[l]) + 1) :
           q[l][k] = IF k < i THEN queue[l][k] ELSE IF k = i THEN c ELSE queue[l][k - 1]
  <2>1. queue[l] \in Seq(Commands) /\ q[l] = InsertAt(queue[l], i, c)
    BY DEF Typed
  <2>. DEFINE s == queue[l]
  <2>2. s \in Seq(Commands) /\ i \in 1..(Len(s) + 1)
    BY <2>1
  <2>. HIDE DEF s
  <2>3. /\ InsertAt(s, i, c) \in Seq(Commands)
        /\ Len(InsertAt(s, i, c)) = Len(s) + 1
        /\ \A k \in 1..(Len(s) + 1) :
             InsertAt(s, i, c)[k] = IF k < i THEN s[k] ELSE IF k = i THEN c ELSE s[k - 1]
    BY <2>2, InsertAtProperties
  <2>4. q[l] = InsertAt(s, i, c)
    BY <2>1 DEF s
  <2>. HIDE DEF q
  <2>. QED  BY <2>3, <2>4 DEF s
<1>4. \A k \in Lanes : k # l => q[k] = queue[k]
  BY DEF Typed
<1>5. q \in [Lanes -> Seq(Commands)]
  BY <1>3 DEF Typed
<1>6. /\ \A x \in Commands \ {c} : e2[x] = entry[x] /\ p[x] = promise[x]
      /\ e2[c] = e /\ p[c] = "pending"
  BY DEF Typed
<1>7. e2 \in [Commands -> Entry \cup {NoEntry}] /\ p \in [Commands -> {"none", "pending"} \cup Settled]
  BY DEF Typed
<1>. HIDE DEF q, e2, p
<1>8. Typed(q, active, generation, e2, inFlight, p)
  BY <1>5, <1>7 DEF Typed
<1>9. Len(queue[l]) \in Nat
  BY DEF Typed
<1>10. \A j \in 1..Len(q[l]) :
         \/ q[l][j] = c
         \/ \E m \in 1..Len(queue[l]) : q[l][j] = queue[l][m]
  <2>. SUFFICES ASSUME NEW j \in 1..Len(q[l]), q[l][j] # c
                PROVE  \E m \in 1..Len(queue[l]) : q[l][j] = queue[l][m]
    OBVIOUS
  <2>1. j \in 1..(Len(queue[l]) + 1)
    BY <1>3
  <2>2. CASE j < i
    BY <2>1, <2>2, <1>3, <1>9
  <2>3. CASE j > i
    <3>1. j - 1 \in 1..Len(queue[l]) /\ q[l][j] = queue[l][j - 1]
      BY <2>1, <2>3, <1>3, <1>9
    <3>. QED  BY <3>1
  <2>. QED  BY <2>1, <2>2, <2>3, <1>3, <1>9
<1>11. QueuesHold(q, e2, inFlight, p)
  <2>. SUFFICES ASSUME NEW k \in Lanes, NEW j \in 1..Len(q[k])
                PROVE  /\ e2[q[k][j]] \in Entry
                       /\ e2[q[k][j]].lane = k
                       /\ p[q[k][j]] = "pending"
                       /\ q[k][j] \notin inFlight
    BY DEF QueuesHold
  <2>1. CASE k = l /\ q[k][j] = c
    BY <2>1, <1>1, <1>6
  <2>2. CASE \E m \in 1..Len(queue[k]) : q[k][j] = queue[k][m]
    <3>1. PICK m \in 1..Len(queue[k]) : q[k][j] = queue[k][m]
      BY <2>2
    <3>. DEFINE x == queue[k][m]
    <3>2. x # c /\ x \in Commands
      BY <1>2
    <3>3. entry[x] \in Entry /\ entry[x].lane = k /\ promise[x] = "pending" /\ x \notin inFlight
      BY DEF QueuesHold
    <3>4. q[k][j] = x
      BY <3>1
    <3>. HIDE DEF x
    <3>. QED  BY <3>2, <3>3, <3>4, <1>6
  <2>. QED  BY <2>1, <2>2, <1>4, <1>10
<1>12. NoDuplicates(q)
  <2>. SUFFICES ASSUME NEW k \in Lanes, NEW j \in 1..Len(q[k]), NEW m \in 1..Len(q[k]),
                       q[k][j] = q[k][m]
                PROVE  j = m
    BY DEF NoDuplicates
  <2>1. CASE k # l
    BY <2>1, <1>4 DEF NoDuplicates
  <2>2. CASE k = l
    <3>1. \A x, y \in 1..Len(queue[l]) : queue[l][x] = queue[l][y] => x = y
      BY DEF NoDuplicates
    <3>2. \A x \in 1..Len(queue[l]) : queue[l][x] # c
      BY <1>2
    <3>3. q[l][j] = q[l][m] /\ j \in 1..(Len(queue[l]) + 1) /\ m \in 1..(Len(queue[l]) + 1)
      BY <2>2, <1>3
    <3>a. \A k1 \in 1..(Len(queue[l]) + 1) : k1 = i <=> q[l][k1] = c
      <4>. SUFFICES ASSUME NEW k1 \in 1..(Len(queue[l]) + 1), k1 # i
                    PROVE  q[l][k1] # c
        BY <1>3, <1>9
      <4>1. CASE k1 < i
        <5>1. k1 \in 1..Len(queue[l]) /\ q[l][k1] = queue[l][k1]
          BY <4>1, <1>3, <1>9
        <5>. QED  BY <5>1, <3>2
      <4>2. CASE k1 > i
        <5>1. k1 - 1 \in 1..Len(queue[l]) /\ q[l][k1] = queue[l][k1 - 1]
          BY <4>2, <1>3, <1>9
        <5>. QED  BY <5>1, <3>2
      <4>. QED  BY <4>1, <4>2, <1>9
    <3>4. j = i <=> q[l][j] = c
      BY <3>3, <3>a
    <3>5. m = i <=> q[l][m] = c
      BY <3>3, <3>a
    <3>6. CASE j # i /\ m # i
      <4>. DEFINE x == IF j < i THEN j ELSE j - 1
                  y == IF m < i THEN m ELSE m - 1
      <4>1. x \in 1..Len(queue[l]) /\ q[l][j] = queue[l][x]
        BY <3>3, <3>6, <1>3, <1>9
      <4>2. y \in 1..Len(queue[l]) /\ q[l][m] = queue[l][y]
        BY <3>3, <3>6, <1>3, <1>9
      <4>3. x = y
        BY <4>1, <4>2, <3>1, <3>3
      <4>. QED  BY <4>3, <3>3, <3>6, <1>9
    <3>. QED  BY <3>3, <3>4, <3>5, <3>6
  <2>. QED  BY <2>1, <2>2
<1>13. FlightHolds(generation, e2, inFlight, p)
  <2>1. \A x \in inFlight : x \in Commands /\ x # c
    BY <1>1 DEF Typed
  <2>2. \A x \in inFlight : e2[x] = entry[x] /\ p[x] = promise[x]
    BY <2>1, <1>6
  <2>. QED  BY <2>2 DEF FlightHolds
<1>14. NothingLost(q, inFlight, p)
  <2>. SUFFICES ASSUME NEW x \in Commands, p[x] = "pending", x \notin inFlight
                PROVE  \E k \in Lanes : \E j \in 1..Len(q[k]) : q[k][j] = x
    BY DEF NothingLost
  <2>1. CASE x = c
    BY <2>1, <1>3, <1>9
  <2>2. CASE x # c
    <3>1. PICK k \in Lanes : \E j \in 1..Len(queue[k]) : queue[k][j] = x
      BY <2>2, <1>6 DEF NothingLost
    <3>2. PICK j \in 1..Len(queue[k]) : queue[k][j] = x
      BY <3>1
    <3>3. CASE k # l
      BY <3>2, <3>3, <1>4
    <3>4. CASE k = l
      <4>1. j < i => q[l][j] = x /\ j \in 1..Len(q[l])
        BY <3>2, <3>4, <1>3, <1>9
      <4>2. ~(j < i) => q[l][j + 1] = x /\ j + 1 \in 1..Len(q[l])
        BY <3>2, <3>4, <1>3, <1>9
      <4>. QED  BY <4>1, <4>2
    <3>. QED  BY <3>3, <3>4
  <2>. QED  BY <2>1, <2>2
<1>15. SlotsMatch(active, generation, e2, inFlight)
  <2>1. \A x \in inFlight : e2[x] = entry[x]
    BY <1>1, <1>6 DEF Typed
  <2>. QED  BY <2>1 DEF SlotsMatch
<1>. QED  BY <1>8, <1>11, <1>12, <1>13, <1>14, <1>15 DEF q, e2, p

\* A closure that ended, whatever its generation.
LEMMA ReleaseWellFormed ==
  ASSUME WellFormed(queue, active, generation, entry, inFlight, promise),
         NEW c \in inFlight, NEW outcome \in Settled
  PROVE  WellFormed(queue, [active EXCEPT ![entry[c].lane] = @ \ {c}], generation,
                    [entry EXCEPT ![c] = NoEntry], inFlight \ {c},
                    [promise EXCEPT ![c] = outcome])
<1>. DEFINE l == entry[c].lane
            a == [active EXCEPT ![l] = @ \ {c}]
            e == [entry EXCEPT ![c] = NoEntry]
            p == [promise EXCEPT ![c] = outcome]
<1>. USE DEF WellFormed
<1>1. c \in Commands /\ l \in Lanes
  BY DEF Typed, FlightHolds, Entry
<1>2. \A x \in Commands \ {c} : e[x] = entry[x] /\ p[x] = promise[x]
  BY DEF Typed
<1>3. Typed(queue, a, generation, e, inFlight \ {c}, p)
  BY <1>1 DEF Typed
<1>4. \A k \in Lanes : \A j \in 1..Len(queue[k]) : queue[k][j] \in Commands \ {c}
  BY DEF QueuesHold, Typed
<1>5. \A k \in Lanes : a[k] = active[k] \ {c}
  BY <1>1 DEF Typed, SlotsMatch
<1>6. p[c] # "pending"
  BY <1>1 DEF Typed, Settled
<1>. HIDE DEF l, a, e, p
<1>7. QueuesHold(queue, e, inFlight \ {c}, p)
  BY <1>2, <1>4 DEF QueuesHold
<1>8. FlightHolds(generation, e, inFlight \ {c}, p)
  BY <1>2 DEF FlightHolds, Typed
<1>9. NothingLost(queue, inFlight \ {c}, p)
  BY <1>2, <1>6 DEF NothingLost
<1>10. SlotsMatch(a, generation, e, inFlight \ {c})
  BY <1>2, <1>5 DEF SlotsMatch, Typed
<1>. QED  BY <1>3, <1>7, <1>8, <1>9, <1>10 DEF l, a, e, p

\* Idle lanes in their next generation.
LEMMA ResetWellFormed ==
  ASSUME WellFormed(queue, active, generation, entry, inFlight, promise),
         NEW ls \in SUBSET Lanes
  PROVE  WellFormed(queue, [l \in Lanes |-> IF l \in ls THEN {} ELSE active[l]],
                    [l \in Lanes |-> IF l \in ls THEN generation[l] + 1 ELSE generation[l]],
                    entry, inFlight, promise)
<1>. DEFINE a == [l \in Lanes |-> IF l \in ls THEN {} ELSE active[l]]
            g == [l \in Lanes |-> IF l \in ls THEN generation[l] + 1 ELSE generation[l]]
<1>. USE DEF WellFormed
<1>1. Typed(queue, a, g, entry, inFlight, promise)
  BY DEF Typed
<1>2. FlightHolds(g, entry, inFlight, promise)
  <2>. SUFFICES ASSUME NEW c \in inFlight
                PROVE  entry[c].taskGeneration =< g[entry[c].lane]
    BY DEF FlightHolds
  <2>1. entry[c] \in Entry /\ entry[c].taskGeneration =< generation[entry[c].lane]
    BY DEF FlightHolds
  <2>. QED  BY <2>1 DEF Entry, Typed
<1>3. SlotsMatch(a, g, entry, inFlight)
  <2>. SUFFICES ASSUME NEW l \in Lanes
                PROVE  a[l] = {c \in inFlight : entry[c].lane = l /\ entry[c].taskGeneration = g[l]}
    BY DEF SlotsMatch
  <2>1. CASE l \in ls
    <3>1. \A c \in inFlight : entry[c].lane = l => entry[c].taskGeneration # generation[l] + 1
      BY DEF FlightHolds, Entry, Typed
    <3>. QED  BY <2>1, <3>1
  <2>2. CASE l \notin ls
    BY <2>2 DEF SlotsMatch
  <2>. QED  BY <2>1, <2>2
<1>. QED  BY <1>1, <1>2, <1>3

\* An emptied queue, its commands settled.
LEMMA ClearWellFormed ==
  ASSUME WellFormed(queue, active, generation, entry, inFlight, promise),
         NEW l \in Lanes
  PROVE  WellFormed([queue EXCEPT ![l] = <<>>], active, generation,
           [c \in Commands |-> IF c \in ToSet(queue[l]) THEN NoEntry ELSE entry[c]],
           inFlight,
           [c \in Commands |-> IF c \in ToSet(queue[l]) THEN "cleared" ELSE promise[c]])
<1>. DEFINE q == [queue EXCEPT ![l] = <<>>]
            e == [c \in Commands |-> IF c \in ToSet(queue[l]) THEN NoEntry ELSE entry[c]]
            p == [c \in Commands |-> IF c \in ToSet(queue[l]) THEN "cleared" ELSE promise[c]]
<1>. USE DEF WellFormed
<1>1. \A c : c \in ToSet(queue[l]) <=> \E i \in 1..Len(queue[l]) : queue[l][i] = c
  BY DEF ToSet, Typed
<1>2. \A k \in Lanes \ {l} : q[k] = queue[k]
  BY DEF Typed
<1>3. q[l] = <<>>
  BY DEF Typed
<1>4. Typed(q, active, generation, e, inFlight, p)
  BY DEF Typed, Settled
<1>5. \A c \in Commands \ ToSet(queue[l]) : e[c] = entry[c] /\ p[c] = promise[c]
  OBVIOUS
<1>6. \A c \in Commands \cap ToSet(queue[l]) : p[c] # "pending"
  OBVIOUS
<1>. HIDE DEF q, e, p
<1>7. \A k \in Lanes \ {l} : \A i \in 1..Len(queue[k]) :
        queue[k][i] \in Commands \ ToSet(queue[l])
  <2>. SUFFICES ASSUME NEW k \in Lanes \ {l}, NEW i \in 1..Len(queue[k])
                PROVE  queue[k][i] \in Commands \ ToSet(queue[l])
    OBVIOUS
  <2>1. queue[k][i] \in Commands /\ entry[queue[k][i]].lane = k
    BY DEF Typed, QueuesHold
  <2>2. \A j \in 1..Len(queue[l]) : entry[queue[l][j]].lane = l
    BY DEF QueuesHold
  <2>. QED  BY <2>1, <2>2, <1>1
<1>8. inFlight \cap ToSet(queue[l]) = {}
  BY <1>1 DEF QueuesHold
<1>9. QueuesHold(q, e, inFlight, p)
  BY <1>2, <1>3, <1>5, <1>7 DEF QueuesHold
<1>10. NoDuplicates(q)
  BY <1>2, <1>3 DEF NoDuplicates
<1>11. FlightHolds(generation, e, inFlight, p)
  BY <1>5, <1>8 DEF FlightHolds, Typed
<1>12. NothingLost(q, inFlight, p)
  <2>. SUFFICES ASSUME NEW c \in Commands, p[c] = "pending", c \notin inFlight
                PROVE  \E k \in Lanes : \E i \in 1..Len(q[k]) : q[k][i] = c
    BY DEF NothingLost
  <2>1. c \notin ToSet(queue[l]) /\ promise[c] = "pending"
    BY <1>5, <1>6
  <2>. QED  BY <2>1, <1>1, <1>2 DEF NothingLost
<1>13. SlotsMatch(active, generation, e, inFlight)
  BY <1>5, <1>8 DEF SlotsMatch, Typed
<1>. QED  BY <1>4, <1>9, <1>10, <1>11, <1>12, <1>13 DEF q, e, p

-----------------------------------------------------------------------------
(* What the operations do to the bodies and the waiters *)

LEMMA StartBodiesTyped ==
  ASSUME NEW b \in [Commands -> {"idle", "executing", "returned"}], StartBodies(b)
  PROVE  body' \in [Commands -> {"idle", "executing", "returned"}]
BY DEF StartBodies

\* After a notification every waiter left waits for a task of act.
LEMMA NotifyWakes ==
  ASSUME waiters \in [Waiters -> Waiter],
         NEW act, notifyActiveTaskWaiters(act)
  PROVE  /\ waiters' \in [Waiters -> Waiter]
         /\ \A w \in Waiters :
              waiters'[w].state = "waiting" => hasPendingActiveTasks(waiters'[w].ids, act)
<1>1. ASSUME NEW w \in Waiters
      PROVE  /\ waiters'[w] \in Waiter
             /\ waiters'[w].state = "waiting" => hasPendingActiveTasks(waiters'[w].ids, act)
  <2>1. waiters'[w] = IF waiters[w].state = "waiting" /\ ~hasPendingActiveTasks(waiters[w].ids, act)
                      THEN [state |-> "drained", ids |-> {}] ELSE waiters[w]
    BY DEF notifyActiveTaskWaiters
  <2>2. waiters[w] \in Waiter /\ [state |-> "drained", ids |-> {}] \in Waiter
    BY DEF Waiter
  <2>. QED  BY <2>1, <2>2
<1>. QED  BY <1>1 DEF notifyActiveTaskWaiters

\* Growing active sets keep a wait pending.
LEMMA PendingGrows ==
  ASSUME NEW ids, NEW a, NEW b, \A l \in Lanes : a[l] \subseteq b[l],
         hasPendingActiveTasks(ids, a)
  PROVE  hasPendingActiveTasks(ids, b)
BY DEF hasPendingActiveTasks

-----------------------------------------------------------------------------
(* Every operation preserves the invariant *)

LEMMA EnqueuePreserves ==
  ASSUME IInv, NEW c \in Commands, NEW l \in Lanes, NEW p \in Priorities,
         EnqueueAccepted(c, l, p)
  PROVE  IInv'
<1>. DEFINE e == [lane |-> l, priority |-> p, sequence |-> nextQueueSequence, taskGeneration |-> 0]
<1>1. e \in Entry /\ e.lane = l
  BY DEF Entry, IInv, Rest
<1>2. /\ promise[c] = "none"
      /\ promise' = [promise EXCEPT ![c] = "pending"]
      /\ nextQueueSequence' = nextQueueSequence + 1
      /\ StartBodies(body)
      /\ UNCHANGED <<maxConcurrent, generation, gatewayDraining, waiters>>
  BY DEF EnqueueAccepted
<1>3. PICK i \in 1..(Len(queue[l]) + 1) :
        drainLanes({l}, [queue EXCEPT ![l] = InsertAt(@, i, c)], active,
                   maxConcurrent, generation, [entry EXCEPT ![c] = e], inFlight)
  BY DEF EnqueueAccepted
<1>. HIDE DEF e
<1>4. WellFormed([queue EXCEPT ![l] = InsertAt(@, i, c)], active, generation,
                 [entry EXCEPT ![c] = e], inFlight, promise')
  BY <1>1, <1>2, EnqueueWellFormed DEF IInv
<1>5. /\ WellFormed(queue', active', generation, entry', inFlight', promise')
      /\ \A k \in Lanes : active[k] \subseteq active'[k]
  <2>1. maxConcurrent \in [Lanes -> Nat] /\ {l} \in SUBSET Lanes
    BY DEF IInv, Rest
  <2>2. WellFormed(queue', active', generation, entry', inFlight', promise')
        /\ \A k \in Lanes : active[k] \subseteq active'[k]
    BY <1>3, <1>4, <2>1, DrainWellFormed
  <2>. QED  BY <2>2
<1>6. Rest'
  BY <1>2, StartBodiesTyped DEF IInv, Rest
<1>7. NoLostWakeup'
  BY <1>2, <1>5, PendingGrows DEF IInv, NoLostWakeup
<1>. QED  BY <1>2, <1>5, <1>6, <1>7 DEF IInv

LEMMA SettlePreserves ==
  ASSUME IInv, NEW c \in Commands, NEW outcome \in Settled, NEW b \in {"executing", "returned"},
         Settle(c, outcome, b)
  PROVE  IInv'
<1>. DEFINE l == entry[c].lane
            released == [active EXCEPT ![l] = @ \ {c}]
            rest == [entry EXCEPT ![c] = NoEntry]
<1>1. /\ c \in inFlight
      /\ promise' = [promise EXCEPT ![c] = outcome]
      /\ StartBodies([body EXCEPT ![c] = b])
      /\ UNCHANGED <<maxConcurrent, generation, gatewayDraining, nextQueueSequence>>
  BY DEF Settle
<1>2. WellFormed(queue, released, generation, rest, inFlight \ {c}, promise')
  BY <1>1, ReleaseWellFormed DEF IInv
<1>3. [body EXCEPT ![c] = b] \in [Commands -> {"idle", "executing", "returned"}]
  BY DEF IInv, Rest
<1>4. body' \in [Commands -> {"idle", "executing", "returned"}]
  BY <1>1, <1>3, StartBodiesTyped
<1>5. CASE /\ notifyActiveTaskWaiters(released)
           /\ drainLanes({l}, queue, released, maxConcurrent, generation, rest,
                         inFlight \ {c})
  <2>. HIDE DEF released, rest
  <2>1. l \in Lanes
    BY <1>1 DEF IInv, WellFormed, FlightHolds, Entry
  <2>. HIDE DEF l
  <2>2. /\ WellFormed(queue', active', generation, entry', inFlight', promise')
        /\ \A k \in Lanes : released[k] \subseteq active'[k]
    <3>1. WellFormed(queue, released, generation, rest, inFlight \ {c}, promise')
      BY <1>2
    <3>2. drainLanes({l}, queue, released, maxConcurrent, generation, rest, inFlight \ {c})
      BY <1>5
    <3>3. maxConcurrent \in [Lanes -> Nat] /\ {l} \in SUBSET Lanes
      BY <2>1 DEF IInv, Rest
    <3>4. WellFormed(queue', active', generation, entry', inFlight', promise')
          /\ \A k \in Lanes : released[k] \subseteq active'[k]
      BY <3>1, <3>2, <3>3, DrainWellFormed
    <3>. QED  BY <3>4, <1>1
  <2>3. /\ waiters' \in [Waiters -> Waiter]
        /\ \A w \in Waiters :
             waiters'[w].state = "waiting" => hasPendingActiveTasks(waiters'[w].ids, released)
    BY <1>5, NotifyWakes DEF IInv, Rest
  <2>4. NoLostWakeup'
    BY <2>2, <2>3, PendingGrows DEF NoLostWakeup
  <2>5. Rest'
    BY <1>1, <1>4, <2>3 DEF IInv, Rest
  <2>. QED  BY <1>1, <2>2, <2>4, <2>5 DEF IInv
<1>6. CASE /\ entry[c].taskGeneration # generation[l]
           /\ inFlight' = inFlight \ {c}
           /\ entry' = rest
           /\ UNCHANGED <<queue, active, waiters>>
  <2>1. c \notin active[l]
    BY <1>1, <1>6 DEF IInv, WellFormed, SlotsMatch, FlightHolds, Entry
  <2>2. released = active
    BY <2>1 DEF IInv, WellFormed, Typed
  <2>3. WellFormed(queue', active', generation', entry', inFlight', promise')
    BY <1>1, <1>2, <1>6, <2>2
  <2>4. NoLostWakeup'
    BY <1>6 DEF IInv, NoLostWakeup
  <2>5. Rest'
    BY <1>1, <1>4, <1>6 DEF IInv, Rest
  <2>. QED  BY <2>3, <2>4, <2>5 DEF IInv
<1>. QED  BY <1>5, <1>6 DEF Settle, completeTask

LEMMA SetConcurrencyPreserves ==
  ASSUME IInv, NEW l \in Lanes, NEW n \in Limits, setCommandLaneConcurrency(l, n)
  PROVE  IInv'
<1>0. PICK ls \in SUBSET Lanes :
        drainLanes(ls, queue, active, maxConcurrent', generation, entry, inFlight)
  BY DEF setCommandLaneConcurrency
<1>1. /\ StartBodies(body)
      /\ UNCHANGED <<generation, gatewayDraining, nextQueueSequence, promise, waiters>>
  BY DEF setCommandLaneConcurrency
<1>2. maxConcurrent' \in [Lanes -> Nat]
  BY LimitsAssumption DEF setCommandLaneConcurrency, IInv, Rest
<1>a. WellFormed(queue, active, generation, entry, inFlight, promise)
  BY DEF IInv
<1>3. /\ WellFormed(queue', active', generation, entry', inFlight', promise)
      /\ \A k \in Lanes : active[k] \subseteq active'[k]
  BY <1>0, <1>2, <1>a, DrainWellFormed
<1>4. Rest'
  BY <1>1, <1>2, StartBodiesTyped DEF IInv, Rest
<1>5. NoLostWakeup'
  BY <1>1, <1>3, PendingGrows DEF IInv, NoLostWakeup
<1>. QED  BY <1>1, <1>3, <1>4, <1>5 DEF IInv

LEMMA ClearPreserves ==
  ASSUME IInv, NEW l \in Lanes, clearCommandLane(l)
  PROVE  IInv'
<1>1. WellFormed(queue', active', generation', entry', inFlight', promise')
  BY ClearWellFormed DEF IInv, clearCommandLane
<1>2. Rest' /\ NoLostWakeup'
  BY DEF IInv, Rest, NoLostWakeup, clearCommandLane
<1>. QED  BY <1>1, <1>2 DEF IInv

LEMMA ResetPreserves ==
  ASSUME IInv, NEW ls \in SUBSET Lanes, ResetLanes(ls), gatewayDraining' \in BOOLEAN
  PROVE  IInv'
<1>. DEFINE idle == [l \in Lanes |-> IF l \in ls THEN {} ELSE active[l]]
<1>1. /\ generation' = [l \in Lanes |-> IF l \in ls THEN generation[l] + 1 ELSE generation[l]]
      /\ drainLanes(ls, queue, idle, maxConcurrent, generation', entry, inFlight)
      /\ StartBodies(body)
      /\ notifyActiveTaskWaiters(active')
      /\ UNCHANGED <<maxConcurrent, nextQueueSequence, promise>>
  BY DEF ResetLanes
<1>2. WellFormed(queue, idle, generation', entry, inFlight, promise)
  BY <1>1, ResetWellFormed DEF IInv
<1>. HIDE DEF idle
<1>3. WellFormed(queue', active', generation', entry', inFlight', promise)
  BY <1>1, <1>2, DrainWellFormed DEF IInv, Rest
<1>4. waiters' \in [Waiters -> Waiter] /\ NoLostWakeup'
  BY <1>1, NotifyWakes DEF IInv, Rest, NoLostWakeup
<1>5. Rest'
  BY <1>1, <1>4, StartBodiesTyped DEF IInv, Rest
<1>. QED  BY <1>1, <1>3, <1>4, <1>5 DEF IInv

\* A refused enqueue, the end of a task that timed out, and a draining mark
\* leave queues, slots and waiters alone.
LEMMA OthersPreserve ==
  ASSUME IInv, NEW c \in Commands,
         EnqueueRefused(c) \/ LateReturn(c) \/ markGatewayDraining
  PROVE  IInv'
<1>1. CASE EnqueueRefused(c)
  <2>1. WellFormed(queue', active', generation', entry', inFlight', promise')
    <3>1. \A x \in Commands : promise'[x] = "pending" <=> promise[x] = "pending"
      BY <1>1 DEF EnqueueRefused, IInv, WellFormed, Typed
    <3>2. Typed(queue', active', generation', entry', inFlight', promise')
      BY <1>1 DEF EnqueueRefused, IInv, WellFormed, Typed, Settled, laneVars
    <3>3. QueuesHold(queue', entry', inFlight', promise')
      <4>1. \A k \in Lanes : \A i \in 1..Len(queue[k]) : queue[k][i] \in Commands
        BY DEF IInv, WellFormed, Typed
      <4>. QED  BY <1>1, <3>1, <4>1 DEF EnqueueRefused, IInv, WellFormed, QueuesHold, laneVars
    <3>4. FlightHolds(generation', entry', inFlight', promise')
      BY <1>1, <3>1 DEF EnqueueRefused, IInv, WellFormed, FlightHolds, Typed, laneVars
    <3>5. NothingLost(queue', inFlight', promise')
      BY <1>1, <3>1 DEF EnqueueRefused, IInv, WellFormed, NothingLost, laneVars
    <3>6. NoDuplicates(queue') /\ SlotsMatch(active', generation', entry', inFlight')
      BY <1>1 DEF EnqueueRefused, IInv, WellFormed, laneVars
    <3>. QED  BY <3>2, <3>3, <3>4, <3>5, <3>6 DEF WellFormed
  <2>2. Rest' /\ NoLostWakeup'
    BY <1>1 DEF EnqueueRefused, IInv, Rest, NoLostWakeup, laneVars
  <2>. QED  BY <2>1, <2>2 DEF IInv
<1>2. CASE LateReturn(c)
  BY <1>2 DEF LateReturn, IInv, Rest, NoLostWakeup, laneVars
<1>3. CASE markGatewayDraining
  BY <1>3 DEF markGatewayDraining, IInv, Rest, NoLostWakeup, laneVars
<1>. QED  BY <1>1, <1>2, <1>3

LEMMA WaitPreserves ==
  ASSUME IInv, NEW w \in Waiters,
         (\E immediate \in BOOLEAN : waitForActiveTasks(w, immediate)) \/ WaitExpires(w)
  PROVE  IInv'
<1>1. CASE \E immediate \in BOOLEAN : waitForActiveTasks(w, immediate)
  <2>. PICK immediate \in BOOLEAN : waitForActiveTasks(w, immediate)
    BY <1>1
  <2>. DEFINE ids == UNION {active[l] : l \in Lanes}
              state == IF ids = {} THEN "drained" ELSE IF immediate THEN "expired" ELSE "waiting"
              record == [state |-> state, ids |-> IF state = "waiting" THEN ids ELSE {}]
  <2>1. waiters' = [waiters EXCEPT ![w] = record]
    BY DEF waitForActiveTasks
  <2>2. UNCHANGED <<queue, active, maxConcurrent, generation, gatewayDraining,
                    nextQueueSequence, entry, promise, inFlight, body>>
    BY DEF waitForActiveTasks, laneVars
  <2>3. ids \in SUBSET Commands
    BY DEF IInv, WellFormed, Typed
  <2>4. record \in Waiter
    BY <2>3 DEF Waiter
  <2>5. record.state = "waiting" => hasPendingActiveTasks(record.ids, active)
    BY DEF hasPendingActiveTasks
  <2>. HIDE DEF record
  <2>6. Rest'
    BY <2>1, <2>2, <2>4 DEF IInv, Rest
  <2>7. NoLostWakeup'
    BY <2>1, <2>2, <2>5 DEF IInv, Rest, NoLostWakeup
  <2>. QED  BY <2>2, <2>6, <2>7 DEF IInv
<1>2. CASE WaitExpires(w)
  <2>1. /\ waiters' = [waiters EXCEPT ![w] = [state |-> "expired", ids |-> {}]]
        /\ UNCHANGED <<queue, active, maxConcurrent, generation, gatewayDraining,
                       nextQueueSequence, entry, promise, inFlight, body>>
    BY <1>2 DEF WaitExpires, laneVars
  <2>2. Rest'
    BY <2>1 DEF IInv, Rest, Waiter
  <2>3. NoLostWakeup'
    BY <2>1 DEF IInv, Rest, NoLostWakeup
  <2>. QED  BY <2>1, <2>2, <2>3 DEF IInv
<1>. QED  BY <1>1, <1>2

-----------------------------------------------------------------------------
(* The theorems *)

LEMMA InitEstablishes == Init => IInv
<1>. SUFFICES ASSUME Init PROVE IInv
  OBVIOUS
<1>1. WellFormed(queue, active, generation, entry, inFlight, promise)
  BY DEF Init, WellFormed, Typed, QueuesHold, NoDuplicates, FlightHolds, NothingLost, SlotsMatch
<1>2. Rest /\ NoLostWakeup
  BY DEF Init, Rest, Waiter, NoLostWakeup
<1>. QED  BY <1>1, <1>2 DEF IInv

LEMMA StepPreserves == IInv /\ [Next]_vars => IInv'
<1>. SUFFICES ASSUME IInv, [Next]_vars PROVE IInv'
  OBVIOUS
<1>1. CASE CommandNext
  <2>. PICK c \in Commands :
         \/ \E l \in Lanes, p \in Priorities : enqueueCommandInLane(c, l, p)
         \/ TaskReturns(c)
         \/ TaskTimesOut(c)
         \/ LateReturn(c)
    BY <1>1 DEF CommandNext
  <2>1. CASE \E l \in Lanes, p \in Priorities : enqueueCommandInLane(c, l, p)
    BY <2>1, EnqueuePreserves, OthersPreserve DEF enqueueCommandInLane
  <2>2. CASE TaskReturns(c)
    BY <2>2, SettlePreserves DEF TaskReturns, Settled
  <2>3. CASE TaskTimesOut(c)
    BY <2>3, SettlePreserves DEF TaskTimesOut, Settled
  <2>4. CASE LateReturn(c)
    BY <2>4, OthersPreserve
  <2>. QED  BY <2>1, <2>2, <2>3, <2>4
<1>2. CASE LaneNext
  <2>1. ASSUME NEW l \in Lanes, resetCommandLane(l) PROVE IInv'
    <3>1. gatewayDraining' \in BOOLEAN
      BY <2>1 DEF resetCommandLane, IInv, Rest
    <3>. QED  BY <2>1, <3>1, ResetPreserves DEF resetCommandLane
  <2>. QED  BY <1>2, <2>1, SetConcurrencyPreserves, ClearPreserves DEF LaneNext
<1>3. CASE WaiterNext
  BY <1>3, WaitPreserves DEF WaiterNext
<1>4. CASE resetAllLanes
  BY <1>4, ResetPreserves DEF resetAllLanes
<1>5. CASE markGatewayDraining
  BY <1>5 DEF markGatewayDraining, IInv, Rest, NoLostWakeup, laneVars
<1>6. CASE UNCHANGED vars
  BY <1>6 DEF IInv, Rest, NoLostWakeup, vars, laneVars
<1>. QED  BY <1>1, <1>2, <1>3, <1>4, <1>5, <1>6 DEF Next

\* The invariant holds in every reachable state.
THEOREM InvariantHolds == Spec => []IInv
<1>. QED  BY InitEstablishes, StepPreserves, PTL DEF Spec

\* Every variable keeps its type.
THEOREM TypeCorrect == Spec => []TypeOK
<1>1. IInv => TypeOK
  BY DEF IInv, WellFormed, Typed, Rest, TypeOK
<1>. QED  BY <1>1, InvariantHolds, PTL

\* No operation leaks a slot of a lane, and no stale completion frees one: the
\* active ids of a lane are its closures of the current generation.
THEOREM SlotsCorrect == Spec => []SlotsAreCurrentClosures
<1>1. IInv => SlotsAreCurrentClosures
  BY DEF IInv, WellFormed, SlotsMatch, SlotsAreCurrentClosures
<1>. QED  BY <1>1, InvariantHolds, PTL

LEMMA InvariantAccounts == ASSUME IInv PROVE PendingIsQueuedOrInFlight
<1>. USE DEF IInv, WellFormed
<1>1. \A l \in Lanes : \A c : c \in ToSet(queue[l]) <=> \E i \in 1..Len(queue[l]) : queue[l][i] = c
  BY DEF ToSet, Typed
<1>2. \A c \in Commands : Queued(c) => promise[c] = "pending" /\ c \notin inFlight
  BY <1>1 DEF Queued, QueuesHold
<1>3. \A c \in Commands : promise[c] = "pending" => Queued(c) \/ c \in inFlight
  BY <1>1 DEF Queued, NothingLost
<1>4. \A c \in inFlight : c \in Commands /\ promise[c] = "pending"
  BY DEF FlightHolds, Typed
<1>5. \A l \in Lanes : IsInjective(queue[l])
  BY DEF NoDuplicates, IsInjective, Typed
<1>6. \A l \in Lanes : \A c \in ToSet(queue[l]) : entry[c].lane = l
  BY <1>1 DEF QueuesHold
<1>. QED  BY <1>2, <1>3, <1>4, <1>5, <1>6 DEF PendingIsQueuedOrInFlight

\* No operation loses a command, settles one it keeps or starts one twice.
THEOREM CommandsAccountedFor == Spec => []PendingIsQueuedOrInFlight
<1>. QED  BY InvariantAccounts, InvariantHolds, PTL

\* No operation empties the active sets a waiter waits for without waking it.
THEOREM WaitersWoken == Spec => []NoLostWakeup
<1>1. IInv => NoLostWakeup
  BY DEF IInv
<1>. QED  BY <1>1, InvariantHolds, PTL

-----------------------------------------------------------------------------
(* How many commands a pump starts *)

\* A pump adds as many slots as it takes commands from the queue.
LEMMA DrainCounts ==
  ASSUME NEW q, NEW a, NEW m \in [Lanes -> Nat], NEW g, NEW e, NEW f, NEW p,
         NEW ls \in SUBSET Lanes,
         WellFormed(q, a, g, e, f, p),
         drainLanes(ls, q, a, m, g, e, f),
         NEW l \in Lanes
  PROVE  /\ Cardinality(a[l]) \in Nat
         /\ l \in ls => /\ Cardinality(active'[l])
                             = Cardinality(a[l]) + PumpCount(q[l], a[l], m[l])
                        /\ Len(queue'[l]) = Len(q[l]) - PumpCount(q[l], a[l], m[l])
         /\ l \notin ls => active'[l] = a[l] /\ queue'[l] = q[l]
<1>. DEFINE n == PumpCount(q[l], a[l], m[l])
            s == q[l]
            b == a[l]
            started == {s[i] : i \in 1..n}
            start == [k \in Lanes |-> IF k \in ls THEN Started(q[k], a[k], m[k]) ELSE {}]
            count == [k \in Lanes |-> IF k \in ls THEN PumpCount(q[k], a[k], m[k]) ELSE 0]
<1>1. s \in Seq(Commands) /\ b \in SUBSET Commands
  BY DEF WellFormed, Typed
<1>2. n \in 0..Len(s) /\ Len(s) \in Nat
  BY <1>1, PumpCountBounds
<1>3. IsFiniteSet(b) /\ Cardinality(b) \in Nat
  BY <1>1, FS_Subset, FS_CardinalityType, CommandsFinite
<1>4. /\ queue' = [k \in Lanes |-> SubSeq(q[k], count[k] + 1, Len(q[k]))]
      /\ active' = [k \in Lanes |-> a[k] \cup start[k]]
  BY DEF drainLanes
<1>5. CASE l \notin ls
  <2>1. active'[l] = b
    BY <1>4, <1>5
  <2>2. queue'[l] = SubSeq(s, 1, Len(s))
    BY <1>4, <1>5
  <2>. HIDE DEF s
  <2>3. SubSeq(s, 1, Len(s)) = s
    BY <1>1, <1>2
  <2>. QED  BY <1>3, <1>5, <2>1, <2>2, <2>3 DEF s
<1>6. CASE l \in ls
  <2>1. active'[l] = b \cup started
    BY <1>4, <1>6 DEF Started
  <2>2. queue'[l] = SubSeq(s, n + 1, Len(s))
    BY <1>4, <1>6
  <2>3. \A i, j \in 1..Len(s) : s[i] = s[j] => i = j
    BY DEF WellFormed, NoDuplicates
  <2>4. \A i \in 1..Len(s) : s[i] \notin b
    BY DEF WellFormed, QueuesHold, SlotsMatch
  <2>. HIDE DEF n, s, b
  <2>5. Len(SubSeq(s, n + 1, Len(s))) = Len(s) - n
    BY <1>1, <1>2
  <2>6. IsFiniteSet(started) /\ Cardinality(started) = n
    <3>1. IsFiniteSet(1..n) /\ Cardinality(1..n) = n
      BY <1>2, FS_Interval
    <3>. DEFINE h == [i \in 1..n |-> s[i]]
    <3>2. h \in Bijection(1..n, started)
      BY <1>2, <2>3 DEF Bijection, Injection, Surjection, IsInjective
    <3>3. ExistsBijection(1..n, started)
      BY <3>2 DEF ExistsBijection
    <3>. QED  BY <3>1, <3>3, FS_Bijection
  <2>7. b \cap started = {}
    BY <1>2, <2>4
  <2>8. Cardinality(b \cup started) = Cardinality(b) + n
    <3>. HIDE DEF started
    <3>1. Cardinality(b \cup started)
            = Cardinality(b) + Cardinality(started) - Cardinality(b \cap started)
      BY <1>3, <2>6, FS_Union
    <3>2. Cardinality(b \cap started) = 0
      BY <2>7, FS_EmptySet
    <3>. QED  BY <1>2, <1>3, <2>6, <3>1, <3>2
  <2>. QED  BY <1>3, <1>6, <2>1, <2>2, <2>5, <2>8 DEF n, s, b
<1>. QED  BY <1>5, <1>6

\* A pumped lane with commands left is full, and a pump that starts a command
\* stays within the limit.
LEMMA DrainFills ==
  ASSUME NEW q, NEW a, NEW m \in [Lanes -> Nat], NEW g, NEW e, NEW f, NEW p,
         NEW ls \in SUBSET Lanes,
         WellFormed(q, a, g, e, f, p),
         drainLanes(ls, q, a, m, g, e, f),
         \A k \in Lanes \ ls : q[k] # <<>> => Cardinality(a[k]) >= m[k]
  PROVE  /\ \A l \in Lanes : queue'[l] # <<>> => Cardinality(active'[l]) >= m[l]
         /\ \A l \in Lanes : active'[l] # a[l] => Cardinality(active'[l]) =< m[l]
<1>. SUFFICES ASSUME NEW l \in Lanes
              PROVE  /\ queue'[l] # <<>> => Cardinality(active'[l]) >= m[l]
                     /\ active'[l] # a[l] => Cardinality(active'[l]) =< m[l]
  OBVIOUS
<1>1. /\ Cardinality(a[l]) \in Nat
      /\ l \in ls => /\ Cardinality(active'[l])
                         = Cardinality(a[l]) + PumpCount(q[l], a[l], m[l])
                     /\ Len(queue'[l]) = Len(q[l]) - PumpCount(q[l], a[l], m[l])
      /\ l \notin ls => active'[l] = a[l] /\ queue'[l] = q[l]
  BY DrainCounts
<1>2. /\ WellFormed(queue', active', g, entry', inFlight', p)
      /\ a[l] \subseteq active'[l]
  BY DrainWellFormed
<1>3. CASE l \notin ls
  BY <1>1, <1>3
<1>4. CASE l \in ls
  <2>. DEFINE n == PumpCount(q[l], a[l], m[l])
              k == Cardinality(a[l])
              z == Len(q[l])
  <2>1. z \in Nat /\ m[l] \in Nat /\ k \in Nat
    BY <1>1 DEF WellFormed, Typed
  <2>2. n = IF m[l] - k =< 0 THEN 0 ELSE IF m[l] - k < z THEN m[l] - k ELSE z
    BY DEF PumpCount
  <2>3. Cardinality(active'[l]) = k + n /\ Len(queue'[l]) = z - n
    BY <1>1, <1>4
  <2>4. queue'[l] # <<>> => Len(queue'[l]) # 0
    BY <1>2 DEF WellFormed, Typed
  <2>5. active'[l] # a[l] => n # 0
    <3>1. active'[l] = a[l] \cup Started(q[l], a[l], m[l])
      BY <1>4 DEF drainLanes
    <3>. HIDE DEF n
    <3>2. n = 0 => Started(q[l], a[l], m[l]) = {}
      BY DEF Started, n
    <3>. QED  BY <3>1, <3>2
  <2>. HIDE DEF n, k, z
  <2>. QED  BY <2>1, <2>2, <2>3, <2>4, <2>5
<1>. QED  BY <1>3, <1>4

\* A step either leaves queues, slots and limits alone, or empties a queue, or
\* hands a well-formed state to a pump in which every lane it does not pump
\* still keeps within its limit what it kept before.
LEMMA StepsFill ==
  ASSUME IInv, NoIdleCapacity, Next
  PROVE  /\ NoIdleCapacity'
         /\ \A l \in Lanes : ~(active'[l] \subseteq active[l])
              => Cardinality(active'[l]) =< maxConcurrent'[l]
<1>. DEFINE Goal == /\ NoIdleCapacity'
                    /\ \A l \in Lanes : ~(active'[l] \subseteq active[l])
                         => Cardinality(active'[l]) =< maxConcurrent'[l]
<1>0. /\ queue \in [Lanes -> Seq(Commands)] /\ active \in [Lanes -> SUBSET Commands]
      /\ maxConcurrent \in [Lanes -> Nat]
  BY DEF IInv, WellFormed, Typed, Rest
<1>1. ASSUME UNCHANGED <<queue, active, maxConcurrent>> PROVE Goal
  BY <1>1 DEF NoIdleCapacity
<1>2. ASSUME NEW c \in Commands, NEW l \in Lanes, NEW p \in Priorities,
             EnqueueAccepted(c, l, p)
      PROVE  Goal
  <2>. DEFINE e == [lane |-> l, priority |-> p, sequence |-> nextQueueSequence,
                    taskGeneration |-> 0]
  <2>1. e \in Entry /\ e.lane = l
    BY DEF Entry, IInv, Rest
  <2>2. PICK i \in 1..(Len(queue[l]) + 1) :
          drainLanes({l}, [queue EXCEPT ![l] = InsertAt(@, i, c)], active,
                     maxConcurrent, generation, [entry EXCEPT ![c] = e], inFlight)
    BY <1>2 DEF EnqueueAccepted
  <2>. HIDE DEF e
  <2>3. promise[c] = "none" /\ maxConcurrent' = maxConcurrent
    BY <1>2 DEF EnqueueAccepted
  <2>. DEFINE q == [queue EXCEPT ![l] = InsertAt(@, i, c)]
              e2 == [entry EXCEPT ![c] = e]
              p2 == [promise EXCEPT ![c] = "pending"]
  <2>4. WellFormed(q, active, generation, e2, inFlight, p2)
    BY <2>1, <2>3, EnqueueWellFormed DEF IInv
  <2>5. \A k \in Lanes \ {l} : q[k] # <<>> => Cardinality(active[k]) >= maxConcurrent[k]
    BY <1>0 DEF NoIdleCapacity
  <2>6. drainLanes({l}, q, active, maxConcurrent, generation, e2, inFlight)
    BY <2>2
  <2>. HIDE DEF q, e2, p2
  <2>7. /\ \A k \in Lanes : queue'[k] # <<>> => Cardinality(active'[k]) >= maxConcurrent[k]
        /\ \A k \in Lanes : active'[k] # active[k] => Cardinality(active'[k]) =< maxConcurrent[k]
    <3>1. {l} \in SUBSET Lanes
      OBVIOUS
    <3>2. \A k \in Lanes : queue'[k] # <<>> => Cardinality(active'[k]) >= maxConcurrent[k]
      BY <1>0, <2>4, <2>5, <2>6, <3>1, DrainFills
    <3>3. \A k \in Lanes : active'[k] # active[k] => Cardinality(active'[k]) =< maxConcurrent[k]
      BY <1>0, <2>4, <2>5, <2>6, <3>1, DrainFills
    <3>. QED  BY <3>2, <3>3
  <2>. QED  BY <2>3, <2>7 DEF NoIdleCapacity
<1>3. ASSUME NEW c \in Commands, NEW outcome \in Settled, NEW b, Settle(c, outcome, b)
      PROVE  Goal
  <2>. DEFINE l == entry[c].lane
              released == [active EXCEPT ![l] = @ \ {c}]
              rest == [entry EXCEPT ![c] = NoEntry]
  <2>1. c \in inFlight /\ maxConcurrent' = maxConcurrent
    BY <1>3 DEF Settle
  <2>2. l \in Lanes
    BY <2>1 DEF IInv, WellFormed, FlightHolds, Entry
  <2>3. CASE drainLanes({l}, queue, released, maxConcurrent, generation, rest, inFlight \ {c})
    <3>. DEFINE p == [promise EXCEPT ![c] = outcome]
    <3>1. WellFormed(queue, released, generation, rest, inFlight \ {c}, p)
      BY <2>1, ReleaseWellFormed DEF IInv
    <3>2. \A k \in Lanes \ {l} : queue[k] # <<>> => Cardinality(released[k]) >= maxConcurrent[k]
      BY <1>0 DEF NoIdleCapacity
    <3>3. \A k \in Lanes : released[k] \subseteq active[k]
      BY <1>0
    <3>. HIDE DEF released, rest, p
    <3>4. /\ \A k \in Lanes : queue'[k] # <<>> => Cardinality(active'[k]) >= maxConcurrent[k]
          /\ \A k \in Lanes : active'[k] # released[k] => Cardinality(active'[k]) =< maxConcurrent[k]
      <4>1. {l} \in SUBSET Lanes
        BY <2>2
      <4>2. /\ drainLanes({l}, queue, released, maxConcurrent, generation, rest, inFlight \ {c})
            /\ WellFormed(queue, released, generation, rest, inFlight \ {c}, p)
            /\ \A k \in Lanes \ {l} : queue[k] # <<>> => Cardinality(released[k]) >= maxConcurrent[k]
        BY <2>3, <3>1, <3>2
      <4>. HIDE DEF l
      <4>3. \A k \in Lanes : queue'[k] # <<>> => Cardinality(active'[k]) >= maxConcurrent[k]
        BY <1>0, <4>1, <4>2, DrainFills
      <4>4. \A k \in Lanes : active'[k] # released[k] => Cardinality(active'[k]) =< maxConcurrent[k]
        BY <1>0, <4>1, <4>2, DrainFills
      <4>. QED  BY <4>3, <4>4
    <3>. QED  BY <2>1, <3>3, <3>4 DEF NoIdleCapacity
  <2>4. CASE UNCHANGED <<queue, active>>
    BY <1>1, <2>1, <2>4
  <2>. QED  BY <1>3, <2>3, <2>4 DEF Settle, completeTask
<1>4. ASSUME NEW l \in Lanes, NEW n \in Limits, setCommandLaneConcurrency(l, n)
      PROVE  Goal
  <2>1. maxConcurrent' \in [Lanes -> Nat]
    BY <1>0, LimitsAssumption, <1>4 DEF setCommandLaneConcurrency
  <2>. DEFINE ls == IF maxConcurrent'[l] > 0 THEN {l} ELSE {}
  <2>2. drainLanes(ls, queue, active, maxConcurrent', generation, entry, inFlight)
    BY <1>0, <1>4 DEF setCommandLaneConcurrency
  <2>3. \A k \in Lanes \ {l} : maxConcurrent'[k] = maxConcurrent[k]
    BY <1>0, <1>4 DEF setCommandLaneConcurrency
  <2>4. \A k \in Lanes \ ls : queue[k] # <<>> => Cardinality(active[k]) >= maxConcurrent'[k]
    <3>1. Cardinality(active[l]) \in Nat
      BY <1>0, FS_Subset, FS_CardinalityType, CommandsFinite
    <3>2. l \notin ls => maxConcurrent'[l] = 0
      BY <2>1
    <3>. QED  BY <2>3, <3>1, <3>2 DEF NoIdleCapacity
  <2>5. WellFormed(queue, active, generation, entry, inFlight, promise) /\ ls \in SUBSET Lanes
    BY DEF IInv
  <2>. HIDE DEF ls
  <2>6. /\ \A k \in Lanes : queue'[k] # <<>> => Cardinality(active'[k]) >= maxConcurrent'[k]
        /\ \A k \in Lanes : active'[k] # active[k] => Cardinality(active'[k]) =< maxConcurrent'[k]
    BY <2>1, <2>2, <2>4, <2>5, DrainFills
  <2>. QED  BY <2>6 DEF NoIdleCapacity
<1>5. ASSUME NEW l \in Lanes, clearCommandLane(l) PROVE Goal
  BY <1>0, <1>5 DEF clearCommandLane, NoIdleCapacity
<1>6. ASSUME NEW ls \in SUBSET Lanes, ResetLanes(ls) PROVE Goal
  <2>. DEFINE idle == [l \in Lanes |-> IF l \in ls THEN {} ELSE active[l]]
  <2>1. /\ generation' = [l \in Lanes |-> IF l \in ls THEN generation[l] + 1 ELSE generation[l]]
        /\ drainLanes(ls, queue, idle, maxConcurrent, generation', entry, inFlight)
        /\ maxConcurrent' = maxConcurrent
    BY <1>6 DEF ResetLanes
  <2>2. WellFormed(queue, idle, generation', entry, inFlight, promise)
    BY <2>1, ResetWellFormed DEF IInv
  <2>3. \A k \in Lanes \ ls : queue[k] # <<>> => Cardinality(idle[k]) >= maxConcurrent[k]
    BY DEF NoIdleCapacity
  <2>4. \A k \in Lanes : idle[k] \subseteq active[k]
    OBVIOUS
  <2>. HIDE DEF idle
  <2>5. /\ \A k \in Lanes : queue'[k] # <<>> => Cardinality(active'[k]) >= maxConcurrent[k]
        /\ \A k \in Lanes : active'[k] # idle[k] => Cardinality(active'[k]) =< maxConcurrent[k]
    BY <1>0, <2>1, <2>2, <2>3, DrainFills
  <2>. QED  BY <2>1, <2>4, <2>5 DEF NoIdleCapacity
<1>7. CASE CommandNext
  <2>. PICK c \in Commands :
         \/ \E l \in Lanes, p \in Priorities : enqueueCommandInLane(c, l, p)
         \/ TaskReturns(c)
         \/ TaskTimesOut(c)
         \/ LateReturn(c)
    BY <1>7 DEF CommandNext
  <2>1. CASE \E l \in Lanes, p \in Priorities : EnqueueAccepted(c, l, p)
    BY <2>1, <1>2
  <2>2. CASE EnqueueRefused(c) \/ LateReturn(c)
    BY <2>2, <1>1 DEF EnqueueRefused, LateReturn, laneVars
  <2>3. CASE TaskReturns(c)
    BY <2>3, <1>3 DEF TaskReturns, Settled
  <2>4. CASE TaskTimesOut(c)
    BY <2>4, <1>3 DEF TaskTimesOut, Settled
  <2>. QED  BY <2>1, <2>2, <2>3, <2>4 DEF enqueueCommandInLane
<1>8. CASE LaneNext
  <2>. PICK l \in Lanes :
         \/ \E n \in Limits : setCommandLaneConcurrency(l, n)
         \/ clearCommandLane(l)
         \/ resetCommandLane(l)
    BY <1>8 DEF LaneNext
  <2>1. CASE \E n \in Limits : setCommandLaneConcurrency(l, n)
    BY <2>1, <1>4
  <2>2. CASE clearCommandLane(l)
    BY <2>2, <1>5
  <2>3. CASE resetCommandLane(l)
    <3>1. ResetLanes({l}) /\ {l} \in SUBSET Lanes
      BY <2>3 DEF resetCommandLane
    <3>. QED  BY <3>1, <1>6
  <2>. QED  BY <2>1, <2>2, <2>3
<1>9. CASE WaiterNext
  BY <1>9, <1>1 DEF WaiterNext, waitForActiveTasks, WaitExpires, laneVars
<1>10. CASE resetAllLanes \/ markGatewayDraining
  BY <1>10, <1>1, <1>6 DEF resetAllLanes, markGatewayDraining, laneVars
<1>. QED  BY <1>7, <1>8, <1>9, <1>10 DEF Next

\* A lane never keeps a command queued beside a free slot.
THEOREM WorkConserving == Spec => []NoIdleCapacity
<1>1. Init => NoIdleCapacity
  BY DEF Init, NoIdleCapacity
<1>2. IInv /\ NoIdleCapacity /\ [Next]_vars => NoIdleCapacity'
  <2>1. CASE UNCHANGED vars
    BY <2>1 DEF vars, laneVars, NoIdleCapacity
  <2>. QED  BY <2>1, StepsFill
<1>. QED  BY <1>1, <1>2, InvariantHolds, PTL DEF Spec

\* No step starts a command beyond the limit of its lane.
THEOREM LimitRespected == Spec => StartsRespectLimit
<1>. DEFINE A == \A l \in Lanes : ~(active'[l] \subseteq active[l])
                   => Cardinality(active'[l]) =< maxConcurrent'[l]
<1>1. IInv /\ NoIdleCapacity /\ [Next]_vars => [A]_vars
  BY StepsFill
<1>. HIDE DEF A
<1>2. Spec => [][A]_vars
  BY <1>1, InvariantHolds, WorkConserving, PTL DEF Spec
<1>. QED  BY <1>2 DEF A, StartsRespectLimit

-----------------------------------------------------------------------------
(* How a promise settles, and in which order a pump starts the commands *)

\* A step settles only a pending command: one that is in flight, and then by its
\* result or its timeout, or one that is queued.
LEMMA StepsSettle ==
  ASSUME IInv, Next, NEW c \in Commands
  PROVE  /\ promise[c] \in Settled => promise'[c] = promise[c]
         /\ c \in inFlight => promise'[c] \in {"pending", "returned", "timedOut"}
<1>. DEFINE Goal == /\ promise[c] \in Settled => promise'[c] = promise[c]
                    /\ c \in inFlight => promise'[c] \in {"pending", "returned", "timedOut"}
<1>0. /\ promise \in [Commands -> {"none", "pending"} \cup Settled]
      /\ \A d \in inFlight : promise[d] = "pending"
      /\ "none" \notin Settled /\ "pending" \notin Settled
  BY DEF IInv, WellFormed, Typed, FlightHolds, Settled
<1>1. ASSUME UNCHANGED promise PROVE Goal
  BY <1>0, <1>1
<1>2. ASSUME NEW d \in Commands, promise[d] = "none",
             \E new \in {"pending", "refused"} : promise' = [promise EXCEPT ![d] = new]
      PROVE  Goal
  BY <1>0, <1>2
<1>3. ASSUME NEW d \in Commands, NEW outcome \in {"returned", "timedOut"}, NEW b,
             Settle(d, outcome, b)
      PROVE  Goal
  BY <1>0, <1>3 DEF Settle
<1>4. ASSUME NEW l \in Lanes, clearCommandLane(l) PROVE Goal
  <2>1. promise' = [d \in Commands |-> IF d \in ToSet(queue[l]) THEN "cleared" ELSE promise[d]]
    BY <1>4 DEF clearCommandLane
  <2>2. c \in ToSet(queue[l]) => promise[c] = "pending" /\ c \notin inFlight
    BY DEF IInv, WellFormed, Typed, QueuesHold, ToSet
  <2>. QED  BY <1>0, <2>1, <2>2
<1>5. CASE CommandNext
  <2>. PICK d \in Commands :
         \/ \E l \in Lanes, p \in Priorities : enqueueCommandInLane(d, l, p)
         \/ TaskReturns(d)
         \/ TaskTimesOut(d)
         \/ LateReturn(d)
    BY <1>5 DEF CommandNext
  <2>1. CASE \E l \in Lanes, p \in Priorities : EnqueueAccepted(d, l, p)
    BY <2>1, <1>2 DEF EnqueueAccepted
  <2>2. CASE EnqueueRefused(d)
    BY <2>2, <1>2 DEF EnqueueRefused
  <2>3. CASE TaskReturns(d) \/ TaskTimesOut(d)
    BY <2>3, <1>3 DEF TaskReturns, TaskTimesOut
  <2>4. CASE LateReturn(d)
    BY <2>4, <1>1 DEF LateReturn
  <2>. QED  BY <2>1, <2>2, <2>3, <2>4 DEF enqueueCommandInLane
<1>6. CASE LaneNext
  BY <1>6, <1>1, <1>4 DEF LaneNext, setCommandLaneConcurrency, resetCommandLane, ResetLanes
<1>7. CASE WaiterNext \/ resetAllLanes \/ markGatewayDraining
  BY <1>7, <1>1 DEF WaiterNext, waitForActiveTasks, WaitExpires, resetAllLanes, ResetLanes,
                    markGatewayDraining
<1>. QED  BY <1>5, <1>6, <1>7 DEF Next

\* No promise settles twice, and no running command is cleared or refused.
THEOREM SettledOnce == Spec => SettlesOnce
<1>. DEFINE A == \A c \in Commands :
                   /\ promise[c] \in Settled => promise'[c] = promise[c]
                   /\ c \in inFlight => promise'[c] \in {"pending", "returned", "timedOut"}
<1>1. IInv /\ [Next]_vars => [A]_vars
  BY StepsSettle
<1>. HIDE DEF A
<1>2. Spec => [][A]_vars
  BY <1>1, InvariantHolds, PTL DEF Spec
<1>. QED  BY <1>2 DEF A, SettlesOnce

\* The entry x is started before the entry y of its lane.
Ahead(x, y) ==
  \/ x.priority > y.priority
  \/ x.priority = y.priority /\ x.sequence < y.sequence

\* Every queue is sorted, and numbered below the next sequence number n.
Sorted(q, e, n) ==
  \A l \in Lanes : \A i, j \in 1..Len(q[l]) :
    /\ i < j => Ahead(e[q[l][i]], e[q[l][j]])
    /\ e[q[l][i]].sequence < n

\* The commands a pump puts in flight are ahead of those it leaves queued.
StartsAhead(f) ==
  \A c \in inFlight' \ f : \A d \in ToSet(queue'[entry'[c].lane]) : Ahead(entry'[c], entry'[d])

LEMMA DrainSorted ==
  ASSUME NEW q, NEW a, NEW m \in [Lanes -> Nat], NEW g, NEW e, NEW f, NEW p,
         NEW ls \in SUBSET Lanes, NEW next,
         WellFormed(q, a, g, e, f, p),
         Sorted(q, e, next),
         drainLanes(ls, q, a, m, g, e, f)
  PROVE  Sorted(queue', entry', next) /\ StartsAhead(f)
<1>. DEFINE n == [l \in Lanes |-> IF l \in ls THEN PumpCount(q[l], a[l], m[l]) ELSE 0]
            start == [l \in Lanes |-> IF l \in ls THEN Started(q[l], a[l], m[l]) ELSE {}]
            started == UNION {start[l] : l \in Lanes}
<1>1. \A l \in Lanes : n[l] \in 0..Len(q[l]) /\ Len(q[l]) \in Nat /\ q[l] \in Seq(Commands)
  BY PumpCountBounds DEF WellFormed, Typed
<1>2. \A l \in Lanes : start[l] = {q[l][i] : i \in 1..n[l]}
  BY DEF Started
<1>3. \A c : c \in started <=> \E l \in Lanes : \E i \in 1..n[l] : c = q[l][i]
  BY <1>2
<1>4. /\ queue' = [l \in Lanes |-> SubSeq(q[l], n[l] + 1, Len(q[l]))]
      /\ inFlight' = f \cup started
      /\ entry' = [c \in Commands |->
           IF c \in started THEN [e[c] EXCEPT !.taskGeneration = g[e[c].lane]] ELSE e[c]]
  BY DEF drainLanes
<1>. HIDE DEF n, start, started
<1>5. \A l \in Lanes : \A i \in 1..Len(q[l]) :
        /\ q[l][i] \in Commands
        /\ e[q[l][i]] \in Entry
        /\ e[q[l][i]].lane = l
  BY <1>1 DEF WellFormed, QueuesHold
<1>6. \A l \in Lanes : \A i \in 1..Len(q[l]) :
        /\ entry'[q[l][i]].priority = e[q[l][i]].priority
        /\ entry'[q[l][i]].sequence = e[q[l][i]].sequence
        /\ entry'[q[l][i]].lane = l
  BY <1>4, <1>5 DEF Entry
<1>7. \A l \in Lanes : /\ Len(queue'[l]) = Len(q[l]) - n[l]
                       /\ \A i \in 1..Len(queue'[l]) :
                            n[l] + i \in 1..Len(q[l]) /\ queue'[l][i] = q[l][n[l] + i]
  <2>. TAKE l \in Lanes
  <2>. DEFINE s == q[l]  k == n[l]
  <2>1. s \in Seq(Commands) /\ k \in Nat /\ k =< Len(s)
    BY <1>1
  <2>2. queue'[l] = SubSeq(s, k + 1, Len(s))
    BY <1>4
  <2>. HIDE DEF s, k
  <2>3. /\ Len(SubSeq(s, k + 1, Len(s))) = Len(s) - k
        /\ \A i \in 1..(Len(s) - k) : /\ SubSeq(s, k + 1, Len(s))[i] = s[k + i]
                                      /\ k + i \in 1..Len(s)
    BY <2>1
  <2>. QED  BY <2>2, <2>3 DEF s, k
<1>8. Sorted(queue', entry', next)
  <2>. SUFFICES ASSUME NEW l \in Lanes, NEW i \in 1..Len(queue'[l]), NEW j \in 1..Len(queue'[l])
                PROVE  /\ i < j => Ahead(entry'[queue'[l][i]], entry'[queue'[l][j]])
                       /\ entry'[queue'[l][i]].sequence < next
    BY DEF Sorted
  <2>1. /\ n[l] + i \in 1..Len(q[l]) /\ queue'[l][i] = q[l][n[l] + i]
        /\ n[l] + j \in 1..Len(q[l]) /\ queue'[l][j] = q[l][n[l] + j]
    BY <1>7
  <2>2. i < j => n[l] + i < n[l] + j
    BY <1>1
  <2>. DEFINE x == q[l][n[l] + i]  y == q[l][n[l] + j]
  <2>3. /\ i < j => Ahead(e[x], e[y])
        /\ e[x].sequence < next
    BY <2>1, <2>2 DEF Sorted
  <2>4. /\ entry'[x].priority = e[x].priority /\ entry'[x].sequence = e[x].sequence
        /\ entry'[y].priority = e[y].priority /\ entry'[y].sequence = e[y].sequence
    BY <2>1, <1>6
  <2>5. queue'[l][i] = x /\ queue'[l][j] = y
    BY <2>1
  <2>. HIDE DEF x, y
  <2>. QED  BY <2>3, <2>4, <2>5 DEF Ahead
<1>9. StartsAhead(f)
  <2>. SUFFICES ASSUME NEW c \in started, NEW d \in ToSet(queue'[entry'[c].lane])
                PROVE  Ahead(entry'[c], entry'[d])
    BY <1>4 DEF StartsAhead
  <2>1. PICK l \in Lanes : \E i \in 1..n[l] : c = q[l][i]
    BY <1>3
  <2>2. PICK i \in 1..n[l] : c = q[l][i]
    BY <2>1
  <2>3. i \in 1..Len(q[l])
    BY <1>1
  <2>4. entry'[c].lane = l
    BY <1>6, <2>2, <2>3
  <2>5. PICK j \in 1..Len(queue'[l]) : d = queue'[l][j]
    BY <2>4 DEF ToSet
  <2>6. n[l] + j \in 1..Len(q[l]) /\ d = q[l][n[l] + j] /\ i < n[l] + j
    BY <1>1, <1>7, <2>5
  <2>7. Ahead(e[c], e[d])
    BY <2>2, <2>3, <2>6 DEF Sorted
  <2>8. /\ entry'[c].priority = e[c].priority /\ entry'[c].sequence = e[c].sequence
        /\ entry'[d].priority = e[d].priority /\ entry'[d].sequence = e[d].sequence
    BY <1>6, <2>2, <2>3, <2>6
  <2>. QED  BY <2>7, <2>8 DEF Ahead
<1>. QED  BY <1>8, <1>9

LEMMA EntryTyped == \A x \in Entry : x.priority \in Int /\ x.sequence \in Nat
<1>1. \A k \in Priorities : k \in Int
  BY PrioritiesAssumption
<1>. QED  BY <1>1 DEF Entry

\* The place InsertsAt picks keeps the queue of the lane sorted.
LEMMA InsertSorted ==
  ASSUME IInv, Sorted(queue, entry, nextQueueSequence),
         NEW c \in Commands, promise[c] = "none", NEW l \in Lanes, NEW e \in Entry,
         e.sequence = nextQueueSequence,
         NEW i \in 1..(Len(queue[l]) + 1), InsertsAt(queue[l], i, e)
  PROVE  Sorted([queue EXCEPT ![l] = InsertAt(@, i, c)], [entry EXCEPT ![c] = e],
                nextQueueSequence + 1)
<1>. DEFINE q == [queue EXCEPT ![l] = InsertAt(@, i, c)]
            e2 == [entry EXCEPT ![c] = e]
            z == Len(queue[l])
            s == queue[l]
            n == nextQueueSequence
<1>1. /\ queue \in [Lanes -> Seq(Commands)] /\ entry \in [Commands -> Entry \cup {NoEntry}]
      /\ n \in Nat
  BY DEF IInv, WellFormed, Typed, Rest
<1>2. \A k \in Lanes : \A j \in 1..Len(queue[k]) :
        queue[k][j] \in Commands /\ queue[k][j] # c /\ entry[queue[k][j]] \in Entry
  BY <1>1 DEF IInv, WellFormed, QueuesHold
<1>3. s \in Seq(Commands) /\ z \in Nat /\ i \in 1..(z + 1)
  BY <1>1
<1>4. /\ Len(q[l]) = z + 1
      /\ \A k \in 1..(z + 1) : q[l][k] = IF k < i THEN s[k] ELSE IF k = i THEN c ELSE s[k - 1]
  <2>1. q[l] = InsertAt(s, i, c) /\ z = Len(s)
    BY <1>1
  <2>. HIDE DEF q, s, z
  <2>. QED  BY <1>3, <2>1, InsertAtProperties
<1>5. \A k \in Lanes : k # l => q[k] = queue[k]
  BY <1>1
<1>6. /\ e2[c] = e
      /\ \A k \in Lanes : \A j \in 1..Len(queue[k]) : e2[queue[k][j]] = entry[queue[k][j]]
  BY <1>1, <1>2
<1>7. \A j \in 1..z : /\ j < i => Ahead(entry[s[j]], e)
                      /\ j >= i => Ahead(e, entry[s[j]])
  <2>. TAKE j \in 1..z
  <2>1. entry[s[j]] \in Entry /\ entry[s[j]].sequence < n
    BY <1>2 DEF Sorted
  <2>2. /\ entry[s[j]].priority \in Int /\ entry[s[j]].sequence \in Nat
        /\ e.priority \in Int /\ e.sequence = n
    BY <2>1, EntryTyped
  <2>3. ASSUME j < i PROVE Ahead(entry[s[j]], e)
    <3>1. ~YieldsTo(s[j], e)
      BY <1>3, <2>3 DEF InsertsAt
    <3>. QED  BY <1>1, <2>1, <2>2, <3>1 DEF YieldsTo, Ahead
  <2>4. ASSUME j >= i PROVE Ahead(e, entry[s[j]])
    <3>1. i \in 1..z /\ YieldsTo(s[i], e)
      BY <1>3, <2>4 DEF InsertsAt
    <3>2. entry[s[i]] \in Entry /\ entry[s[i]].sequence < n
      BY <3>1, <1>2 DEF Sorted
    <3>3. entry[s[i]].priority \in Int /\ entry[s[i]].sequence \in Nat
      BY <3>2, EntryTyped
    <3>4. entry[s[i]].priority < e.priority
      BY <1>1, <2>2, <3>1, <3>2, <3>3 DEF YieldsTo
    <3>5. i < j => Ahead(entry[s[i]], entry[s[j]])
      BY <3>1 DEF Sorted
    <3>6. entry[s[j]].priority =< entry[s[i]].priority
      <4>1. CASE i = j
        BY <4>1, <2>2
      <4>2. CASE i < j
        BY <4>2, <2>2, <3>3, <3>5 DEF Ahead
      <4>. QED  BY <4>1, <4>2, <2>4, <3>1
    <3>. HIDE DEF s
    <3>7. entry[s[j]].priority < e.priority
      BY <2>2, <3>3, <3>4, <3>6
    <3>. QED  BY <2>2, <3>7 DEF Ahead
  <2>. QED  BY <2>3, <2>4
<1>8. \A k \in Lanes : k # l => \A j, h \in 1..Len(q[k]) :
        /\ j < h => Ahead(e2[q[k][j]], e2[q[k][h]])
        /\ e2[q[k][j]].sequence < n + 1
  <2>. SUFFICES ASSUME NEW k \in Lanes, k # l, NEW j \in 1..Len(queue[k]), NEW h \in 1..Len(queue[k])
                PROVE  /\ j < h => Ahead(entry[queue[k][j]], entry[queue[k][h]])
                       /\ entry[queue[k][j]].sequence < n + 1
    BY <1>5, <1>6
  <2>1. entry[queue[k][j]].sequence < n /\ entry[queue[k][j]].sequence \in Nat
    BY <1>2 DEF Sorted, Entry
  <2>. QED  BY <1>1, <2>1 DEF Sorted
<1>9. \A j, h \in 1..Len(q[l]) :
        /\ j < h => Ahead(e2[q[l][j]], e2[q[l][h]])
        /\ e2[q[l][j]].sequence < n + 1
  <2>. TAKE j, h \in 1..Len(q[l])
  <2>. DEFINE old(k) == IF k < i THEN k ELSE k - 1
  <2>1. \A k \in 1..(z + 1) : k # i => /\ old(k) \in 1..z
                                       /\ q[l][k] = s[old(k)]
                                       /\ e2[q[l][k]] = entry[s[old(k)]]
    <3>. SUFFICES ASSUME NEW k \in 1..(z + 1), k # i
                  PROVE  /\ old(k) \in 1..z
                         /\ q[l][k] = s[old(k)]
                         /\ e2[q[l][k]] = entry[s[old(k)]]
      OBVIOUS
    <3>1. old(k) \in 1..z
      BY <1>3
    <3>2. q[l][k] = s[old(k)]
      BY <1>4
    <3>3. e2[s[old(k)]] = entry[s[old(k)]]
      BY <3>1, <1>6
    <3>. HIDE DEF old, s, z, e2, q
    <3>. QED  BY <3>1, <3>2, <3>3
  <2>2. q[l][i] = c /\ e2[q[l][i]] = e
    BY <1>3, <1>4, <1>6
  <2>3. j \in 1..(z + 1) /\ h \in 1..(z + 1)
    BY <1>4
  <2>4. ASSUME j < h PROVE Ahead(e2[q[l][j]], e2[q[l][h]])
    <3>1. CASE j = i
      <4>1. old(h) \in 1..z /\ old(h) >= i
        BY <1>3, <2>3, <2>4, <3>1
      <4>2. Ahead(e, entry[s[old(h)]])
        BY <4>1, <1>7
      <4>3. h # i
        BY <2>3, <2>4, <3>1
      <4>. HIDE DEF old, s, z, e2, q
      <4>. QED  BY <4>2, <4>3, <2>1, <2>2, <2>3, <3>1
    <3>2. CASE h = i
      <4>1. old(j) \in 1..z /\ old(j) < i
        BY <1>3, <2>3, <2>4, <3>2
      <4>2. Ahead(entry[s[old(j)]], e)
        BY <4>1, <1>7
      <4>3. j # i
        BY <2>3, <2>4, <3>2
      <4>. HIDE DEF old, s, z, e2, q
      <4>. QED  BY <4>2, <4>3, <2>1, <2>2, <2>3, <3>2
    <3>3. CASE j # i /\ h # i
      <4>1. old(j) \in 1..z /\ old(h) \in 1..z /\ old(j) < old(h)
        BY <1>3, <2>3, <2>4, <3>3
      <4>2. Ahead(entry[s[old(j)]], entry[s[old(h)]])
        BY <4>1 DEF Sorted
      <4>. HIDE DEF old, s, z, e2, q
      <4>. QED  BY <4>2, <2>1, <2>3, <3>3
    <3>. QED  BY <3>1, <3>2, <3>3
  <2>5. e2[q[l][j]].sequence < n + 1
    <3>1. CASE j = i
      BY <3>1, <2>2, <1>1
    <3>2. CASE j # i
      <4>1. /\ entry[s[old(j)]].sequence < n /\ entry[s[old(j)]].sequence \in Nat
            /\ e2[q[l][j]] = entry[s[old(j)]]
        BY <3>2, <2>1, <2>3, <1>2 DEF Sorted, Entry
      <4>. HIDE DEF old, s, e2, q
      <4>. QED  BY <4>1, <1>1
    <3>. QED  BY <3>1, <3>2
  <2>. QED  BY <2>4, <2>5
<1>. HIDE DEF q, e2
<1>10. Sorted(q, e2, n + 1)
  BY <1>8, <1>9 DEF Sorted
<1>. QED  BY <1>10 DEF q, e2

\* A step keeps the queues sorted and starts what is ahead.
LEMMA StepsSorted ==
  ASSUME IInv, Sorted(queue, entry, nextQueueSequence), Next
  PROVE  Sorted(queue', entry', nextQueueSequence') /\ StartsAhead(inFlight)
<1>. DEFINE Goal == Sorted(queue', entry', nextQueueSequence') /\ StartsAhead(inFlight)
<1>0. /\ queue \in [Lanes -> Seq(Commands)] /\ entry \in [Commands -> Entry \cup {NoEntry}]
      /\ maxConcurrent \in [Lanes -> Nat]
      /\ WellFormed(queue, active, generation, entry, inFlight, promise)
  BY DEF IInv, WellFormed, Typed, Rest
<1>1. ASSUME UNCHANGED <<queue, entry, inFlight, nextQueueSequence>> PROVE Goal
  BY <1>1 DEF StartsAhead
<1>2. ASSUME NEW c \in Commands, NEW l \in Lanes, NEW p \in Priorities,
             EnqueueAccepted(c, l, p)
      PROVE  Goal
  <2>. DEFINE e == [lane |-> l, priority |-> p, sequence |-> nextQueueSequence,
                    taskGeneration |-> 0]
  <2>1. e \in Entry /\ e.lane = l /\ e.sequence = nextQueueSequence
    BY DEF Entry, IInv, Rest
  <2>2. PICK i \in 1..(Len(queue[l]) + 1) :
          /\ InsertsAt(queue[l], i, e)
          /\ drainLanes({l}, [queue EXCEPT ![l] = InsertAt(@, i, c)], active,
                        maxConcurrent, generation, [entry EXCEPT ![c] = e], inFlight)
    BY <1>2 DEF EnqueueAccepted
  <2>. HIDE DEF e
  <2>3. promise[c] = "none" /\ nextQueueSequence' = nextQueueSequence + 1
    BY <1>2 DEF EnqueueAccepted
  <2>. DEFINE q == [queue EXCEPT ![l] = InsertAt(@, i, c)]
              e2 == [entry EXCEPT ![c] = e]
              p2 == [promise EXCEPT ![c] = "pending"]
  <2>4. WellFormed(q, active, generation, e2, inFlight, p2)
    BY <2>1, <2>3, <1>0, EnqueueWellFormed
  <2>5. Sorted(q, e2, nextQueueSequence + 1)
    BY <2>1, <2>2, <2>3, InsertSorted
  <2>6. drainLanes({l}, q, active, maxConcurrent, generation, e2, inFlight)
    BY <2>2
  <2>. HIDE DEF q, e2, p2
  <2>7. {l} \in SUBSET Lanes
    OBVIOUS
  <2>8. Sorted(queue', entry', nextQueueSequence + 1) /\ StartsAhead(inFlight)
    BY <1>0, <2>4, <2>5, <2>6, <2>7, DrainSorted
  <2>. QED  BY <2>3, <2>8
<1>3. ASSUME NEW c \in Commands, NEW outcome \in Settled, NEW b, Settle(c, outcome, b)
      PROVE  Goal
  <2>. DEFINE l == entry[c].lane
              released == [active EXCEPT ![l] = @ \ {c}]
              rest == [entry EXCEPT ![c] = NoEntry]
              p == [promise EXCEPT ![c] = outcome]
              f == inFlight \ {c}
  <2>1. c \in inFlight /\ nextQueueSequence' = nextQueueSequence
    BY <1>3 DEF Settle
  <2>2. {l} \in SUBSET Lanes
    BY <2>1 DEF IInv, WellFormed, FlightHolds, Entry
  <2>3. \A k \in Lanes : \A i \in 1..Len(queue[k]) : rest[queue[k][i]] = entry[queue[k][i]]
    BY <1>0, <2>1 DEF WellFormed, QueuesHold
  <2>4. WellFormed(queue, released, generation, rest, f, p)
    BY <2>1, <1>0, ReleaseWellFormed
  <2>. HIDE DEF rest
  <2>5. Sorted(queue, rest, nextQueueSequence)
    BY <2>3 DEF Sorted
  <2>6. CASE drainLanes({l}, queue, released, maxConcurrent, generation, rest, f)
    <3>. HIDE DEF l, released, p, f
    <3>1. Sorted(queue', entry', nextQueueSequence) /\ StartsAhead(f)
      BY <1>0, <2>2, <2>4, <2>5, <2>6, DrainSorted
    <3>2. StartsAhead(inFlight)
      BY <3>1 DEF StartsAhead, f
    <3>. QED  BY <2>1, <3>1, <3>2
  <2>7. CASE UNCHANGED queue /\ inFlight' = f /\ entry' = rest
    BY <2>1, <2>5, <2>7 DEF StartsAhead
  <2>. QED  BY <1>3, <2>6, <2>7 DEF Settle, completeTask, rest
<1>4. ASSUME NEW ls \in SUBSET Lanes, NEW a, NEW m \in [Lanes -> Nat], NEW g,
             WellFormed(queue, a, g, entry, inFlight, promise),
             drainLanes(ls, queue, a, m, g, entry, inFlight),
             nextQueueSequence' = nextQueueSequence
      PROVE  Goal
  BY <1>4, DrainSorted
<1>5. ASSUME NEW l \in Lanes, NEW n \in Limits, setCommandLaneConcurrency(l, n)
      PROVE  Goal
  <2>1. maxConcurrent' \in [Lanes -> Nat] /\ nextQueueSequence' = nextQueueSequence
    BY <1>0, LimitsAssumption, <1>5 DEF setCommandLaneConcurrency
  <2>2. \E ls \in SUBSET Lanes :
          drainLanes(ls, queue, active, maxConcurrent', generation, entry, inFlight)
    BY <1>5 DEF setCommandLaneConcurrency
  <2>. QED  BY <1>0, <2>1, <2>2, <1>4
<1>6. ASSUME NEW l \in Lanes, clearCommandLane(l) PROVE Goal
  <2>1. /\ queue' = [queue EXCEPT ![l] = <<>>]
        /\ entry' = [c \in Commands |-> IF c \in ToSet(queue[l]) THEN NoEntry ELSE entry[c]]
        /\ inFlight' = inFlight /\ nextQueueSequence' = nextQueueSequence
    BY <1>6 DEF clearCommandLane
  <2>2. StartsAhead(inFlight)
    BY <2>1 DEF StartsAhead
  <2>3. \A k \in Lanes : \A i \in 1..Len(queue'[k]) :
          /\ k # l /\ queue'[k] = queue[k]
          /\ entry'[queue[k][i]] = entry[queue[k][i]]
    <3>. SUFFICES ASSUME NEW k \in Lanes, NEW i \in 1..Len(queue'[k])
                  PROVE  /\ k # l /\ queue'[k] = queue[k]
                         /\ entry'[queue[k][i]] = entry[queue[k][i]]
      OBVIOUS
    <3>1. k # l /\ queue'[k] = queue[k]
      BY <1>0, <2>1
    <3>2. queue[k][i] \in Commands /\ entry[queue[k][i]].lane = k
      BY <1>0, <3>1 DEF WellFormed, QueuesHold
    <3>3. \A d \in ToSet(queue[l]) : entry[d].lane = l
      BY <1>0 DEF WellFormed, QueuesHold, ToSet
    <3>. QED  BY <2>1, <3>1, <3>2, <3>3
  <2>4. Sorted(queue', entry', nextQueueSequence)
    BY <2>3 DEF Sorted
  <2>. QED  BY <2>1, <2>2, <2>4
<1>7. ASSUME NEW ls \in SUBSET Lanes, ResetLanes(ls) PROVE Goal
  <2>. DEFINE idle == [l \in Lanes |-> IF l \in ls THEN {} ELSE active[l]]
  <2>1. /\ generation' = [l \in Lanes |-> IF l \in ls THEN generation[l] + 1 ELSE generation[l]]
        /\ drainLanes(ls, queue, idle, maxConcurrent, generation', entry, inFlight)
        /\ nextQueueSequence' = nextQueueSequence
    BY <1>7 DEF ResetLanes
  <2>2. WellFormed(queue, idle, generation', entry, inFlight, promise)
    BY <2>1, <1>0, ResetWellFormed
  <2>. HIDE DEF idle
  <2>. QED  BY <1>0, <2>1, <2>2, <1>4
<1>8. CASE CommandNext
  <2>. PICK c \in Commands :
         \/ \E l \in Lanes, p \in Priorities : enqueueCommandInLane(c, l, p)
         \/ TaskReturns(c)
         \/ TaskTimesOut(c)
         \/ LateReturn(c)
    BY <1>8 DEF CommandNext
  <2>1. CASE \E l \in Lanes, p \in Priorities : EnqueueAccepted(c, l, p)
    BY <2>1, <1>2
  <2>2. CASE EnqueueRefused(c) \/ LateReturn(c)
    BY <2>2, <1>1 DEF EnqueueRefused, LateReturn, laneVars
  <2>3. CASE TaskReturns(c) \/ TaskTimesOut(c)
    BY <2>3, <1>3 DEF TaskReturns, TaskTimesOut, Settled
  <2>. QED  BY <2>1, <2>2, <2>3 DEF enqueueCommandInLane
<1>9. CASE LaneNext
  <2>. PICK l \in Lanes :
         \/ \E n \in Limits : setCommandLaneConcurrency(l, n)
         \/ clearCommandLane(l)
         \/ resetCommandLane(l)
    BY <1>9 DEF LaneNext
  <2>1. CASE resetCommandLane(l)
    <3>1. ResetLanes({l}) /\ {l} \in SUBSET Lanes
      BY <2>1 DEF resetCommandLane
    <3>. QED  BY <3>1, <1>7
  <2>. QED  BY <2>1, <1>5, <1>6
<1>10. CASE WaiterNext
  BY <1>10, <1>1 DEF WaiterNext, waitForActiveTasks, WaitExpires, laneVars
<1>11. CASE resetAllLanes \/ markGatewayDraining
  BY <1>11, <1>1, <1>7 DEF resetAllLanes, markGatewayDraining, laneVars
<1>. QED  BY <1>8, <1>9, <1>10, <1>11 DEF Next

\* The pump starts the commands of a lane by priority, and those of one priority
\* in the order they were enqueued, however often the lane was pumped, cleared,
\* resized or reset before.
THEOREM StartedInOrder == Spec => StartsInOrder
<1>. DEFINE S == Sorted(queue, entry, nextQueueSequence)
            A == \A c \in inFlight' \ inFlight :
                   \A d \in ToSet(queue'[entry'[c].lane]) : Before(c, d)
<1>1. Init => S
  BY DEF Init, Sorted
<1>2. IInv /\ S /\ [Next]_vars => S' /\ [A]_vars
  <2>1. CASE UNCHANGED vars
    BY <2>1 DEF vars, laneVars
  <2>. QED  BY <2>1, StepsSorted DEF StartsAhead, Ahead, Before
<1>. HIDE DEF S, A
<1>3. Spec => [][A]_vars
  BY <1>1, <1>2, InvariantHolds, PTL DEF Spec
<1>. QED  BY <1>3 DEF A, StartsInOrder
=============================================================================
