----------------------- MODULE OutboundDeliveryProofs -----------------------
(***************************************************************************)
(* Theorems about OutboundDelivery, for all sets of deliveries and drain   *)
(* keys, any number of parts, retries and crashes.                         *)
(***************************************************************************)
EXTENDS OutboundDelivery, FiniteSetTheorems, TLAPS

Fresh == [NoRow EXCEPT !.status = "pending"]
FreshCall == [pc |-> "idle", part |-> 1, started |-> FALSE, partial |-> FALSE, queued |-> TRUE]
Untouched(d) == \A p \in Parts(d) : platform[d][p] = 0
AtMostOnce(d) == \A p \in Parts(d) : platform[d][p] =< 1
RestUntouched(d, from) == \A p \in Parts(d) : p >= from => platform[d][p] = 0

\* A call that has not begun or has not got to its claim has a fresh row.
CallBegins(d) ==
  /\ live[d].pc = "idle" =>
       live[d] = FreshCall /\ row[d] = NoRow /\ d \notin entriesInProgress /\ Untouched(d)
  /\ live[d].pc = "queued" =>
       live[d] = [FreshCall EXCEPT !.pc = "queued"] /\ row[d] = Fresh /\ Untouched(d)

\* A delivery that goes out directly has no row and no claim, for ever.
DirectIsRowless(d) ==
  ~live[d].queued =>
    /\ row[d] = NoRow /\ d \notin entriesInProgress
    /\ d \in Required => live[d].pc = "over"

\* While the live call holds the claim its row is pending, was never retried, and
\* each part went out once, the parts to come not at all.
CallInStep(d) ==
  /\ LiveHolds(d) =>
       /\ d \in entriesInProgress /\ Pending(d) /\ row[d].retryCount = 0 /\ AtMostOnce(d)
       /\ live[d].pc \in {"sending", "calling"} => RestUntouched(d, live[d].part)
  /\ live[d].pc = "calling" => live[d].part =< PartsOf[d]

RowInStep(d) ==
  /\ row[d].status = "none" => row[d] = NoRow
  /\ Pending(d) => row[d].retryCount =< MAX_RETRIES
  /\ row[d].recoveryState # "none" => AtMostOnce(d)

DInv(d) == CallBegins(d) /\ DirectIsRowless(d) /\ CallInStep(d) /\ RowInStep(d)

\* What a drain has in its snapshot or in hand was enqueued.
Begun(d) == live[d].queued /\ live[d].pc # "idle"

Active == {"reconciling", "replaying", "acking", "retrying", "rejecting"}
Working == Active \cup {"claimed"}

\* A drain claims its entry beside no live call; once it works on the row, the row is
\* pending with a retry left, and a marked row is sent from part to part.
DrainInStep(k) ==
  /\ drain[k].entry \in Deliveries <=> drain[k].pc \in Working
  /\ \A d \in drain[k].todo : Begun(d)
  /\ drain[k].entry \in Deliveries =>
       LET e == drain[k].entry
       IN  /\ Begun(e) /\ e \in entriesInProgress /\ ~LiveHolds(e)
           /\ drain[k].pc \in Active =>
                live[e].pc = "over" /\ Pending(e) /\ row[e].retryCount < MAX_RETRIES
           /\ drain[k].part >= 1
           /\ drain[k].pc = "replaying" /\ row[e].recoveryState # "none" =>
                RestUntouched(e, drain[k].part)

EntriesDiffer ==
  \A j, k \in Drainers :
    j # k /\ drain[j].entry \in Deliveries => drain[j].entry # drain[k].entry

ClaimsOwned ==
  \A d \in entriesInProgress : LiveHolds(d) \/ \E k \in Drainers : drain[k].entry = d

IInv ==
  /\ TypeOK
  /\ \A d \in Deliveries : DInv(d)
  /\ \A k \in Drainers : DrainInStep(k)
  /\ EntriesDiffer /\ ClaimsOwned

-----------------------------------------------------------------------------
\* The progress of a delivery whose errors are not passed over.
NothingSkipped(d) ==
  /\ ~live[d].partial
  /\ live[d].pc \in {"sending", "calling"} =>
       \A p \in Parts(d) : p < live[d].part => platform[d][p] > 0
  /\ live[d].pc = "acking" => d \in aborted \/ \A p \in Parts(d) : platform[d][p] > 0

NothingSkippedIn(k) ==
  drain[k].entry \in Deliveries =>
    LET e == drain[k].entry
    IN  /\ drain[k].pc \in {"claimed", "reconciling"} => drain[k].part = 1
        /\ drain[k].pc = "replaying" =>
             \A p \in Parts(e) : p < drain[k].part => platform[e][p] > 0
        /\ drain[k].pc = "acking" => \A p \in Parts(e) : platform[e][p] > 0

PlatformIsFunction == platform = [x \in Deliveries |-> platform[x]]

RInv ==
  /\ PlatformIsFunction
  /\ \A d \in Deliveries : NothingSkipped(d)
  /\ \A k \in Drainers : NothingSkippedIn(k)

-----------------------------------------------------------------------------
(* Steps touch one delivery, or one drain and its entry *)

\* What a step leaves alone of a delivery.
Same(d) ==
  /\ row'[d] = row[d] /\ live'[d] = live[d] /\ platform'[d] = platform[d]
  /\ d \in entriesInProgress' <=> d \in entriesInProgress
  /\ d \in aborted' <=> d \in aborted

LEMMA SameKeeps ==
  ASSUME NEW d \in Deliveries, DInv(d), Same(d)
  PROVE  DInv(d)'
BY DEF Same, DInv, CallBegins, DirectIsRowless, CallInStep, RowInStep, LiveHolds, Pending,
       Untouched, AtMostOnce, RestUntouched, Parts

LEMMA SameKeepsDrain ==
  ASSUME TypeOK, NEW k \in Drainers, DrainInStep(k), drain'[k] = drain[k],
         \A d \in Deliveries : Begun(d) => Begun(d)',
         drain[k].entry \in Deliveries => Same(drain[k].entry)
  PROVE  DrainInStep(k)'
<1>1. drain[k].todo \subseteq Deliveries
  BY DEF TypeOK, Drain
<1>2. \A d \in drain[k].todo : Begun(d)'
  BY <1>1 DEF DrainInStep
<1>3. CASE drain[k].entry \in Deliveries
  <2> DEFINE e == drain[k].entry
  <2>1. Same(e)
    BY <1>3
  <2>2. /\ Begun(e)' <=> Begun(e)
        /\ LiveHolds(e)' <=> LiveHolds(e)
        /\ Pending(e)' <=> Pending(e)
        /\ \A n : RestUntouched(e, n)' <=> RestUntouched(e, n)
    BY <2>1 DEF Same, Begun, LiveHolds, Pending, RestUntouched, Parts
  <2> QED
    BY <1>2, <1>3, <2>1, <2>2 DEF DrainInStep, Same
<1>4. CASE drain[k].entry \notin Deliveries
  BY <1>2, <1>4 DEF DrainInStep
<1> QED
  BY <1>3, <1>4

\* A step of the live call of d.
LEMMA LiveFrame ==
  ASSUME IInv, NEW d \in Deliveries, TypeOK',
         \A x \in Deliveries \ {d} : Same(x), UNCHANGED drain,
         DInv(d)', Begun(d) => Begun(d)',
         \A k \in Drainers : drain[k].entry = d => DrainInStep(k)',
         d \in entriesInProgress' => LiveHolds(d)' \/ \E k \in Drainers : drain[k].entry = d
  PROVE  IInv'
<1>1. \A x \in Deliveries : DInv(x)'
  <2> SUFFICES ASSUME NEW x \in Deliveries PROVE DInv(x)'
    OBVIOUS
  <2> QED
    BY SameKeeps DEF IInv
<1>2. \A x \in Deliveries : Begun(x) => Begun(x)'
  BY DEF Same, Begun
<1>3. \A k \in Drainers : DrainInStep(k)'
  <2> SUFFICES ASSUME NEW k \in Drainers PROVE DrainInStep(k)'
    OBVIOUS
  <2>1. CASE drain[k].entry # d
    BY <2>1, <1>2, SameKeepsDrain DEF IInv
  <2> QED
    BY <2>1
<1>4. EntriesDiffer'
  BY DEF IInv, EntriesDiffer
<1>5. ClaimsOwned'
  <2> SUFFICES ASSUME NEW x \in entriesInProgress'
               PROVE  LiveHolds(x)' \/ \E k \in Drainers : drain[k].entry = x
    BY DEF ClaimsOwned
  <2>1. x \in Deliveries
    BY DEF TypeOK
  <2>2. CASE x # d
    BY <2>1, <2>2 DEF IInv, ClaimsOwned, Same, LiveHolds
  <2> QED
    BY <2>2
<1> QED
  BY <1>1, <1>3, <1>4, <1>5 DEF IInv

\* A step of drain k, which has e in hand before it or after it.
LEMMA DrainFrame ==
  ASSUME IInv, NEW k \in Drainers, NEW e, TypeOK',
         \A x \in Deliveries \ {e} : Same(x), UNCHANGED live,
         \A j \in Drainers \ {k} : drain'[j] = drain[j],
         e \in Deliveries => DInv(e)', DrainInStep(k)',
         {drain[k].entry, drain'[k].entry} \subseteq {e, NoDelivery},
         e \in Deliveries => \A j \in Drainers \ {k} : drain[j].entry # e,
         e \in entriesInProgress' /\ e \in Deliveries => LiveHolds(e) \/ drain'[k].entry = e
  PROVE  IInv'
<1>1. \A x \in Deliveries : DInv(x)'
  <2> SUFFICES ASSUME NEW x \in Deliveries PROVE DInv(x)'
    OBVIOUS
  <2> QED
    BY SameKeeps DEF IInv
<1>2. \A x \in Deliveries : Begun(x) => Begun(x)'
  BY DEF Begun
<1>3. \A j \in Drainers : DrainInStep(j)'
  <2> SUFFICES ASSUME NEW j \in Drainers \ {k} PROVE DrainInStep(j)'
    OBVIOUS
  <2>1. drain[j].entry \in Deliveries => Same(drain[j].entry)
    OBVIOUS
  <2> QED
    BY <2>1, <1>2, SameKeepsDrain DEF IInv
<1>4. EntriesDiffer'
  BY NoDeliveryAssumption DEF IInv, EntriesDiffer
<1>5. ClaimsOwned'
  <2> SUFFICES ASSUME NEW x \in entriesInProgress'
               PROVE  LiveHolds(x) \/ \E j \in Drainers : drain'[j].entry = x
    BY DEF ClaimsOwned, LiveHolds
  <2>1. x \in Deliveries
    BY DEF TypeOK
  <2>2. CASE x # e
    <3>1. LiveHolds(x) \/ \E j \in Drainers : drain[j].entry = x
      BY <2>1, <2>2 DEF IInv, ClaimsOwned, Same
    <3>2. drain[k].entry # x
      BY <2>1, <2>2, NoDeliveryAssumption
    <3> QED
      BY <3>1, <3>2
  <2> QED
    BY <2>1, <2>2
<1> QED
  BY <1>1, <1>3, <1>4, <1>5 DEF IInv

LEMMA InitInvariant == Init => IInv
<1> SUFFICES ASSUME Init PROVE IInv
  OBVIOUS
<1>1. TypeOK
  BY PartsOfAssumption, BoundsAssumption
  DEF Init, TypeOK, Row, NoRow, Live, Drain, IdleDrain, Parts
<1>2. \A d \in Deliveries : DInv(d)
  BY BoundsAssumption DEF Init, DInv, CallBegins, DirectIsRowless, CallInStep, RowInStep, LiveHolds, Pending,
         Untouched, AtMostOnce, FreshCall, NoRow
<1>3. \A k \in Drainers : DrainInStep(k)
  BY NoDeliveryAssumption DEF Init, DrainInStep, IdleDrain, Working, Active
<1>4. EntriesDiffer /\ ClaimsOwned
  BY NoDeliveryAssumption DEF Init, EntriesDiffer, ClaimsOwned, IdleDrain
<1> QED
  BY <1>1, <1>2, <1>3, <1>4 DEF IInv

-----------------------------------------------------------------------------
(* The live call *)

LEMMA SendsPart ==
  ASSUME TypeOK, NEW d \in Deliveries, NEW p \in Parts(d), NEW answer, Sends(d, p, answer)
  PROVE  /\ DOMAIN platform' = Deliveries
         /\ \A x \in Deliveries : platform'[x] \in [Parts(x) -> 0..MaxCopies]
         /\ \A x \in Deliveries \ {d} : platform'[x] = platform[x]
         /\ \A q \in Parts(d) \ {p} : platform'[d][q] = platform[d][q]
         /\ platform'[d][p] \in {platform[d][p], platform[d][p] + 1}
         /\ answer = "ok" => platform'[d][p] > 0
<1> DEFINE n == IF platform[d][p] < MaxCopies THEN platform[d][p] + 1 ELSE platform[d][p]
<1>1. platform[d][p] \in 0..MaxCopies /\ n \in 0..MaxCopies /\ n > 0
  BY BoundsAssumption DEF TypeOK
<1>2. platform' = [platform EXCEPT ![d] = [@ EXCEPT ![p] = n]] \/ (platform' = platform /\ answer # "ok")
  BY DEF Sends
<1> HIDE DEF n
<1>3. CASE platform' = [platform EXCEPT ![d] = [@ EXCEPT ![p] = n]]
  <2>1. DOMAIN platform' = Deliveries /\ \A x \in Deliveries \ {d} : platform'[x] = platform[x]
    BY <1>3 DEF TypeOK
  <2>2. platform'[d] = [platform[d] EXCEPT ![p] = n]
    BY <1>3 DEF TypeOK
  <2>3. platform'[d] \in [Parts(d) -> 0..MaxCopies] /\ platform'[d][p] = n
        /\ \A q \in Parts(d) \ {p} : platform'[d][q] = platform[d][q]
    BY <1>1, <2>2 DEF TypeOK
  <2> QED
    BY <1>1, <2>1, <2>3 DEF TypeOK, n
<1>4. CASE platform' = platform /\ answer # "ok"
  BY <1>4 DEF TypeOK
<1> QED
  BY <1>2, <1>3, <1>4

\* What holds of a delivery before a step of its call.
LEMMA LiveFacts ==
  ASSUME IInv, NEW d \in Deliveries
  PROVE  /\ row[d] \in Row /\ live[d] \in Live /\ live[d].part =< PartsOf[d] + 1
         /\ PartsOf[d] \in Nat /\ DInv(d)
         /\ LiveHolds(d) \/ ~Begun(d) => \A k \in Drainers : drain[k].entry # d
<1>1. LiveHolds(d) \/ ~Begun(d) => \A k \in Drainers : drain[k].entry # d
  BY DEF IInv, DrainInStep
<1> QED
  BY <1>1, PartsOfAssumption DEF IInv, TypeOK

\* A step of a call that no drain meets.
LEMMA LiveStep ==
  ASSUME IInv, NEW d \in Deliveries, LiveHolds(d) \/ ~Begun(d),
         NEW r \in Row, row' = [row EXCEPT ![d] = r],
         NEW c \in Live, c.part =< PartsOf[d] + 1, live' = [live EXCEPT ![d] = c],
         entriesInProgress' \in SUBSET Deliveries,
         \A x \in Deliveries \ {d} : x \in entriesInProgress' <=> x \in entriesInProgress,
         DOMAIN platform' = Deliveries,
         \A x \in Deliveries : platform'[x] \in [Parts(x) -> 0..MaxCopies],
         \A x \in Deliveries \ {d} : platform'[x] = platform[x],
         aborted' \in SUBSET Deliveries, aborted' \ {d} = aborted \ {d},
         UNCHANGED <<drain, crashes>>,
         DInv(d)', Begun(d) => Begun(d)',
         d \in entriesInProgress' => LiveHolds(d)'
  PROVE  IInv'
<1>1. TypeOK'
  BY DEF IInv, TypeOK, Parts
<1>2. \A x \in Deliveries \ {d} : Same(x)
  BY DEF IInv, TypeOK, Same
<1>3. \A k \in Drainers : drain[k].entry # d
  BY LiveFacts
<1> QED
  BY <1>1, <1>2, <1>3, LiveFrame

LEMMA EnqueueKeeps ==
  ASSUME IInv, NEW d \in Deliveries, Enqueue(d) \/ EnqueueFails(d)
  PROVE  IInv'
<1>1. /\ live[d] = FreshCall /\ row[d] = NoRow /\ d \notin entriesInProgress /\ Untouched(d)
      /\ ~Begun(d) /\ TypeOK /\ PartsOf[d] \in Nat
  BY LiveFacts DEF Enqueue, EnqueueFails, DInv, CallBegins, Begun, IInv
<1>2. UNCHANGED <<entriesInProgress, drain, platform, aborted, crashes>>
  BY DEF Enqueue, EnqueueFails
<1>3. /\ DOMAIN platform' = Deliveries
      /\ \A x \in Deliveries : platform'[x] \in [Parts(x) -> 0..MaxCopies]
      /\ entriesInProgress \in SUBSET Deliveries /\ aborted \in SUBSET Deliveries
      /\ Untouched(d)' /\ d \notin entriesInProgress'
  BY <1>1, <1>2 DEF TypeOK, Untouched, Parts
<1>4. CASE Enqueue(d)
  <2> DEFINE c == [FreshCall EXCEPT !.pc = "queued"]
  <2>1. /\ row' = [row EXCEPT ![d] = Fresh] /\ live' = [live EXCEPT ![d] = c]
        /\ Fresh \in Row /\ c \in Live /\ c.part =< PartsOf[d] + 1
    BY <1>1, <1>4 DEF Enqueue, Fresh, FreshCall, Row, NoRow, Live, TypeOK
  <2>2. row'[d] = Fresh /\ live'[d] = c
    BY <1>1, <2>1 DEF TypeOK
  <2>3. DInv(d)'
    BY <1>3, <2>2, BoundsAssumption
    DEF DInv, CallBegins, DirectIsRowless, CallInStep, RowInStep, LiveHolds, Fresh, FreshCall, NoRow
  <2> QED
    BY <1>1, <1>2, <1>3, <2>1, <2>2, <2>3, LiveStep
<1>5. CASE EnqueueFails(d)
  <2> DEFINE c == [FreshCall EXCEPT !.pc = IF d \in Required THEN "over" ELSE "sending",
                                    !.queued = FALSE]
  <2>1. /\ row' = [row EXCEPT ![d] = NoRow] /\ live' = [live EXCEPT ![d] = c]
        /\ NoRow \in Row /\ c \in Live /\ c.part =< PartsOf[d] + 1
    BY <1>1, <1>5 DEF EnqueueFails, Fails, FreshCall, Row, NoRow, Live, TypeOK
  <2>2. row'[d] = NoRow /\ live'[d] = c
    BY <1>1, <2>1 DEF TypeOK
  <2>3. DInv(d)'
    BY <1>3, <2>2, BoundsAssumption
    DEF DInv, CallBegins, DirectIsRowless, CallInStep, RowInStep, LiveHolds, Pending, FreshCall, NoRow
  <2> QED
    BY <1>1, <1>2, <1>3, <2>1, <2>2, <2>3, LiveStep
<1> QED
  BY <1>4, <1>5
LivePcs == {"sending", "calling", "acking", "failing"}

\* A step of a call past its claim, whatever it writes and sends: the row stays pending
\* and unretried until the call ends, and then it has at most one retry.
CallStep(d, r, c) ==
  /\ live[d].pc \in LivePcs
  /\ row' = [row EXCEPT ![d] = r] /\ live' = [live EXCEPT ![d] = c]
  /\ c.pc \in LivePcs \cup {"over"} /\ c.queued = live[d].queued /\ c.part =< PartsOf[d] + 1
  /\ c.pc = "calling" => c.part =< PartsOf[d]
  /\ entriesInProgress' = IF c.pc = "over" /\ c.queued THEN entriesInProgress \ {d}
                          ELSE entriesInProgress
  /\ \/ r = NoRow /\ c.pc = "over"
     \/ ~c.queued /\ r = row[d]
     \/ /\ c.queued /\ r.status = "pending"
        /\ r.retryCount = 0 \/ (r.retryCount = 1 /\ c.pc = "over")
  /\ DOMAIN platform' = Deliveries
  /\ \A x \in Deliveries : platform'[x] \in [Parts(x) -> 0..MaxCopies]
  /\ \A x \in Deliveries \ {d} : platform'[x] = platform[x]
  /\ c.queued => AtMostOnce(d)'
  /\ c.queued /\ c.pc \in {"sending", "calling"} => RestUntouched(d, c.part)'
  /\ aborted' \in SUBSET Deliveries /\ aborted' \ {d} = aborted \ {d}
  /\ UNCHANGED <<drain, crashes>>

LEMMA CallMoves ==
  ASSUME IInv, NEW d \in Deliveries, NEW r \in Row, NEW c \in Live, CallStep(d, r, c)
  PROVE  IInv'
<1> USE DEF CallStep
<1>1. DInv(d) /\ row[d] \in Row /\ live[d] \in Live /\ TypeOK
  BY LiveFacts DEF IInv
<1>2. live'[d] = c /\ row'[d] = r
  BY <1>1 DEF TypeOK
<1>3. /\ live[d].queued \/ (~live[d].queued /\ row[d] = NoRow /\ d \notin entriesInProgress
                             /\ d \notin Required)
      /\ live[d].queued <=> LiveHolds(d)
      /\ live[d].queued => d \in entriesInProgress
  BY <1>1 DEF DInv, DirectIsRowless, LivePcs, LiveHolds, Live, CallInStep
<1>4. LiveHolds(d) \/ ~Begun(d)
  BY <1>3 DEF Begun
<1>5. /\ d \in entriesInProgress' => c.queued /\ c.pc # "over"
      /\ c.queued /\ c.pc # "over" => d \in entriesInProgress'
  BY <1>3
<1>6. LiveHolds(d)' <=> c.queued /\ c.pc # "over"
  BY <1>2 DEF LiveHolds, LivePcs
<1>7. CallBegins(d)' /\ DirectIsRowless(d)'
  BY <1>2, <1>3, <1>5 DEF CallBegins, DirectIsRowless, LivePcs
<1>8. CallInStep(d)'
  BY <1>2, <1>5, <1>6 DEF CallInStep, Pending, NoRow
<1>9. RowInStep(d)'
  BY <1>2, <1>3, BoundsAssumption DEF RowInStep, Pending, NoRow
<1>10. Begun(d) => Begun(d)'
  BY <1>2 DEF Begun, LivePcs
<1> QED
  BY <1>1, <1>4, <1>5, <1>6, <1>7, <1>8, <1>9, <1>10, LiveStep DEF DInv, TypeOK

\* What CallMoves needs of a call that is at work.
LEMMA CallFacts ==
  ASSUME IInv, NEW d \in Deliveries, live[d].pc \in LivePcs
  PROVE  /\ row[d] \in Row /\ live[d] \in Live /\ live[d].part =< PartsOf[d] + 1
         /\ PartsOf[d] \in Nat
         /\ live[d].pc = "calling" => live[d].part =< PartsOf[d]
         /\ ~live[d].queued => row[d] = NoRow
         /\ live[d].queued => /\ row[d].status = "pending" /\ row[d].retryCount = 0
                              /\ AtMostOnce(d)
                              /\ live[d].pc \in {"sending", "calling"} =>
                                   RestUntouched(d, live[d].part)
         /\ row = [row EXCEPT ![d] = row[d]] /\ live = [live EXCEPT ![d] = live[d]]
<1>1. DInv(d) /\ TypeOK
  BY LiveFacts DEF IInv
<1> QED
  BY <1>1, LiveFacts DEF DInv, DirectIsRowless, LivePcs, LiveHolds, CallInStep, Pending, TypeOK

\* A step of a call at work that sends nothing.
QuietStep(d, r, c) ==
  /\ live[d].pc \in LivePcs
  /\ row' = [row EXCEPT ![d] = r] /\ live' = [live EXCEPT ![d] = c]
  /\ c.pc \in LivePcs \cup {"over"} /\ c.queued = live[d].queued /\ c.part =< PartsOf[d] + 1
  /\ c.pc = "calling" => c.part =< PartsOf[d]
  /\ c.pc \in {"sending", "calling"} =>
       live[d].pc \in {"sending", "calling"} /\ c.part >= live[d].part
  /\ entriesInProgress' = IF c.pc = "over" /\ c.queued THEN entriesInProgress \ {d}
                          ELSE entriesInProgress
  /\ \/ r = NoRow /\ c.pc = "over"
     \/ r = row[d]
     \/ /\ c.queued /\ r.status = "pending"
        /\ r.retryCount = 0 \/ (r.retryCount = 1 /\ c.pc = "over")
  /\ aborted' \in SUBSET Deliveries /\ aborted' \ {d} = aborted \ {d}
  /\ UNCHANGED <<platform, drain, crashes>>

LEMMA QuietMoves ==
  ASSUME IInv, NEW d \in Deliveries, NEW r \in Row, NEW c \in Live, QuietStep(d, r, c)
  PROVE  IInv'
<1> USE DEF QuietStep
<1>1. TypeOK /\ live[d].part \in Nat /\ c.part \in Nat /\ PartsOf[d] \in Nat
  BY CallFacts DEF IInv, Live
<1>2. /\ DOMAIN platform' = Deliveries
      /\ \A x \in Deliveries : platform'[x] \in [Parts(x) -> 0..MaxCopies]
      /\ \A x \in Deliveries \ {d} : platform'[x] = platform[x]
  BY <1>1 DEF TypeOK, Parts
<1>3. c.queued => AtMostOnce(d)'
  BY CallFacts DEF AtMostOnce, Parts
<1>4. c.queued /\ c.pc \in {"sending", "calling"} => RestUntouched(d, c.part)'
  <2> SUFFICES ASSUME c.queued, c.pc \in {"sending", "calling"}, NEW p \in Parts(d), p >= c.part
               PROVE  platform[d][p] = 0
    BY DEF RestUntouched, Parts
  <2>1. RestUntouched(d, live[d].part)
    BY CallFacts
  <2>2. p \in Nat /\ p >= live[d].part
    BY <1>1 DEF Parts
  <2> QED
    BY <2>1, <2>2 DEF RestUntouched
<1>5. \/ r = NoRow /\ c.pc = "over"
      \/ ~c.queued /\ r = row[d]
      \/ /\ c.queued /\ r.status = "pending"
         /\ r.retryCount = 0 \/ (r.retryCount = 1 /\ c.pc = "over")
  BY CallFacts DEF Live
<1>6. CallStep(d, r, c)
  BY <1>2, <1>3, <1>4, <1>5 DEF CallStep
<1> QED
  BY <1>6, CallMoves
\* An error and an abort of the current part as a change of the call alone.
LEMMA PartFailsTo ==
  ASSUME TypeOK, NEW d \in Deliveries, PartsOf[d] \in Nat, live[d].part =< PartsOf[d],
         PartFails(d) \/ Aborts(d)
  PROVE  \E c \in Live :
           /\ live' = [live EXCEPT ![d] = c]
           /\ c.queued = live[d].queued /\ c.part =< PartsOf[d] + 1
           /\ \/ c.pc = "sending" /\ c.part = live[d].part + 1
              \/ c.pc \in {"acking", "failing"}
<1> DEFINE c1 == [live[d] EXCEPT !.pc = "sending", !.part = @ + 1, !.partial = TRUE]
           c2 == [live[d] EXCEPT !.pc = "failing"]
           c3 == [live[d] EXCEPT !.pc = "acking"]
<1>1. /\ live[d] \in Live /\ live \in [Deliveries -> Live]
      /\ live[d].part \in Nat \ {0} /\ live[d].part + 1 \in Nat \ {0}
  BY DEF TypeOK, Live
<1>2. c1 \in Live /\ c1.pc = "sending" /\ c1.part = live[d].part + 1 /\ c1.queued = live[d].queued
  BY <1>1 DEF Live
<1>3. c2 \in Live /\ c2.pc = "failing" /\ c2.part = live[d].part /\ c2.queued = live[d].queued
  BY <1>1 DEF Live
<1>4. c3 \in Live /\ c3.pc = "acking" /\ c3.part = live[d].part /\ c3.queued = live[d].queued
  BY <1>1 DEF Live
<1>5. CASE PartFails(d) /\ d \in BestEffort
  <2>1. live' = [live EXCEPT ![d] = c1]
    BY <1>1, <1>5 DEF PartFails
  <2> HIDE DEF c1
  <2>2. c1 \in Live /\ c1.queued = live[d].queued /\ c1.part =< PartsOf[d] + 1
    BY <1>1, <1>2
  <2>3. c1.pc = "sending" /\ c1.part = live[d].part + 1
    BY <1>2
  <2> QED
    BY <2>1, <2>2, <2>3, Zenon
<1>6. CASE PartFails(d) /\ d \notin BestEffort
  <2>1. live' = [live EXCEPT ![d] = c2]
    BY <1>1, <1>6 DEF PartFails
  <2> HIDE DEF c2
  <2>2. c2 \in Live /\ c2.queued = live[d].queued /\ c2.part =< PartsOf[d] + 1
    BY <1>1, <1>3
  <2>3. c2.pc \in {"acking", "failing"}
    BY <1>3
  <2> QED
    BY <2>1, <2>2, <2>3, Zenon
<1>7. CASE Aborts(d) /\ d \notin BestEffort
  <2>1. live' = [live EXCEPT ![d] = c3]
    BY <1>1, <1>7 DEF Aborts
  <2> HIDE DEF c3
  <2>2. c3 \in Live /\ c3.queued = live[d].queued /\ c3.part =< PartsOf[d] + 1
    BY <1>1, <1>4
  <2>3. c3.pc \in {"acking", "failing"}
    BY <1>4
  <2> QED
    BY <2>1, <2>2, <2>3, Zenon
<1> QED
  BY <1>5, <1>6, <1>7 DEF Aborts

LEMMA MarkSendStartedKeeps ==
  ASSUME IInv, NEW d \in Deliveries, MarkSendStarted(d)
  PROVE  IInv'
<1>1. live[d].pc = "sending" /\ live[d].part =< PartsOf[d] /\ live[d].queued
  BY DEF MarkSendStarted, PartsLeft
<1>2. /\ TypeOK /\ row[d] \in Row /\ live[d] \in Live /\ PartsOf[d] \in Nat
      /\ row[d].status = "pending" /\ row[d].retryCount = 0
      /\ aborted' \in SUBSET Deliveries /\ aborted' = aborted
      /\ UNCHANGED <<entriesInProgress, platform, drain, crashes>>
  BY <1>1, CallFacts DEF IInv, LivePcs, MarkSendStarted, TypeOK
<1>3. CASE /\ SetsState(d, "send_attempt_started")
           /\ live' = [live EXCEPT ![d].pc = "calling", ![d].started = TRUE]
  <2> DEFINE r == [row[d] EXCEPT !.recoveryState = "send_attempt_started"]
             c == [live[d] EXCEPT !.pc = "calling", !.started = TRUE]
  <2>1. r \in Row /\ r.status = "pending" /\ r.retryCount = 0 /\ row' = [row EXCEPT ![d] = r]
    BY <1>2, <1>3 DEF Row, SetsState
  <2>2. c \in Live /\ c.pc = "calling" /\ c.part = live[d].part /\ c.queued = live[d].queued
        /\ live' = [live EXCEPT ![d] = c] /\ c.part \in Nat
    BY <1>2, <1>3 DEF Live, TypeOK
  <2> HIDE DEF r, c
  <2>3. QuietStep(d, r, c)
    BY <1>1, <1>2, <2>1, <2>2 DEF QuietStep, LivePcs
  <2> QED
    BY <2>1, <2>2, <2>3, QuietMoves
<1>4. CASE Fails /\ live' = [live EXCEPT ![d].pc = "calling"]
  <2> DEFINE c == [live[d] EXCEPT !.pc = "calling"]
  <2>1. row' = [row EXCEPT ![d] = row[d]]
    BY <1>2, <1>4 DEF Fails, TypeOK
  <2>2. c \in Live /\ c.pc = "calling" /\ c.part = live[d].part /\ c.queued = live[d].queued
        /\ live' = [live EXCEPT ![d] = c] /\ c.part \in Nat
    BY <1>2, <1>4 DEF Live, TypeOK
  <2> HIDE DEF c
  <2>3. QuietStep(d, row[d], c)
    BY <1>1, <1>2, <2>1, <2>2 DEF QuietStep, LivePcs
  <2> QED
    BY <1>2, <2>2, <2>3, QuietMoves
<1> QED
  BY <1>3, <1>4 DEF MarkSendStarted

LEMMA StopsKeep ==
  ASSUME IInv, NEW d \in Deliveries, AbortSignal(d) \/ StopAborted(d) \/ FailsUnsent(d)
  PROVE  IInv'
<1>1. live[d].pc \in {"sending", "calling"}
  BY DEF AbortSignal, StopAborted, FailsUnsent, PartsLeft
<1>2. /\ TypeOK /\ row[d] \in Row /\ live[d] \in Live /\ PartsOf[d] \in Nat
      /\ live[d].part =< PartsOf[d] + 1 /\ live[d].part \in Nat
      /\ live[d].pc = "calling" => live[d].part =< PartsOf[d]
      /\ row = [row EXCEPT ![d] = row[d]] /\ live = [live EXCEPT ![d] = live[d]]
  BY <1>1, CallFacts DEF IInv, LivePcs, Live
<1>3. UNCHANGED <<row, entriesInProgress, drain, platform, crashes>>
  BY DEF AbortSignal, StopAborted, FailsUnsent
<1>4. CASE AbortSignal(d)
  <2>1. aborted' \in SUBSET Deliveries /\ aborted' \ {d} = aborted \ {d} /\ live' = live
    BY <1>2, <1>4 DEF AbortSignal, TypeOK
  <2>2. QuietStep(d, row[d], live[d])
    BY <1>1, <1>2, <1>3, <2>1 DEF QuietStep, LivePcs
  <2> QED
    BY <1>2, <2>2, QuietMoves
<1>5. ASSUME Aborts(d) \/ PartFails(d), live[d].part =< PartsOf[d], UNCHANGED aborted
      PROVE  IInv'
  <2>1. aborted' \in SUBSET Deliveries
    BY <1>2, <1>5 DEF TypeOK
  <2>2. PICK c \in Live :
          /\ live' = [live EXCEPT ![d] = c]
          /\ c.queued = live[d].queued /\ c.part =< PartsOf[d] + 1
          /\ \/ c.pc = "sending" /\ c.part = live[d].part + 1
             \/ c.pc \in {"acking", "failing"}
    BY <1>2, <1>5, PartFailsTo
  <2>3. c.pc \in {"sending", "calling"} => c.part >= live[d].part
    BY <1>2, <2>2 DEF Live
  <2>4. QuietStep(d, row[d], c)
    BY <1>1, <1>2, <1>3, <1>5, <2>1, <2>2, <2>3 DEF QuietStep, LivePcs
  <2> QED
    BY <1>2, <2>4, QuietMoves
<1>6. CASE StopAborted(d)
  BY <1>5, <1>6 DEF StopAborted, PartsLeft
<1>7. CASE FailsUnsent(d)
  <2>1. CASE PartFails(d) /\ PartsLeft(d)
    BY <1>5, <1>7, <2>1 DEF FailsUnsent, PartsLeft
  <2>2. CASE live' = [live EXCEPT ![d].pc = "failing"]
    <3> DEFINE c == [live[d] EXCEPT !.pc = "failing"]
    <3>1. /\ c \in Live /\ c.pc = "failing" /\ c.part = live[d].part
          /\ c.queued = live[d].queued /\ live' = [live EXCEPT ![d] = c]
      BY <1>2, <2>2 DEF Live, TypeOK
    <3>2. aborted' \in SUBSET Deliveries /\ aborted' = aborted
      BY <1>2, <1>7 DEF FailsUnsent, TypeOK
    <3> HIDE DEF c
    <3>3. QuietStep(d, row[d], c)
      BY <1>1, <1>2, <1>3, <3>1, <3>2 DEF QuietStep, LivePcs
    <3> QED
      BY <1>2, <3>1, <3>3, QuietMoves
  <2> QED
    BY <1>7, <2>1, <2>2 DEF FailsUnsent
<1> QED
  BY <1>4, <1>6, <1>7

\* The last step of a call: its row is gone, retried once or as it was.
LEMMA CallEnds ==
  ASSUME IInv, NEW d \in Deliveries, live[d].pc \in LivePcs, LiveEnds(d),
         \/ row' = row
         \/ live[d].queued /\ (failDelivery(d) \/ Deletes(d))
  PROVE  IInv'
<1> DEFINE c == [live[d] EXCEPT !.pc = "over"]
<1>1. /\ TypeOK /\ row[d] \in Row /\ live[d] \in Live /\ PartsOf[d] \in Nat
      /\ live[d].part =< PartsOf[d] + 1
      /\ live[d].queued => row[d].status = "pending" /\ row[d].retryCount = 0
  BY CallFacts DEF IInv
<1>2. c \in Live /\ c.pc = "over" /\ c.part = live[d].part /\ c.queued = live[d].queued
      /\ live' = [live EXCEPT ![d] = c]
  BY <1>1 DEF Live, LiveEnds, TypeOK
<1>3. /\ entriesInProgress' = IF c.pc = "over" /\ c.queued THEN entriesInProgress \ {d}
                              ELSE entriesInProgress
      /\ UNCHANGED <<platform, drain, crashes>>
      /\ aborted' \in SUBSET Deliveries /\ aborted' = aborted
  BY <1>1, <1>2 DEF LiveEnds, release, TypeOK
<1> HIDE DEF c
<1>4. CASE row' = row
  <2>1. row' = [row EXCEPT ![d] = row[d]]
    BY <1>1, <1>4 DEF TypeOK
  <2>2. QuietStep(d, row[d], c)
    BY <1>1, <1>2, <1>3, <2>1 DEF QuietStep, LivePcs
  <2> QED
    BY <1>1, <1>2, <2>2, QuietMoves
<1>5. CASE live[d].queued /\ failDelivery(d)
  <2> DEFINE r == [row[d] EXCEPT !.retryCount = row[d].retryCount + 1]
  <2>1. r \in Row /\ r.status = "pending" /\ r.retryCount = 1 /\ row' = [row EXCEPT ![d] = r]
    BY <1>1, <1>5 DEF Row, failDelivery
  <2> HIDE DEF r
  <2>2. QuietStep(d, r, c)
    BY <1>1, <1>2, <1>3, <1>5, <2>1 DEF QuietStep, LivePcs
  <2> QED
    BY <1>2, <2>1, <2>2, QuietMoves
<1>6. CASE Deletes(d)
  <2>1. NoRow \in Row /\ row' = [row EXCEPT ![d] = NoRow]
    BY <1>6 DEF Row, NoRow, Deletes
  <2>2. QuietStep(d, NoRow, c)
    BY <1>1, <1>2, <1>3, <2>1 DEF QuietStep, LivePcs
  <2> QED
    BY <1>2, <2>1, <2>2, QuietMoves
<1> QED
  BY <1>4, <1>5, <1>6

LEMMA FinishKeeps ==
  ASSUME IInv, NEW d \in Deliveries,
         \/ FinishPartial(d) \/ FinishSent(d) \/ FinishUnqueued(d) \/ AckLive(d) \/ FailLive(d)
  PROVE  IInv'
<1>1. CASE FinishPartial(d)
  BY <1>1, CallEnds DEF FinishPartial, PartsDone, LivePcs, Fails
<1>2. CASE FinishUnqueued(d)
  BY <1>2, CallEnds DEF FinishUnqueued, PartsDone, LivePcs
<1>3. CASE AckLive(d)
  BY <1>3, CallEnds DEF AckLive, LivePcs, Fails
<1>4. CASE FailLive(d)
  BY <1>4, CallEnds DEF FailLive, LivePcs, Fails
<1>5. CASE FinishSent(d) /\ LiveEnds(d) /\ Fails
  BY <1>5, CallEnds DEF FinishSent, PartsDone, LivePcs, Fails
<1>6. CASE /\ FinishSent(d) /\ live' = [live EXCEPT ![d].pc = "acking"]
           /\ row' = row \/ SetsState(d, "unknown_after_send")
           /\ UNCHANGED <<entriesInProgress, drain, platform, aborted, crashes>>
  <2> DEFINE c == [live[d] EXCEPT !.pc = "acking"]
             r == [row[d] EXCEPT !.recoveryState = "unknown_after_send"]
  <2>1. /\ TypeOK /\ row[d] \in Row /\ live[d] \in Live /\ live[d].part =< PartsOf[d] + 1
        /\ live[d].pc \in LivePcs /\ live[d].queued
        /\ row[d].status = "pending" /\ row[d].retryCount = 0
        /\ row = [row EXCEPT ![d] = row[d]] /\ PartsOf[d] \in Nat
    BY <1>6, CallFacts DEF IInv, FinishSent, PartsDone, LivePcs
  <2>2. c \in Live /\ c.pc = "acking" /\ c.part = live[d].part /\ c.queued = live[d].queued
        /\ live' = [live EXCEPT ![d] = c]
    BY <1>6, <2>1 DEF Live, TypeOK
  <2>3. /\ r \in Row /\ r.status = "pending" /\ r.retryCount = 0
        /\ SetsState(d, "unknown_after_send") => row' = [row EXCEPT ![d] = r]
    BY <2>1 DEF Row, SetsState
  <2>4. aborted' \in SUBSET Deliveries /\ aborted' = aborted
    BY <1>6, <2>1 DEF TypeOK
  <2> HIDE DEF c, r
  <2>5. CASE row' = row
    <3>1. QuietStep(d, row[d], c)
      BY <1>6, <2>1, <2>2, <2>4, <2>5 DEF QuietStep, LivePcs
    <3> QED
      BY <2>1, <2>2, <3>1, QuietMoves
  <2>6. CASE SetsState(d, "unknown_after_send")
    <3>1. QuietStep(d, r, c)
      BY <1>6, <2>1, <2>2, <2>3, <2>4, <2>6 DEF QuietStep, LivePcs
    <3> QED
      BY <2>2, <2>3, <3>1, QuietMoves
  <2> QED
    BY <1>6, <2>5, <2>6
<1> QED
  BY <1>1, <1>2, <1>3, <1>4, <1>5, <1>6 DEF FinishSent, Fails
LEMMA CallPlatformKeeps ==
  ASSUME IInv, NEW d \in Deliveries, CallPlatform(d)
  PROVE  IInv'
<1> DEFINE p == live[d].part
<1>1. live[d].pc \in {"sending", "calling"}
  BY DEF CallPlatform, PartsLeft
<1>2. /\ TypeOK /\ row[d] \in Row /\ live[d] \in Live /\ PartsOf[d] \in Nat
      /\ p \in Nat \ {0}
      /\ live[d].pc = "calling" => p =< PartsOf[d]
      /\ ~live[d].queued => row[d] = NoRow
      /\ live[d].queued => /\ row[d].status = "pending" /\ row[d].retryCount = 0
                           /\ AtMostOnce(d) /\ RestUntouched(d, p)
  BY <1>1, CallFacts DEF IInv, LivePcs, Live
<1>3. p =< PartsOf[d] /\ p \in Parts(d)
  BY <1>2 DEF CallPlatform, PartsLeft, Parts
<1>4. PICK answer \in {"ok", "error", "abort"} :
        /\ Sends(d, p, answer)
        /\ \/ /\ answer = "ok"
              /\ live' = [live EXCEPT ![d].pc = "sending", ![d].part = @ + 1]
           \/ PartFails(d) \/ Aborts(d)
  BY DEF CallPlatform
<1>5. PICK c \in Live :
        /\ live' = [live EXCEPT ![d] = c]
        /\ c.queued = live[d].queued /\ c.part =< PartsOf[d] + 1
        /\ \/ c.pc = "sending" /\ c.part = live[d].part + 1
           \/ c.pc \in {"acking", "failing"}
  <2>1. CASE live' = [live EXCEPT ![d].pc = "sending", ![d].part = @ + 1]
    <3> DEFINE c1 == [live[d] EXCEPT !.pc = "sending", !.part = @ + 1]
    <3>0. p + 1 \in Nat \ {0}
      BY <1>2
    <3>1. c1 \in Live /\ c1.pc = "sending" /\ c1.part = p + 1 /\ c1.queued = live[d].queued
      BY <1>2, <3>0 DEF Live
    <3>2. live' = [live EXCEPT ![d] = c1]
      BY <1>2, <2>1 DEF TypeOK
    <3> HIDE DEF c1
    <3>3. c1.part =< PartsOf[d] + 1
      BY <1>2, <1>3, <3>1
    <3> QED
      BY <3>1, <3>2, <3>3, Zenon
  <2>2. CASE PartFails(d) \/ Aborts(d)
    BY <1>2, <1>3, <2>2, PartFailsTo
  <2> QED
    BY <1>4, <2>1, <2>2
<1>6. /\ DOMAIN platform' = Deliveries
      /\ \A x \in Deliveries : platform'[x] \in [Parts(x) -> 0..MaxCopies]
      /\ \A x \in Deliveries \ {d} : platform'[x] = platform[x]
      /\ \A q \in Parts(d) \ {p} : platform'[d][q] = platform[d][q]
      /\ platform'[d][p] \in {platform[d][p], platform[d][p] + 1}
  BY <1>2, <1>3, <1>4, SendsPart
<1>7. PICK after \in Nat : after = p + 1
  BY <1>2
<1>8. live[d].queued => AtMostOnce(d)' /\ RestUntouched(d, after)'
  <2> SUFFICES ASSUME live[d].queued PROVE AtMostOnce(d)' /\ RestUntouched(d, after)'
    OBVIOUS
  <2>1. platform[d][p] = 0
    BY <1>2, <1>3 DEF RestUntouched
  <2>2. \A q \in Parts(d) : platform'[d][q] =< 1
    BY <1>2, <1>6, <2>1 DEF AtMostOnce
  <2>3. \A q \in Parts(d) : q >= p + 1 => platform'[d][q] = 0
    BY <1>2, <1>6 DEF RestUntouched, Parts
  <2> QED
    BY <1>7, <2>2, <2>3 DEF AtMostOnce, RestUntouched, Parts
<1>9. row' = [row EXCEPT ![d] = row[d]] /\ aborted' \in SUBSET Deliveries /\ aborted' = aborted
      /\ entriesInProgress' = entriesInProgress /\ UNCHANGED <<drain, crashes>>
  BY <1>2 DEF CallPlatform, TypeOK
<1> HIDE DEF p
<1>10. /\ c.pc # "over" /\ c.pc # "calling" /\ c.pc \in LivePcs
       /\ c.pc \in {"sending", "calling"} => c.part = after
  BY <1>5, <1>7 DEF LivePcs, p
<1>11. c.queued => AtMostOnce(d)' /\ (c.pc \in {"sending", "calling"} => RestUntouched(d, c.part)')
  <2>0. c.queued <=> live[d].queued
    BY <1>2, <1>5 DEF Live
  <2>1. c.queued => \A q \in Parts(d) : q >= after => platform'[d][q] = 0
    BY <1>8, <2>0 DEF RestUntouched, Parts
  <2>2. ASSUME c.queued, c.pc \in {"sending", "calling"}
        PROVE  \A q \in Parts(d) : q >= c.part => platform'[d][q] = 0
    <3>1. c.part = after
      BY <1>10, <2>2
    <3>2. \A q \in Parts(d) : q >= after => platform'[d][q] = 0
      BY <2>1, <2>2
    <3> QED
      BY <3>1, <3>2
  <2>3. c.queued /\ c.pc \in {"sending", "calling"} => RestUntouched(d, c.part)'
    BY <2>2 DEF RestUntouched, Parts
  <2> QED
    BY <1>8, <2>0, <2>3
<1>12. live[d].pc \in LivePcs
  BY <1>1 DEF LivePcs
<1>13. \/ ~c.queued /\ row[d] = row[d]
       \/ c.queued /\ row[d].status = "pending" /\ row[d].retryCount = 0
  BY <1>2, <1>5 DEF Live
<1>14. /\ c.part =< PartsOf[d] + 1 /\ c.queued = live[d].queued
       /\ c.queued => AtMostOnce(d)'
  BY <1>5, <1>11
<1>15. /\ c.pc \in LivePcs \cup {"over"}
       /\ c.pc = "calling" => c.part =< PartsOf[d]
       /\ entriesInProgress' = IF c.pc = "over" /\ c.queued THEN entriesInProgress \ {d}
                               ELSE entriesInProgress
       /\ aborted' \ {d} = aborted \ {d}
  BY <1>9, <1>10
<1>16. CallStep(d, row[d], c)
  BY <1>5, <1>6, <1>9, <1>11, <1>12, <1>13, <1>14, <1>15 DEF CallStep
<1> QED
  BY <1>2, <1>16, CallMoves

LEMMA ClaimLiveKeeps ==
  ASSUME IInv, NEW d \in Deliveries, ClaimLive(d)
  PROVE  IInv'
<1>1. /\ TypeOK /\ live[d].pc = "queued" /\ live[d] = [FreshCall EXCEPT !.pc = "queued"]
      /\ row[d] = Fresh /\ Untouched(d) /\ Begun(d) /\ PartsOf[d] \in Nat /\ DInv(d)
  BY LiveFacts DEF ClaimLive, IInv, DInv, CallBegins, Begun, FreshCall
<1> DEFINE c == [FreshCall EXCEPT !.pc = IF d \in entriesInProgress THEN "over" ELSE "sending"]
<1>2. live' = [live EXCEPT ![d] = c] /\ c \in Live /\ c.queued /\ c.part = 1 /\ c.part =< PartsOf[d] + 1
  BY <1>1 DEF ClaimLive, TypeOK, Live, FreshCall
<1>3. live'[d] = c /\ \A x \in Deliveries \ {d} : live'[x] = live[x]
  BY <1>1, <1>2 DEF TypeOK
<1>4. /\ UNCHANGED <<row, drain, platform, aborted, crashes>>
      /\ entriesInProgress' = entriesInProgress \cup {d}
      /\ c.pc = IF d \in entriesInProgress THEN "over" ELSE "sending"
  BY DEF ClaimLive, FreshCall
<1> HIDE DEF c
<1>5. TypeOK'
  BY <1>1, <1>2, <1>3, <1>4 DEF TypeOK, Parts
<1>6. \A x \in Deliveries \ {d} : Same(x)
  BY <1>3, <1>4 DEF Same
<1>7. DInv(d)' /\ Begun(d)'
  <2>1. CallBegins(d)' /\ DirectIsRowless(d)' /\ Begun(d)'
    BY <1>2, <1>3, <1>4 DEF CallBegins, DirectIsRowless, Begun
  <2>2. AtMostOnce(d)' /\ RestUntouched(d, 1)'
    BY <1>1, <1>4 DEF AtMostOnce, RestUntouched, Untouched, Parts
  <2>3. CallInStep(d)'
    BY <1>1, <1>2, <1>3, <1>4, <2>2 DEF CallInStep, LiveHolds, Pending, Fresh, NoRow
  <2>4. RowInStep(d)'
    BY <1>1, <1>4, <2>2, BoundsAssumption DEF RowInStep, Pending, Fresh, NoRow
  <2> QED
    BY <2>1, <2>3, <2>4 DEF DInv
<1>8. ASSUME NEW k \in Drainers, drain[k].entry = d PROVE DrainInStep(k)'
  <2>1. DrainInStep(k) /\ d \in entriesInProgress /\ drain[k].pc = "claimed"
    BY <1>1, <1>8 DEF IInv, DrainInStep, Working
  <2>2. ~LiveHolds(d)'
    BY <1>3, <1>4, <2>1 DEF LiveHolds
  <2>3. \A x \in drain[k].todo : Begun(x)'
    <3>1. drain[k].todo \subseteq Deliveries
      BY <1>1 DEF TypeOK, Drain
    <3> QED
      BY <1>3, <1>7, <2>1, <3>1 DEF DrainInStep, Begun
  <2> QED
    BY <1>4, <1>7, <1>8, <2>1, <2>2, <2>3 DEF DrainInStep, Active
<1>9. LiveHolds(d)' \/ \E k \in Drainers : drain[k].entry = d
  <2>1. CASE d \in entriesInProgress
    BY <1>1, <2>1 DEF IInv, ClaimsOwned, LiveHolds
  <2>2. CASE d \notin entriesInProgress
    BY <1>2, <1>3, <1>4, <2>2 DEF LiveHolds
  <2> QED
    BY <2>1, <2>2
<1> QED
  BY <1>4, <1>5, <1>6, <1>7, <1>8, <1>9, LiveFrame
LEMMA LiveKeeps ==
  ASSUME IInv, NEW d \in Deliveries, LiveNext(d)
  PROVE  IInv'
BY EnqueueKeeps, ClaimLiveKeeps, MarkSendStartedKeeps, CallPlatformKeeps, StopsKeep, FinishKeeps
DEF LiveNext

-----------------------------------------------------------------------------
(* The drains *)

\* What holds before a step of a drain; no other drain has its entry.
LEMMA DrainFacts ==
  ASSUME IInv, NEW k \in Drainers
  PROVE  /\ TypeOK /\ drain[k] \in Drain /\ DrainInStep(k)
         /\ drain[k].entry \in Deliveries <=> drain[k].pc \in Working
         /\ drain[k].entry \in Deliveries =>
              /\ DInv(drain[k].entry) /\ row[drain[k].entry] \in Row
              /\ PartsOf[drain[k].entry] \in Nat
              /\ \A j \in Drainers \ {k} : drain[j].entry # drain[k].entry
<1>1. TypeOK /\ drain[k] \in Drain /\ DrainInStep(k)
  BY DEF IInv, TypeOK
<1>2. drain[k].entry \in Deliveries <=> drain[k].pc \in Working
  BY <1>1 DEF DrainInStep
<1>3. ASSUME drain[k].entry \in Deliveries
      PROVE  /\ DInv(drain[k].entry) /\ row[drain[k].entry] \in Row
             /\ PartsOf[drain[k].entry] \in Nat
             /\ \A j \in Drainers \ {k} : drain[j].entry # drain[k].entry
  BY <1>1, <1>3, PartsOfAssumption DEF IInv, TypeOK, EntriesDiffer
<1> QED
  BY <1>1, <1>2, <1>3

\* A step between two entries.
ScanStep(k, x) ==
  /\ drain[k].pc \notin Working
  /\ drain' = [drain EXCEPT ![k] = x]
  /\ x.entry = NoDelivery /\ x.pc \notin Working
  /\ \A d \in x.todo : Begun(d)
  /\ UNCHANGED <<row, entriesInProgress, live, platform, aborted, crashes>>

LEMMA ScanMoves ==
  ASSUME IInv, NEW k \in Drainers, NEW x \in Drain, ScanStep(k, x)
  PROVE  IInv'
<1>1. /\ TypeOK /\ drain[k].entry = NoDelivery
      /\ UNCHANGED <<row, entriesInProgress, live, platform, aborted, crashes>>
  BY DrainFacts DEF ScanStep, Drain
<1>2. drain' \in [Drainers -> Drain] /\ drain'[k] = x
      /\ \A j \in Drainers \ {k} : drain'[j] = drain[j]
  BY <1>1 DEF ScanStep, TypeOK
<1>3. TypeOK'
  BY <1>1, <1>2 DEF TypeOK, Parts
<1>4. \A d \in Deliveries \ {NoDelivery} : Same(d)
  BY <1>1 DEF Same
<1>5. DrainInStep(k)'
  BY <1>1, <1>2, NoDeliveryAssumption DEF ScanStep, DrainInStep, Begun
<1>6. {drain[k].entry, drain'[k].entry} \subseteq {NoDelivery}
  BY <1>1, <1>2 DEF ScanStep
<1> QED
  BY <1>1, <1>2, <1>3, <1>4, <1>5, <1>6, NoDeliveryAssumption, DrainFrame

LEMMA PendingBegun ==
  ASSUME IInv, NEW d \in Deliveries, Pending(d)
  PROVE  Begun(d)
BY LiveFacts DEF DInv, CallBegins, DirectIsRowless, Begun, Pending, NoRow

LEMMA StartDrainKeeps ==
  ASSUME IInv, NEW k \in Drainers, StartDrain(k)
  PROVE  IInv'
<1> DEFINE x == [IdleDrain EXCEPT !.pc = "scanning", !.todo = {d \in Matching[k] : Pending(d)}]
<1>1. {d \in Matching[k] : Pending(d)} \subseteq Deliveries
  BY DrainersAssumption
<1>2. x \in Drain /\ x.pc = "scanning" /\ x.entry = NoDelivery
      /\ x.todo = {d \in Matching[k] : Pending(d)}
  BY <1>1 DEF Drain, IdleDrain
<1>3. \A d \in x.todo : Begun(d)
  BY <1>1, <1>2, PendingBegun
<1>4. ScanStep(k, x)
  BY <1>2, <1>3 DEF StartDrain, ScanStep, Working, Active
<1> QED
  BY <1>2, <1>4, ScanMoves

LEMMA EndDrainKeeps ==
  ASSUME IInv, NEW k \in Drainers, EndDrain(k)
  PROVE  IInv'
<1> DEFINE x == [IdleDrain EXCEPT !.pc = IF k = Startup THEN "over" ELSE "idle"]
<1>1. x \in Drain /\ x.pc \in {"over", "idle"} /\ x.entry = NoDelivery /\ x.todo = {}
  BY DEF Drain, IdleDrain
<1>2. ScanStep(k, x)
  BY <1>1 DEF EndDrain, ScanStep, Working, Active
<1> QED
  BY <1>1, <1>2, ScanMoves

LEMMA ClaimEntryKeeps ==
  ASSUME IInv, NEW k \in Drainers, NEW d \in Deliveries, ClaimEntry(k, d)
  PROVE  IInv'
<1>1. /\ TypeOK /\ drain[k] \in Drain /\ drain[k].pc = "scanning" /\ drain[k].pc \notin Working
      /\ drain[k].entry = NoDelivery /\ d \in drain[k].todo
      /\ \A z \in drain[k].todo : Begun(z)
      /\ UNCHANGED <<row, live, platform, aborted, crashes>>
  BY DrainFacts DEF ClaimEntry, Working, Active, Drain, DrainInStep
<1>2. CASE d \in entriesInProgress
  <2> DEFINE x == [drain[k] EXCEPT !.todo = drain[k].todo \ {d}]
  <2>1. x \in Drain /\ x.pc = drain[k].pc /\ x.entry = drain[k].entry /\ x.todo \subseteq drain[k].todo
    BY <1>1 DEF Drain
  <2>2. drain' = [drain EXCEPT ![k] = x] /\ UNCHANGED entriesInProgress
    BY <1>1, <1>2 DEF ClaimEntry, TypeOK
  <2> HIDE DEF x
  <2>3. ScanStep(k, x)
    BY <1>1, <2>1, <2>2 DEF ScanStep
  <2> QED
    BY <2>1, <2>3, ScanMoves
<1>3. CASE d \notin entriesInProgress
  <2> DEFINE x == [pc |-> "claimed", todo |-> drain[k].todo \ {d}, entry |-> d, part |-> 1]
  <2>1. x \in Drain /\ x.pc = "claimed" /\ x.entry = d /\ x.todo \subseteq drain[k].todo /\ x.part = 1
    BY <1>1 DEF Drain
  <2>2. drain' = [drain EXCEPT ![k] = x] /\ entriesInProgress' = entriesInProgress \cup {d}
    BY <1>1, <1>3 DEF ClaimEntry, TypeOK
  <2> HIDE DEF x
  <2>3. drain' \in [Drainers -> Drain] /\ drain'[k] = x
        /\ \A j \in Drainers \ {k} : drain'[j] = drain[j]
    BY <1>1, <2>1, <2>2 DEF TypeOK
  <2>4. TypeOK'
    BY <1>1, <2>2, <2>3 DEF TypeOK, Parts
  <2>5. \A z \in Deliveries \ {d} : Same(z)
    BY <1>1, <2>2 DEF Same
  <2>6. /\ Begun(d) /\ ~LiveHolds(d) /\ DInv(d)
        /\ \A j \in Drainers : drain[j].entry # d
    BY <1>1, <1>3, LiveFacts, DrainFacts DEF DInv, CallInStep, DrainInStep
  <2>7. DInv(d)'
    BY <1>1, <2>2, <2>6
    DEF DInv, CallBegins, DirectIsRowless, CallInStep, RowInStep, LiveHolds, Pending, Begun,
        Untouched, AtMostOnce, RestUntouched, Parts
  <2>8. DrainInStep(k)'
    BY <1>1, <2>1, <2>2, <2>3, <2>6 DEF DrainInStep, Begun, LiveHolds, Working, Active
  <2>9. {drain[k].entry, drain'[k].entry} \subseteq {d, NoDelivery} /\ drain'[k].entry = d
    BY <1>1, <2>1, <2>3
  <2> QED
    BY <1>1, <2>3, <2>4, <2>5, <2>6, <2>7, <2>8, <2>9, DrainFrame
<1> QED
  BY <1>2, <1>3
\* A step of a drain at work on e, which keeps it and its row.
WorkStep(k, e, x) ==
  /\ drain[k].pc \in Working /\ drain[k].entry = e
  /\ drain' = [drain EXCEPT ![k] = x]
  /\ x.entry = e /\ x.todo = drain[k].todo /\ x.pc \in Active /\ x.part >= 1
  /\ live[e].pc = "over" /\ Pending(e) /\ row[e].retryCount < MAX_RETRIES
  /\ row[e].recoveryState # "none" => AtMostOnce(e)'
  /\ row[e].recoveryState # "none" /\ x.pc = "replaying" => RestUntouched(e, x.part)'
  /\ DOMAIN platform' = Deliveries
  /\ \A d \in Deliveries : platform'[d] \in [Parts(d) -> 0..MaxCopies]
  /\ \A d \in Deliveries \ {e} : platform'[d] = platform[d]
  /\ UNCHANGED <<row, entriesInProgress, live, aborted, crashes>>

LEMMA WorkMoves ==
  ASSUME IInv, NEW k \in Drainers, NEW e \in Deliveries, NEW x \in Drain, WorkStep(k, e, x)
  PROVE  IInv'
<1>1. /\ TypeOK /\ DInv(e) /\ DrainInStep(k)
      /\ \A j \in Drainers \ {k} : drain[j].entry # e
      /\ UNCHANGED <<row, entriesInProgress, live, aborted, crashes>>
  BY DrainFacts DEF WorkStep
<1>2. drain' \in [Drainers -> Drain] /\ drain'[k] = x
      /\ \A j \in Drainers \ {k} : drain'[j] = drain[j]
  BY <1>1 DEF WorkStep, TypeOK
<1>3. TypeOK'
  BY <1>1, <1>2 DEF WorkStep, TypeOK, Parts
<1>4. \A d \in Deliveries \ {e} : Same(d)
  BY <1>1 DEF WorkStep, Same
<1>5. DInv(e)'
  BY <1>1 DEF WorkStep, DInv, CallBegins, DirectIsRowless, CallInStep, RowInStep, LiveHolds, Pending
<1>6. DrainInStep(k)'
  <2>1. Begun(e) /\ e \in entriesInProgress /\ \A d \in drain[k].todo : Begun(d)
    BY <1>1 DEF WorkStep, DrainInStep
  <2>2. row[e].recoveryState # "none" /\ x.pc = "replaying" =>
          \A p \in Parts(e) : p >= x.part => platform'[e][p] = 0
    BY DEF WorkStep, RestUntouched, Parts
  <2>3. drain'[k].entry = e /\ drain'[k].pc \in Working /\ drain'[k].todo = drain[k].todo
        /\ drain'[k].part = x.part /\ drain'[k].pc = x.pc /\ x.part >= 1
    BY <1>2 DEF WorkStep, Working
  <2>4. Begun(e)' /\ e \in entriesInProgress' /\ ~LiveHolds(e)' /\ live'[e].pc = "over"
        /\ Pending(e)' /\ row'[e].retryCount < MAX_RETRIES /\ row'[e] = row[e]
    BY <1>1, <2>1 DEF WorkStep, Begun, LiveHolds, Pending
  <2>5. \A d \in drain'[k].todo : Begun(d)'
    BY <1>1, <2>1, <2>3 DEF Begun
  <2>6. drain'[k].pc = "replaying" /\ row'[e].recoveryState # "none" =>
          \A p \in Parts(e) : p >= drain'[k].part => platform'[e][p] = 0
    BY <2>2, <2>3, <2>4
  <2>7. RestUntouched(drain[k].entry, drain[k].part)' <=>
          \A p \in Parts(e) : p >= drain'[k].part => platform'[e][p] = 0
    BY <2>3 DEF RestUntouched, Parts
  <2>8. Begun(drain[k].entry)' /\ ~LiveHolds(drain[k].entry)' /\ Pending(drain[k].entry)'
    BY <2>3, <2>4 DEF Begun, LiveHolds, Pending
  <2> QED
    BY <2>3, <2>4, <2>5, <2>6, <2>7, <2>8 DEF DrainInStep
<1>7. {drain[k].entry, drain'[k].entry} \subseteq {e, NoDelivery} /\ drain'[k].entry = e
  BY <1>2 DEF WorkStep
<1> QED
  BY <1>1, <1>2, <1>3, <1>4, <1>5, <1>6, <1>7, DrainFrame

\* What a drain that has its entry in hand, and one that has read it again, relies on.
LEMMA ActiveFacts ==
  ASSUME IInv, NEW k \in Drainers, drain[k].pc \in Working, NEW e, drain[k].entry = e
  PROVE  /\ TypeOK /\ e \in Deliveries /\ drain[k] \in Drain /\ row[e] \in Row
         /\ PartsOf[e] \in Nat /\ drain[k].part >= 1 /\ Begun(e) /\ live[e] \in Live
         /\ drain[k].pc \in Active =>
              live[e].pc = "over" /\ Pending(e) /\ row[e].retryCount < MAX_RETRIES
         /\ row[e].recoveryState # "none" => AtMostOnce(e)
         /\ row[e].recoveryState # "none" /\ drain[k].pc = "replaying" =>
              RestUntouched(e, drain[k].part)
<1>1. e \in Deliveries /\ DInv(e) /\ DrainInStep(k) /\ row[e] \in Row /\ PartsOf[e] \in Nat
      /\ drain[k] \in Drain /\ TypeOK /\ live[e] \in Live
  BY DrainFacts, LiveFacts
<1> QED
  BY <1>1 DEF DInv, RowInStep, DrainInStep

LEMMA GoesMoves ==
  ASSUME IInv, NEW k \in Drainers, NEW e \in Deliveries, drain[k].entry = e,
         NEW pc \in Active, drain[k].pc \in Working, Goes(k, pc),
         live[e].pc = "over", Pending(e), row[e].retryCount < MAX_RETRIES,
         row[e].recoveryState # "none" /\ pc = "replaying" => RestUntouched(e, drain[k].part)
  PROVE  IInv'
<1> DEFINE x == [drain[k] EXCEPT !.pc = pc]
<1>1. /\ TypeOK /\ drain[k] \in Drain /\ drain[k].part >= 1
      /\ row[e].recoveryState # "none" => AtMostOnce(e)
  BY ActiveFacts
<1>2. x \in Drain /\ x.pc = pc /\ x.entry = e /\ x.todo = drain[k].todo /\ x.part = drain[k].part
      /\ drain' = [drain EXCEPT ![k] = x]
  BY <1>1 DEF Drain, Goes, Active, TypeOK
<1>3. /\ UNCHANGED <<row, entriesInProgress, live, platform, aborted, crashes>>
      /\ DOMAIN platform' = Deliveries
      /\ \A d \in Deliveries : platform'[d] \in [Parts(d) -> 0..MaxCopies]
  BY <1>1 DEF Goes, TypeOK, Parts
<1> HIDE DEF x
<1>4. PICK y \in Drain : y = x
  BY <1>2
<1>5. row[e].recoveryState # "none" => AtMostOnce(e)'
  BY <1>1, <1>3 DEF AtMostOnce, Parts
<1>6. row[e].recoveryState # "none" /\ y.pc = "replaying" => RestUntouched(e, y.part)'
  BY <1>2, <1>3, <1>4 DEF RestUntouched, Parts
<1>7. WorkStep(k, e, y)
  BY <1>1, <1>2, <1>3, <1>4, <1>5, <1>6 DEF WorkStep
<1> QED
  BY <1>7, WorkMoves

LEMMA ProceedKeeps ==
  ASSUME IInv, NEW k \in Drainers, Proceed(k)
  PROVE  IInv'
<1>1. PICK e : e = drain[k].entry
  OBVIOUS
<1>2. /\ drain[k].pc = "claimed" /\ drain[k].pc \in Working /\ live[e].pc # "queued"
      /\ Pending(e) /\ row[e].retryCount < MAX_RETRIES
      /\ Goes(k, IF row[e].recoveryState = "none" THEN "replaying" ELSE "reconciling")
  BY <1>1 DEF Proceed, Working
<1>3. e \in Deliveries /\ DrainInStep(k) /\ TypeOK
  BY <1>1, <1>2, DrainFacts
<1>4. live[e].pc = "over"
  <2>1. live[e] \in Live /\ Begun(e) /\ ~LiveHolds(e)
    BY <1>1, <1>3 DEF TypeOK, DrainInStep
  <2> QED
    BY <1>2, <2>1 DEF Live, Begun, LiveHolds
<1>5. CASE row[e].recoveryState = "none"
  BY <1>1, <1>2, <1>3, <1>4, <1>5, GoesMoves DEF Active
<1>6. CASE row[e].recoveryState # "none"
  BY <1>1, <1>2, <1>3, <1>4, <1>6, GoesMoves DEF Active
<1> QED
  BY <1>5, <1>6

LEMMA ReconcileKeeps ==
  ASSUME IInv, NEW k \in Drainers, Reconcile(k) \/ ReplayFailsUnsent(k) \/ Replayed(k)
  PROVE  IInv'
<1>1. PICK e : e = drain[k].entry
  OBVIOUS
<1>2. drain[k].pc \in {"reconciling", "replaying"} /\ drain[k].pc \in Active /\ drain[k].pc \in Working
  BY DEF Reconcile, ReplayFailsUnsent, Replayed, Active, Working
<1>3. /\ e \in Deliveries /\ live[e].pc = "over" /\ Pending(e) /\ row[e].retryCount < MAX_RETRIES
      /\ PartsOf[e] \in Nat
  BY <1>1, <1>2, ActiveFacts
<1>4. CASE /\ \A p \in Parts(e) : platform[e][p] = 0
           /\ Goes(k, "replaying")
  <2>1. RestUntouched(e, drain[k].part)
    BY <1>4 DEF RestUntouched
  <2> QED
    BY <1>1, <1>2, <1>3, <1>4, <2>1, GoesMoves DEF Active
<1>5. CASE Goes(k, "acking") \/ Goes(k, "retrying") \/ Goes(k, "rejecting")
  BY <1>1, <1>2, <1>3, <1>5, GoesMoves DEF Active
<1> QED
  BY <1>1, <1>4, <1>5 DEF Reconcile, ReplayFailsUnsent, Replayed

LEMMA CallReplayKeeps ==
  ASSUME IInv, NEW k \in Drainers, CallReplay(k)
  PROVE  IInv'
<1>1. PICK e, p : e = drain[k].entry /\ p = drain[k].part
  OBVIOUS
<1>2. drain[k].pc = "replaying" /\ drain[k].pc \in Active /\ drain[k].pc \in Working /\ p =< PartsOf[e]
      /\ UNCHANGED <<row, entriesInProgress, live, aborted, crashes>>
  BY <1>1 DEF CallReplay, Active, Working
<1>3. /\ TypeOK /\ e \in Deliveries /\ live[e].pc = "over" /\ Pending(e)
      /\ row[e].retryCount < MAX_RETRIES
      /\ PartsOf[e] \in Nat /\ p >= 1 /\ p \in Nat /\ drain[k] \in Drain
      /\ row[e].recoveryState # "none" => AtMostOnce(e) /\ RestUntouched(e, p)
  BY <1>1, <1>2, ActiveFacts DEF Drain
<1>4. p \in Parts(e)
  BY <1>2, <1>3 DEF Parts
<1>5. PICK answer : /\ Sends(e, p, answer)
                    /\ \/ drain' = [drain EXCEPT ![k].part = @ + 1]
                       \/ drain' = [drain EXCEPT ![k].pc = "retrying"]
                       \/ drain' = [drain EXCEPT ![k].pc = "rejecting"]
  BY <1>1 DEF CallReplay
<1>6. /\ DOMAIN platform' = Deliveries
      /\ \A d \in Deliveries : platform'[d] \in [Parts(d) -> 0..MaxCopies]
      /\ \A d \in Deliveries \ {e} : platform'[d] = platform[d]
      /\ \A q \in Parts(e) \ {p} : platform'[e][q] = platform[e][q]
      /\ platform'[e][p] \in {platform[e][p], platform[e][p] + 1}
  BY <1>3, <1>4, <1>5, SendsPart
<1>7. PICK x \in Drain :
        /\ drain' = [drain EXCEPT ![k] = x]
        /\ x.entry = e /\ x.todo = drain[k].todo
        /\ x.pc \in Active /\ x.part >= 1
        /\ x.pc = "replaying" => x.part = p + 1
  <2> DEFINE x1 == [drain[k] EXCEPT !.part = @ + 1]
             x2 == [drain[k] EXCEPT !.pc = "retrying"]
             x3 == [drain[k] EXCEPT !.pc = "rejecting"]
  <2>1. \/ drain' = [drain EXCEPT ![k] = x1]
        \/ drain' = [drain EXCEPT ![k] = x2]
        \/ drain' = [drain EXCEPT ![k] = x3]
    BY <1>3, <1>5 DEF TypeOK
  <2>2. /\ x1 \in Drain /\ x1.entry = e /\ x1.todo = drain[k].todo /\ x1.pc \in Active
        /\ x1.part = p + 1 /\ x1.part >= 1
    BY <1>1, <1>2, <1>3 DEF Drain
  <2>3. /\ x2 \in Drain /\ x2.entry = e /\ x2.todo = drain[k].todo /\ x2.pc \in Active
        /\ x2.pc # "replaying" /\ x2.part >= 1
    BY <1>1, <1>3 DEF Drain, Active
  <2>4. /\ x3 \in Drain /\ x3.entry = e /\ x3.todo = drain[k].todo /\ x3.pc \in Active
        /\ x3.pc # "replaying" /\ x3.part >= 1
    BY <1>1, <1>3 DEF Drain, Active
  <2> HIDE DEF x1, x2, x3
  <2> QED
    BY <2>1, <2>2, <2>3, <2>4, Zenon
<1>8. row[e].recoveryState # "none" => AtMostOnce(e)'
  <2> SUFFICES ASSUME row[e].recoveryState # "none", NEW q \in Parts(e) PROVE platform'[e][q] =< 1
    BY DEF AtMostOnce, Parts
  <2> QED
    BY <1>3, <1>4, <1>6 DEF AtMostOnce, RestUntouched, Parts
<1>9. row[e].recoveryState # "none" /\ x.pc = "replaying" => RestUntouched(e, x.part)'
  <2> SUFFICES ASSUME row[e].recoveryState # "none", x.pc = "replaying",
                      NEW q \in Parts(e), q >= x.part
               PROVE  platform'[e][q] = 0
    BY DEF RestUntouched, Parts
  <2> QED
    BY <1>3, <1>6, <1>7 DEF RestUntouched, Parts
<1>10. WorkStep(k, e, x)
  BY <1>1, <1>2, <1>3, <1>6, <1>7, <1>8, <1>9 DEF WorkStep
<1> QED
  BY <1>3, <1>10, WorkMoves
\* A step of a drain that is done with its entry e, whose row it may have written.
ReleaseStep(k, e, r, x) ==
  /\ drain[k].pc \in Working /\ drain[k].entry = e
  /\ row' = [row EXCEPT ![e] = r] /\ drain' = [drain EXCEPT ![k] = x]
  /\ x.entry = NoDelivery /\ x.pc \notin Working /\ x.todo \subseteq drain[k].todo
  /\ r.status = "none" => r = NoRow
  /\ r.status = "pending" => r.retryCount =< MAX_RETRIES
  /\ r.recoveryState \in {row[e].recoveryState, "none"}
  /\ r = row[e] \/ live[e].pc = "over"
  /\ release(e)
  /\ UNCHANGED <<live, platform, aborted, crashes>>

LEMMA ReleaseMoves ==
  ASSUME IInv, NEW k \in Drainers, NEW e \in Deliveries, NEW r \in Row, NEW x \in Drain,
         ReleaseStep(k, e, r, x)
  PROVE  IInv'
<1>1. /\ TypeOK /\ DInv(e) /\ DrainInStep(k) /\ Begun(e) /\ ~LiveHolds(e)
      /\ \A j \in Drainers \ {k} : drain[j].entry # e
      /\ UNCHANGED <<live, platform, aborted, crashes>>
      /\ entriesInProgress' = entriesInProgress \ {e}
  BY DrainFacts DEF ReleaseStep, DrainInStep, release
<1>2. /\ drain' \in [Drainers -> Drain] /\ drain'[k] = x
      /\ \A j \in Drainers \ {k} : drain'[j] = drain[j]
      /\ row' \in [Deliveries -> Row] /\ row'[e] = r
      /\ \A d \in Deliveries \ {e} : row'[d] = row[d]
  BY <1>1 DEF ReleaseStep, TypeOK
<1>3. TypeOK'
  BY <1>1, <1>2 DEF TypeOK, Parts
<1>4. \A d \in Deliveries \ {e} : Same(d)
  BY <1>1, <1>2 DEF Same
<1>5. CallBegins(e)' /\ DirectIsRowless(e)' /\ CallInStep(e)'
  BY <1>1, <1>2
  DEF ReleaseStep, DInv, CallBegins, DirectIsRowless, CallInStep, LiveHolds, Begun, Untouched, Parts
<1>6. RowInStep(e)'
  BY <1>1, <1>2 DEF ReleaseStep, DInv, RowInStep, Pending, AtMostOnce, Parts
<1>7. DrainInStep(k)'
  BY <1>1, <1>2, NoDeliveryAssumption DEF ReleaseStep, DrainInStep, Begun
<1>8. {drain[k].entry, drain'[k].entry} \subseteq {e, NoDelivery}
  BY <1>2 DEF ReleaseStep
<1>9. e \notin entriesInProgress'
  BY <1>1
<1> QED
  BY <1>1, <1>2, <1>3, <1>4, <1>5, <1>6, <1>7, <1>8, <1>9, DrainFrame DEF DInv

\* The ways a row is left when a drain lets go of it.
LEMMA WrittenRows ==
  ASSUME IInv, NEW e \in Deliveries,
         \/ UNCHANGED row
         \/ Deletes(e)
         \/ failDelivery(e) /\ Pending(e) /\ row[e].retryCount < MAX_RETRIES
         \/ moveToFailed(e)
  PROVE  \E r \in Row :
           /\ row' = [row EXCEPT ![e] = r]
           /\ r.status = "none" => r = NoRow
           /\ r.status = "pending" => r.retryCount =< MAX_RETRIES
           /\ r.recoveryState \in {row[e].recoveryState, "none"}
           /\ row' = row => r = row[e]
<1>1. TypeOK /\ row[e] \in Row /\ RowInStep(e) /\ MAX_RETRIES \in Nat /\ NoRow \in Row
  BY LiveFacts, BoundsAssumption DEF IInv, DInv, Row, NoRow
<1>2. CASE UNCHANGED row
  <2>1. row' = [row EXCEPT ![e] = row[e]]
    BY <1>1, <1>2 DEF TypeOK
  <2> QED
    BY <1>1, <2>1 DEF RowInStep, Pending
<1>3. CASE Deletes(e)
  <2>1. row' = [row EXCEPT ![e] = NoRow] /\ (row' = row => NoRow = row[e])
    BY <1>1, <1>3 DEF Deletes, TypeOK
  <2>2. NoRow.status = "none" /\ NoRow.recoveryState = "none"
    BY DEF NoRow
  <2> QED
    BY <1>1, <2>1, <2>2
<1>4. CASE failDelivery(e) /\ Pending(e) /\ row[e].retryCount < MAX_RETRIES
  <2> DEFINE r == [row[e] EXCEPT !.retryCount = row[e].retryCount + 1]
  <2>1. row' = [row EXCEPT ![e] = r] /\ (row' = row => r = row[e])
    BY <1>1, <1>4 DEF failDelivery, TypeOK
  <2>2. r \in Row /\ r.status = row[e].status /\ r.retryCount =< MAX_RETRIES
        /\ r.recoveryState = row[e].recoveryState
    BY <1>1, <1>4 DEF Row
  <2>3. r.status = "pending"
    BY <1>4, <2>2 DEF Pending
  <2> HIDE DEF r
  <2> QED
    BY <1>1, <2>1, <2>2, <2>3
<1>5. CASE moveToFailed(e)
  <2> DEFINE r == [row[e] EXCEPT !.status = "failed"]
  <2>1. row' = [row EXCEPT ![e] = r] /\ (row' = row => r = row[e])
    BY <1>1, <1>5 DEF moveToFailed, TypeOK
  <2>2. r \in Row /\ r.status = "failed" /\ r.recoveryState = row[e].recoveryState
    BY <1>1 DEF Row
  <2> HIDE DEF r
  <2> QED
    BY <2>1, <2>2
<1> QED
  BY <1>2, <1>3, <1>4, <1>5
LEMMA LetsGoKeeps ==
  ASSUME IInv, NEW k \in Drainers, NEW e, drain[k].entry = e, drain[k].pc \in Working,
         \/ UNCHANGED row
         \/ Deletes(e)
         \/ failDelivery(e) /\ Pending(e) /\ row[e].retryCount < MAX_RETRIES
         \/ moveToFailed(e),
         row' = row \/ live[e].pc = "over",
         Scans(k) \/ drain' = [drain EXCEPT ![k] = IdleDrain],
         release(e), UNCHANGED <<live, platform, aborted, crashes>>
  PROVE  IInv'
<1>1. e \in Deliveries /\ TypeOK /\ drain[k] \in Drain
  BY ActiveFacts
<1>2. PICK r \in Row :
        /\ row' = [row EXCEPT ![e] = r]
        /\ r.status = "none" => r = NoRow
        /\ r.status = "pending" => r.retryCount =< MAX_RETRIES
        /\ r.recoveryState \in {row[e].recoveryState, "none"}
        /\ row' = row => r = row[e]
  BY <1>1, WrittenRows
<1>3. PICK x \in Drain :
        /\ drain' = [drain EXCEPT ![k] = x]
        /\ x.entry = NoDelivery /\ x.pc \notin Working /\ x.todo \subseteq drain[k].todo
  <2>1. CASE Scans(k)
    <3> DEFINE x == [drain[k] EXCEPT !.pc = "scanning", !.entry = NoDelivery, !.part = 0]
    <3>1. x \in Drain /\ x.entry = NoDelivery /\ x.pc \notin Working /\ x.todo = drain[k].todo
      BY <1>1 DEF Drain, Working, Active
    <3>2. drain' = [drain EXCEPT ![k] = x]
      BY <1>1, <2>1 DEF Scans, TypeOK
    <3> HIDE DEF x
    <3> QED
      BY <3>1, <3>2
  <2>2. CASE drain' = [drain EXCEPT ![k] = IdleDrain]
    <3>1. /\ IdleDrain \in Drain /\ IdleDrain.entry = NoDelivery /\ IdleDrain.pc \notin Working
          /\ IdleDrain.todo \subseteq drain[k].todo
      BY DEF IdleDrain, Drain, Working, Active
    <3> QED
      BY <2>2, <3>1
  <2> QED
    BY <2>1, <2>2
<1>4. ReleaseStep(k, e, r, x)
  BY <1>2, <1>3 DEF ReleaseStep
<1> QED
  BY <1>1, <1>4, ReleaseMoves

LEMMA SkipEntryKeeps ==
  ASSUME IInv, NEW k \in Drainers, SkipEntry(k)
  PROVE  IInv'
<1>1. PICK e : e = drain[k].entry
  OBVIOUS
<1>2. /\ drain[k].pc \in Working /\ Scans(k) /\ release(e)
      /\ UNCHANGED <<row, live, platform, aborted, crashes>>
  BY <1>1 DEF SkipEntry, Releases, Working
<1> QED
  BY <1>1, <1>2, LetsGoKeeps

\* A row without retries left is not the fresh row of a call before its claim.
LEMMA ExhaustEntryKeeps ==
  ASSUME IInv, NEW k \in Drainers, ExhaustEntry(k)
  PROVE  IInv'
<1>1. PICK e : e = drain[k].entry
  OBVIOUS
<1>2. /\ drain[k].pc \in Working /\ release(e) /\ row[e].retryCount >= MAX_RETRIES
      /\ Scans(k) \/ drain' = [drain EXCEPT ![k] = IdleDrain]
      /\ UNCHANGED row \/ moveToFailed(e)
      /\ UNCHANGED <<live, platform, aborted, crashes>>
  BY <1>1 DEF ExhaustEntry, Working, Fails
<1>3. e \in Deliveries /\ DrainInStep(k) /\ DInv(e) /\ live[e] \in Live
  BY <1>1, <1>2, DrainFacts, ActiveFacts
<1>4. row[e] # Fresh
  BY <1>2, BoundsAssumption DEF Fresh, NoRow
<1>5. Begun(e) /\ ~LiveHolds(e) /\ live[e].pc # "queued"
  BY <1>1, <1>3, <1>4 DEF DrainInStep, DInv, CallBegins
<1>6. live[e].pc = "over"
  BY <1>3, <1>5 DEF Live, Begun, LiveHolds
<1> QED
  BY <1>1, <1>2, <1>6, LetsGoKeeps

LEMMA SettleEntryKeeps ==
  ASSUME IInv, NEW k \in Drainers, AckEntry(k) \/ RetryEntry(k) \/ RejectEntry(k)
  PROVE  IInv'
<1>1. PICK e : e = drain[k].entry
  OBVIOUS
<1>2. drain[k].pc \in Active /\ drain[k].pc \in Working
  BY DEF AckEntry, RetryEntry, RejectEntry, Active, Working
<1>3. /\ e \in Deliveries /\ live[e].pc = "over" /\ Pending(e) /\ row[e].retryCount < MAX_RETRIES
  BY <1>1, <1>2, ActiveFacts
<1>4. CASE Goes(k, "retrying")
  BY <1>1, <1>2, <1>3, <1>4, GoesMoves DEF Active
<1>5. CASE /\ Releases(k)
           /\ Deletes(e) \/ failDelivery(e) \/ moveToFailed(e) \/ Fails
  BY <1>1, <1>2, <1>3, <1>5, LetsGoKeeps DEF Releases, Fails
<1> QED
  BY <1>1, <1>4, <1>5 DEF AckEntry, RetryEntry, RejectEntry

LEMMA DrainKeeps ==
  ASSUME IInv, NEW k \in Drainers, DrainNext(k)
  PROVE  IInv'
BY StartDrainKeeps, ClaimEntryKeeps, SkipEntryKeeps, ExhaustEntryKeeps, ProceedKeeps,
   ReconcileKeeps, CallReplayKeeps, SettleEntryKeeps, EndDrainKeeps DEF DrainNext

-----------------------------------------------------------------------------
(* The crash, and the theorems *)

LEMMA CrashKeeps ==
  ASSUME IInv, Crash
  PROVE  IInv'
<1>1. /\ TypeOK /\ UNCHANGED <<row, platform, aborted>> /\ entriesInProgress' = {}
      /\ drain' = [k \in Drainers |-> IdleDrain]
      /\ crashes < MaxCrashes /\ crashes' = crashes + 1
  BY DEF IInv, Crash
<1>2. \A d \in Deliveries :
        /\ live'[d] \in Live /\ live'[d].part = live[d].part /\ live'[d].queued = live[d].queued
        /\ \/ live[d].pc = "idle" /\ live'[d] = live[d]
           \/ live[d].pc # "idle" /\ live'[d].pc = "over"
  BY <1>1 DEF Crash, TypeOK, Live
<1>3. live' \in [Deliveries -> Live] /\ IdleDrain \in Drain
  BY <1>2 DEF Crash, Drain, IdleDrain
<1>4. TypeOK'
  BY <1>1, <1>2, <1>3, BoundsAssumption DEF TypeOK, Parts
<1>5. \A d \in Deliveries : DInv(d)'
  <2> SUFFICES ASSUME NEW d \in Deliveries PROVE DInv(d)'
    OBVIOUS
  <2>1. DInv(d)
    BY DEF IInv
  <2>2. ~LiveHolds(d)'
    BY <1>2 DEF LiveHolds
  <2>3. CallBegins(d)'
    BY <1>1, <1>2, <2>1 DEF DInv, CallBegins, Untouched, Parts
  <2>4. DirectIsRowless(d)'
    BY <1>1, <1>2, <2>1 DEF DInv, CallBegins, DirectIsRowless, FreshCall
  <2>5. CallInStep(d)' /\ RowInStep(d)'
    BY <1>1, <1>2, <2>1, <2>2 DEF DInv, CallInStep, RowInStep, Pending, AtMostOnce, Parts
  <2> QED
    BY <2>3, <2>4, <2>5 DEF DInv
<1>6. \A k \in Drainers : DrainInStep(k)'
  BY <1>1, NoDeliveryAssumption DEF DrainInStep, IdleDrain, Working, Active
<1>7. EntriesDiffer' /\ ClaimsOwned'
  BY <1>1, NoDeliveryAssumption DEF EntriesDiffer, ClaimsOwned, IdleDrain
<1> QED
  BY <1>4, <1>5, <1>6, <1>7 DEF IInv

LEMMA StepKeeps ==
  ASSUME IInv, Next
  PROVE  IInv'
BY LiveKeeps, DrainKeeps, CrashKeeps DEF Next

LEMMA StutterKeeps ==
  ASSUME IInv, UNCHANGED vars
  PROVE  IInv'
BY DEF vars, IInv, TypeOK, DInv, CallBegins, DirectIsRowless, CallInStep, RowInStep, DrainInStep,
       EntriesDiffer, ClaimsOwned, LiveHolds, Pending, Untouched, AtMostOnce, RestUntouched,
       Parts, Begun

\* What the rest follows from: the invariant holds in every reachable state.
THEOREM Invariance == Spec => []IInv
<1>1. IInv /\ [Next]_vars => IInv'
  BY StepKeeps, StutterKeeps
<1> QED
  BY InitInvariant, <1>1, PTL DEF Spec

\* The variables of the queue keep their types (delivery-queue-storage.ts).
THEOREM TypeCorrect == Spec => []TypeOK
<1>1. IInv => TypeOK
  BY DEF IInv
<1> QED
  BY Invariance, <1>1, PTL

\* No failure is counted past the limit of retries: a drain replays a row only with a
\* retry left, and the live call fails a row that was never retried.  Attempts whose
\* failure is not written are outside the count; Copies bounds what they send.
THEOREM RetryBound == Spec => []RetriesBounded
<1>1. IInv => RetriesBounded
  BY DEF IInv, DInv, RowInStep, RetriesBounded
<1> QED
  BY Invariance, <1>1, PTL

\* A marked row is never replayed blindly: each of its parts went out at most once.
THEOREM MarkedOnce == Spec => []MarkedSendsOnce
<1>1. IInv => MarkedSendsOnce
  BY DEF IInv, DInv, RowInStep, AtMostOnce, MarkedSendsOnce
<1> QED
  BY Invariance, <1>1, PTL

\* A claim has exactly one holder, the live call or one drain, and a row without a
\* claim has none (withActiveDeliveryClaim, claimRecoveryEntry).
THEOREM ClaimExclusion == Spec => []ClaimsExclusive
<1>1. ASSUME IInv PROVE ClaimsExclusive
  <2> SUFFICES ASSUME NEW d \in Deliveries
               PROVE  Cardinality(Holders(d)) = (IF d \in entriesInProgress THEN 1 ELSE 0)
    BY DEF ClaimsExclusive
  <2>1. DInv(d) /\ ClaimsOwned /\ EntriesDiffer
    BY <1>1 DEF IInv
  <2>2. \A k \in Drainers : drain[k].entry = d => d \in entriesInProgress /\ ~LiveHolds(d)
    BY <1>1 DEF IInv, DrainInStep
  <2>3. CASE LiveHolds(d)
    <3>1. Holders(d) = {"live"} /\ d \in entriesInProgress
      BY <2>1, <2>2, <2>3 DEF Holders, DInv, CallInStep
    <3> QED
      BY <3>1, FS_Singleton
  <2>4. CASE ~LiveHolds(d) /\ d \in entriesInProgress
    <3>1. PICK k \in Drainers : drain[k].entry = d
      BY <2>1, <2>4 DEF ClaimsOwned
    <3>2. Holders(d) = {k}
      BY <2>1, <2>4, <3>1 DEF Holders, EntriesDiffer
    <3> QED
      BY <2>4, <3>2, FS_Singleton
  <2>5. CASE ~LiveHolds(d) /\ d \notin entriesInProgress
    <3>1. Holders(d) = {}
      BY <2>2, <2>5 DEF Holders
    <3> QED
      BY <2>5, <3>1, FS_EmptySet
  <2> QED
    BY <2>3, <2>4, <2>5
<1> QED
  BY Invariance, <1>1, PTL
-----------------------------------------------------------------------------
(* The queue implements the durable send, where no error of a part is passed *)
(* over and no timeout of the platform looks like the caller's abort         *)

NothingPassedOver == BestEffort = {} /\ AbortErrors = FALSE

\* The platform forgets no part, and an abort is never taken back.
LEMMA PlatformGrows ==
  ASSUME IInv, Next
  PROVE  /\ aborted \subseteq aborted'
         /\ \A x \in Deliveries : \A p \in Parts(x) : platform[x][p] > 0 => platform'[x][p] > 0
         /\ PlatformIsFunction => PlatformIsFunction'
<1>1. ASSUME NEW d \in Deliveries, NEW p \in Parts(d), NEW answer, Sends(d, p, answer)
      PROVE  /\ \A x \in Deliveries : \A q \in Parts(x) :
                  platform[x][q] > 0 => platform'[x][q] > 0
             /\ PlatformIsFunction => PlatformIsFunction'
  <2>1. /\ \A x \in Deliveries \ {d} : platform'[x] = platform[x]
        /\ \A q \in Parts(d) \ {p} : platform'[d][q] = platform[d][q]
        /\ platform'[d][p] \in {platform[d][p], platform[d][p] + 1}
        /\ platform[d][p] \in Nat
    BY <1>1, SendsPart DEF IInv, TypeOK
  <2>2. PlatformIsFunction => PlatformIsFunction'
    BY <1>1 DEF Sends, PlatformIsFunction
  <2> QED
    BY <2>1, <2>2
<1>2. ASSUME NEW d \in Deliveries, LiveNext(d)
      PROVE  /\ aborted \subseteq aborted'
             /\ UNCHANGED platform \/ \E p \in Parts(d), answer \in {"ok", "error", "abort"} :
                                        Sends(d, p, answer)
  <2>1. CASE CallPlatform(d)
    <3>1. live[d].pc \in LivePcs /\ UNCHANGED aborted
      BY <2>1 DEF CallPlatform, PartsLeft, LivePcs
    <3>2. live[d].part \in Parts(d)
      BY <2>1, <3>1, CallFacts DEF CallPlatform, PartsLeft, Parts, Live
    <3> QED
      BY <2>1, <3>1, <3>2 DEF CallPlatform
  <2>2. CASE ~CallPlatform(d)
    BY <1>2, <2>2
    DEF LiveNext, Enqueue, EnqueueFails, ClaimLive, FailsUnsent, MarkSendStarted, AbortSignal,
        StopAborted, FinishPartial, FinishSent, FinishUnqueued, AckLive, FailLive, LiveEnds
  <2> QED
    BY <2>1, <2>2
<1>3. ASSUME NEW k \in Drainers, DrainNext(k)
      PROVE  /\ UNCHANGED aborted
             /\ UNCHANGED platform \/ \E d \in Deliveries :
                  \E p \in Parts(d), answer \in {"ok", "error", "permanent"} : Sends(d, p, answer)
  <2>1. CASE CallReplay(k)
    <3>1. PICK e : e = drain[k].entry
      OBVIOUS
    <3>2. drain[k].pc \in Working /\ drain[k].part =< PartsOf[e] /\ UNCHANGED aborted
      BY <2>1, <3>1 DEF CallReplay, Working, Active
    <3>3. e \in Deliveries /\ drain[k].part \in Parts(e)
      BY <3>1, <3>2, ActiveFacts DEF Parts, Drain
    <3> QED
      BY <2>1, <3>1, <3>2, <3>3 DEF CallReplay
  <2>2. CASE ~CallReplay(k)
    BY <1>3, <2>2
    DEF DrainNext, StartDrain, ClaimEntry, SkipEntry, ExhaustEntry, Proceed, Reconcile,
        ReplayFailsUnsent, Replayed, AckEntry, RetryEntry, RejectEntry, EndDrain, Releases, Goes
  <2> QED
    BY <2>1, <2>2
<1>4. UNCHANGED platform => (PlatformIsFunction => PlatformIsFunction')
  BY DEF PlatformIsFunction
<1>5. CASE \E d \in Deliveries : LiveNext(d)
  BY <1>1, <1>2, <1>4, <1>5
<1>6. CASE \E k \in Drainers : DrainNext(k)
  BY <1>1, <1>3, <1>4, <1>6
<1>7. CASE Crash
  BY <1>4, <1>7 DEF Crash
<1> QED
  BY <1>5, <1>6, <1>7 DEF Next

\* The call of d skips no part.
LEMMA CallSkipsNothing ==
  ASSUME NothingPassedOver, IInv, RInv, NEW d \in Deliveries, LiveNext(d)
  PROVE  NothingSkipped(d)'
<1>1. /\ TypeOK /\ live[d] \in Live /\ DInv(d) /\ NothingSkipped(d) /\ PartsOf[d] \in Nat
      /\ live \in [Deliveries -> Live] /\ live[d].part \in Nat
  BY LiveFacts DEF RInv, IInv, TypeOK, Live
<1>2. /\ aborted \subseteq aborted'
      /\ \A p \in Parts(d) : platform[d][p] > 0 => platform'[d][p] > 0
  BY PlatformGrows DEF Next
<1>3. CASE live'[d].pc = "over" /\ live'[d].partial = live[d].partial
  BY <1>1, <1>3 DEF NothingSkipped
<1>4. CASE Enqueue(d) \/ EnqueueFails(d)
  <2>1. live[d] = FreshCall
    BY <1>1, <1>4 DEF Enqueue, EnqueueFails, DInv, CallBegins
  <2>2. live'[d].part = 1 /\ ~live'[d].partial /\ live'[d].pc # "acking"
    BY <1>1, <1>4, <2>1 DEF Enqueue, EnqueueFails, FreshCall
  <2> QED
    BY <2>2 DEF NothingSkipped, Parts
<1>5. CASE ClaimLive(d)
  <2>1. live[d] = [FreshCall EXCEPT !.pc = "queued"]
    BY <1>1, <1>5 DEF ClaimLive, DInv, CallBegins
  <2>2. PICK pc \in {"over", "sending"} : live' = [live EXCEPT ![d].pc = pc]
    BY <1>5 DEF ClaimLive
  <2>3. live'[d] = [live[d] EXCEPT !.pc = pc]
    BY <1>1, <2>2
  <2>4. live'[d].part = 1 /\ ~live'[d].partial /\ live'[d].pc # "acking"
    BY <2>1, <2>3 DEF FreshCall
  <2> QED
    BY <2>4 DEF NothingSkipped, Parts
<1>6. CASE PartFails(d)
  BY <1>1, <1>6 DEF PartFails, NothingPassedOver, NothingSkipped
<1>7. CASE /\ live[d].pc = "sending"
           /\ live'[d].pc = "calling" /\ live'[d].part = live[d].part
           /\ live'[d].partial = live[d].partial
  BY <1>1, <1>2, <1>7 DEF NothingSkipped, Parts
<1>8. CASE CallPlatform(d)
  <2>1. live[d].pc \in {"sending", "calling"} /\ live[d].pc \in LivePcs
    BY <1>8 DEF CallPlatform, PartsLeft, LivePcs
  <2>2. live[d].part \in Parts(d)
    BY <1>1, <1>8, <2>1, CallFacts DEF CallPlatform, PartsLeft, Parts, Live
  <2>3. CASE /\ Sends(d, live[d].part, "ok")
             /\ live' = [live EXCEPT ![d].pc = "sending", ![d].part = @ + 1]
    <3>1. platform'[d][live[d].part] > 0
      BY <1>1, <2>2, <2>3, SendsPart
    <3>2. live'[d].pc = "sending" /\ live'[d].part = live[d].part + 1
          /\ live'[d].partial = live[d].partial
      BY <1>1, <2>3
    <3> QED
      BY <1>1, <1>2, <2>1, <3>1, <3>2 DEF NothingSkipped, Parts
  <2> QED
    BY <1>6, <1>8, <2>3 DEF CallPlatform, NothingPassedOver
<1>9. CASE AbortSignal(d)
  BY <1>1, <1>2, <1>9 DEF AbortSignal, NothingSkipped, Parts
<1>10. CASE StopAborted(d)
  <2>1. d \in aborted' /\ live' = [live EXCEPT ![d].pc = "acking"]
    BY <1>2, <1>10 DEF StopAborted, Aborts, NothingPassedOver
  <2>2. live'[d].pc = "acking" /\ live'[d].partial = live[d].partial
    BY <1>1, <2>1
  <2> QED
    BY <1>1, <2>1, <2>2 DEF NothingSkipped
<1>11. CASE PartsDone(d) /\ live' = [live EXCEPT ![d].pc = "acking"]
  <2>1. \A p \in Parts(d) : platform[d][p] > 0
    BY <1>1, <1>11 DEF PartsDone, NothingSkipped, Parts
  <2>2. live'[d].pc = "acking" /\ live'[d].partial = live[d].partial
    BY <1>1, <1>11
  <2> QED
    BY <1>1, <1>2, <2>1, <2>2 DEF NothingSkipped, Parts
<1>12. CASE MarkSendStarted(d)
  <2>1. /\ live[d].pc = "sending"
        /\ \/ live' = [live EXCEPT ![d].pc = "calling", ![d].started = TRUE]
           \/ live' = [live EXCEPT ![d].pc = "calling"]
    BY <1>12 DEF MarkSendStarted, PartsLeft
  <2>2. \/ live'[d] = [live[d] EXCEPT !.pc = "calling", !.started = TRUE]
        \/ live'[d] = [live[d] EXCEPT !.pc = "calling"]
    BY <1>1, <2>1
  <2>3. /\ live'[d].pc = "calling" /\ live'[d].part = live[d].part
        /\ live'[d].partial = live[d].partial
    BY <1>1, <2>2 DEF Live
  <2> QED
    BY <1>7, <2>1, <2>3
<1>13. CASE LiveEnds(d)
  BY <1>1, <1>3, <1>13 DEF LiveEnds
<1>14. CASE FailsUnsent(d)
  <2>1. CASE live' = [live EXCEPT ![d].pc = "failing"]
    <3>1. live'[d].pc = "failing" /\ live'[d].partial = live[d].partial
      BY <1>1, <2>1
    <3> QED
      BY <1>1, <1>2, <3>1 DEF NothingSkipped, Parts
  <2> QED
    BY <1>6, <1>14, <2>1 DEF FailsUnsent
<1> QED
  BY <1>4, <1>5, <1>8, <1>9, <1>10, <1>11, <1>12, <1>13, <1>14
  DEF LiveNext, FinishPartial, FinishSent, FinishUnqueued, AckLive, FailLive

\* A drain skips no part of its entry.
LEMMA DrainSkipsNothing ==
  ASSUME NothingPassedOver, IInv, RInv, NEW k \in Drainers, DrainNext(k)
  PROVE  NothingSkippedIn(k)'
<1>1. PICK e : e = drain[k].entry
  OBVIOUS
<1>2. /\ TypeOK /\ drain[k] \in Drain /\ NothingSkippedIn(k)
      /\ e \in Deliveries <=> drain[k].pc \in Working
      /\ e \in Deliveries => PartsOf[e] \in Nat
  BY <1>1, DrainFacts DEF RInv, TypeOK
<1>3. \A x \in Deliveries : \A p \in Parts(x) : platform[x][p] > 0 => platform'[x][p] > 0
  BY PlatformGrows DEF Next
<1>4. CASE drain'[k].entry = NoDelivery
  BY <1>4, NoDeliveryAssumption DEF NothingSkippedIn
<1>5. CASE Scans(k) \/ StartDrain(k) \/ EndDrain(k) \/ ExhaustEntry(k)
  <2>1. CASE Scans(k)
    <3>1. drain'[k] = [drain[k] EXCEPT !.pc = "scanning", !.entry = NoDelivery, !.part = 0]
      BY <1>2, <2>1 DEF Scans, TypeOK
    <3> QED
      BY <1>2, <1>4, <3>1 DEF Drain
  <2>2. CASE drain' = [drain EXCEPT ![k] = IdleDrain]
    BY <1>2, <1>4, <2>2 DEF IdleDrain, TypeOK
  <2>3. CASE StartDrain(k)
    BY <1>2, <1>4, <2>3 DEF StartDrain, IdleDrain, TypeOK
  <2>4. CASE EndDrain(k)
    BY <1>2, <1>4, <2>4 DEF EndDrain, IdleDrain, TypeOK
  <2> QED
    BY <1>5, <2>1, <2>2, <2>3, <2>4 DEF ExhaustEntry
<1>6. ASSUME NEW x \in Deliveries, ClaimEntry(k, x)
      PROVE  NothingSkippedIn(k)'
  <2>1. CASE x \in entriesInProgress
    <3>1. e = NoDelivery
      BY <1>1, <1>2, <1>6 DEF ClaimEntry, Working, Active, Drain
    <3>2. drain' = [drain EXCEPT ![k] = [drain[k] EXCEPT !.todo = drain[k].todo \ {x}]]
      BY <1>2, <1>6, <2>1 DEF ClaimEntry, TypeOK
    <3>3. drain'[k] = [drain[k] EXCEPT !.todo = drain[k].todo \ {x}]
      BY <1>2, <3>2 DEF TypeOK
    <3>4. drain'[k].entry = e
      BY <1>1, <1>2, <3>3 DEF Drain
    <3> QED
      BY <1>4, <3>1, <3>4
  <2>2. CASE x \notin entriesInProgress
    <3>1. drain'[k].pc = "claimed" /\ drain'[k].part = 1
      BY <1>2, <1>6, <2>2 DEF ClaimEntry, TypeOK
    <3> QED
      BY <3>1 DEF NothingSkippedIn
  <2> QED
    BY <2>1, <2>2
<1>7. ASSUME NEW pc, Goes(k, pc), drain[k].pc \in Working,
             pc = "replaying" => drain[k].part = 1,
             pc = "acking" => \A p \in Parts(e) : platform[e][p] > 0,
             pc \notin {"claimed", "reconciling"} \/ drain[k].part = 1
      PROVE  NothingSkippedIn(k)'
  <2>1. drain'[k].pc = pc /\ drain'[k].entry = e /\ drain'[k].part = drain[k].part /\ e \in Deliveries
    BY <1>1, <1>2, <1>7 DEF Goes, TypeOK
  <2>2. \A p \in Parts(e) : p >= 1
    BY DEF Parts
  <2>3. pc = "acking" => \A p \in Parts(e) : platform'[e][p] > 0
    BY <1>3, <1>7, <2>1
  <2> QED
    BY <1>7, <2>1, <2>2, <2>3 DEF NothingSkippedIn, Parts
<1>8. CASE Proceed(k)
  <2>1. drain[k].pc = "claimed" /\ drain[k].pc \in Working
    BY <1>8 DEF Proceed, Working
  <2>2. drain[k].part = 1
    BY <1>1, <1>2, <2>1 DEF NothingSkippedIn
  <2> QED
    BY <1>7, <1>8, <2>1, <2>2 DEF Proceed
<1>9. CASE Reconcile(k)
  <2>1. drain[k].pc = "reconciling" /\ drain[k].pc \in Working
    BY <1>9 DEF Reconcile, Working, Active
  <2>2. drain[k].part = 1
    BY <1>1, <1>2, <2>1 DEF NothingSkippedIn
  <2> QED
    BY <1>1, <1>7, <1>9, <2>1, <2>2 DEF Reconcile
<1>10. CASE Replayed(k)
  <2>1. drain[k].pc = "replaying" /\ drain[k].pc \in Working /\ drain[k].part > PartsOf[e]
    BY <1>1, <1>10 DEF Replayed, Working, Active
  <2>2. \A p \in Parts(e) : platform[e][p] > 0
    BY <1>1, <1>2, <2>1 DEF NothingSkippedIn, Parts, Drain
  <2> QED
    BY <1>7, <1>10, <2>1, <2>2 DEF Replayed
<1>11. CASE Goes(k, "retrying") /\ drain[k].pc = "acking"
  BY <1>7, <1>11 DEF Working, Active
<1>12. CASE CallReplay(k)
  <2>1. /\ drain[k].pc = "replaying" /\ drain[k].pc \in Working /\ drain[k].part =< PartsOf[e]
        /\ e \in Deliveries
    BY <1>1, <1>2, <1>12 DEF CallReplay, Working, Active
  <2>2. drain[k].part \in Parts(e)
    BY <1>1, <1>2, <2>1, ActiveFacts DEF Parts, Drain
  <2>3. CASE Sends(e, drain[k].part, "ok") /\ drain' = [drain EXCEPT ![k].part = @ + 1]
    <3>1. platform'[e][drain[k].part] > 0
      BY <1>2, <2>1, <2>2, <2>3, SendsPart
    <3>2. /\ drain'[k].pc = "replaying" /\ drain'[k].part = drain[k].part + 1
          /\ drain'[k].entry = e
      BY <1>1, <1>2, <2>1, <2>3 DEF TypeOK
    <3>3. \A p \in Parts(e) : p < drain[k].part + 1 => platform'[e][p] > 0
      BY <1>1, <1>2, <1>3, <2>1, <3>1 DEF NothingSkippedIn, Parts, Drain
    <3> QED
      BY <3>2, <3>3 DEF NothingSkippedIn, Parts
  <2>4. CASE \/ drain' = [drain EXCEPT ![k].pc = "retrying"]
             \/ drain' = [drain EXCEPT ![k].pc = "rejecting"]
    <3>1. drain'[k].pc \in {"retrying", "rejecting"}
      BY <1>2, <2>4 DEF TypeOK, Drain
    <3> QED
      BY <3>1 DEF NothingSkippedIn
  <2> QED
    BY <1>1, <1>12, <2>3, <2>4 DEF CallReplay, NothingPassedOver
<1>13. CASE ReplayFailsUnsent(k)
  BY <1>7, <1>13 DEF ReplayFailsUnsent, Working, Active
<1> QED
  BY <1>5, <1>6, <1>8, <1>9, <1>10, <1>11, <1>12, <1>13
  DEF DrainNext, SkipEntry, AckEntry, RetryEntry, RejectEntry, Releases
LEMMA SkippedNothingKeeps ==
  ASSUME NothingPassedOver, IInv, RInv, [Next]_vars
  PROVE  RInv'
<1>1. CASE UNCHANGED vars
  BY <1>1 DEF vars, RInv, NothingSkipped, NothingSkippedIn, PlatformIsFunction, Parts
<1>2. CASE Next
  <2>1. /\ aborted \subseteq aborted'
        /\ \A x \in Deliveries : \A p \in Parts(x) : platform[x][p] > 0 => platform'[x][p] > 0
        /\ PlatformIsFunction'
    BY <1>2, PlatformGrows DEF RInv
  <2>2. ASSUME NEW x \in Deliveries, live'[x] = live[x] PROVE NothingSkipped(x)'
    BY <2>1, <2>2 DEF RInv, NothingSkipped, Parts
  <2>3. ASSUME NEW k \in Drainers, drain'[k] = drain[k] PROVE NothingSkippedIn(k)'
    BY <2>1, <2>3 DEF RInv, NothingSkippedIn, Parts
  <2>4. CASE \E d \in Deliveries : LiveNext(d)
    <3>1. PICK d \in Deliveries : LiveNext(d)
      BY <2>4
    <3>2. UNCHANGED drain /\ \A x \in Deliveries \ {d} : live'[x] = live[x]
      BY <3>1
      DEF IInv, TypeOK, LiveNext, Enqueue, EnqueueFails, ClaimLive, FailsUnsent,
          MarkSendStarted, CallPlatform, AbortSignal, StopAborted, FinishPartial, FinishSent,
          FinishUnqueued, AckLive, FailLive,
          LiveEnds, PartFails, Aborts
    <3>3. NothingSkipped(d)'
      BY <3>1, CallSkipsNothing
    <3> QED
      BY <2>1, <2>2, <2>3, <3>2, <3>3 DEF RInv
  <2>5. CASE \E k \in Drainers : DrainNext(k)
    <3>1. PICK k \in Drainers : DrainNext(k)
      BY <2>5
    <3>2. UNCHANGED live /\ \A j \in Drainers \ {k} : drain'[j] = drain[j]
      BY <3>1
      DEF IInv, TypeOK, DrainNext, StartDrain, ClaimEntry, SkipEntry, ExhaustEntry, Proceed,
          Reconcile, CallReplay, ReplayFailsUnsent, Replayed, AckEntry, RetryEntry, RejectEntry,
          EndDrain, Releases, Scans, Goes
    <3>3. NothingSkippedIn(k)'
      BY <3>1, DrainSkipsNothing
    <3> QED
      BY <2>1, <2>2, <2>3, <3>2, <3>3 DEF RInv
  <2>6. CASE Crash
    <3>1. \A x \in Deliveries : /\ live'[x].partial = live[x].partial
                                /\ live'[x] = live[x] \/ live'[x].pc = "over"
      BY <2>6 DEF Crash, IInv, TypeOK, Live
    <3>2. \A x \in Deliveries : NothingSkipped(x)'
      BY <2>2, <3>1 DEF RInv, NothingSkipped
    <3>3. \A k \in Drainers : drain'[k].entry = NoDelivery
      BY <2>6 DEF Crash, IdleDrain
    <3> QED
      BY <2>1, <3>2, <3>3, NoDeliveryAssumption DEF RInv, NothingSkippedIn
  <2> QED
    BY <1>2, <2>4, <2>5, <2>6 DEF Next
<1> QED
  BY <1>1, <1>2

\* A step that leaves what became of x as it was.
Settled(x) ==
  /\ \/ row'[x] = row[x]
     \/ row[x] # NoRow /\ row'[x] # NoRow /\ row'[x].status = row[x].status
  /\ live'[x].pc = "idle" <=> live[x].pc = "idle"
  /\ live'[x].queued = live[x].queued
  /\ platform'[x] = platform[x] \/ row[x] # NoRow \/ ~live[x].queued

LEMMA IntentKept ==
  ASSUME NEW x \in Deliveries, Settled(x)
  PROVE  Intent(x)' = Intent(x)
BY DEF Settled, Intent, Parts

LEMMA IntentsStay ==
  ASSUME \A x \in Deliveries : Settled(x), UNCHANGED <<platform, aborted>>
  PROVE  UNCHANGED Durable!vars
<1>1. \A x \in Deliveries : Intent(x)' = Intent(x)
  BY IntentKept
<1>2. [x \in Deliveries |-> Intent(x)]' = [x \in Deliveries |-> Intent(x)]
  BY <1>1
<1> QED
  BY <1>2 DEF Durable!vars

LEMMA IntentMoves ==
  ASSUME NEW d \in Deliveries, NEW from, NEW to, \A x \in Deliveries \ {d} : Settled(x),
         Intent(d) = from, Intent(d)' = to, UNCHANGED <<platform, aborted>>
  PROVE  Durable!Moves(d, from, to)
<1>1. \A x \in Deliveries \ {d} : Intent(x)' = Intent(x)
  BY IntentKept
<1>2. [x \in Deliveries |-> Intent(x)]'
        = [[x \in Deliveries |-> Intent(x)] EXCEPT ![d] = to]
  BY <1>1
<1> QED
  BY <1>2 DEF Durable!Moves

\* A part is committed for a delivery that is pending or goes out directly.
LEMMA SendCommits ==
  ASSUME IInv, RInv, NEW d \in Deliveries, NEW p \in Parts(d), NEW answer, Sends(d, p, answer),
         Pending(d) \/ (~live[d].queued /\ d \notin Required /\ live[d].pc # "idle"),
         UNCHANGED <<row, aborted>>,
         \A x \in Deliveries : /\ live'[x].pc = "idle" <=> live[x].pc = "idle"
                               /\ live'[x].queued = live[x].queued
  PROVE  Durable!Commit(d) \/ UNCHANGED Durable!vars
<1>1. TypeOK /\ row[d] \in Row /\ DInv(d)
  BY LiveFacts DEF IInv
<1>2. \A x \in Deliveries \ {d} : platform'[x] = platform[x]
  BY <1>1, SendsPart
<1>3. row[d] # NoRow \/ ~live[d].queued
  BY DEF Pending, NoRow
<1>4. \A x \in Deliveries : Settled(x)
  BY <1>2, <1>3 DEF Settled
<1>5. CASE platform' = platform
  BY <1>4, <1>5, IntentsStay
<1>6. CASE platform' = [platform EXCEPT ![d][p] = @ + 1]
  <2>1. Intent(d) \in {"pending", "bypassed"}
    BY <1>1 DEF Intent, Pending, NoRow, DInv, DirectIsRowless
  <2>2. [x \in Deliveries |-> Intent(x)]' = [x \in Deliveries |-> Intent(x)]
    BY <1>4, IntentKept
  <2> QED
    BY <1>6, <2>1, <2>2 DEF Durable!Commit, Durable!Parts, Parts
<1>7. platform' = platform \/ platform' = [platform EXCEPT ![d][p] = @ + 1]
  <2>1. CASE platform[d][p] < MaxCopies
    BY <2>1 DEF Sends
  <2>2. CASE ~(platform[d][p] < MaxCopies)
    <3>1. [platform[d] EXCEPT ![p] = platform[d][p]] = platform[d]
      BY <1>1 DEF TypeOK
    <3>2. [platform EXCEPT ![d] = platform[d]] = platform
      BY DEF RInv, PlatformIsFunction
    <3> QED
      BY <2>2, <3>1, <3>2 DEF Sends
  <2> QED
    BY <2>1, <2>2
<1> QED
  BY <1>5, <1>6, <1>7

LEMMA EnqueueImplements ==
  ASSUME IInv, NEW d \in Deliveries, Enqueue(d) \/ EnqueueFails(d)
  PROVE  Durable!Accept(d) \/ Durable!Refuse(d) \/ Durable!Bypass(d)
<1>1. /\ TypeOK /\ row[d] = NoRow /\ live[d].pc = "idle" /\ live[d].queued
  BY LiveFacts DEF Enqueue, EnqueueFails, DInv, CallBegins, FreshCall, IInv
<1>2. \A x \in Deliveries \ {d} : Settled(x)
  BY <1>1 DEF Enqueue, EnqueueFails, Fails, Settled, TypeOK
<1>3. Intent(d) = "new" /\ UNCHANGED <<platform, aborted>>
  BY <1>1 DEF Intent, Enqueue, EnqueueFails
<1>4. CASE Enqueue(d)
  <2>1. Intent(d)' = "pending"
    BY <1>1, <1>4 DEF Enqueue, Intent, NoRow, TypeOK
  <2> QED
    BY <1>2, <1>3, <2>1, IntentMoves DEF Durable!Accept
<1>5. CASE EnqueueFails(d)
  <2>1. row'[d] = NoRow /\ live'[d].pc # "idle" /\ ~live'[d].queued
    BY <1>1, <1>5 DEF EnqueueFails, Fails, TypeOK
  <2>2. Intent(d)' = IF d \in Required THEN "refused" ELSE "bypassed"
    BY <2>1 DEF Intent
  <2> QED
    BY <1>2, <1>3, <2>2, IntentMoves DEF Durable!Refuse, Durable!Bypass
<1> QED
  BY <1>4, <1>5
LEMMA CallImplements ==
  ASSUME NothingPassedOver, IInv, RInv, NEW d \in Deliveries, LiveNext(d)
  PROVE  Durable!Next \/ UNCHANGED Durable!vars
<1>1. /\ TypeOK /\ row[d] \in Row /\ live[d] \in Live /\ DInv(d) /\ NothingSkipped(d)
      /\ PartsOf[d] \in Nat
  BY LiveFacts DEF RInv, IInv
<1>2. CASE Enqueue(d) \/ EnqueueFails(d)
  BY <1>2, EnqueueImplements DEF Durable!Next
<1>3. ASSUME live[d].pc \in LivePcs
      PROVE  /\ Pending(d) \/ (~live[d].queued /\ d \notin Required /\ live[d].pc # "idle")
             /\ live[d].queued => Pending(d)
  BY <1>1, <1>3 DEF LivePcs, DInv, DirectIsRowless, CallInStep, LiveHolds, Live
<1>4. CASE CallPlatform(d)
  <2>1. live[d].pc \in LivePcs /\ UNCHANGED <<row, aborted>>
    BY <1>4 DEF CallPlatform, PartsLeft, LivePcs
  <2>2. live[d].part \in Parts(d)
    BY <1>1, <1>4, <2>1, CallFacts DEF CallPlatform, PartsLeft, Parts, Live
  <2>3. PICK answer : Sends(d, live[d].part, answer)
    BY <1>4 DEF CallPlatform
  <2>4. \A x \in Deliveries : /\ live'[x].pc = "idle" <=> live[x].pc = "idle"
                              /\ live'[x].queued = live[x].queued
    <3>1. CASE live' = [live EXCEPT ![d].pc = "sending", ![d].part = @ + 1]
      <4>1. live'[d] = [live[d] EXCEPT !.pc = "sending", !.part = live[d].part + 1]
            /\ \A x \in Deliveries \ {d} : live'[x] = live[x]
        BY <1>1, <3>1 DEF TypeOK
      <4> QED
        BY <1>1, <2>1, <4>1 DEF Live, LivePcs
    <3>2. CASE live' = [live EXCEPT ![d].pc = "failing"]
      <4>1. live'[d] = [live[d] EXCEPT !.pc = "failing"]
            /\ \A x \in Deliveries \ {d} : live'[x] = live[x]
        BY <1>1, <3>2 DEF TypeOK
      <4> QED
        BY <1>1, <2>1, <4>1 DEF Live, LivePcs
    <3> QED
      BY <1>4, <3>1, <3>2 DEF CallPlatform, PartFails, NothingPassedOver
  <2>5. Durable!Commit(d) \/ UNCHANGED Durable!vars
    BY <1>3, <2>1, <2>2, <2>3, <2>4, SendCommits
  <2> QED
    BY <2>5 DEF Durable!Next
<1>5. CASE AbortSignal(d)
  <2>1. Intent(d) \in {"pending", "bypassed"}
    BY <1>1, <1>3, <1>5 DEF AbortSignal, LivePcs, Intent, Pending, NoRow, DInv, DirectIsRowless
  <2>2. [x \in Deliveries |-> Intent(x)]' = [x \in Deliveries |-> Intent(x)]
    BY <1>5 DEF AbortSignal, Intent, Parts
  <2>3. Durable!Abort(d)
    BY <1>5, <2>1, <2>2 DEF AbortSignal, Durable!Abort
  <2> QED
    BY <2>3 DEF Durable!Next
<1>6. CASE /\ live[d].pc = "acking" /\ live[d].queued
           /\ Deletes(d) /\ LiveEnds(d)
  <2>1. Pending(d) /\ Intent(d) = "pending"
    BY <1>3, <1>6 DEF LivePcs, Intent, Pending, NoRow
  <2>2. \A x \in Deliveries \ {d} : Settled(x)
    BY <1>1, <1>6 DEF Deletes, LiveEnds, Settled, TypeOK
  <2>3. row'[d] = NoRow /\ live'[d].pc = "over" /\ live'[d].queued
    BY <1>1, <1>6 DEF Deletes, LiveEnds, TypeOK, Live
  <2>4. UNCHANGED <<platform, aborted>>
    BY <1>6 DEF LiveEnds
  <2>5. CASE \A p \in Parts(d) : platform[d][p] > 0
    <3>1. Intent(d)' = "sent"
      BY <2>3, <2>4, <2>5 DEF Intent, Parts
    <3>2. Durable!Confirm(d)
      BY <2>1, <2>2, <2>4, <2>5, <3>1, IntentMoves DEF Durable!Confirm, Durable!Parts, Parts
    <3> QED
      BY <3>2 DEF Durable!Next
  <2>6. CASE ~ \A p \in Parts(d) : platform[d][p] > 0
    <3>1. Intent(d)' = "dropped"
      BY <2>3, <2>4, <2>6 DEF Intent, Parts
    <3>2. d \in aborted
      BY <1>1, <1>6, <2>6 DEF NothingSkipped
    <3>3. Durable!Drop(d)
      BY <2>1, <2>2, <2>4, <3>1, <3>2, IntentMoves DEF Durable!Drop
    <3> QED
      BY <3>3 DEF Durable!Next
  <2> QED
    BY <2>5, <2>6
<1>7. ASSUME /\ live[d].pc # "idle" /\ live'[d].pc # "idle" /\ live'[d].queued = live[d].queued
             /\ \A x \in Deliveries \ {d} : live'[x] = live[x] /\ row'[x] = row[x]
             /\ \/ row'[d] = row[d]
                \/ Pending(d) /\ row'[d].status = "pending"
             /\ UNCHANGED <<platform, aborted>>
      PROVE  UNCHANGED Durable!vars
  <2>1. \A x \in Deliveries : Settled(x)
    BY <1>7 DEF Settled, Pending, NoRow
  <2> QED
    BY <1>7, <2>1, IntentsStay
<1>8. ASSUME LiveEnds(d), live[d].pc \in LivePcs,
             \/ row' = row
             \/ live[d].queued /\ failDelivery(d)
      PROVE  UNCHANGED Durable!vars
  <2>1. /\ live'[d].pc = "over" /\ live'[d].queued = live[d].queued
        /\ \A x \in Deliveries \ {d} : live'[x] = live[x] /\ row'[x] = row[x]
        /\ UNCHANGED <<platform, aborted>>
    BY <1>1, <1>8 DEF LiveEnds, failDelivery, TypeOK, Live
  <2>2. row'[d] = row[d] \/ (Pending(d) /\ row'[d].status = "pending")
    <3>1. CASE row' = row
      BY <3>1
    <3>2. CASE live[d].queued /\ failDelivery(d)
      <4>1. row'[d] = [row[d] EXCEPT !.retryCount = row[d].retryCount + 1]
        BY <1>1, <3>2 DEF failDelivery, TypeOK
      <4> QED
        BY <1>1, <1>3, <1>8, <3>2, <4>1 DEF Pending, Row
    <3> QED
      BY <1>8, <3>1, <3>2
  <2> QED
    BY <1>7, <1>8, <2>1, <2>2 DEF LivePcs
<1>9. ASSUME NEW state, live[d].pc = "sending", live[d].queued, SetsState(d, state),
             \/ live' = [live EXCEPT ![d].pc = "calling", ![d].started = TRUE]
             \/ live' = [live EXCEPT ![d].pc = "acking"],
             UNCHANGED <<platform, aborted>>
      PROVE  UNCHANGED Durable!vars
  <2>1. \/ live'[d] = [live[d] EXCEPT !.pc = "calling", !.started = TRUE]
        \/ live'[d] = [live[d] EXCEPT !.pc = "acking"]
    BY <1>1, <1>9 DEF TypeOK
  <2>2. live'[d].pc # "idle" /\ live'[d].queued = live[d].queued
    BY <1>1, <2>1 DEF Live
  <2>3. \A x \in Deliveries \ {d} : live'[x] = live[x] /\ row'[x] = row[x]
    BY <1>1, <1>9 DEF SetsState, TypeOK
  <2>4. row'[d] = [row[d] EXCEPT !.recoveryState = state]
    BY <1>1, <1>9 DEF SetsState, TypeOK
  <2>5. Pending(d) /\ row'[d].status = "pending"
    BY <1>1, <1>3, <1>9, <2>4 DEF LivePcs, Pending, Row
  <2> QED
    BY <1>7, <1>9, <2>2, <2>3, <2>5
<1>10. ASSUME NEW pc \in LivePcs \cup {"over"}, live[d].pc # "idle",
              live' = [live EXCEPT ![d].pc = pc], UNCHANGED <<row, platform, aborted>>
       PROVE  UNCHANGED Durable!vars
  <2>1. live'[d] = [live[d] EXCEPT !.pc = pc] /\ \A x \in Deliveries \ {d} : live'[x] = live[x]
    BY <1>1, <1>10 DEF TypeOK
  <2>2. live'[d].pc # "idle" /\ live'[d].queued = live[d].queued
    BY <1>1, <1>10, <2>1 DEF Live, LivePcs
  <2> QED
    BY <1>7, <1>10, <2>1, <2>2
<1>11. CASE ClaimLive(d)
  BY <1>10, <1>11 DEF ClaimLive, LivePcs
<1>12. CASE MarkSendStarted(d)
  BY <1>9, <1>10, <1>12 DEF MarkSendStarted, PartsLeft, Fails, LivePcs
<1>13. CASE StopAborted(d)
  BY <1>10, <1>13 DEF StopAborted, PartsLeft, Aborts, NothingPassedOver, LivePcs
<1>14. CASE FinishSent(d)
  BY <1>8, <1>9, <1>10, <1>14 DEF FinishSent, PartsDone, Fails, LivePcs
<1>15. CASE FinishPartial(d) \/ FinishUnqueued(d)
  BY <1>8, <1>15 DEF FinishPartial, FinishUnqueued, PartsDone, Fails, LivePcs
<1>16. CASE FailLive(d)
  BY <1>8, <1>16 DEF FailLive, Fails, LivePcs
<1>17. CASE AckLive(d)
  BY <1>6, <1>8, <1>17 DEF AckLive, Fails, LivePcs
<1>18. CASE FailsUnsent(d)
  BY <1>10, <1>18 DEF FailsUnsent, PartFails, NothingPassedOver, LivePcs
<1> QED
  BY <1>2, <1>4, <1>5, <1>11, <1>12, <1>13, <1>14, <1>15, <1>16, <1>17, <1>18 DEF LiveNext

LEMMA DrainImplements ==
  ASSUME NothingPassedOver, IInv, RInv, NEW k \in Drainers, DrainNext(k)
  PROVE  Durable!Next \/ UNCHANGED Durable!vars
<1>1. PICK e : e = drain[k].entry
  OBVIOUS
<1>2. TypeOK /\ UNCHANGED live
  BY DEF IInv, DrainNext, StartDrain, ClaimEntry, SkipEntry, ExhaustEntry, Proceed, Reconcile,
         CallReplay, ReplayFailsUnsent, Replayed, AckEntry, RetryEntry, RejectEntry, EndDrain,
         Releases, Goes
<1>3. ASSUME UNCHANGED <<row, platform, aborted>>
      PROVE  UNCHANGED Durable!vars
  BY <1>2, <1>3, IntentsStay DEF Settled
<1>4. ASSUME drain[k].pc \in Active
      PROVE  /\ e \in Deliveries /\ Pending(e) /\ row[e] \in Row /\ Begun(e)
             /\ Intent(e) = "pending"
  <2>1. e \in Deliveries /\ Pending(e) /\ row[e] \in Row /\ Begun(e)
    BY <1>1, <1>4, ActiveFacts DEF Working
  <2> QED
    BY <2>1 DEF Intent, Pending, NoRow
<1>5. CASE CallReplay(k)
  <2>1. drain[k].pc \in Active /\ UNCHANGED <<row, aborted>> /\ drain[k].part =< PartsOf[e]
    BY <1>1, <1>5 DEF CallReplay, Active
  <2>2. drain[k].part \in Parts(e)
    BY <1>1, <2>1, ActiveFacts DEF Parts, Drain, Working
  <2>3. PICK answer : Sends(e, drain[k].part, answer)
    BY <1>1, <1>5 DEF CallReplay
  <2>4. Durable!Commit(e) \/ UNCHANGED Durable!vars
    BY <1>2, <1>4, <2>1, <2>2, <2>3, SendCommits
  <2> QED
    BY <1>4, <2>1, <2>4 DEF Durable!Next
<1>6. ASSUME e \in Deliveries, Pending(e), row[e] \in Row, moveToFailed(e),
             UNCHANGED <<platform, aborted>>
      PROVE  Durable!Next
  <2>1. \A x \in Deliveries \ {e} : Settled(x)
    BY <1>2, <1>6 DEF moveToFailed, Settled, TypeOK
  <2>2. row'[e] = [row[e] EXCEPT !.status = "failed"]
    BY <1>2, <1>6 DEF moveToFailed, TypeOK
  <2>3. Intent(e) = "pending" /\ Intent(e)' = "failed"
    BY <1>6, <2>2 DEF Intent, Pending, NoRow, Row
  <2>4. Durable!Fail(e)
    BY <1>6, <2>1, <2>3, IntentMoves DEF Durable!Fail
  <2> QED
    BY <1>6, <2>4 DEF Durable!Next
<1>7. CASE ExhaustEntry(k)
  <2>1. drain[k].pc \in Working /\ Pending(e) /\ UNCHANGED <<platform, aborted>>
        /\ (moveToFailed(e) \/ UNCHANGED row)
    BY <1>1, <1>7 DEF ExhaustEntry, Working, Fails
  <2>2. e \in Deliveries /\ row[e] \in Row
    BY <1>1, <2>1, ActiveFacts
  <2> QED
    BY <1>3, <1>6, <2>1, <2>2
<1>8. CASE RejectEntry(k)
  <2>1. drain[k].pc \in Active /\ UNCHANGED <<platform, aborted>> /\ (moveToFailed(e) \/ UNCHANGED row)
    BY <1>1, <1>8 DEF RejectEntry, Active, Fails, Releases
  <2> QED
    BY <1>3, <1>4, <1>6, <2>1
<1>9. CASE RetryEntry(k)
  <2>1. drain[k].pc \in Active /\ UNCHANGED <<platform, aborted>> /\ (failDelivery(e) \/ UNCHANGED row)
    BY <1>1, <1>9 DEF RetryEntry, Active, Fails, Releases
  <2>2. CASE failDelivery(e)
    <3>1. row'[e] = [row[e] EXCEPT !.retryCount = row[e].retryCount + 1]
          /\ \A x \in Deliveries \ {e} : row'[x] = row[x]
      BY <1>2, <1>4, <2>1, <2>2 DEF failDelivery, TypeOK
    <3>2. row'[e].status = row[e].status /\ row[e] # NoRow /\ row'[e] # NoRow
      BY <1>4, <2>1, <3>1 DEF Row, Pending, NoRow
    <3>3. \A x \in Deliveries : Settled(x)
      BY <1>2, <2>1, <3>1, <3>2 DEF Settled
    <3> QED
      BY <2>1, <3>3, IntentsStay
  <2> QED
    BY <1>3, <2>1, <2>2
<1>10. CASE AckEntry(k)
  <2>1. drain[k].pc \in Active /\ drain[k].pc = "acking" /\ UNCHANGED <<platform, aborted>>
        /\ (Deletes(e) \/ UNCHANGED row)
    BY <1>1, <1>10 DEF AckEntry, Active, Releases, Goes
  <2>2. CASE Deletes(e)
    <3>1. \A p \in Parts(e) : platform[e][p] > 0
      BY <1>1, <1>4, <2>1 DEF RInv, NothingSkippedIn
    <3>2. row'[e] = NoRow /\ \A x \in Deliveries \ {e} : Settled(x)
      BY <1>2, <1>4, <2>1, <2>2 DEF Deletes, Settled, TypeOK
    <3>3. Intent(e)' = "sent"
      BY <1>2, <1>4, <2>1, <3>1, <3>2 DEF Intent, Begun, Parts
    <3>4. Durable!Confirm(e)
      BY <1>4, <2>1, <3>1, <3>2, <3>3, IntentMoves DEF Durable!Confirm, Durable!Parts, Parts
    <3> QED
      BY <1>4, <2>1, <3>4 DEF Durable!Next
  <2> QED
    BY <1>3, <2>1, <2>2
<1>11. CASE \/ StartDrain(k) \/ (\E d \in Deliveries : ClaimEntry(k, d)) \/ SkipEntry(k)
            \/ Proceed(k) \/ Reconcile(k) \/ ReplayFailsUnsent(k) \/ Replayed(k) \/ EndDrain(k)
  BY <1>3, <1>11
  DEF StartDrain, ClaimEntry, SkipEntry, Proceed, Reconcile, ReplayFailsUnsent, Replayed,
      EndDrain, Releases, Goes
<1> QED
  BY <1>5, <1>7, <1>8, <1>9, <1>10, <1>11 DEF DrainNext

LEMMA StepImplements ==
  ASSUME NothingPassedOver, IInv, RInv, [Next]_vars
  PROVE  [Durable!Next]_Durable!vars
<1>1. CASE UNCHANGED vars
  <2>1. \A x \in Deliveries : Settled(x)
    BY <1>1 DEF vars, Settled
  <2> QED
    BY <1>1, <2>1, IntentsStay DEF vars
<1>2. CASE \E d \in Deliveries : LiveNext(d)
  BY <1>2, CallImplements
<1>3. CASE \E k \in Drainers : DrainNext(k)
  BY <1>3, DrainImplements
<1>4. CASE Crash
  <2>1. \A x \in Deliveries : /\ live'[x].pc = "idle" <=> live[x].pc = "idle"
                              /\ live'[x].queued = live[x].queued
    BY <1>4 DEF Crash, IInv, TypeOK, Live
  <2>2. \A x \in Deliveries : Settled(x)
    BY <1>4, <2>1 DEF Crash, Settled
  <2> QED
    BY <1>4, <2>2, IntentsStay DEF Crash
<1> QED
  BY <1>1, <1>2, <1>3, <1>4 DEF Next

\* Where no error of a part is passed over and no timeout of the platform looks like an
\* abort, a row leaves the queue only when its parts are on the platform, when it is
\* failed or when its caller aborted it, through any number of crashes and lost writes.
THEOREM Durability ==
  ASSUME NothingPassedOver
  PROVE  Spec => ImplementsDurableSend
<1>1. Init => Durable!Init
  <2> SUFFICES ASSUME Init PROVE Durable!Init
    OBVIOUS
  <2>1. \A d \in Deliveries : Intent(d) = "new"
    BY DEF Init, Intent
  <2> QED
    BY <2>1 DEF Init, Durable!Init, Durable!Parts, Parts
<1>2. Init => RInv
  BY NoDeliveryAssumption
  DEF Init, RInv, PlatformIsFunction, NothingSkipped, NothingSkippedIn, IdleDrain
<1>3. NothingPassedOver /\ IInv /\ RInv /\ [Next]_vars => RInv' /\ [Durable!Next]_Durable!vars
  BY SkippedNothingKeeps, StepImplements
<1>4. NothingPassedOver
  OBVIOUS
<1>5. IInv /\ RInv /\ [Next]_vars => RInv' /\ [Durable!Next]_Durable!vars
  BY <1>3, <1>4
<1> QED
  BY Invariance, <1>1, <1>2, <1>5, PTL DEF Spec, Durable!Spec, ImplementsDurableSend

-----------------------------------------------------------------------------
(* Where the writes of the state database succeed, a part is sent again only  *)
(* for a retry that was counted or a crash                                    *)

WritesSucceed == StorageErrors = FALSE

\* No part of a delivery is on the platform more often than its row may be retried and
\* the process crashed: a reconnect drain that runs again and again, a replay that fails
\* after some of the parts and an answer that is lost add no copy of their own
\* (delivery-queue-recovery.ts, failDelivery of delivery-queue-storage.ts).
CopiesOf(d) == \A p \in Parts(d) : platform[d][p] =< MAX_RETRIES + crashes
CopiesBounded == \A d \in Deliveries : CopiesOf(d)

\* The attempt of drain k at d has part p behind it, and is not counted yet.
AtWork(k, d, p) ==
  /\ drain[k].entry = d
  /\ \/ drain[k].pc \in {"acking", "retrying", "rejecting"}
     \/ drain[k].pc = "replaying" /\ drain[k].part > p

\* Before a send is marked, each copy of a part is a retry counted, a crash, or of the
\* attempt that is at work.
Counted(d) ==
  Pending(d) /\ row[d].recoveryState = "none" =>
    \A p \in Parts(d) :
      /\ platform[d][p] =< row[d].retryCount + crashes + 1
      /\ (\A k \in Drainers : ~AtWork(k, d, p)) => platform[d][p] =< row[d].retryCount + crashes

\* Nothing is sent directly, and the live call sends nothing before its mark.
MarkedFirst(d) ==
  /\ live[d].queued
  /\ live[d].pc \in LivePcs /\ (live[d].pc = "calling" \/ live[d].started) =>
       row[d].recoveryState # "none"

CInv == \A d \in Deliveries : MarkedFirst(d) /\ Counted(d) /\ CopiesOf(d)

\* What a step that sends no part of d may do to its row: leave it to the attempts that
\* are at work, count a retry, mark it, remove it or fail it.
LEMMA CountedKeeps ==
  ASSUME IInv, NEW d \in Deliveries, Counted(d), CopiesOf(d), platform'[d] = platform[d],
         crashes' = crashes,
         \/ ~Pending(d)' \/ row'[d].recoveryState # "none"
         \/ /\ row'[d] = row[d]
            /\ \A k \in Drainers : \A p \in Parts(d) : AtWork(k, d, p) => AtWork(k, d, p)'
         \/ /\ Pending(d) /\ row'[d].recoveryState = row[d].recoveryState
            /\ row'[d].retryCount = row[d].retryCount + 1
  PROVE  Counted(d)' /\ CopiesOf(d)'
<1>1. CopiesOf(d)'
  BY DEF CopiesOf, Parts
<1>2. /\ row[d].retryCount \in Nat /\ crashes \in Nat
      /\ \A p \in Parts(d) : platform[d][p] \in Nat
  BY DEF IInv, TypeOK, Row
<1>3. ASSUME Pending(d)', row'[d].recoveryState = "none", NEW p \in Parts(d)
      PROVE  /\ platform[d][p] =< row'[d].retryCount + crashes + 1
             /\ (\A k \in Drainers : ~AtWork(k, d, p)') =>
                  platform[d][p] =< row'[d].retryCount + crashes
  <2>1. CASE /\ row'[d] = row[d]
             /\ \A k \in Drainers : AtWork(k, d, p) => AtWork(k, d, p)'
    BY <1>3, <2>1 DEF Counted, Pending
  <2>2. CASE /\ Pending(d) /\ row'[d].recoveryState = row[d].recoveryState
             /\ row'[d].retryCount = row[d].retryCount + 1
    <3>1. platform[d][p] =< row[d].retryCount + crashes + 1
      BY <1>3, <2>2 DEF Counted
    <3> QED
      BY <1>2, <2>2, <3>1
  <2> QED
    BY <1>3, <2>1, <2>2
<1>4. Counted(d)'
  BY <1>3 DEF Counted, Parts
<1> QED
  BY <1>1, <1>4

\* What a marked row was sent is within every bound.
LEMMA MarkedCounted ==
  ASSUME IInv', NEW d \in Deliveries, row'[d].recoveryState # "none"
  PROVE  Counted(d)' /\ CopiesOf(d)'
<1>1. AtMostOnce(d)'
  BY DEF IInv, DInv, RowInStep
<1>2. MAX_RETRIES \in Nat /\ MAX_RETRIES >= 1 /\ crashes' \in Nat
  BY BoundsAssumption DEF IInv, TypeOK
<1>3. \A p \in Parts(d) : platform'[d][p] \in Nat
  <2>1. platform'[d] \in [Parts(d) -> 0..MaxCopies]
    BY DEF IInv, TypeOK, Parts
  <2> QED
    BY <2>1
<1>4. CopiesOf(d)'
  <2> SUFFICES ASSUME NEW p \in Parts(d) PROVE platform'[d][p] =< MAX_RETRIES + crashes'
    BY DEF CopiesOf, Parts
  <2>1. platform'[d][p] =< 1
    BY <1>1 DEF AtMostOnce, Parts
  <2> QED
    BY <1>2, <1>3, <2>1
<1> QED
  BY <1>4 DEF Counted

\* What the live call of d writes.
LEMMA CallWrites ==
  ASSUME WritesSucceed, IInv, NEW d \in Deliveries, MarkedFirst(d), LiveNext(d)
  PROVE  /\ MarkedFirst(d)' /\ UNCHANGED <<drain, crashes>>
         /\ \A x \in Deliveries \ {d} : row'[x] = row[x] /\ live'[x] = live[x]
         /\ \/ UNCHANGED platform
            \/ CallPlatform(d) /\ row' = row /\ row[d].recoveryState # "none"
         /\ \/ ~Pending(d)' \/ row'[d].recoveryState # "none"
            \/ row'[d] = row[d]
            \/ /\ Pending(d) /\ row'[d].recoveryState = row[d].recoveryState
               /\ row'[d].retryCount = row[d].retryCount + 1
            \/ Untouched(d)
<1>1. /\ TypeOK /\ row[d] \in Row /\ live[d] \in Live /\ DInv(d) /\ ~StorageErrors
  BY LiveFacts DEF IInv, WritesSucceed
<1>2. UNCHANGED <<drain, crashes>>
  BY DEF LiveNext, Enqueue, EnqueueFails, ClaimLive, FailsUnsent, MarkSendStarted, CallPlatform,
         AbortSignal, StopAborted, FinishPartial, FinishSent, FinishUnqueued, AckLive, FailLive,
         LiveEnds
<1> DEFINE Wrote == \/ ~Pending(d)' \/ row'[d].recoveryState # "none"
                    \/ row'[d] = row[d]
                    \/ /\ Pending(d) /\ row'[d].recoveryState = row[d].recoveryState
                       /\ row'[d].retryCount = row[d].retryCount + 1
                    \/ Untouched(d)
<1>3. CASE Enqueue(d)
  <2>1. Untouched(d) /\ UNCHANGED platform
    BY <1>1, <1>3 DEF Enqueue, DInv, CallBegins
  <2>2. live'[d] = [live[d] EXCEPT !.pc = "queued"] /\ live'[d].pc = "queued"
        /\ \A x \in Deliveries \ {d} : row'[x] = row[x] /\ live'[x] = live[x]
    BY <1>1, <1>3 DEF Enqueue, TypeOK, Live
  <2> QED
    BY <1>1, <1>2, <2>1, <2>2 DEF MarkedFirst, LivePcs, Live
<1>4. CASE ClaimLive(d)
  <2>1. UNCHANGED <<row, platform>> /\ \E pc \in {"sending", "over"} :
          live' = [live EXCEPT ![d].pc = pc]
    BY <1>4 DEF ClaimLive
  <2>2. live[d].started = FALSE
    BY <1>1, <1>4 DEF ClaimLive, DInv, CallBegins, FreshCall
  <2>3. PICK pc \in {"sending", "over"} : live'[d] = [live[d] EXCEPT !.pc = pc]
    BY <1>1, <2>1 DEF TypeOK
  <2>4. live'[d].queued = live[d].queued /\ live'[d].started = FALSE /\ live'[d].pc # "calling"
    BY <1>1, <2>2, <2>3 DEF Live
  <2>5. \A x \in Deliveries \ {d} : live'[x] = live[x]
    BY <1>1, <2>1 DEF TypeOK
  <2> QED
    BY <1>2, <2>1, <2>4, <2>5 DEF MarkedFirst
<1>5. ASSUME live[d].pc \in LivePcs, NEW c,
             live' = [live EXCEPT ![d] = c], c.queued = live[d].queued,
             c.started = live[d].started, c.pc # "calling",
             \/ row' = row
             \/ row' = [row EXCEPT ![d].recoveryState = "unknown_after_send"]
             \/ Deletes(d) /\ c.pc = "over"
             \/ failDelivery(d) /\ c.pc = "over"
      PROVE  /\ MarkedFirst(d)' /\ Wrote
             /\ \A x \in Deliveries \ {d} : row'[x] = row[x] /\ live'[x] = live[x]
  <2>1. live'[d] = c /\ \A x \in Deliveries \ {d} : row'[x] = row[x] /\ live'[x] = live[x]
    BY <1>1, <1>5 DEF TypeOK, Deletes, failDelivery
  <2>2. Pending(d)
    BY <1>1, <1>5 DEF MarkedFirst, LivePcs, DInv, CallInStep, LiveHolds
  <2>3. \/ row'[d] = row[d]
        \/ row'[d].recoveryState = "unknown_after_send"
        \/ c.pc = "over" /\ row'[d] = NoRow
        \/ /\ c.pc = "over" /\ row'[d].recoveryState = row[d].recoveryState
           /\ row'[d].retryCount = row[d].retryCount + 1
    BY <1>1, <1>5 DEF TypeOK, Deletes, failDelivery, Row
  <2>4. Wrote
    BY <2>2, <2>3 DEF Pending, NoRow
  <2>5. MarkedFirst(d)'
    BY <1>5, <2>1, <2>3 DEF MarkedFirst, LivePcs
  <2> QED
    BY <2>1, <2>4, <2>5
<1>6. CASE MarkSendStarted(d)
  <2>1. /\ row' = [row EXCEPT ![d].recoveryState = "send_attempt_started"]
        /\ live' = [live EXCEPT ![d].pc = "calling", ![d].started = TRUE] /\ UNCHANGED platform
    BY <1>1, <1>6 DEF MarkSendStarted, SetsState, Fails
  <2>2. row'[d].recoveryState = "send_attempt_started" /\ live'[d].queued = live[d].queued
        /\ \A x \in Deliveries \ {d} : row'[x] = row[x] /\ live'[x] = live[x]
    BY <1>1, <2>1 DEF TypeOK, Live, Row
  <2> QED
    BY <1>2, <2>1, <2>2 DEF MarkedFirst
<1>7. CASE AbortSignal(d)
  BY <1>2, <1>7 DEF AbortSignal, MarkedFirst
<1>8. ASSUME live[d].pc \in LivePcs, PartFails(d) \/ Aborts(d), row' = row
      PROVE  /\ MarkedFirst(d)' /\ Wrote
             /\ \A x \in Deliveries \ {d} : row'[x] = row[x] /\ live'[x] = live[x]
  <2> DEFINE a == [live[d] EXCEPT !.pc = "sending", !.part = @ + 1, !.partial = TRUE]
             b == [live[d] EXCEPT !.pc = "failing"]
             c == [live[d] EXCEPT !.pc = "acking"]
  <2>1. \/ live' = [live EXCEPT ![d] = a]
        \/ live' = [live EXCEPT ![d] = b]
        \/ live' = [live EXCEPT ![d] = c]
    BY <1>1, <1>8 DEF PartFails, Aborts, TypeOK
  <2>2. /\ a.queued = live[d].queued /\ a.started = live[d].started /\ a.pc # "calling"
        /\ b.queued = live[d].queued /\ b.started = live[d].started /\ b.pc # "calling"
        /\ c.queued = live[d].queued /\ c.started = live[d].started /\ c.pc # "calling"
    BY <1>1 DEF Live
  <2> HIDE DEF a, b, c, Wrote
  <2> QED
    BY <1>5, <1>8, <2>1, <2>2
<1>9. ASSUME live[d].pc \in LivePcs, NEW pc \in {"acking", "failing", "over"},
             live' = [live EXCEPT ![d].pc = pc],
             \/ row' = row
             \/ row' = [row EXCEPT ![d].recoveryState = "unknown_after_send"]
             \/ Deletes(d) /\ pc = "over"
             \/ failDelivery(d) /\ pc = "over"
      PROVE  /\ MarkedFirst(d)' /\ Wrote
             /\ \A x \in Deliveries \ {d} : row'[x] = row[x] /\ live'[x] = live[x]
  <2> DEFINE c == [live[d] EXCEPT !.pc = pc]
  <2>1. live' = [live EXCEPT ![d] = c]
    BY <1>1, <1>9 DEF TypeOK
  <2>2. c.queued = live[d].queued /\ c.started = live[d].started /\ c.pc = pc
    BY <1>1 DEF Live
  <2> HIDE DEF c, Wrote
  <2> QED
    BY <1>5, <1>9, <2>1, <2>2
<1>10. CASE StopAborted(d)
  <2>1. live[d].pc \in LivePcs /\ row' = row /\ UNCHANGED platform
    BY <1>10 DEF StopAborted, PartsLeft, LivePcs
  <2> QED
    BY <1>2, <1>8, <1>10, <2>1 DEF StopAborted
<1>11. CASE FinishPartial(d) \/ FinishSent(d) \/ FinishUnqueued(d) \/ AckLive(d) \/ FailLive(d)
  <2>1. live[d].pc \in LivePcs /\ live[d].queued /\ UNCHANGED platform
    BY <1>11 DEF MarkedFirst, FinishPartial, FinishSent, FinishUnqueued, AckLive, FailLive,
                 PartsDone, LiveEnds, LivePcs
  <2>2. \E pc \in {"acking", "over"} :
          /\ live' = [live EXCEPT ![d].pc = pc]
          /\ \/ row' = row
             \/ row' = [row EXCEPT ![d].recoveryState = "unknown_after_send"]
             \/ Deletes(d) /\ pc = "over"
             \/ failDelivery(d) /\ pc = "over"
    <3>1. CASE FinishPartial(d) \/ FailLive(d)
      BY <1>1, <2>1, <3>1 DEF FinishPartial, FailLive, LiveEnds, Fails
    <3>2. CASE FinishSent(d)
      BY <1>1, <2>1, <3>2 DEF FinishSent, SetsState, Fails
    <3>3. CASE FinishUnqueued(d)
      BY <2>1, <3>3 DEF FinishUnqueued
    <3>4. CASE AckLive(d)
      BY <1>1, <2>1, <3>4 DEF AckLive, LiveEnds, Fails
    <3> QED
      BY <1>11, <3>1, <3>2, <3>3, <3>4
  <2>3. PICK pc \in {"acking", "over"} :
          /\ live' = [live EXCEPT ![d].pc = pc]
          /\ \/ row' = row
             \/ row' = [row EXCEPT ![d].recoveryState = "unknown_after_send"]
             \/ Deletes(d) /\ pc = "over"
             \/ failDelivery(d) /\ pc = "over"
    BY <2>2
  <2>4. /\ MarkedFirst(d)' /\ Wrote
        /\ \A x \in Deliveries \ {d} : row'[x] = row[x] /\ live'[x] = live[x]
    <3> HIDE DEF Wrote
    <3> QED
      BY <1>9, <2>1, <2>3
  <2> QED
    BY <1>2, <2>1, <2>4
<1>12. CASE CallPlatform(d)
  <2>1. live[d].pc \in LivePcs /\ row' = row /\ row[d].recoveryState # "none"
    BY <1>12 DEF CallPlatform, PartsLeft, LivePcs, MarkedFirst
  <2>2. CASE live' = [live EXCEPT ![d].pc = "sending", ![d].part = @ + 1]
    <3> DEFINE c == [live[d] EXCEPT !.pc = "sending", !.part = @ + 1]
    <3>1. live' = [live EXCEPT ![d] = c]
      BY <1>1, <2>2 DEF TypeOK
    <3>2. c.queued = live[d].queued /\ c.started = live[d].started /\ c.pc = "sending"
      BY <1>1 DEF Live
    <3> HIDE DEF c, Wrote
    <3> QED
      BY <1>2, <1>5, <1>12, <2>1, <3>1, <3>2
  <2>3. CASE PartFails(d) \/ Aborts(d)
    BY <1>2, <1>8, <1>12, <2>1, <2>3
  <2> QED
    BY <1>12, <2>2, <2>3 DEF CallPlatform
<1>13. ~EnqueueFails(d)
  BY <1>1 DEF EnqueueFails, Fails
<1>14. CASE FailsUnsent(d)
  <2>1. live[d].pc \in LivePcs /\ row' = row /\ UNCHANGED platform
    BY <1>14 DEF FailsUnsent, LivePcs
  <2> HIDE DEF Wrote
  <2>2. /\ MarkedFirst(d)' /\ Wrote
        /\ \A x \in Deliveries \ {d} : row'[x] = row[x] /\ live'[x] = live[x]
    BY <1>8, <1>9, <1>14, <2>1 DEF FailsUnsent
  <2> QED
    BY <1>2, <2>1, <2>2 DEF Wrote
<1> HIDE DEF Wrote
<1> QED
  BY <1>3, <1>4, <1>6, <1>7, <1>10, <1>11, <1>12, <1>13, <1>14 DEF LiveNext, Wrote

\* A step of the live call of d.
LEMMA CallCounts ==
  ASSUME WritesSucceed, IInv, IInv', CInv, NEW d \in Deliveries, LiveNext(d)
  PROVE  CInv'
<1>1. /\ MarkedFirst(d)' /\ UNCHANGED <<drain, crashes>>
      /\ \A x \in Deliveries \ {d} : row'[x] = row[x] /\ live'[x] = live[x]
  BY CallWrites DEF CInv
<1>2. \A x \in Deliveries \ {d} : platform'[x] = platform[x]
  <2>1. CASE UNCHANGED platform
    BY <2>1
  <2>2. CASE CallPlatform(d)
    BY <2>2 DEF CallPlatform, Sends, IInv, TypeOK
  <2> QED
    BY <2>1, <2>2, CallWrites DEF CInv
<1>3. ASSUME NEW x \in Deliveries, x # d
      PROVE  MarkedFirst(x)' /\ Counted(x)' /\ CopiesOf(x)'
  <2>1. MarkedFirst(x) /\ Counted(x) /\ CopiesOf(x) /\ row'[x] = row[x] /\ live'[x] = live[x]
        /\ platform'[x] = platform[x]
    BY <1>1, <1>2, <1>3 DEF CInv
  <2>2. \A k \in Drainers : \A p \in Parts(x) : AtWork(k, x, p) => AtWork(k, x, p)'
    BY <1>1 DEF AtWork
  <2> QED
    BY <1>1, <2>1, <2>2, CountedKeeps DEF MarkedFirst
<1>4. Counted(d)' /\ CopiesOf(d)'
  <2>1. CASE row'[d].recoveryState # "none"
    BY <2>1, MarkedCounted
  <2>2. CASE row'[d].recoveryState = "none" /\ Untouched(d)
    <3>1. UNCHANGED platform
      BY <2>2, CallWrites DEF CInv
    <3>2. MAX_RETRIES \in Nat /\ crashes' \in Nat /\ row'[d].retryCount \in Nat
      BY BoundsAssumption DEF IInv, TypeOK, Row
    <3>3. \A p \in Parts(d) : platform'[d][p] = 0
      BY <2>2, <3>1 DEF Untouched
    <3> QED
      BY <3>2, <3>3 DEF Counted, CopiesOf, Parts
  <2>3. CASE row'[d].recoveryState = "none" /\ ~Untouched(d)
    <3>1. UNCHANGED platform
      BY <2>3, CallWrites DEF CInv
    <3>2. \A k \in Drainers : \A p \in Parts(d) : AtWork(k, d, p) => AtWork(k, d, p)'
      BY <1>1 DEF AtWork
    <3> QED
      BY <1>1, <2>3, <3>1, <3>2, CallWrites, CountedKeeps DEF CInv
  <2> QED
    BY <2>1, <2>2, <2>3
<1> QED
  BY <1>1, <1>3, <1>4 DEF CInv

\* A replay sends a part that this attempt has not sent yet.
LEMMA ReplayCounts ==
  ASSUME IInv, IInv', CInv, NEW k \in Drainers, CallReplay(k)
  PROVE  CInv'
<1>1. PICK e, p : e = drain[k].entry /\ p = drain[k].part
  OBVIOUS
<1>2. /\ drain[k].pc = "replaying" /\ drain[k].pc \in Active /\ drain[k].pc \in Working
      /\ p =< PartsOf[e] /\ UNCHANGED <<row, entriesInProgress, live, aborted, crashes>>
  BY <1>1 DEF CallReplay, Active, Working
<1>3. /\ TypeOK /\ e \in Deliveries /\ Pending(e) /\ row[e].retryCount < MAX_RETRIES
      /\ PartsOf[e] \in Nat /\ p >= 1 /\ p \in Nat /\ drain[k] \in Drain
      /\ \A j \in Drainers \ {k} : drain[j].entry # e
  BY <1>1, <1>2, ActiveFacts, DrainFacts DEF Drain
<1>4. p \in Parts(e)
  BY <1>2, <1>3 DEF Parts
<1>5. PICK answer : /\ Sends(e, p, answer)
                    /\ \/ drain' = [drain EXCEPT ![k].part = @ + 1]
                       \/ drain' = [drain EXCEPT ![k].pc = "retrying"]
                       \/ drain' = [drain EXCEPT ![k].pc = "rejecting"]
  BY <1>1 DEF CallReplay
<1>6. /\ \A d \in Deliveries \ {e} : platform'[d] = platform[d]
      /\ \A q \in Parts(e) \ {p} : platform'[e][q] = platform[e][q]
      /\ platform'[e][p] \in {platform[e][p], platform[e][p] + 1}
  BY <1>3, <1>4, <1>5, SendsPart
<1>7. /\ \A j \in Drainers \ {k} : drain'[j] = drain[j]
      /\ drain'[k].entry = e
      /\ \/ drain'[k].pc = "replaying" /\ drain'[k].part = p + 1
         \/ drain'[k].pc \in {"retrying", "rejecting"}
  BY <1>1, <1>2, <1>3, <1>5 DEF TypeOK, Drain
<1>8. ASSUME NEW d \in Deliveries, NEW q, q \in Nat, NEW j \in Drainers, AtWork(j, d, q)
      PROVE  AtWork(j, d, q)'
  BY <1>1, <1>2, <1>3, <1>7, <1>8 DEF AtWork
<1>9. \A d \in Deliveries : MarkedFirst(d)'
  BY <1>2 DEF CInv, MarkedFirst
<1>10. ASSUME NEW d \in Deliveries, d # e PROVE Counted(d)' /\ CopiesOf(d)'
  <2>1. \A j \in Drainers : \A q \in Parts(d) : AtWork(j, d, q) => AtWork(j, d, q)'
    BY <1>8 DEF Parts
  <2> QED
    BY <1>2, <1>6, <1>10, <2>1, CountedKeeps DEF CInv
<1>11. Counted(e)' /\ CopiesOf(e)'
  <2>1. CASE row[e].recoveryState # "none"
    BY <1>2, <1>3, <2>1, MarkedCounted
  <2>2. CASE row[e].recoveryState = "none"
    <3>1. /\ MAX_RETRIES \in Nat /\ crashes \in Nat /\ row[e].retryCount \in Nat
          /\ \A q \in Parts(e) : platform[e][q] \in Nat
      BY <1>3, BoundsAssumption DEF TypeOK, Row
    <3>2. platform[e][p] =< row[e].retryCount + crashes
      <4>1. \A j \in Drainers : ~AtWork(j, e, p)
        BY <1>1, <1>2, <1>3 DEF AtWork
      <4> QED
        BY <1>3, <1>4, <2>2, <4>1 DEF CInv, Counted
    <3>3. platform'[e][p] =< row[e].retryCount + crashes + 1
      BY <1>4, <1>6, <3>1, <3>2
    <3>4. AtWork(k, e, p)'
      BY <1>3, <1>7 DEF AtWork
    <3>5. Counted(e)'
      <4> SUFFICES ASSUME NEW q \in Parts(e)
                   PROVE  /\ platform'[e][q] =< row[e].retryCount + crashes + 1
                          /\ (\A j \in Drainers : ~AtWork(j, e, q)') =>
                               platform'[e][q] =< row[e].retryCount + crashes
        BY <1>2 DEF Counted, Parts
      <4>1. CASE q = p
        BY <3>3, <3>4, <4>1
      <4>2. CASE q # p
        <5>1. \A j \in Drainers : AtWork(j, e, q) => AtWork(j, e, q)'
          BY <1>3, <1>8 DEF Parts
        <5> QED
          BY <1>3, <1>6, <2>2, <4>2, <5>1 DEF CInv, Counted
      <4> QED
        BY <4>1, <4>2
    <3>6. CopiesOf(e)'
      <4> SUFFICES ASSUME NEW q \in Parts(e) PROVE platform'[e][q] =< MAX_RETRIES + crashes
        BY <1>2 DEF CopiesOf, Parts
      <4>1. CASE q = p
        BY <1>3, <1>4, <1>6, <3>1, <3>3, <4>1
      <4>2. CASE q # p
        BY <1>3, <1>6, <4>2 DEF CInv, CopiesOf
      <4> QED
        BY <4>1, <4>2
    <3> QED
      BY <3>5, <3>6
  <2> QED
    BY <2>1, <2>2
<1> QED
  BY <1>9, <1>10, <1>11 DEF CInv

\* Another step of drain k; e is the delivery in its hands.
LEMMA DrainCounts ==
  ASSUME WritesSucceed, IInv, IInv', CInv, NEW k \in Drainers, DrainNext(k), ~CallReplay(k)
  PROVE  CInv'
<1>1. PICK e : e = drain[k].entry
  OBVIOUS
<1>2. /\ TypeOK /\ ~StorageErrors /\ UNCHANGED <<live, platform, crashes>>
      /\ drain[k].pc \in Working => e \in Deliveries /\ row[e] \in Row /\ ~LiveHolds(e)
      /\ drain[k].pc \in Active => Pending(e)
  <2>1. TypeOK /\ ~StorageErrors
    BY DEF IInv, WritesSucceed
  <2>2. UNCHANGED <<live, platform, crashes>>
    BY DEF DrainNext, StartDrain, ClaimEntry, SkipEntry, ExhaustEntry, Proceed, Reconcile,
           ReplayFailsUnsent, Replayed, AckEntry, RetryEntry, RejectEntry, EndDrain, Releases,
           Goes
  <2>3. ASSUME drain[k].pc \in Working
        PROVE  /\ e \in Deliveries /\ row[e] \in Row /\ ~LiveHolds(e)
               /\ drain[k].pc \in Active => Pending(e)
    <3>1. /\ e \in Deliveries /\ row[e] \in Row
          /\ drain[k].pc \in Active => Pending(e)
      BY <1>1, <2>3, ActiveFacts
    <3>2. ~LiveHolds(e)
      BY <1>1, <3>1, DrainFacts DEF DrainInStep
    <3> QED
      BY <3>1, <3>2
  <2>4. drain[k].pc \in Active => drain[k].pc \in Working
    BY DEF Working
  <2> QED
    BY <2>1, <2>2, <2>3, <2>4
<1> DEFINE Kept == /\ UNCHANGED row
                   /\ \A d \in Deliveries : \A p \in Parts(d) : AtWork(k, d, p) => AtWork(k, d, p)'
           Wrote == /\ e \in Deliveries /\ drain[k].pc \in Working
                    /\ \A d \in Deliveries \ {e} : row'[d] = row[d]
                    /\ \/ ~Pending(e)'
                       \/ /\ Pending(e) /\ row'[e].recoveryState = row[e].recoveryState
                          /\ row'[e].retryCount = row[e].retryCount + 1
<1>3. \A j \in Drainers \ {k} : drain'[j] = drain[j]
  BY <1>2
  DEF TypeOK, DrainNext, StartDrain, ClaimEntry, SkipEntry, ExhaustEntry, Proceed, Reconcile,
      ReplayFailsUnsent, Replayed, AckEntry, RetryEntry, RejectEntry, EndDrain, Releases, Scans,
      Goes
<1>4. ASSUME StartDrain(k) \/ (\E d \in Deliveries : ClaimEntry(k, d)) \/ SkipEntry(k)
             \/ Proceed(k) \/ Reconcile(k) \/ EndDrain(k)
      PROVE  Kept \/ Wrote
  <2>1. drain[k].pc \in {"idle", "scanning", "claimed", "reconciling"} /\ UNCHANGED row
    BY <1>4 DEF StartDrain, ClaimEntry, SkipEntry, Proceed, Reconcile, EndDrain, Goes
  <2>2. Kept
    BY <2>1 DEF AtWork
  <2> QED
    BY <2>2
<1>5. ASSUME ReplayFailsUnsent(k) \/ Replayed(k)
      PROVE  Kept \/ Wrote
  <2>1. PICK pc \in {"acking", "retrying", "rejecting"} :
          drain'[k] = [drain[k] EXCEPT !.pc = pc] /\ UNCHANGED row
    BY <1>2, <1>5 DEF ReplayFailsUnsent, Replayed, Goes, TypeOK
  <2>2. drain'[k].pc = pc /\ drain'[k].entry = drain[k].entry
    BY <1>2, <2>1 DEF TypeOK, Drain
  <2> QED
    BY <2>1, <2>2 DEF AtWork
<1>6. ASSUME ExhaustEntry(k) \/ RejectEntry(k)
      PROVE  Kept \/ Wrote
  <2>1. drain[k].pc \in Working /\ moveToFailed(e)
    BY <1>1, <1>2, <1>6 DEF ExhaustEntry, RejectEntry, Fails, Working, Active
  <2>2. row'[e].status = "failed" /\ \A d \in Deliveries \ {e} : row'[d] = row[d]
    BY <1>2, <2>1 DEF moveToFailed, TypeOK, Row
  <2> QED
    BY <1>2, <2>1, <2>2 DEF Pending
<1>7. ASSUME AckEntry(k)
      PROVE  Kept \/ Wrote
  <2>1. drain[k].pc \in Working /\ Deletes(e)
    BY <1>1, <1>2, <1>7 DEF AckEntry, Working, Active
  <2>2. row'[e] = NoRow /\ \A d \in Deliveries \ {e} : row'[d] = row[d]
    BY <1>2, <2>1 DEF Deletes, TypeOK
  <2> QED
    BY <1>2, <2>1, <2>2 DEF Pending, NoRow
<1>8. ASSUME RetryEntry(k)
      PROVE  Kept \/ Wrote
  <2>1. drain[k].pc \in Active /\ drain[k].pc \in Working /\ failDelivery(e)
    BY <1>1, <1>2, <1>8 DEF RetryEntry, Fails, Working, Active
  <2>2. /\ row'[e].retryCount = row[e].retryCount + 1
        /\ row'[e].recoveryState = row[e].recoveryState
        /\ \A d \in Deliveries \ {e} : row'[d] = row[d]
    BY <1>2, <2>1 DEF failDelivery, TypeOK, Row
  <2> QED
    BY <1>2, <2>1, <2>2
<1>9. Kept \/ Wrote
  BY <1>4, <1>5, <1>6, <1>7, <1>8 DEF DrainNext
<1>10. ASSUME NEW d \in Deliveries PROVE MarkedFirst(d)' /\ Counted(d)' /\ CopiesOf(d)'
  <2>1. MarkedFirst(d) /\ Counted(d) /\ CopiesOf(d) /\ platform'[d] = platform[d]
        /\ crashes' = crashes
    BY <1>2 DEF CInv
  <2>2. CASE Kept
    <3>1. \A j \in Drainers : \A p \in Parts(d) : AtWork(j, d, p) => AtWork(j, d, p)'
      BY <1>3, <2>2 DEF AtWork
    <3> QED
      BY <1>2, <2>1, <2>2, <3>1, CountedKeeps DEF MarkedFirst
  <2>3. CASE Wrote /\ d = e
    BY <1>2, <2>1, <2>3, CountedKeeps DEF MarkedFirst, LiveHolds, LivePcs
  <2>4. CASE Wrote /\ d # e
    <3>1. \A p \in Parts(d) : ~AtWork(k, d, p)
      BY <1>1, <2>4 DEF AtWork
    <3>2. \A j \in Drainers : \A p \in Parts(d) : AtWork(j, d, p) => AtWork(j, d, p)'
      BY <1>3, <3>1 DEF AtWork
    <3> QED
      BY <1>2, <2>1, <2>4, <3>2, CountedKeeps DEF MarkedFirst
  <2> QED
    BY <1>9, <2>2, <2>3, <2>4
<1> QED
  BY <1>10 DEF CInv

\* After a crash each copy of the attempt it cut short is the crash's.
LEMMA CrashCounts ==
  ASSUME IInv, CInv, Crash
  PROVE  CInv'
<1>1. /\ TypeOK /\ UNCHANGED <<row, platform>> /\ crashes' = crashes + 1
      /\ MAX_RETRIES \in Nat /\ crashes \in Nat
      /\ \A d \in Deliveries : row[d].retryCount \in Nat
      /\ \A d \in Deliveries : \A p \in Parts(d) : platform[d][p] \in Nat
  BY BoundsAssumption DEF IInv, TypeOK, Row, Crash
<1>2. ASSUME NEW d \in Deliveries PROVE MarkedFirst(d)' /\ Counted(d)' /\ CopiesOf(d)'
  <2>1. MarkedFirst(d)'
    BY <1>1 DEF Crash, CInv, MarkedFirst, TypeOK, Live, LivePcs
  <2>2. ASSUME Pending(d), row[d].recoveryState = "none", NEW p \in Parts(d)
        PROVE  platform[d][p] =< row[d].retryCount + (crashes + 1)
    <3>1. platform[d][p] =< row[d].retryCount + crashes + 1
      BY <2>2 DEF CInv, Counted
    <3> QED
      BY <1>1, <3>1
  <2>3. Counted(d)'
    <3> SUFFICES ASSUME Pending(d), row[d].recoveryState = "none", NEW p \in Parts(d)
                 PROVE  /\ platform[d][p] =< row[d].retryCount + (crashes + 1) + 1
                        /\ platform[d][p] =< row[d].retryCount + (crashes + 1)
      BY <1>1 DEF Counted, Pending, Parts
    <3> QED
      BY <1>1, <2>2
  <2>4. CopiesOf(d)'
    <3> SUFFICES ASSUME NEW p \in Parts(d) PROVE platform[d][p] =< MAX_RETRIES + (crashes + 1)
      BY <1>1 DEF CopiesOf, Parts
    <3>1. platform[d][p] =< MAX_RETRIES + crashes
      BY DEF CInv, CopiesOf
    <3> QED
      BY <1>1, <3>1
  <2> QED
    BY <2>1, <2>3, <2>4
<1> QED
  BY <1>2 DEF CInv

LEMMA CountedInvariant ==
  ASSUME WritesSucceed, IInv, IInv', CInv, [Next]_vars
  PROVE  CInv'
<1>1. CASE UNCHANGED vars
  BY <1>1 DEF vars, CInv, MarkedFirst, Counted, CopiesOf, AtWork, Pending, Parts
<1>2. CASE \E d \in Deliveries : LiveNext(d)
  BY <1>2, CallCounts
<1>3. CASE \E k \in Drainers : DrainNext(k)
  BY <1>3, ReplayCounts, DrainCounts
<1>4. CASE Crash
  BY <1>4, CrashCounts
<1> QED
  BY <1>1, <1>2, <1>3, <1>4 DEF Next

\* Where the writes of the state database succeed, no part is on the platform more often
\* than MAX_RETRIES and once more per crash, whatever the answers that are lost, the
\* errors that are passed over and the drains that run again and again.
THEOREM Copies ==
  ASSUME WritesSucceed
  PROVE  Spec => []CopiesBounded
<1>1. Init => CInv
  <2> SUFFICES ASSUME Init PROVE CInv
    OBVIOUS
  <2>1. MAX_RETRIES \in Nat
    BY BoundsAssumption
  <2> QED
    BY <2>1 DEF Init, CInv, MarkedFirst, Counted, CopiesOf, LivePcs, Pending, NoRow
<1>2. WritesSucceed /\ IInv /\ IInv' /\ CInv /\ [Next]_vars => CInv'
  BY CountedInvariant
<1>3. WritesSucceed
  OBVIOUS
<1>4. IInv /\ IInv' /\ CInv /\ [Next]_vars => CInv'
  BY <1>2, <1>3
<1>5. CInv => CopiesBounded
  BY DEF CInv, CopiesBounded
<1> QED
  BY Invariance, <1>1, <1>4, <1>5, PTL DEF Spec
=============================================================================
