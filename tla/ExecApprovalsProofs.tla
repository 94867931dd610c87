------------------------- MODULE ExecApprovalsProofs -------------------------
(***************************************************************************)
(* Theorems about ExecApprovals, for all sets of approvals and operators   *)
(* and any number of repeated calls.                                       *)
(***************************************************************************)
EXTENDS ExecApprovals, TLAPS

\* Before its registration nothing exists of an approval, and it is registered once.
FreshApart(a) ==
  agent[a] = "idle" =>
    ~Known(a) /\ promise[a] = "open" /\ ruling[a] = None /\ ran[a] = 0 /\ request[a] = "none"

\* The prompt is being delivered while the agent waits for the acceptance.
DeliveryInStep(a) == request[a] = "delivering" => agent[a] = "registering"

\* A record shows the ruling, in its decision or, once that was used up, beside it.
RecordShowsRuling(a) ==
  /\ Pending(a) => /\ ruling[a] = None /\ ran[a] = 0
                   /\ pending[a].decision = None /\ pending[a].consumedDecision = None
  /\ Known(a) /\ pending[a].resolved =>
       IF pending[a].resolvedBy = "operator"
       THEN \/ /\ ruling[a] \in Decisions
               /\ pending[a].decision = ruling[a] /\ pending[a].consumedDecision = None
               /\ ruling[a] = "allow-once" => ran[a] = 0
            \/ /\ ruling[a] = "allow-once" /\ ran[a] =< 1
               /\ pending[a].decision = None /\ pending[a].consumedDecision = ruling[a]
       ELSE /\ ruling[a] = None
            /\ pending[a].decision = None /\ pending[a].consumedDecision = None

\* The promise and what the agent heard of it are the ruling, or no decision at all.
AgentHearsRuling(a) ==
  /\ promise[a] \in Decisions => ruling[a] = promise[a]
  /\ heard[a] \in Decisions => ruling[a] = heard[a]
  /\ agent[a] \in {"invoking", "ran"} /\ heard[a] = None => askFallback[a] = "full"

RanAsRuled(a) ==
  /\ ran[a] > 0 => ruling[a] \in Allowing \/ (ruling[a] = None /\ askFallback[a] = "full")
  /\ ruling[a] = "allow-once" => ran[a] =< 1

InStep(a) ==
  /\ timer[a] <=> Pending(a)
  /\ cleanup[a] <=> Known(a) /\ pending[a].resolved
  /\ agent[a] # "idle" => (promise[a] = "open" <=> Pending(a))

AInv(a) ==
  /\ FreshApart(a) /\ DeliveryInStep(a) /\ RecordShowsRuling(a)
  /\ AgentHearsRuling(a) /\ RanAsRuled(a) /\ InStep(a)

\* An operator whose decision was recorded decided as ruled.
ToldAsRuled(o) ==
  call[o] # NoCall /\ call[o].answer = "ok" => call[o].decision = ruling[call[o].about]

IInv ==
  /\ TypeOK
  /\ \A a \in Approvals : AInv(a)
  /\ \A o \in Operators : ToldAsRuled(o)

-----------------------------------------------------------------------------
(* Types *)

LEMMA EntryKinds ==
  /\ NoEntry \notin Entry
  /\ \A r \in Entry : r # NoEntry
BY DEF Entry, NoEntry

LEMMA CallKinds ==
  /\ \A r \in Call : r # NoCall
  /\ \A a \in Approvals, d \in Decisions, w \in Answers :
       [about |-> a, decision |-> d, answer |-> w] \in Call
<1>1. \A r \in Call : r # NoCall
  <2> SUFFICES ASSUME NEW r \in Call PROVE r # NoCall
    OBVIOUS
  <2>1. r.answer \in Answers
    BY DEF Call
  <2>2. NoCall.answer = "unsent"
    BY DEF NoCall
  <2> QED
    BY <2>1, <2>2 DEF Answers
<1>2. \A a \in Approvals, d \in Decisions, w \in Answers :
       [about |-> a, decision |-> d, answer |-> w] \in Call
  BY DEF Call
<1> QED
  BY <1>1, <1>2

LEMMA InitInvariant == Init => IInv
<1> SUFFICES ASSUME Init PROVE IInv
  OBVIOUS
<1>1. TypeOK
  BY MaxInvokesAssumption DEF Init, TypeOK
<1>2. ASSUME NEW a \in Approvals PROVE AInv(a)
  BY DEF Init, AInv, FreshApart, DeliveryInStep, RecordShowsRuling, AgentHearsRuling,
         RanAsRuled, InStep, Known, Pending, Decisions, Allowing, None
<1>3. ASSUME NEW o \in Operators PROVE ToldAsRuled(o)
  BY DEF Init, ToldAsRuled
<1> QED
  BY <1>1, <1>2, <1>3 DEF IInv

\* The state of an approval that a step leaves alone.
Same(a) ==
  /\ pending'[a] = pending[a] /\ promise'[a] = promise[a] /\ timer'[a] = timer[a]
  /\ cleanup'[a] = cleanup[a] /\ request'[a] = request[a]
  /\ askFallback'[a] = askFallback[a] /\ agent'[a] = agent[a]
  /\ heard'[a] = heard[a] /\ ruling'[a] = ruling[a] /\ ran'[a] = ran[a]

LEMMA SameKeeps ==
  ASSUME NEW a \in Approvals, AInv(a), Same(a)
  PROVE  AInv(a)'
BY DEF Same, AInv, FreshApart, DeliveryInStep, RecordShowsRuling, AgentHearsRuling,
       RanAsRuled, InStep, Known, Pending

LEMMA SettleKeeps ==
  ASSUME TypeOK, NEW a \in Approvals, NEW d \in Decisions \cup {None},
         NEW by \in {"null", "no-approval-route", "operator"}, Settle(a, d, by)
  PROVE  /\ pending' \in [Approvals -> Entry \cup {NoEntry}]
         /\ promise' \in [Approvals -> Decisions \cup {"open", None}]
         /\ timer' \in [Approvals -> BOOLEAN] /\ cleanup' \in [Approvals -> BOOLEAN]
         /\ pending'[a] \in Entry /\ pending'[a].resolved /\ pending'[a].decision = d
         /\ pending'[a].resolvedBy = by
         /\ pending'[a].consumedDecision = pending[a].consumedDecision
         /\ promise'[a] = d /\ ~timer'[a] /\ cleanup'[a]
         /\ \A b \in Approvals \ {a} :
              /\ pending'[b] = pending[b] /\ promise'[b] = promise[b]
              /\ timer'[b] = timer[b] /\ cleanup'[b] = cleanup[b]
<1> DEFINE r == [pending[a] EXCEPT !.resolved = TRUE, !.decision = d, !.resolvedBy = by]
<1>1. pending[a] \in Entry
  BY DEF TypeOK, Settle, Pending, Known
<1>2. /\ r \in Entry /\ r.resolved /\ r.decision = d /\ r.resolvedBy = by
      /\ r.consumedDecision = pending[a].consumedDecision
  BY <1>1 DEF Entry
<1>3. pending' = [pending EXCEPT ![a] = r]
  BY DEF Settle
<1> HIDE DEF r
<1>4. /\ pending' \in [Approvals -> Entry \cup {NoEntry}] /\ pending'[a] = r
      /\ \A b \in Approvals \ {a} : pending'[b] = pending[b]
  BY <1>2, <1>3 DEF TypeOK
<1>5. /\ promise' = [promise EXCEPT ![a] = d]
      /\ timer' = [timer EXCEPT ![a] = FALSE]
      /\ cleanup' = [cleanup EXCEPT ![a] = TRUE]
  BY DEF Settle
<1>6. /\ promise' \in [Approvals -> Decisions \cup {"open", None}] /\ promise'[a] = d
      /\ \A b \in Approvals \ {a} : promise'[b] = promise[b]
  BY <1>5 DEF TypeOK
<1>7. /\ timer' \in [Approvals -> BOOLEAN] /\ ~timer'[a]
      /\ \A b \in Approvals \ {a} : timer'[b] = timer[b]
  BY <1>5 DEF TypeOK
<1>8. /\ cleanup' \in [Approvals -> BOOLEAN] /\ cleanup'[a]
      /\ \A b \in Approvals \ {a} : cleanup'[b] = cleanup[b]
  BY <1>5 DEF TypeOK
<1> QED
  BY <1>2, <1>4, <1>6, <1>7, <1>8

-----------------------------------------------------------------------------
(* Steps of the record and of the operators *)

\* A decision or an expiry keeps what the record, the promise and the agent say.
LEMMA SettleInvariant ==
  ASSUME IInv, NEW a \in Approvals, NEW d \in Decisions \cup {None},
         NEW by \in {"null", "no-approval-route", "operator"}, Settle(a, d, by),
         d = None <=> by # "operator",
         ruling'[a] = IF d = None THEN ruling[a] ELSE d,
         agent[a] # "idle" => agent'[a] # "idle",
         UNCHANGED <<askFallback, ran>>
  PROVE  FreshApart(a)' /\ RecordShowsRuling(a)' /\ RanAsRuled(a)' /\ InStep(a)'
<1>1. AInv(a) /\ TypeOK
  BY DEF IInv
<1>2. /\ Pending(a) /\ Known(a) /\ agent[a] # "idle"
      /\ ruling[a] = None /\ ran[a] = 0 /\ pending[a].consumedDecision = None
  BY <1>1 DEF Settle, Pending, AInv, FreshApart, RecordShowsRuling
<1>3. /\ pending'[a] \in Entry /\ pending'[a].resolved /\ pending'[a].decision = d
      /\ pending'[a].resolvedBy = by
      /\ pending'[a].consumedDecision = None
      /\ promise'[a] = d /\ ~timer'[a] /\ cleanup'[a]
  BY <1>1, <1>2, SettleKeeps
<1>4. Known(a)' /\ ~Pending(a)'
  BY <1>3, EntryKinds DEF Known, Pending
<1>5. FreshApart(a)'
  BY <1>2 DEF FreshApart
<1>6. RecordShowsRuling(a)'
  BY <1>2, <1>3, <1>4 DEF RecordShowsRuling, Decisions, Allowing, None
<1>7. RanAsRuled(a)'
  BY <1>2 DEF RanAsRuled
<1>8. InStep(a)'
  BY <1>3, <1>4 DEF InStep, Decisions, Allowing, None
<1> QED
  BY <1>5, <1>6, <1>7, <1>8

LEMMA ExpiryInvariant ==
  ASSUME IInv, NEW a \in Approvals, ExpiryTimerFires(a)
  PROVE  IInv'
<1> USE DEF ExpiryTimerFires
<1>1. TypeOK /\ (\A b \in Approvals : AInv(b)) /\ \A o \in Operators : ToldAsRuled(o)
  BY DEF IInv
<1>2. Settle(a, None, "null") /\ None # "operator"
  BY DEF None
<1>3. /\ pending' \in [Approvals -> Entry \cup {NoEntry}]
      /\ promise' \in [Approvals -> Decisions \cup {"open", None}]
      /\ timer' \in [Approvals -> BOOLEAN] /\ cleanup' \in [Approvals -> BOOLEAN]
      /\ promise'[a] = None
      /\ \A b \in Approvals \ {a} :
           /\ pending'[b] = pending[b] /\ promise'[b] = promise[b]
           /\ timer'[b] = timer[b] /\ cleanup'[b] = cleanup[b]
  BY <1>1, <1>2, SettleKeeps
<1>4. TypeOK'
  BY <1>1, <1>3 DEF TypeOK
<1>5. AInv(a)'
  <2>1. FreshApart(a)' /\ RecordShowsRuling(a)' /\ RanAsRuled(a)' /\ InStep(a)'
    BY <1>2, SettleInvariant
  <2>2. DeliveryInStep(a)' /\ AgentHearsRuling(a)'
    BY <1>1, <1>3 DEF AInv, DeliveryInStep, AgentHearsRuling, Decisions, Allowing, None
  <2> QED
    BY <2>1, <2>2 DEF AInv
<1>6. \A b \in Approvals \ {a} : AInv(b)'
  BY <1>1, <1>3, SameKeeps DEF Same
<1>7. \A o \in Operators : ToldAsRuled(o)'
  BY <1>1 DEF ToldAsRuled
<1> QED
  BY <1>4, <1>5, <1>6, <1>7 DEF IInv

LEMMA ResolveInvariant ==
  ASSUME IInv, NEW o \in Operators, NEW a \in Approvals, NEW d \in Decisions, Resolve(o, a, d)
  PROVE  IInv'
<1> USE DEF Resolve
<1>1. TypeOK /\ (\A b \in Approvals : AInv(b)) /\ \A p \in Operators : ToldAsRuled(p)
  BY DEF IInv
<1>2. Settle(a, d, "operator") /\ d # None
  BY DEF None, Decisions, Allowing
<1>3. /\ pending' \in [Approvals -> Entry \cup {NoEntry}]
      /\ promise' \in [Approvals -> Decisions \cup {"open", None}]
      /\ timer' \in [Approvals -> BOOLEAN] /\ cleanup' \in [Approvals -> BOOLEAN]
      /\ promise'[a] = d
      /\ \A b \in Approvals \ {a} :
           /\ pending'[b] = pending[b] /\ promise'[b] = promise[b]
           /\ timer'[b] = timer[b] /\ cleanup'[b] = cleanup[b]
  BY <1>1, <1>2, SettleKeeps
<1>4. Pending(a) /\ ruling[a] = None /\ promise[a] = "open"
  BY <1>1, <1>2 DEF Settle, AInv, RecordShowsRuling, InStep, FreshApart, Pending
<1>5. /\ ruling' \in [Approvals -> Decisions \cup {None}]
      /\ ruling'[a] = d
      /\ \A b \in Approvals \ {a} : ruling'[b] = ruling[b]
  BY <1>1, <1>4 DEF TypeOK
<1> DEFINE c == [about |-> a, decision |-> d, answer |-> "ok"]
<1>6. c \in Call /\ c # NoCall /\ c.about = a /\ c.decision = d
  BY CallKinds DEF Answers
<1>7. call' = [call EXCEPT ![o] = c]
  BY DEF Answer
<1> HIDE DEF c
<1>8. TypeOK'
  <2>1. call' \in [Operators -> Call \cup {NoCall}]
    BY <1>1, <1>6, <1>7 DEF TypeOK
  <2> QED
    BY <1>1, <1>3, <1>5, <2>1 DEF TypeOK
<1>9. AInv(a)'
  <2>1. FreshApart(a)' /\ RecordShowsRuling(a)' /\ RanAsRuled(a)' /\ InStep(a)'
    BY <1>2, <1>5, SettleInvariant
  <2>2. DeliveryInStep(a)'
    BY <1>1 DEF AInv, DeliveryInStep
  <2>3. AgentHearsRuling(a)'
    BY <1>1, <1>3, <1>4, <1>5 DEF AInv, AgentHearsRuling, Decisions, Allowing, None
  <2> QED
    BY <2>1, <2>2, <2>3 DEF AInv
<1>10. \A b \in Approvals \ {a} : AInv(b)'
  BY <1>1, <1>3, <1>5, SameKeeps DEF Same
<1>11. ASSUME NEW p \in Operators PROVE ToldAsRuled(p)'
  <2>1. CASE p = o
    BY <1>1, <1>5, <1>6, <1>7, <2>1 DEF ToldAsRuled, TypeOK
  <2>2. CASE p # o
    <3> SUFFICES ASSUME call[p] # NoCall, call[p].answer = "ok"
                 PROVE  call[p].decision = ruling'[call[p].about]
      BY <1>1, <1>7, <2>2 DEF ToldAsRuled, TypeOK
    <3>1. call[p] \in Call /\ call[p].decision = ruling[call[p].about]
      BY <1>1 DEF ToldAsRuled, TypeOK
    <3>2. call[p].about # a
      BY <1>4, <3>1 DEF Call, Decisions, Allowing, None
    <3>3. call[p].about \in Approvals
      BY <3>1 DEF Call
    <3> QED
      BY <1>5, <3>1, <3>2, <3>3
  <2> QED
    BY <2>1, <2>2
<1> QED
  BY <1>8, <1>9, <1>10, <1>11 DEF IInv

LEMMA RepeatInvariant ==
  ASSUME IInv, NEW o \in Operators, NEW a \in Approvals, NEW d \in Decisions,
         ResolveRepeat(o, a, d) \/ ResolveUnavailable(o, a, d) \/ ResolveUnknown(o, a, d)
  PROVE  IInv'
<1>1. TypeOK /\ (\A b \in Approvals : AInv(b)) /\ \A p \in Operators : ToldAsRuled(p)
  BY DEF IInv
<1>2. UNCHANGED <<pending, promise, timer, cleanup, clock, request, askFallback, agent, heard,
                  ruling, ran>>
  BY DEF ResolveRepeat, ResolveUnavailable, ResolveUnknown, managerVars
<1>3. PICK w \in Answers :
        /\ call' = [call EXCEPT ![o] = [about |-> a, decision |-> d, answer |-> w]]
        /\ w = "ok" => /\ Known(a) /\ pending[a].resolved
                       /\ resolveRecordedApprovalDecision(a) = d
  <2>1. CASE ResolveRepeat(o, a, d)
    BY <2>1 DEF ResolveRepeat, Answer, Answers
  <2>2. CASE ResolveUnavailable(o, a, d) \/ ResolveUnknown(o, a, d)
    BY <2>2 DEF ResolveUnavailable, ResolveUnknown, Answer, Answers
  <2> QED
    BY <2>1, <2>2
<1> DEFINE c == [about |-> a, decision |-> d, answer |-> w]
<1>4. c \in Call /\ c.about = a /\ c.decision = d /\ c.answer = w
  BY CallKinds
<1>5. call' = [call EXCEPT ![o] = c]
  BY <1>3
<1>6. w = "ok" => ruling[a] = d
  BY <1>1, <1>3 DEF AInv, RecordShowsRuling, resolveRecordedApprovalDecision, Decisions,
                    Allowing, None
<1> HIDE DEF c
<1>7. TypeOK'
  <2>1. call' \in [Operators -> Call \cup {NoCall}]
    BY <1>1, <1>4, <1>5 DEF TypeOK
  <2> QED
    BY <1>1, <1>2, <2>1 DEF TypeOK
<1>8. \A b \in Approvals : AInv(b)'
  BY <1>1, <1>2, SameKeeps DEF Same
<1>9. \A p \in Operators : ToldAsRuled(p)'
  BY <1>1, <1>2, <1>4, <1>5, <1>6 DEF ToldAsRuled, TypeOK
<1> QED
  BY <1>7, <1>8, <1>9 DEF IInv

-----------------------------------------------------------------------------
(* Steps of the request and of the agent *)

\* The steps of one approval that leave its record and its rulings alone.
Frame(a) ==
  /\ \A b \in Approvals \ {a} :
       request'[b] = request[b] /\ agent'[b] = agent[b] /\ heard'[b] = heard[b]
  /\ UNCHANGED <<pending, promise, timer, cleanup, askFallback, call, ruling, ran>>

LEMMA FrameInvariant ==
  ASSUME IInv, NEW a \in Approvals, Frame(a), TypeOK',
         agent[a] # "idle", agent'[a] # "idle",
         DeliveryInStep(a)', AgentHearsRuling(a)'
  PROVE  IInv'
<1>1. (\A b \in Approvals : AInv(b)) /\ \A p \in Operators : ToldAsRuled(p)
  BY DEF IInv
<1>2. \A b \in Approvals \ {a} : AInv(b)'
  BY <1>1, SameKeeps DEF Same, Frame
<1>3. FreshApart(a)' /\ RecordShowsRuling(a)' /\ RanAsRuled(a)' /\ InStep(a)'
  BY <1>1 DEF Frame, AInv, FreshApart, RecordShowsRuling, RanAsRuled, InStep, Known, Pending
<1>4. \A p \in Operators : ToldAsRuled(p)'
  BY <1>1 DEF Frame, ToldAsRuled
<1> QED
  BY <1>2, <1>3, <1>4 DEF IInv, AInv

LEMMA RegisterInvariant ==
  ASSUME IInv, NEW a \in Approvals, Register(a)
  PROVE  IInv'
<1> USE DEF Register
<1>1. TypeOK /\ (\A b \in Approvals : AInv(b)) /\ \A p \in Operators : ToldAsRuled(p)
  BY DEF IInv
<1> DEFINE r == [resolved |-> FALSE, decision |-> None, consumedDecision |-> None,
                 resolvedBy |-> "unset"]
<1>2. r \in Entry /\ ~r.resolved /\ r.decision = None /\ r.consumedDecision = None
  BY DEF Entry
<1>3. pending' = [pending EXCEPT ![a] = r]
  OBVIOUS
<1> HIDE DEF r
<1>4. /\ pending' \in [Approvals -> Entry \cup {NoEntry}] /\ pending'[a] = r
      /\ \A b \in Approvals \ {a} : pending'[b] = pending[b]
  <2> HIDE DEF Register
  <2>1. pending \in [Approvals -> Entry \cup {NoEntry}]
    BY <1>1 DEF TypeOK
  <2> QED
    BY <1>2, <1>3, <2>1
<1>5. /\ timer' \in [Approvals -> BOOLEAN] /\ timer'[a]
      /\ \A b \in Approvals \ {a} : timer'[b] = timer[b]
  BY <1>1 DEF TypeOK
<1>6. /\ request'[a] = "delivering" /\ agent'[a] = "registering"
      /\ \A b \in Approvals \ {a} : request'[b] = request[b] /\ agent'[b] = agent[b]
  BY <1>1 DEF TypeOK
<1>7. TypeOK'
  BY <1>1, <1>4, <1>5 DEF TypeOK
<1>8. Pending(a)' /\ Known(a)'
  BY <1>2, <1>4, EntryKinds DEF Pending, Known
<1>9. /\ promise[a] = "open" /\ ruling[a] = None /\ ran[a] = 0
      /\ ~cleanup[a]
  BY <1>1 DEF AInv, FreshApart, InStep
<1>10. AInv(a)'
  <2>1. RecordShowsRuling(a)'
    BY <1>2, <1>4, <1>8, <1>9 DEF RecordShowsRuling, Pending
  <2>2. FreshApart(a)' /\ DeliveryInStep(a)'
    BY <1>6 DEF FreshApart, DeliveryInStep
  <2>3. AgentHearsRuling(a)' /\ RanAsRuled(a)'
    BY <1>1, <1>6, <1>9 DEF AInv, AgentHearsRuling, RanAsRuled
  <2>4. InStep(a)'
    BY <1>5, <1>8, <1>9 DEF InStep, Pending
  <2> QED
    BY <2>1, <2>2, <2>3, <2>4 DEF AInv
<1>11. \A b \in Approvals \ {a} : AInv(b)'
  BY <1>1, <1>4, <1>5, <1>6, SameKeeps DEF Same
<1>12. \A p \in Operators : ToldAsRuled(p)'
  BY <1>1 DEF ToldAsRuled
<1> QED
  BY <1>7, <1>10, <1>11, <1>12 DEF IInv

LEMMA NoRouteInvariant ==
  ASSUME IInv, NEW a \in Approvals, NoApprovalRoute(a)
  PROVE  IInv'
<1> USE DEF NoApprovalRoute
<1>1. TypeOK /\ (\A b \in Approvals : AInv(b)) /\ \A p \in Operators : ToldAsRuled(p)
  BY DEF IInv
<1>2. /\ request' \in [Approvals -> {"none", "delivering", "waiting", "answered"}]
      /\ request'[a] = "answered" /\ heard'[a] = None /\ agent'[a] = "deciding"
      /\ \A b \in Approvals \ {a} :
           request'[b] = request[b] /\ agent'[b] = agent[b] /\ heard'[b] = heard[b]
  BY <1>1 DEF TypeOK
<1>3. agent[a] # "idle"
  BY <1>1 DEF AInv, DeliveryInStep
<1>4. CASE Settle(a, None, "no-approval-route")
  <2>1. None # "operator"
    BY DEF None
  <2>2. /\ pending' \in [Approvals -> Entry \cup {NoEntry}]
        /\ promise' \in [Approvals -> Decisions \cup {"open", None}]
        /\ timer' \in [Approvals -> BOOLEAN] /\ cleanup' \in [Approvals -> BOOLEAN]
        /\ promise'[a] = None
        /\ \A b \in Approvals \ {a} :
             /\ pending'[b] = pending[b] /\ promise'[b] = promise[b]
             /\ timer'[b] = timer[b] /\ cleanup'[b] = cleanup[b]
    BY <1>1, <1>4, SettleKeeps
  <2>3. TypeOK'
    BY <1>1, <1>2, <2>2 DEF TypeOK
  <2>4. AInv(a)'
    <3>1. FreshApart(a)' /\ RecordShowsRuling(a)' /\ RanAsRuled(a)' /\ InStep(a)'
      BY <1>2, <1>4, <2>1, SettleInvariant
    <3>2. DeliveryInStep(a)' /\ AgentHearsRuling(a)'
      BY <1>2, <2>2 DEF DeliveryInStep, AgentHearsRuling, Decisions, Allowing, None
    <3> QED
      BY <3>1, <3>2 DEF AInv
  <2>5. \A b \in Approvals \ {a} : AInv(b)'
    BY <1>1, <1>2, <2>2, SameKeeps DEF Same
  <2>6. \A p \in Operators : ToldAsRuled(p)'
    BY <1>1 DEF ToldAsRuled
  <2> QED
    BY <2>3, <2>4, <2>5, <2>6 DEF IInv
<1>5. CASE UNCHANGED managerVars
  <2>1. UNCHANGED <<pending, promise, timer, cleanup>>
    BY <1>5 DEF managerVars
  <2>2. TypeOK'
    BY <1>1, <1>2, <2>1 DEF TypeOK
  <2>3. DeliveryInStep(a)' /\ AgentHearsRuling(a)'
    BY <1>1, <1>2, <2>1 DEF AInv, DeliveryInStep, AgentHearsRuling, Decisions, Allowing, None
  <2> QED
    BY <1>2, <1>3, <2>1, <2>2, <2>3, FrameInvariant DEF Frame
<1> QED
  BY <1>4, <1>5 DEF expire

LEMMA RequestInvariant ==
  ASSUME IInv, NEW a \in Approvals, Accept(a) \/ AnswerRequest(a)
  PROVE  IInv'
<1>1. TypeOK /\ AInv(a)
  BY DEF IInv
<1>2. UNCHANGED <<pending, promise, timer, cleanup, clock, askFallback, heard, call, ruling, ran>>
  BY DEF Accept, AnswerRequest, managerVars
<1>3. TypeOK'
  BY <1>1, <1>2 DEF Accept, AnswerRequest, TypeOK
<1>4. agent[a] # "idle" /\ agent'[a] # "idle"
  BY <1>1 DEF Accept, AnswerRequest, AInv, DeliveryInStep, FreshApart, TypeOK
<1>5. DeliveryInStep(a)' /\ AgentHearsRuling(a)'
  BY <1>1, <1>2 DEF Accept, AnswerRequest, AInv, DeliveryInStep, AgentHearsRuling, TypeOK
<1>6. Frame(a)
  BY <1>1, <1>2 DEF Accept, AnswerRequest, Frame, TypeOK
<1> QED
  BY <1>3, <1>4, <1>5, <1>6, FrameInvariant

LEMMA AgentInvariant ==
  ASSUME IInv, NEW a \in Approvals, Agent(a) \/ DecisionUndefined(a)
  PROVE  IInv'
<1>1. TypeOK /\ AInv(a)
  BY DEF IInv
<1>2. /\ UNCHANGED <<pending, promise, timer, cleanup, clock, request, askFallback, call,
                     ruling, ran>>
      /\ agent[a] \in {"accepted", "waiting", "deciding"}
  BY DEF Agent, WaitDecision, HearDecision, Decide, DecisionUndefined, managerVars
<1>3. CASE WaitDecision(a)
  <2>1. TypeOK' /\ Frame(a)
    BY <1>1, <1>2, <1>3 DEF WaitDecision, TypeOK, Frame
  <2>2. agent'[a] \in {"waiting", "deciding"} /\ heard'[a] = heard[a]
    BY <1>1, <1>3 DEF WaitDecision, TypeOK
  <2>3. DeliveryInStep(a)' /\ AgentHearsRuling(a)'
    BY <1>1, <1>2, <2>2 DEF AInv, DeliveryInStep, AgentHearsRuling
  <2> QED
    BY <1>2, <2>1, <2>2, <2>3, FrameInvariant
<1>4. CASE HearDecision(a)
  <2>1. promise[a] \in Decisions \cup {None}
    BY <1>1, <1>4 DEF HearDecision, TypeOK
  <2>2. TypeOK' /\ Frame(a)
    BY <1>1, <1>2, <1>4, <2>1 DEF HearDecision, TypeOK, Frame
  <2>3. agent'[a] = "deciding" /\ heard'[a] = promise[a]
    BY <1>1, <1>4 DEF HearDecision, TypeOK
  <2>4. DeliveryInStep(a)' /\ AgentHearsRuling(a)'
    BY <1>1, <1>2, <2>3 DEF AInv, DeliveryInStep, AgentHearsRuling
  <2> QED
    BY <1>2, <2>2, <2>3, <2>4, FrameInvariant
<1>5. CASE Decide(a)
  <2>1. /\ heard[a] \in Allowing \cup {"deny", None}
        /\ askFallback[a] \in {"deny", "allowlist", "full"}
    BY <1>1 DEF TypeOK, Decisions
  <2>2. PICK next \in CASE heard[a] \in Allowing -> {"invoking"}
                       [] heard[a] = "deny" -> {"denied"}
                       [] heard[a] = None -> Undecided(a) :
          agent' = [agent EXCEPT ![a] = next]
    BY <1>5 DEF Decide
  <2>3. /\ next \in {"invoking", "denied", "unapproved"}
        /\ next = "invoking" /\ heard[a] = None => askFallback[a] = "full"
        /\ UNCHANGED heard
    BY <1>5, <2>1, <2>2 DEF Allowing, None, Undecided, Decide
  <2>4. /\ agent'[a] = next
        /\ \A b \in Approvals \ {a} : agent'[b] = agent[b]
        /\ TypeOK'
    BY <1>1, <1>2, <2>2, <2>3 DEF TypeOK
  <2>5. DeliveryInStep(a)' /\ AgentHearsRuling(a)'
    BY <1>1, <1>2, <2>3, <2>4 DEF AInv, DeliveryInStep, AgentHearsRuling
  <2>6. Frame(a)
    BY <1>2, <2>3, <2>4 DEF Frame
  <2> QED
    BY <1>2, <2>3, <2>4, <2>5, <2>6, FrameInvariant
<1>6. CASE DecisionUndefined(a)
  <2>1. TypeOK' /\ Frame(a) /\ agent'[a] = "denied" /\ UNCHANGED heard
    BY <1>1, <1>2, <1>6 DEF DecisionUndefined, TypeOK, Frame
  <2>2. DeliveryInStep(a)' /\ AgentHearsRuling(a)'
    BY <1>1, <1>2, <2>1 DEF AInv, DeliveryInStep, AgentHearsRuling
  <2> QED
    BY <1>2, <2>1, <2>2, FrameInvariant
<1> QED
  BY <1>3, <1>4, <1>5, <1>6 DEF Agent

-----------------------------------------------------------------------------
(* Steps of the clock, the cleanup and the node *)

LEMMA TickInvariant ==
  ASSUME IInv, NEW a \in Approvals, Tick(a)
  PROVE  IInv'
<1>1. TypeOK /\ (\A b \in Approvals : AInv(b)) /\ \A p \in Operators : ToldAsRuled(p)
  BY DEF IInv
<1>2. /\ UNCHANGED <<pending, promise, timer, cleanup, request, askFallback, agent, heard,
                     call, ruling, ran>>
      /\ clock' \in [Approvals -> {"before", "at", "after"}]
  BY <1>1 DEF Tick, managerVars, TypeOK
<1>3. TypeOK'
  BY <1>1, <1>2 DEF TypeOK
<1>4. \A b \in Approvals : AInv(b)'
  BY <1>1, <1>2, SameKeeps DEF Same
<1>5. \A p \in Operators : ToldAsRuled(p)'
  BY <1>1, <1>2 DEF ToldAsRuled
<1> QED
  BY <1>3, <1>4, <1>5 DEF IInv

LEMMA CleanupInvariant ==
  ASSUME IInv, NEW a \in Approvals, CleanupFires(a)
  PROVE  IInv'
<1>1. TypeOK /\ (\A b \in Approvals : AInv(b)) /\ \A p \in Operators : ToldAsRuled(p)
  BY DEF IInv
<1>2. /\ cleanup[a]
      /\ cleanup' = [cleanup EXCEPT ![a] = FALSE]
      /\ pending' = [pending EXCEPT ![a] = NoEntry]
      /\ UNCHANGED <<promise, timer, clock, request, askFallback, agent, heard, call, ruling,
                     ran>>
  BY DEF CleanupFires
<1>3. /\ pending' \in [Approvals -> Entry \cup {NoEntry}] /\ pending'[a] = NoEntry
      /\ \A b \in Approvals \ {a} : pending'[b] = pending[b]
  BY <1>1, <1>2 DEF TypeOK
<1>4. /\ cleanup' \in [Approvals -> BOOLEAN] /\ ~cleanup'[a]
      /\ \A b \in Approvals \ {a} : cleanup'[b] = cleanup[b]
  BY <1>1, <1>2 DEF TypeOK
<1>5. TypeOK'
  BY <1>1, <1>2, <1>3, <1>4 DEF TypeOK
<1>6. Known(a) /\ ~Pending(a) /\ ~Known(a)' /\ ~Pending(a)'
  BY <1>1, <1>2, <1>3 DEF AInv, InStep, Known, Pending
<1>7. AInv(a)'
  <2>1. FreshApart(a)' /\ DeliveryInStep(a)' /\ AgentHearsRuling(a)' /\ RanAsRuled(a)'
    BY <1>1, <1>2, <1>6
    DEF AInv, FreshApart, DeliveryInStep, AgentHearsRuling, RanAsRuled
  <2>2. RecordShowsRuling(a)'
    BY <1>6 DEF RecordShowsRuling
  <2>3. InStep(a)'
    BY <1>1, <1>2, <1>4, <1>6 DEF AInv, InStep
  <2> QED
    BY <2>1, <2>2, <2>3 DEF AInv
<1>8. \A b \in Approvals \ {a} : AInv(b)'
  BY <1>1, <1>2, <1>3, <1>4, SameKeeps DEF Same
<1>9. \A p \in Operators : ToldAsRuled(p)'
  BY <1>1, <1>2 DEF ToldAsRuled
<1> QED
  BY <1>5, <1>7, <1>8, <1>9 DEF IInv

\* A forwarded call is one the ruling, or the fallback without one, lets run.
LEMMA ForwardInvariant ==
  ASSUME IInv, NEW a \in Approvals, MayInvoke(a), Current(a), Forwarded(a),
         pending' \in [Approvals -> Entry \cup {NoEntry}],
         \A b \in Approvals \ {a} : pending'[b] = pending[b],
         Known(a)', pending'[a].resolved, pending[a].resolved,
         RecordShowsRuling(a)', RanAsRuled(a)'
  PROVE  IInv'
<1>1. TypeOK /\ (\A b \in Approvals : AInv(b)) /\ \A p \in Operators : ToldAsRuled(p)
  BY DEF IInv
<1>2. /\ agent' = [agent EXCEPT ![a] = "ran"]
      /\ ran' = [ran EXCEPT ![a] = @ + 1]
      /\ UNCHANGED <<promise, timer, cleanup, clock, request, askFallback, heard, call, ruling>>
      /\ agent[a] \in {"invoking", "ran"} /\ ran[a] < MaxInvokes
      /\ Known(a)
  BY DEF Forwarded, MayInvoke, Current
<1>3. /\ ran' \in [Approvals -> 0..MaxInvokes]
      /\ \A b \in Approvals \ {a} : ran'[b] = ran[b]
  BY <1>1, <1>2, MaxInvokesAssumption DEF TypeOK
<1>4. /\ agent'[a] = "ran"
      /\ \A b \in Approvals \ {a} : agent'[b] = agent[b]
  BY <1>1, <1>2 DEF TypeOK
<1>5. TypeOK'
  BY <1>1, <1>2, <1>3, <1>4 DEF TypeOK
<1>6. AInv(a)'
  <2>1. FreshApart(a)' /\ DeliveryInStep(a)' /\ AgentHearsRuling(a)'
    BY <1>1, <1>2, <1>4 DEF AInv, FreshApart, DeliveryInStep, AgentHearsRuling
  <2>2. InStep(a)'
    BY <1>1, <1>2, <1>4 DEF AInv, InStep, Pending
  <2> QED
    BY <2>1, <2>2 DEF AInv
<1>7. \A b \in Approvals \ {a} : AInv(b)'
  BY <1>1, <1>2, <1>3, <1>4, SameKeeps DEF Same
<1>8. \A p \in Operators : ToldAsRuled(p)'
  BY <1>1, <1>2 DEF ToldAsRuled
<1> QED
  BY <1>5, <1>6, <1>7, <1>8 DEF IInv

LEMMA InvokeInvariant ==
  ASSUME IInv, NEW a \in Approvals, Invoke(a)
  PROVE  IInv'
<1>1. TypeOK /\ AInv(a)
  BY DEF IInv
<1>2. CASE InvokeAllowedOnce(a)
  <2>1. /\ MayInvoke(a) /\ Current(a) /\ Forwarded(a) /\ Known(a)
        /\ pending[a].decision = "allow-once"
    BY <1>2 DEF InvokeAllowedOnce, Current
  <2>2. pending[a] \in Entry
    BY <1>1, <2>1 DEF TypeOK, Known
  <2>3. /\ ~Pending(a) /\ pending[a].resolved /\ pending[a].resolvedBy = "operator"
        /\ ruling[a] = "allow-once" /\ ran[a] = 0
    BY <1>1, <2>1 DEF AInv, RecordShowsRuling, Pending, None, Decisions, Allowing
  <2> DEFINE r == [pending[a] EXCEPT !.consumedDecision = "allow-once", !.decision = None]
  <2>4. /\ r \in Entry /\ r.resolved /\ r.resolvedBy = "operator"
        /\ r.decision = None /\ r.consumedDecision = "allow-once"
    BY <2>2, <2>3 DEF Entry, Decisions, Allowing
  <2>5. pending' = [pending EXCEPT ![a] = r]
    BY <1>2 DEF InvokeAllowedOnce
  <2> HIDE DEF r
  <2>6. /\ pending' \in [Approvals -> Entry \cup {NoEntry}] /\ pending'[a] = r
        /\ \A b \in Approvals \ {a} : pending'[b] = pending[b]
    BY <1>1, <2>4, <2>5 DEF TypeOK
  <2>7. ruling'[a] = "allow-once" /\ ran'[a] = 1
    BY <1>1, <2>1, <2>3 DEF Forwarded, TypeOK
  <2>8. Known(a)'
    BY <2>4, <2>6, EntryKinds DEF Known
  <2>9. RecordShowsRuling(a)' /\ RanAsRuled(a)'
    BY <2>4, <2>6, <2>7, <2>8 DEF RecordShowsRuling, RanAsRuled, Pending, Allowing
  <2> QED
    BY <2>1, <2>3, <2>4, <2>6, <2>8, <2>9, ForwardInvariant
<1>3. CASE InvokeAllowedAlways(a)
  <2>1. /\ MayInvoke(a) /\ Current(a) /\ Forwarded(a) /\ Known(a) /\ pending' = pending
        /\ pending[a].decision = "allow-always"
    BY <1>3 DEF InvokeAllowedAlways, Current
  <2>2. ruling[a] = "allow-always" /\ pending[a].resolved /\ ~Pending(a)
        /\ pending[a].resolvedBy = "operator"
    BY <1>1, <2>1 DEF AInv, RecordShowsRuling, Pending, None, Decisions, Allowing
  <2>3. ruling'[a] = "allow-always" /\ Known(a)' /\ ~Pending(a)'
    BY <2>1, <2>2 DEF Forwarded, Known, Pending
  <2>4. RecordShowsRuling(a)' /\ RanAsRuled(a)'
    <3>1. RecordShowsRuling(a)'
      BY <1>1, <2>1, <2>2, <2>3 DEF AInv, RecordShowsRuling
    <3>2. RanAsRuled(a)'
      BY <2>3 DEF RanAsRuled, Allowing
    <3> QED
      BY <3>1, <3>2
  <2>5. /\ pending' \in [Approvals -> Entry \cup {NoEntry}] /\ pending'[a].resolved
        /\ \A b \in Approvals \ {a} : pending'[b] = pending[b]
    BY <1>1, <2>1, <2>2 DEF TypeOK
  <2> QED
    BY <2>1, <2>2, <2>3, <2>4, <2>5, ForwardInvariant
<1>4. CASE InvokeTimedOut(a)
  <2>1. /\ MayInvoke(a) /\ Current(a) /\ Forwarded(a) /\ Known(a) /\ pending' = pending
        /\ pending[a].resolved /\ pending[a].resolvedBy = "null"
        /\ RequestedDecision(a) = "allow-once"
    BY <1>4 DEF InvokeTimedOut, Current, TimedOut
  <2>2. ruling[a] = None /\ ~Pending(a)
    BY <1>1, <2>1 DEF AInv, RecordShowsRuling, Pending
  <2>3. heard[a] = None
    BY <1>1, <2>1, <2>2
    DEF AInv, AgentHearsRuling, RequestedDecision, TypeOK, None, Decisions, Allowing
  <2>4. askFallback[a] = "full"
    BY <1>1, <2>1, <2>3 DEF AInv, AgentHearsRuling, MayInvoke
  <2>5. ruling'[a] = None /\ askFallback'[a] = "full" /\ Known(a)' /\ ~Pending(a)'
    BY <2>1, <2>2, <2>4 DEF Forwarded, Known, Pending
  <2>6. RecordShowsRuling(a)'
    BY <1>1, <2>1, <2>2, <2>5 DEF AInv, RecordShowsRuling
  <2>7. RanAsRuled(a)'
    BY <2>5 DEF RanAsRuled, None
  <2>8. /\ pending' \in [Approvals -> Entry \cup {NoEntry}] /\ pending'[a].resolved
        /\ \A b \in Approvals \ {a} : pending'[b] = pending[b]
    BY <1>1, <2>1 DEF TypeOK
  <2> QED
    BY <2>1, <2>5, <2>6, <2>7, <2>8, ForwardInvariant
<1>5. CASE InvokeRefused(a)
  <2>1. /\ agent[a] = "invoking" /\ agent' = [agent EXCEPT ![a] = "refused"]
        /\ UNCHANGED <<pending, promise, timer, cleanup, clock, request, askFallback, heard,
                       call, ruling, ran>>
    BY <1>5 DEF InvokeRefused, managerVars
  <2>2. TypeOK' /\ Frame(a) /\ agent'[a] = "refused"
    BY <1>1, <2>1 DEF TypeOK, Frame
  <2>3. DeliveryInStep(a)' /\ AgentHearsRuling(a)'
    BY <1>1, <2>1, <2>2 DEF AInv, DeliveryInStep, AgentHearsRuling
  <2> QED
    BY <2>1, <2>2, <2>3, FrameInvariant
<1> QED
  BY <1>2, <1>3, <1>4, <1>5 DEF Invoke

-----------------------------------------------------------------------------
(* The invariant and the theorems *)

LEMMA StepInvariant == IInv /\ [Next]_vars => IInv'
<1> SUFFICES ASSUME IInv, [Next]_vars PROVE IInv'
  OBVIOUS
<1>1. CASE UNCHANGED vars
  <2>1. UNCHANGED <<pending, promise, timer, cleanup, clock, request, askFallback, agent,
                    heard, call, ruling, ran>>
    BY <1>1 DEF vars, managerVars
  <2>2. \A a \in Approvals : AInv(a)'
    BY <2>1, SameKeeps DEF IInv, Same
  <2>3. TypeOK' /\ \A o \in Operators : ToldAsRuled(o)'
    BY <2>1 DEF IInv, TypeOK, ToldAsRuled
  <2> QED
    BY <2>2, <2>3 DEF IInv
<1>2. CASE Next
  BY <1>2, RegisterInvariant, TickInvariant, ExpiryInvariant, CleanupInvariant,
     RequestInvariant, NoRouteInvariant, AgentInvariant, InvokeInvariant, ResolveInvariant,
     RepeatInvariant
  DEF Next, Manager, Handle
<1> QED
  BY <1>1, <1>2

LEMMA Invariant == Spec => []IInv
BY InitInvariant, StepInvariant, PTL DEF Spec

\* The records, the handlers and the agents keep their types.
THEOREM TypeCorrect == Spec => []TypeOK
<1>1. IInv => TypeOK
  BY DEF IInv
<1> QED
  BY <1>1, Invariant, PTL

\* The record, its promise, its timer and the deletion of its entry never part.
THEOREM RecordStaysInStep == Spec => []RecordInStep
<1>1. IInv => RecordInStep
  BY DEF IInv, AInv, InStep, RecordInStep
<1> QED
  BY <1>1, Invariant, PTL

\* Operators who are told that their decision was recorded decided the same.
THEOREM Agreement == Spec => []OperatorsAgree
<1>1. IInv => OperatorsAgree
  BY DEF IInv, ToldAsRuled, OperatorsAgree
<1> QED
  BY <1>1, Invariant, PTL

\* Whatever ran as approved was allowed by the ruling or by the fallback.
THEOREM RunsFollowRuling == Spec => []RunsAsRuled
<1>1. IInv => RunsAsRuled
  BY DEF IInv, AInv, RanAsRuled, RunsAsRuled
<1> QED
  BY <1>1, Invariant, PTL

\* An allow-once is consumed by the one run it is good for.
THEOREM AllowOnceConsumed == Spec => []AllowOnceRunsOnce
<1>1. IInv => AllowOnceRunsOnce
  BY DEF IInv, AInv, RanAsRuled, AllowOnceRunsOnce
<1> QED
  BY <1>1, Invariant, PTL
=============================================================================
