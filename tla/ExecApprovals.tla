---------------------------- MODULE ExecApprovals ----------------------------
(***************************************************************************)
(* An approval of a command on a node, from the request to the run.  The   *)
(* gateway keeps the record (ExecApprovalManager) and answers the request, *)
(* the wait and the operators; the agent that wants the command            *)
(* (executeNodeHostCommand) registers, waits, decides with its askFallback *)
(* and sends node.invoke; the gateway checks that call against the record  *)
(* (sanitizeSystemRunParamsForForwarding) before a node runs it.           *)
(*                                                                         *)
(* An approval is named by its id, a fresh UUID per command.  Time is      *)
(* where the clock stands to the expiry of the record; the grace period of *)
(* a resolved record ends at any moment after it began.                    *)
(***************************************************************************)
EXTENDS Naturals

CONSTANTS
  Approvals,    \* identities of the approvals
  Operators,    \* identities of the calls of exec.approval.resolve
  MaxInvokes    \* bound on the node.invoke calls that name one approval

ASSUME MaxInvokesAssumption == MaxInvokes \in Nat

VARIABLES
  pending,      \* approval -> its entry in the manager's map
  clock,        \* approval -> the time, against its expiresAtMs
  promise,      \* approval -> open, or what it resolved to
  timer,        \* approval -> whether its expiry timer is armed
  cleanup,      \* approval -> whether the deletion of its entry is scheduled
  request,      \* approval -> the handler of exec.approval.request
  askFallback,  \* approval -> what its agent does without a decision
  agent,        \* approval -> where its agent is
  heard,        \* approval -> the decision its agent got
  call          \* operator -> the approval, the decision and the answer it got

\* History.
VARIABLES
  ruling,       \* approval -> the first decision an operator's call recorded
  ran           \* approval -> the node.invoke calls forwarded as approved

managerVars == <<pending, promise, timer, cleanup>>
vars == <<managerVars, clock, request, askFallback, agent, heard, call, ruling, ran>>

Allowing == {"allow-once", "allow-always"}
Decisions == Allowing \cup {"deny"}
None == "none"

NoEntry == [resolved |-> "absent"]
Entry == [resolved : BOOLEAN, decision : Decisions \cup {None},
          consumedDecision : Decisions \cup {None},
          resolvedBy : {"unset", "null", "no-approval-route", "operator"}]
Answers == {"ok", "already resolved", "unavailable", "unknown"}
NoCall == [answer |-> "unsent"]
Call == [about : Approvals, decision : Decisions, answer : Answers]

TypeOK ==
  /\ pending \in [Approvals -> Entry \cup {NoEntry}]
  /\ clock \in [Approvals -> {"before", "at", "after"}]
  /\ promise \in [Approvals -> Decisions \cup {"open", None}]
  /\ timer \in [Approvals -> BOOLEAN]
  /\ cleanup \in [Approvals -> BOOLEAN]
  /\ request \in [Approvals -> {"none", "delivering", "waiting", "answered"}]
  /\ askFallback \in [Approvals -> {"deny", "allowlist", "full"}]
  /\ agent \in [Approvals -> {"idle", "registering", "accepted", "waiting", "deciding",
                              "invoking", "ran", "refused", "denied", "unapproved"}]
  /\ heard \in [Approvals -> Decisions \cup {None}]
  /\ call \in [Operators -> Call \cup {NoCall}]
  /\ ruling \in [Approvals -> Decisions \cup {None}]
  /\ ran \in [Approvals -> 0..MaxInvokes]

Init ==
  /\ pending = [a \in Approvals |-> NoEntry]
  /\ clock = [a \in Approvals |-> "before"]
  /\ promise = [a \in Approvals |-> "open"]
  /\ timer = [a \in Approvals |-> FALSE]
  /\ cleanup = [a \in Approvals |-> FALSE]
  /\ request = [a \in Approvals |-> "none"]
  /\ askFallback \in [Approvals -> {"deny", "allowlist", "full"}]
  /\ agent = [a \in Approvals |-> "idle"]
  /\ heard = [a \in Approvals |-> None]
  /\ call = [o \in Operators |-> NoCall]
  /\ ruling = [a \in Approvals |-> None]
  /\ ran = [a \in Approvals |-> 0]

-----------------------------------------------------------------------------
(* The manager *)

Known(a) == pending[a] # NoEntry
Pending(a) == Known(a) /\ ~pending[a].resolved

\* Mutant: a second resolve overwrites the first.
SettleAgain(a, decision, by) ==
  /\ Known(a)
  /\ pending' = [pending EXCEPT ![a].resolved = TRUE, ![a].decision = decision,
                                ![a].resolvedBy = by]
  /\ promise' = [promise EXCEPT ![a] = IF @ = "open" THEN decision ELSE @]
  /\ timer' = [timer EXCEPT ![a] = FALSE]
  /\ cleanup' = [cleanup EXCEPT ![a] = TRUE]

\* Mutant: the promise is left to the caller of resolve.
SettleSilently(a, decision, by) ==
  /\ Pending(a)
  /\ pending' = [pending EXCEPT ![a].resolved = TRUE, ![a].decision = decision,
                                ![a].resolvedBy = by]
  /\ timer' = [timer EXCEPT ![a] = FALSE]
  /\ cleanup' = [cleanup EXCEPT ![a] = TRUE]
  /\ UNCHANGED promise

\* Mutant: the arguments of resolve are swapped.
SettleSwapped(a, decision, by) ==
  /\ Pending(a)
  /\ pending' = [pending EXCEPT ![a].resolved = TRUE, ![a].decision = by,
                                ![a].resolvedBy = decision]
  /\ promise' = [promise EXCEPT ![a] = decision]
  /\ timer' = [timer EXCEPT ![a] = FALSE]
  /\ cleanup' = [cleanup EXCEPT ![a] = TRUE]

\* What resolve and expire do to a pending record: the timer is cleared, the
\* promise resolves and the entry's deletion is scheduled.
Settle(a, decision, by) ==
  /\ Pending(a)
  /\ pending' = [pending EXCEPT ![a].resolved = TRUE, ![a].decision = decision,
                                ![a].resolvedBy = by]
  /\ promise' = [promise EXCEPT ![a] = decision]
  /\ timer' = [timer EXCEPT ![a] = FALSE]
  /\ cleanup' = [cleanup EXCEPT ![a] = TRUE]

\* expire does nothing to a record that is gone or resolved.
expire(a, by) == Settle(a, None, by) \/ (~Pending(a) /\ UNCHANGED managerVars)

\* The expiry timer fires, at the expiry or later.
ExpiryTimerFires(a) ==
  /\ timer[a]
  /\ clock[a] # "before"
  /\ Settle(a, None, "null")
  /\ UNCHANGED <<clock, request, askFallback, agent, heard, call, ruling, ran>>

\* The grace period of a resolved record is over.
CleanupFires(a) ==
  /\ cleanup[a]
  /\ cleanup' = [cleanup EXCEPT ![a] = FALSE]
  /\ pending' = [pending EXCEPT ![a] = NoEntry]
  /\ UNCHANGED <<promise, timer, clock, request, askFallback, agent, heard, call, ruling, ran>>

\* Time passes: nowMs reaches expiresAtMs, then exceeds it.
Tick(a) ==
  /\ agent[a] # "idle"
  /\ clock[a] # "after"
  /\ clock' = [clock EXCEPT ![a] = IF @ = "before" THEN "at" ELSE "after"]
  /\ UNCHANGED <<managerVars, request, askFallback, agent, heard, call, ruling, ran>>

-----------------------------------------------------------------------------
(* exec.approval.request *)

\* The agent sends the request; its record is registered and its timer armed in
\* the same step of the handler, which then tries to deliver the prompt.
Register(a) ==
  /\ agent[a] = "idle"
  /\ agent' = [agent EXCEPT ![a] = "registering"]
  /\ pending' = [pending EXCEPT ![a] =
                   [resolved |-> FALSE, decision |-> None, consumedDecision |-> None,
                    resolvedBy |-> "unset"]]
  /\ timer' = [timer EXCEPT ![a] = TRUE]
  /\ request' = [request EXCEPT ![a] = "delivering"]
  /\ UNCHANGED <<promise, cleanup, clock, askFallback, heard, call, ruling, ran>>

\* Some client, channel or device has the prompt: the request is accepted.
Accept(a) ==
  /\ request[a] = "delivering"
  /\ request' = [request EXCEPT ![a] = "waiting"]
  /\ agent' = [agent EXCEPT ![a] = "accepted"]
  /\ UNCHANGED <<managerVars, clock, askFallback, heard, call, ruling, ran>>

\* Nobody can be asked: the record expires for that reason, and the agent hears
\* that there is no decision.
NoApprovalRoute(a) ==
  /\ request[a] = "delivering"
  /\ expire(a, "no-approval-route")
  /\ request' = [request EXCEPT ![a] = "answered"]
  /\ heard' = [heard EXCEPT ![a] = None]
  /\ agent' = [agent EXCEPT ![a] = "deciding"]
  /\ UNCHANGED <<clock, askFallback, call, ruling, ran>>

\* The second answer of the request, which the agent no longer reads.
AnswerRequest(a) ==
  /\ request[a] = "waiting"
  /\ promise[a] # "open"
  /\ request' = [request EXCEPT ![a] = "answered"]
  /\ UNCHANGED <<managerVars, clock, askFallback, agent, heard, call, ruling, ran>>

-----------------------------------------------------------------------------
(* exec.approval.waitDecision *)

\* A record that is gone counts as no decision.
WaitDecision(a) ==
  /\ agent[a] = "accepted"
  /\ agent' = [agent EXCEPT ![a] = IF Known(a) THEN "waiting" ELSE "deciding"]
  /\ UNCHANGED <<managerVars, clock, request, askFallback, heard, call, ruling, ran>>

HearDecision(a) ==
  /\ agent[a] = "waiting"
  /\ promise[a] # "open"
  /\ heard' = [heard EXCEPT ![a] = promise[a]]
  /\ agent' = [agent EXCEPT ![a] = "deciding"]
  /\ UNCHANGED <<managerVars, clock, request, askFallback, call, ruling, ran>>

-----------------------------------------------------------------------------
(* exec.approval.resolve *)

Answer(o, a, decision, answer) ==
  call' = [call EXCEPT ![o] = [about |-> a, decision |-> decision, answer |-> answer]]

resolveRecordedApprovalDecision(a) ==
  IF pending[a].decision # None THEN pending[a].decision ELSE pending[a].consumedDecision

\* The first decision on a pending record.
Resolve(o, a, decision) ==
  /\ call[o] = NoCall
  /\ Settle(a, decision, "operator")
  /\ ruling' = [ruling EXCEPT ![a] = IF @ = None THEN decision ELSE @]
  /\ Answer(o, a, decision, "ok")
  /\ UNCHANGED <<clock, request, askFallback, agent, heard, ran>>

\* Mutant: any repeat is taken for a retry.
ResolveRepeatLax(o, a, decision) ==
  /\ call[o] = NoCall
  /\ Known(a)
  /\ pending[a].resolved
  /\ Answer(o, a, decision, "ok")
  /\ UNCHANGED <<managerVars, clock, request, askFallback, agent, heard, ruling, ran>>

\* A resolved record: the same decision again is a retry that succeeds, another
\* one is refused.
ResolveRepeat(o, a, decision) ==
  /\ call[o] = NoCall
  /\ Known(a)
  /\ pending[a].resolved
  /\ Answer(o, a, decision,
            IF resolveRecordedApprovalDecision(a) = decision THEN "ok"
            ELSE "already resolved")
  /\ UNCHANGED <<managerVars, clock, request, askFallback, agent, heard, ruling, ran>>

\* A pending record that the decision does not suit, and that stays pending:
\* validateDecision turns allow-always down where the policy of the command asks
\* every time.  Which commands those are is left open.
ResolveUnavailable(o, a, decision) ==
  /\ call[o] = NoCall
  /\ Pending(a)
  /\ decision = "allow-always"
  /\ Answer(o, a, decision, "unavailable")
  /\ UNCHANGED <<managerVars, clock, request, askFallback, agent, heard, ruling, ran>>

\* A record that is not there, any more or yet.
ResolveUnknown(o, a, decision) ==
  /\ call[o] = NoCall
  /\ ~Known(a)
  /\ Answer(o, a, decision, "unknown")
  /\ UNCHANGED <<managerVars, clock, request, askFallback, agent, heard, ruling, ran>>

-----------------------------------------------------------------------------
(* The agent *)

\* What the agent may do without a decision: the fallback "full" approves, unless
\* inline code or a deferred automatic review asks for a real approval
\* (enforceStrictInlineEvalApprovalBoundary); "allowlist" sends the command without
\* an approval, for the node's own allowlist to judge.
Undecided(a) ==
  CASE askFallback[a] = "full" -> {"invoking", "denied"}
    [] askFallback[a] = "deny" -> {"denied"}
    [] askFallback[a] = "allowlist" -> {"unapproved"}

\* What the agent does with what it heard.
Decide(a) ==
  /\ agent[a] = "deciding"
  /\ \E next \in CASE heard[a] \in Allowing -> {"invoking"}
                   [] heard[a] = "deny" -> {"denied"}
                   [] heard[a] = None -> Undecided(a) :
       agent' = [agent EXCEPT ![a] = next]
  /\ UNCHANGED <<managerVars, clock, request, askFallback, heard, call, ruling, ran>>

\* The call for the decision fails: the agent reports a denial, whatever becomes of
\* the record.
DecisionUndefined(a) ==
  /\ agent[a] \in {"accepted", "waiting"}
  /\ agent' = [agent EXCEPT ![a] = "denied"]
  /\ UNCHANGED <<managerVars, clock, request, askFallback, heard, call, ruling, ran>>

\* The override is asked for as allow-once when there was no decision.
RequestedDecision(a) == IF heard[a] = None THEN "allow-once" ELSE heard[a]

-----------------------------------------------------------------------------
(* The check of node.invoke *)

\* Only an expiry by the timer, not one for want of a route, lets the fallback
\* of the agent stand in for a decision.
TimedOut(a) ==
  /\ pending[a].resolved
  /\ pending[a].decision = None
  /\ pending[a].resolvedBy = "null"

\* The record is known and nowMs > expiresAtMs does not hold.
Current(a) == Known(a) /\ clock[a] # "after"

Forwarded(a) ==
  /\ agent' = [agent EXCEPT ![a] = "ran"]
  /\ ran' = [ran EXCEPT ![a] = @ + 1]
  /\ UNCHANGED <<promise, timer, cleanup, clock, request, askFallback, heard, call, ruling>>

\* Calls are made by an agent that goes ahead, always with the scope for approvals
\* that clientHasApprovals asks for, and may be repeated under the same run id.
\* Bound: MaxInvokes are forwarded.
MayInvoke(a) == agent[a] \in {"invoking", "ran"} /\ ran[a] < MaxInvokes

\* consumeAllowOnce: the decision is moved aside in the step that forwards.
InvokeAllowedOnce(a) ==
  /\ MayInvoke(a)
  /\ Current(a)
  /\ pending[a].decision = "allow-once"
  /\ pending' = [pending EXCEPT ![a].consumedDecision = "allow-once", ![a].decision = None]
  /\ Forwarded(a)

InvokeAllowedAlways(a) ==
  /\ MayInvoke(a)
  /\ Current(a)
  /\ pending[a].decision = "allow-always"
  /\ UNCHANGED pending
  /\ Forwarded(a)

\* Mutant: a used-up allow-once looks like a record that timed out.
InvokeTimedOutByDecision(a) ==
  /\ MayInvoke(a)
  /\ Current(a)
  /\ pending[a].resolved
  /\ pending[a].decision = None
  /\ RequestedDecision(a) = "allow-once"
  /\ UNCHANGED pending
  /\ Forwarded(a)

InvokeTimedOut(a) ==
  /\ MayInvoke(a)
  /\ Current(a)
  /\ TimedOut(a)
  /\ RequestedDecision(a) = "allow-once"
  /\ UNCHANGED pending
  /\ Forwarded(a)

\* Anything else is refused; a repeat that is refused changes nothing.
InvokeRefused(a) ==
  /\ agent[a] = "invoking"
  /\ ~(Current(a) /\ (pending[a].decision \in Allowing
                       \/ (TimedOut(a) /\ RequestedDecision(a) = "allow-once")))
  /\ agent' = [agent EXCEPT ![a] = "refused"]
  /\ UNCHANGED <<managerVars, clock, request, askFallback, heard, call, ruling, ran>>

Invoke(a) ==
  InvokeAllowedOnce(a) \/ InvokeAllowedAlways(a) \/ InvokeTimedOut(a) \/ InvokeRefused(a)

-----------------------------------------------------------------------------

Manager(a) == ExpiryTimerFires(a) \/ CleanupFires(a)
Handle(a) == Accept(a) \/ NoApprovalRoute(a) \/ AnswerRequest(a)
Agent(a) == WaitDecision(a) \/ HearDecision(a) \/ Decide(a)

Next ==
  \/ \E a \in Approvals :
       \/ Register(a) \/ Tick(a) \/ Manager(a) \/ Handle(a)
       \/ Agent(a) \/ DecisionUndefined(a) \/ Invoke(a)
  \/ \E o \in Operators, a \in Approvals, decision \in Decisions :
       \/ Resolve(o, a, decision) \/ ResolveRepeat(o, a, decision)
       \/ ResolveUnavailable(o, a, decision) \/ ResolveUnknown(o, a, decision)

Spec == Init /\ [][Next]_vars

\* Time passes, timers fire, handlers and agents go on.  Nothing forces an
\* operator to decide, the call for a decision to fail, nor a forwarded call to be
\* repeated.
FairSpec ==
  /\ Spec
  /\ \A a \in Approvals :
       /\ WF_vars(Tick(a)) /\ WF_vars(ExpiryTimerFires(a)) /\ WF_vars(CleanupFires(a))
       /\ WF_vars(Accept(a) \/ NoApprovalRoute(a)) /\ WF_vars(AnswerRequest(a))
       /\ WF_vars(Agent(a)) /\ WF_vars(Invoke(a))

-----------------------------------------------------------------------------
(* Properties *)

\* The record, its promise, its expiry timer and the deletion of its entry never
\* part: a pending record has an armed timer and an open promise, a resolved one
\* has neither and will be deleted, and none of them outlives its entry.
RecordInStep ==
  \A a \in Approvals :
    /\ timer[a] <=> Pending(a)
    /\ cleanup[a] <=> Known(a) /\ pending[a].resolved
    /\ agent[a] # "idle" => (promise[a] = "open" <=> Pending(a))

\* Two operators who are both told that their decision was recorded decided the
\* same, whatever the timer, the cleanup and the node do in between.
OperatorsAgree ==
  \A o1, o2 \in Operators :
    /\ call[o1] # NoCall /\ call[o1].answer = "ok"
    /\ call[o2] # NoCall /\ call[o2].answer = "ok"
    /\ call[o1].about = call[o2].about
    => call[o1].decision = call[o2].decision

\* What ran as approved was allowed by an operator, or nobody decided at all and
\* the fallback of the agent lets it: never after a denial, whichever of the
\* decision, the expiry, the cleanup and the call came first.
RunsAsRuled ==
  \A a \in Approvals :
    ran[a] > 0 =>
      \/ ruling[a] \in Allowing
      \/ ruling[a] = None /\ askFallback[a] = "full"

\* An allow-once is good for one run, also when the call is repeated during the
\* grace period of its record.
AllowOnceRunsOnce == \A a \in Approvals : ruling[a] = "allow-once" => ran[a] =< 1

\* Every request comes to an end for its agent and for its handler, although no
\* operator ever decides.
RequestsSettle ==
  \A a \in Approvals :
    agent[a] = "registering" ~>
      /\ agent[a] \in {"ran", "refused", "denied", "unapproved"}
      /\ request[a] = "answered"

\* docs/tools/exec-approvals.md on askFallback: "Resolution when a prompt is
\* required but no UI is reachable", "full - allow".  A command whose prompt
\* nobody could get or decide, under that fallback, is not refused.
FallbackHonoured ==
  \A a \in Approvals :
    agent[a] = "refused" => ruling[a] # None \/ askFallback[a] # "full"
=============================================================================
