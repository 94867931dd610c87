---------------------------- MODULE DurableSend ----------------------------
(***************************************************************************)
(* What the write-ahead delivery queue promises for one channel: a message *)
(* that was accepted stays pending until all its parts are on the platform *)
(* or it is visibly failed; only the caller's abort drops it.  Nothing is  *)
(* sent for a message that is no longer pending.  Parts may be sent more   *)
(* than once.                                                              *)
(***************************************************************************)
EXTENDS Naturals

CONSTANTS Deliveries, PartsOf

VARIABLES
  intent,    \* delivery -> what became of it
  platform,  \* delivery -> part -> copies of it on the platform
  aborted    \* the deliveries their callers aborted

vars == <<intent, platform, aborted>>

Parts(d) == 1..PartsOf[d]

Init ==
  /\ intent = [d \in Deliveries |-> "new"]
  /\ platform = [d \in Deliveries |-> [p \in Parts(d) |-> 0]]
  /\ aborted = {}

Moves(d, from, to) ==
  /\ intent[d] = from
  /\ intent' = [intent EXCEPT ![d] = to]
  /\ UNCHANGED <<platform, aborted>>

Accept(d) == Moves(d, "new", "pending")

\* The queue refuses the message, or lets it pass unqueued.
Refuse(d) == Moves(d, "new", "refused")
Bypass(d) == Moves(d, "new", "bypassed")

Abort(d) ==
  /\ intent[d] \in {"pending", "bypassed"}
  /\ aborted' = aborted \cup {d}
  /\ UNCHANGED <<intent, platform>>

Commit(d) ==
  /\ intent[d] \in {"pending", "bypassed"}
  /\ \E p \in Parts(d) : platform' = [platform EXCEPT ![d][p] = @ + 1]
  /\ UNCHANGED <<intent, aborted>>

Confirm(d) == (\A p \in Parts(d) : platform[d][p] > 0) /\ Moves(d, "pending", "sent")
Fail(d) == Moves(d, "pending", "failed")
Drop(d) == d \in aborted /\ Moves(d, "pending", "dropped")

Next ==
  \E d \in Deliveries :
    \/ Accept(d) \/ Refuse(d) \/ Bypass(d) \/ Abort(d)
    \/ Commit(d) \/ Confirm(d) \/ Fail(d) \/ Drop(d)

Spec == Init /\ [][Next]_vars
=============================================================================
