--------------------------- MODULE MCExecApprovals ---------------------------
(* One approval, as approvals share nothing but the operators, and two operators
   who decide about it at the same time. *)
EXTENDS ExecApprovals

CONSTANTS a1, o1, o2
=============================================================================
