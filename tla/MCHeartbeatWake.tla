--------------------------- MODULE MCHeartbeatWake ---------------------------
(* A wake that waits for others, and an immediate one of another target. *)
EXTENDS HeartbeatWake

CONSTANTS hook, exec, main, other

MCTargetOf == [w \in Wakes |-> IF w = exec THEN other ELSE main]
MCPriority == [w \in Wakes |-> IF w = hook THEN 3 ELSE 2]
MCCoalesceOf == [w \in Wakes |-> IF w = hook THEN 1 ELSE 0]
=============================================================================
