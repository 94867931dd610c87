-------------------------- MODULE MCLaneSuspension --------------------------
(* Three runs that compete for one lane. *)
EXTENDS LaneSuspension

CONSTANTS r1, r2, r3, main

MCLaneOf == [r \in Runs |-> main]
=============================================================================
