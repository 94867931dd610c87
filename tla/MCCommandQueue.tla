-------------------------- MODULE MCCommandQueue --------------------------
(* Three commands in one lane; a limit below zero is among the arguments of *)
(* setCommandLaneConcurrency.                                               *)
EXTENDS CommandQueue

MCLimits == {-1, 2}
=============================================================================
