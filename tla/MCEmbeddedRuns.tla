--------------------------- MODULE MCEmbeddedRuns ---------------------------
(* An instance of EmbeddedRuns: all runs are of one session and queue for  *)
(* its lane; those that are cron runs nest one lane deeper.                *)
EXTENDS EmbeddedRuns, TLC

CONSTANT s1

MCSessionOf == [r \in Runs |-> s1]
=============================================================================
