------------------------- MODULE MCSessionHistory -------------------------
(* Instances of SessionHistory with the code's lengths scaled down.         *)
EXTENDS SessionHistory

CONSTANTS loop, cron, s1, s2
=============================================================================
