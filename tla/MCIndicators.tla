---------------------------- MODULE MCIndicators ----------------------------
(* Instances of Indicators: two messages of one chat, which may overlap.     *)
EXTENDS Indicators

CONSTANT chat1

OneChat == [m \in 1..2 |-> chat1]
=============================================================================
