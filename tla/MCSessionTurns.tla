--------------------------- MODULE MCSessionTurns ---------------------------
(* Instances of SessionTurns for TLC.                                      *)
EXTENDS SessionTurns

OneSession == [t \in Turn |-> "s1"]
=============================================================================
