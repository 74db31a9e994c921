---------------------------- MODULE MCTurnRunner ----------------------------
(* Instances of TurnRunner for TLC.                                        *)
EXTENDS TurnRunner

OneSession == [t \in Turn |-> "s1"]
=============================================================================
