------------------------- MODULE MCControlObserver -------------------------
(* An instance of ControlObserver for TLC.                                 *)
EXTENDS ControlObserver, TLC

CONSTANTS a1, a2, j1, j2

\* two attempts that run at the same time, so of two jobs
Pair == a1 :> j1 @@ a2 :> j2
=============================================================================
