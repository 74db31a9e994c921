---------------------------- MODULE MCRuntimeHost ----------------------------
(* Instances of RuntimeHost for TLC.                                       *)
EXTENDS RuntimeHost
=============================================================================
