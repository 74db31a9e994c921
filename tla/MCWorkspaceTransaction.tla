----------------------- MODULE MCWorkspaceTransaction -----------------------
(* Instances of WorkspaceTransaction for TLC.                              *)
EXTENDS WorkspaceTransaction
=============================================================================
