------------------------------- MODULE MCPush -------------------------------
(***************************************************************************)
(* The instance of Push for TLC.                                           *)
(***************************************************************************)
EXTENDS Push
=============================================================================
