----------------------------- MODULE MCModeration -----------------------------
(***************************************************************************)
(* An instance of Moderation for TLC.                                      *)
(***************************************************************************)
EXTENDS Moderation

============================================================================
