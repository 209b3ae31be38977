------------------------------ MODULE MCPhotos ------------------------------
(***************************************************************************)
(* Instances of Photos for TLC.                                            *)
(***************************************************************************)
EXTENDS Photos, TLC

Symmetry == Permutations(Requests) \cup Permutations(Images)
=============================================================================
