------------------------------- MODULE MCPairs -------------------------------
(***************************************************************************)
(* An instance of PairTransactions for TLC.                                *)
(***************************************************************************)
EXTENDS PairTransactions, TLC

CONSTANTS alice, bob

MCUsers == {alice, bob}
MCCompatible == Pairs
Symmetry == Permutations(Users)
============================================================================
