------------------------------- MODULE MCQueue -------------------------------
(***************************************************************************)
(* An instance of AnonymousQueue for TLC.                                  *)
(***************************************************************************)
EXTENDS AnonymousQueue, TLC

CONSTANTS alice, bob, carol

MCUsers == {alice, bob, carol}
MCCompatible == {{alice, bob}, {alice, carol}}
Symmetry == Permutations({bob, carol})

\* One block, one hidden profile or one suspended account at a time.
OneTrouble ==
    Cardinality(blocks) + Cardinality(hidden)
        + Cardinality({u \in Users : ~ Active(u)}) <= 1
============================================================================
