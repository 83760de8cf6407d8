----------------------------- MODULE MCHttpCache -----------------------------
(***************************************************************************)
(* A small instance of HttpCache for TLC.                                  *)
(***************************************************************************)
EXTENDS HttpCache, TLC

CONSTANTS k1, k2, c1, c2

MCKeys    == {k1, k2}
MCCallers == {c1, c2}

Symmetry == Permutations(MCKeys) \cup Permutations(MCCallers)
==============================================================================
