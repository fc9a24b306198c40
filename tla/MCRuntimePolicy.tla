-------------------------- MODULE MCRuntimePolicy --------------------------
(* Small instances of RuntimePolicy for TLC.                               *)
EXTENDS RuntimePolicy, TLC

Symmetry == Permutations(Caller) \cup Permutations(Grant)
=============================================================================
