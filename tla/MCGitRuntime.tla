--------------------------- MODULE MCGitRuntime ---------------------------
(* Small instances of GitRuntime for TLC.                                  *)
EXTENDS GitRuntime, TLC

\* Every operation changes the tree, but the second, whose patch is empty.
MCTreeOf == [i \in 0..N |-> IF i < 2 THEN i ELSE i - 1]

Symmetry == Permutations(Coordinator)
=============================================================================
