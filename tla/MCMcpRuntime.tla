---------------------------- MODULE MCMcpRuntime ----------------------------
(* Small instances of McpRuntime for TLC.                                  *)
EXTENDS McpRuntime, TLC

Symmetry == Permutations(Id)
=============================================================================
