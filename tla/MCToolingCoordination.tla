------------------------ MODULE MCToolingCoordination ------------------------
(* Small instances of ToolingCoordination for TLC.                         *)
EXTENDS ToolingCoordination, TLC

CONSTANTS plan, build, measure

\* Two native tasks, and one of the coordinator's own behind the first.
MCTask == {plan, build, measure}
MCDeps == [t \in MCTask |-> IF t = build THEN {plan} ELSE {}]
MCNative == {plan, measure}

Symmetry == Permutations(Caller)
==============================================================================
