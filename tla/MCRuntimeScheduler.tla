------------------------ MODULE MCRuntimeScheduler ------------------------
(* Small instances of RuntimeScheduler for TLC.                            *)
EXTENDS RuntimeScheduler

CONSTANTS file, dir, other

\* dir contains file; other stands alone.
MCPath == {file, dir, other}
MCOverlap == {<<p, p>> : p \in MCPath} \cup {<<file, dir>>, <<dir, file>>}

\* Every plan in which an operation writes at most one path.
MCPlans ==
  {[deps |-> d, writes |-> w] :
     d \in {f \in [1..N -> SUBSET (1..N)] : \A k \in 1..N : f[k] \subseteq 1..(k - 1)},
     w \in [1..N -> {{}} \cup {{p} : p \in MCPath}]}
=============================================================================
