---------------------------- MODULE SerialOrder ----------------------------
(***************************************************************************)
(* What the preparation of a parallel plan promises, without waves, pools, *)
(* barriers and cancellations: the work on an operation begins once, when  *)
(* the results of all it needs are in, whatever runs beside it; it fails   *)
(* only in trouble; and the preparation ends when none of its work goes    *)
(* on, with the results of every operation unless there was trouble.  Only *)
(* a new trouble on top of another ends it under work that goes on, and    *)
(* then nothing begins any more.                                           *)
(***************************************************************************)
EXTENDS Naturals

CONSTANT Op        \* the operations

VARIABLES needs,   \* what each operation needs
          work,    \* how the work on each stands
          done,    \* operations whose results are in
          outcome, \* how the preparation ended
          trouble  \* how often something failed or interfered

vars == <<needs, work, done, outcome, trouble>>

Init ==
  /\ needs \in [Op -> SUBSET Op]
  /\ work = [k \in Op |-> "none"] /\ done = {}
  /\ outcome = "open" /\ trouble = 0

Begin(k) ==
  /\ outcome = "open" /\ work[k] = "none" /\ needs[k] \subseteq done
  /\ work' = [work EXCEPT ![k] = "running"]
  /\ UNCHANGED <<needs, done, outcome, trouble>>

\* Work that waits for other work may fail with it.
End(K) ==
  /\ outcome \in {"open", "abandoned"} /\ \A k \in K : work[k] = "running"
  /\ trouble' \in {trouble, trouble + 1}
  /\ \E how \in {"ok", "failed"} :
       /\ how = "failed" => trouble' > 0
       /\ work' = [k \in Op |-> IF k \in K THEN how ELSE work[k]]
  /\ UNCHANGED <<needs, done, outcome>>

Collect(k) ==
  /\ outcome = "open" /\ work[k] = "ok"
  /\ done' = done \cup {k}
  /\ UNCHANGED <<needs, work, outcome, trouble>>

Conclude ==
  /\ outcome = "open" /\ \A k \in Op : work[k] # "running"
  /\ \/ outcome' = "returned" /\ done = Op
     \/ outcome' = "raised" /\ trouble > 0
  /\ UNCHANGED <<needs, work, done, trouble>>

Disturb ==
  /\ outcome = "open" /\ trouble' = trouble + 1
  /\ UNCHANGED <<needs, work, done, outcome>>

\* It was ending, in trouble, and waited for the work that goes on.
Abandon ==
  /\ outcome = "open" /\ trouble > 0 /\ \E k \in Op : work[k] = "running"
  /\ outcome' = "abandoned" /\ trouble' = trouble + 1
  /\ UNCHANGED <<needs, work, done>>

Next ==
  \/ \E k \in Op : Begin(k) \/ Collect(k)
  \/ \E K \in SUBSET Op : End(K)
  \/ Conclude \/ Disturb \/ Abandon

Spec == Init /\ [][Next]_vars
=============================================================================
