------------------------------ MODULE WorkOrder ------------------------------
(***************************************************************************)
(* What the coordination register promises about the work it coordinates,  *)
(* without the register, its lock and its callers: the work of a task      *)
(* begins at most once, when everything it depends on is complete for      *)
(* good, and native work is done one task at a time.                       *)
(***************************************************************************)
EXTENDS Naturals

CONSTANTS Task,     \* the frozen inventory
          Deps,     \* task -> the tasks it depends on
          Native    \* tasks of the native executor

VARIABLES begun,      \* tasks whose work has ever begun
          running,    \* tasks whose work goes on
          complete    \* tasks that are complete, whatever crashes

vars == <<begun, running, complete>>

TypeOK == begun \subseteq Task /\ running \subseteq begun /\ complete \subseteq Task

Init == begun = {} /\ running = {} /\ complete = {}

\* Completions become durable, at any time; native work has stopped by then.
Settle ==
  /\ complete \subseteq complete' /\ complete' \subseteq Task
  /\ (complete' \ complete) \cap running \cap Native = {}

Begin(t) ==
  /\ Settle
  /\ t \in Task \ begun /\ Deps[t] \subseteq complete'
  /\ t \in Native => running \cap Native = {}
  /\ begun' = begun \cup {t} /\ running' = running \cup {t}

End(t) == t \in running /\ running' = running \ {t} /\ UNCHANGED <<begun, complete>>

\* A power loss ends all work.
PowerLoss ==
  /\ complete \subseteq complete' /\ complete' \subseteq Task
  /\ running' = {} /\ UNCHANGED begun

Next ==
  \/ \E t \in Task : Begin(t) \/ End(t)
  \/ Settle /\ UNCHANGED <<begun, running>>
  \/ PowerLoss

Spec == Init /\ [][Next]_vars
=============================================================================
