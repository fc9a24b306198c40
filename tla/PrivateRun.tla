----------------------------- MODULE PrivateRun -----------------------------
(***************************************************************************)
(* What a private run promises to whoever authorised it, without the       *)
(* coordinators, Git commands and crashes that GitRuntime shows: the       *)
(* result holds a prefix of the N admitted operations, grows by one        *)
(* operation at a time, is declared complete only when it holds them all,  *)
(* and leaves that line only by being given up, which puts the base back   *)
(* before it is declared aborted and can never be undone.                  *)
(***************************************************************************)
EXTENDS Naturals

CONSTANT N   \* the number of operations in the admitted manifest

VARIABLES life,     \* "absent", "open", "completed", "aborting" or "aborted"
          result    \* how many operations the private result holds

vars == <<life, result>>

TypeOK == /\ life \in {"absent", "open", "completed", "aborting", "aborted"}
          /\ result \in 0..N

Init == life = "absent" /\ result = 0

\* The run directory appears under its final name, with the base as result.
Publish == life = "absent" /\ life' = "open" /\ UNCHANGED result

\* The next operation of the manifest joins the result.
Advance == life = "open" /\ result < N /\ result' = result + 1 /\ UNCHANGED life

\* The run is declared complete.
Complete == life = "open" /\ result = N /\ life' = "completed" /\ UNCHANGED result

\* The run is given up, whatever it had reached; giving up may be repeated.
GiveUp == life # "absent" /\ life' = "aborting" /\ UNCHANGED result

\* The base is put back.
Restore == life = "aborting" /\ result' = 0 /\ UNCHANGED life

\* The run is declared aborted.
Seal == life = "aborting" /\ result = 0 /\ life' = "aborted" /\ UNCHANGED result

Next == Publish \/ Advance \/ Complete \/ GiveUp \/ Restore \/ Seal

Spec == Init /\ [][Next]_vars
=============================================================================
