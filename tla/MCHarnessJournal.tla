-------------------------- MODULE MCHarnessJournal --------------------------
(* Small instances of HarnessJournal for TLC.                              *)
EXTENDS HarnessJournal, TLC

CONSTANTS r1, r2, m1

\* Two reservations for one manifest; the first expires when time passes.
OneManifest == [r \in {r1, r2} |-> m1]
MCExpires == [r \in {r1, r2} |-> IF r = r1 THEN 1 ELSE 2]

\* Room for the records of every attempt.
Ample == [r \in {r1, r2} |-> 16]

Symmetry == Permutations(Process) \cup Permutations(Attempt)
=============================================================================
