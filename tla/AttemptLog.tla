----------------------------- MODULE AttemptLog -----------------------------
(***************************************************************************)
(* What the harness journal promises about its attempts, without files,    *)
(* locks and processes: attempts follow one another, an attempt that ended *)
(* never changes, and a crash takes back at most what nobody was told was  *)
(* durable.                                                                *)
(***************************************************************************)
EXTENDS Naturals

CONSTANTS Attempt, Reservation, Verdict, MaxCheckpoints, None

VARIABLES log,   \* what a reader finds of each attempt
          safe   \* what no crash can take back

vars == <<log, safe>>

Entry == [start : Reservation \cup {None}, marks : 0..MaxCheckpoints, end : Verdict \cup {None}]
Absent == [start |-> None, marks |-> 0, end |-> None]

Init == log = [a \in Attempt |-> Absent] /\ safe = log

Open(a) == log[a].start # None /\ log[a].end = None

\* An attempt begins when no other is open, with a reservation of its own.
Start(a, r) ==
  /\ r # None /\ log[a].start = None
  /\ \A b \in Attempt : ~Open(b) /\ log[b].start # r
  /\ log' = [log EXCEPT ![a].start = r]

Mark(a) == Open(a) /\ log' = [log EXCEPT ![a].marks = @ + 1]

End(a, v) == v # None /\ Open(a) /\ log' = [log EXCEPT ![a].end = v]

\* Everything there is becomes durable, or was so already.
Secure == safe' = log /\ UNCHANGED log

\* x is what a crash may leave of y.
Shortens(x, y) ==
  \/ x = y \/ x = Absent
  \/ x.start = y.start /\ x.end = None /\ x.marks <= y.marks

\* A crash leaves for each attempt something between the safe and the visible.
Crash ==
  /\ log' \in [Attempt -> Entry]
  /\ \A a \in Attempt : Shortens(safe[a], log'[a]) /\ Shortens(log'[a], log[a])
  /\ safe' = log'

Next ==
  \/ /\ \E a \in Attempt :
          (\E r \in Reservation : Start(a, r)) \/ Mark(a) \/ (\E v \in Verdict : End(a, v))
     /\ UNCHANGED safe
  \/ Secure
  \/ Crash

Spec == Init /\ [][Next]_vars
=============================================================================
