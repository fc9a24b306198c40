------------------------------ MODULE GrantBook ------------------------------
(***************************************************************************)
(* What operator grants promise, without locks, files, clocks, journals    *)
(* and deaths of processes: a grant says once and for all what it is for   *)
(* and is spent once; one dispatch is in effect at a time, under the grant *)
(* it has spent; the run changes only as that grant allows, but for the    *)
(* last command of a dispatch that was cut off, beside which nothing       *)
(* else changes it; and who is told that a dispatch was performed is told  *)
(* so of a run that has reached what was asked.                            *)
(***************************************************************************)
EXTENDS Naturals

CONSTANTS Grant, Plan, Action, N

VARIABLES book,          \* what each grant is for, and whether it is spent
          active,        \* the dispatch in effect, as a set of at most one
          stray,         \* the last command of one that was cut off still runs
          life, result,  \* the private run
          told           \* the last caller that left was told "performed"

run == <<life, result>>
vars == <<book, active, stray, run, told>>

Run == INSTANCE PrivateRun

Blank == [spent |-> FALSE]
Terms(plan, action, spent) == [plan |-> plan, action |-> action, spent |-> spent]
Dispatches == [grant : Grant, plan : Plan, action : Action]

Init ==
  /\ book = [g \in Grant |-> Blank]
  /\ active = {} /\ stray = FALSE /\ told = FALSE
  /\ Run!Init

Issue(g, plan, action) ==
  /\ book[g] = Blank
  /\ book' = [book EXCEPT ![g] = Terms(plan, action, FALSE)]
  /\ told' = FALSE
  /\ UNCHANGED <<active, stray, run>>

\* The grant is spent before its dispatch is in effect.
Spend(j) ==
  /\ active = {} /\ book[j.grant] = Terms(j.plan, j.action, FALSE)
  /\ book' = [book EXCEPT ![j.grant] = Terms(j.plan, j.action, TRUE)]
  /\ active' = {j}
  /\ UNCHANGED <<stray, run, told>>

Allowed(action) ==
  \/ action = "execute" /\ Run!Publish
  \/ action \in {"execute", "resume"} /\ (Run!Advance \/ Run!Complete)
  \/ action = "abort" /\ (Run!GiveUp \/ Run!Restore \/ Run!Seal)

Effect ==
  /\ ~stray /\ \E j \in active : Allowed(j.action)
  /\ UNCHANGED <<book, active, stray, told>>

Reached(action) == life = IF action = "abort" THEN "aborted" ELSE "completed"

Perform ==
  /\ \E j \in active : Reached(j.action)
  /\ active' = {} /\ told' = TRUE
  /\ UNCHANGED <<book, stray, run>>

\* The dispatch fails or is cut off: its grant stays spent.
Lapse ==
  /\ active # {} /\ active' = {} /\ told' = FALSE
  /\ stray' \in {stray, TRUE}
  /\ UNCHANGED <<book, run>>

StrayEnds ==
  /\ stray /\ stray' = FALSE
  /\ Run!Advance \/ Run!Restore \/ UNCHANGED run
  /\ UNCHANGED <<book, active, told>>

\* Other calls begin and end.
Other == told' = FALSE /\ UNCHANGED <<book, active, stray, run>>

Next ==
  \/ \E g \in Grant, plan \in Plan, action \in Action : Issue(g, plan, action)
  \/ \E j \in Dispatches : Spend(j)
  \/ Effect \/ Perform \/ Lapse \/ StrayEnds \/ Other

Spec == Init /\ [][Next]_vars
=============================================================================
