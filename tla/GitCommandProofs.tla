-------------------------- MODULE GitCommandProofs --------------------------
(***************************************************************************)
(* What GitCommand keeps for any number of commands on one budget, any     *)
(* sizes of pipes and limits, and whatever goes wrong: its types, the      *)
(* budgets, the reaping of children, and results that are complete.        *)
(***************************************************************************)
EXTENDS GitCommand, TLAPS, FiniteSetTheorems

Steps == {"idle", "poll", "wait", "join", "close", "settle", "end"}
Places == {"between", "reading", "chunk", "kill", "end"}

\* A cell of a table of streams is replaced.
LEMMA Cell ==
  ASSUME NEW R, NEW t \in PerStream(R), NEW c \in Command, NEW s \in Stream, NEW x \in R
  PROVE  /\ [t EXCEPT ![c][s] = x] \in PerStream(R)
         /\ \A d \in Command, r \in Stream :
              [t EXCEPT ![c][s] = x][d][r] = IF d = c /\ r = s THEN x ELSE t[d][r]
<1>1. t[c] \in [Stream -> R]
  BY DEF PerStream
<1>2. [t[c] EXCEPT ![s] = x] \in [Stream -> R]
  BY <1>1
<1> QED BY <1>1, <1>2 DEF PerStream

\* Init preserves the inductive invariant.
LEMMA InitInv == Init => IInv
<1> SUFFICES ASSUME Init PROVE IInv
  OBVIOUS
<1>0. commands \in Nat /\ charged \in Nat /\ charged <= MaxOutput
  <2>1. use \in UseType /\ use.charged <= MaxOutput
    BY UsesAssumption DEF Init
  <2> QED BY <2>1 DEF Init, UseType
<1>1. TypeOK
  <2>1. written \in PerStream(Nat) /\ reader \in PerStream(Places) /\ closed \in PerStream(BOOLEAN)
    BY DEF Init, PerStream, Places
  <2> QED BY <1>0, <2>1 DEF Init, TypeOK, Failures, Exits, Results, Places
<1>2. \A c \in Command, s \in Stream :
        written[c][s] = 0 /\ pipe[c][s] = 0 /\ hand[c][s] = 0 /\ outputs[c][s] = 0
        /\ reader[c][s] = "between" /\ closed[c][s] = FALSE
  BY DEF Init
<1>3. {c \in Command : child[c] # "none"} = {} /\ StartedSet = {}
  BY DEF Init, StartedSet
<1>4. Cardinality({}) = 0
  BY FS_EmptySet
<1>5. BudgetsKept /\ Cardinality(StartedSet) <= commands
  <2>1. \A c \in Command : Total(c) = 0
    BY <1>2 DEF Total, Stream
  <2> QED BY <1>0, <1>3, <1>4, <2>1, SizesAssumption DEF BudgetsKept
<1>6. \A c \in Command : Staged(c) /\ Flow(c) /\ Drained(c) /\ Concluded(c)
  BY <1>2 DEF Init, Staged, Flow, Drained, Emptied, Concluded, Exits
<1> QED BY <1>1, <1>5, <1>6 DEF IInv

\* The budgets and the count of children when no child is started.
LEMMA SameChildren ==
  ASSUME IInv, StartedSet' = StartedSet, UNCHANGED commands,
         \A c \in Command : Total(c)' <= MaxCommand /\ Total(c)' <= charged',
         charged' <= MaxOutput
  PROVE  BudgetsKept' /\ Cardinality(StartedSet)' <= commands'
BY DEF IInv, BudgetsKept, StartedSet

-----------------------------------------------------------------------------
(* The surroundings and the caller.                                        *)

\* Cancel preserves the inductive invariant.
LEMMA CancelInv ==
  ASSUME IInv, Cancel PROVE IInv'
<1>1. TypeOK'
  BY DEF IInv, TypeOK, Cancel, budget, process, readers, caller, Exits, Failures, Results
<1>2. StartedSet' = StartedSet
  BY DEF IInv, TypeOK, StartedSet, Cancel, process, caller, Exits
<1>3. BudgetsKept' /\ Cardinality(StartedSet)' <= commands'
  BY <1>2, SameChildren DEF IInv, BudgetsKept, Total, Cancel, budget, readers
<1>4. ASSUME NEW d \in Command
      PROVE  Staged(d)' /\ Flow(d)' /\ Drained(d)' /\ Concluded(d)'
  <2> USE DEF IInv, TypeOK, Cancel, process, readers, caller
  <2>1. Staged(d)'
    BY DEF Staged, Exits
  <2>2. Flow(d)'
    BY DEF Flow
  <2>3. Drained(d)'
    BY DEF Drained, Emptied, Holds, Staged, Exits
  <2>4. Concluded(d)'
    BY DEF Concluded, Exits
  <2> QED BY <2>1, <2>2, <2>3, <2>4
<1> QED BY <1>1, <1>3, <1>4 DEF IInv

\* Fill preserves the inductive invariant.
LEMMA FillInv ==
  ASSUME IInv, Fill PROVE IInv'
<1>1. TypeOK'
  BY DEF IInv, TypeOK, Fill, budget, process, readers, caller, Exits, Failures, Results
<1>2. StartedSet' = StartedSet
  BY DEF IInv, TypeOK, StartedSet, Fill, process, caller, Exits
<1>3. BudgetsKept' /\ Cardinality(StartedSet)' <= commands'
  BY <1>2, SameChildren DEF IInv, BudgetsKept, Total, Fill, budget, readers
<1>4. ASSUME NEW d \in Command
      PROVE  Staged(d)' /\ Flow(d)' /\ Drained(d)' /\ Concluded(d)'
  <2> USE DEF IInv, TypeOK, Fill, process, readers, caller
  <2>1. Staged(d)'
    BY DEF Staged, Exits
  <2>2. Flow(d)'
    BY DEF Flow
  <2>3. Drained(d)'
    BY DEF Drained, Emptied, Holds, Staged, Exits
  <2>4. Concluded(d)'
    BY DEF Concluded, Exits
  <2> QED BY <2>1, <2>2, <2>3, <2>4
<1> QED BY <1>1, <1>3, <1>4 DEF IInv

\* Deadline preserves the inductive invariant.
LEMMA DeadlineInv ==
  ASSUME IInv, NEW c \in Command, Deadline(c) PROVE IInv'
<1>1. TypeOK'
  BY DEF IInv, TypeOK, Deadline, budget, process, readers, caller, Exits, Failures, Results
<1>2. StartedSet' = StartedSet
  BY DEF IInv, TypeOK, StartedSet, Deadline, process, caller, Exits
<1>3. BudgetsKept' /\ Cardinality(StartedSet)' <= commands'
  BY <1>2, SameChildren DEF IInv, BudgetsKept, Total, Deadline, budget, readers
<1>4. ASSUME NEW d \in Command
      PROVE  Staged(d)' /\ Flow(d)' /\ Drained(d)' /\ Concluded(d)'
  <2> USE DEF IInv, TypeOK, Deadline, process, readers, caller
  <2>1. Staged(d)'
    BY DEF Staged, Exits
  <2>2. Flow(d)'
    BY DEF Flow
  <2>3. Drained(d)'
    BY DEF Drained, Emptied, Holds, Staged, Exits
  <2>4. Concluded(d)'
    BY DEF Concluded, Exits
  <2> QED BY <2>1, <2>2, <2>3, <2>4
<1> QED BY <1>1, <1>3, <1>4 DEF IInv

\* Fork preserves the inductive invariant.
LEMMA ForkInv ==
  ASSUME IInv, NEW c \in Command, Fork(c) PROVE IInv'
<1>1. TypeOK'
  BY DEF IInv, TypeOK, Fork, budget, process, readers, caller, Exits, Failures, Results
<1>2. StartedSet' = StartedSet
  BY DEF IInv, TypeOK, StartedSet, Fork, process, caller, Exits
<1>3. BudgetsKept' /\ Cardinality(StartedSet)' <= commands'
  BY <1>2, SameChildren DEF IInv, BudgetsKept, Total, Fork, budget, readers
<1>4. ASSUME NEW d \in Command
      PROVE  Staged(d)' /\ Flow(d)' /\ Drained(d)' /\ Concluded(d)'
  <2> USE DEF IInv, TypeOK, Fork, process, readers, caller
  <2>1. Staged(d)'
    BY DEF Staged, Exits
  <2>2. Flow(d)'
    BY DEF Flow
  <2>3. Drained(d)'
    BY DEF Drained, Emptied, Holds, Staged, Exits
  <2>4. Concluded(d)'
    BY DEF Concluded, Exits
  <2> QED BY <2>1, <2>2, <2>3, <2>4
<1> QED BY <1>1, <1>3, <1>4 DEF IInv

\* HeirEnds preserves the inductive invariant.
LEMMA HeirEndsInv ==
  ASSUME IInv, NEW c \in Command, HeirEnds(c) PROVE IInv'
<1>1. TypeOK'
  BY DEF IInv, TypeOK, HeirEnds, budget, process, readers, caller, Exits, Failures, Results
<1>2. StartedSet' = StartedSet
  BY DEF IInv, TypeOK, StartedSet, HeirEnds, process, caller, Exits
<1>3. BudgetsKept' /\ Cardinality(StartedSet)' <= commands'
  BY <1>2, SameChildren DEF IInv, BudgetsKept, Total, HeirEnds, budget, readers
<1>4. ASSUME NEW d \in Command
      PROVE  Staged(d)' /\ Flow(d)' /\ Drained(d)' /\ Concluded(d)'
  <2> USE DEF IInv, TypeOK, HeirEnds, process, readers, caller
  <2>1. Staged(d)'
    BY DEF Staged, Exits
  <2>2. Flow(d)'
    BY DEF Flow
  <2>3. Drained(d)'
    BY DEF Drained, Emptied, Holds, Staged, Exits
  <2>4. Concluded(d)'
    BY DEF Concluded, Exits
  <2> QED BY <2>1, <2>2, <2>3, <2>4
<1> QED BY <1>1, <1>3, <1>4 DEF IInv

\* Exit preserves the inductive invariant.
LEMMA ExitInv ==
  ASSUME IInv, NEW c \in Command, Exit(c) PROVE IInv'
<1>1. TypeOK'
  BY DEF IInv, TypeOK, Exit, budget, process, readers, caller, Exits, Failures, Results
<1>2. StartedSet' = StartedSet
  BY DEF IInv, TypeOK, StartedSet, Exit, process, caller, Exits
<1>3. BudgetsKept' /\ Cardinality(StartedSet)' <= commands'
  BY <1>2, SameChildren DEF IInv, BudgetsKept, Total, Exit, budget, readers
<1>4. ASSUME NEW d \in Command
      PROVE  Staged(d)' /\ Flow(d)' /\ Drained(d)' /\ Concluded(d)'
  <2> USE DEF IInv, TypeOK, Exit, process, readers, caller
  <2>1. Staged(d)'
    BY DEF Staged, Exits
  <2>2. Flow(d)'
    BY DEF Flow
  <2>3. Drained(d)'
    BY DEF Drained, Emptied, Holds, Staged, Exits
  <2>4. Concluded(d)'
    BY DEF Concluded, Exits
  <2> QED BY <2>1, <2>2, <2>3, <2>4
<1> QED BY <1>1, <1>3, <1>4 DEF IInv

\* Poll preserves the inductive invariant.
LEMMA PollInv ==
  ASSUME IInv, NEW c \in Command, Poll(c) PROVE IInv'
<1>1. TypeOK'
  <2>1. failure' \in [Command -> Failures \cup {"none"}]
    <3>1. CASE \E why \in Failures : failure' = [failure EXCEPT ![c] = why]
      BY <3>1 DEF IInv, TypeOK
    <3>2. CASE failure' = failure
      BY <3>2 DEF IInv, TypeOK
    <3> QED BY <3>1, <3>2 DEF Poll
  <2>2. child' \in [Command -> {"none", "running"} \cup Exits] /\ heir' \in [Command -> BOOLEAN]
    BY DEF IInv, TypeOK, Poll, Kill, Exits
  <2>3. pc' \in [Command -> Steps]
    BY DEF IInv, TypeOK, Poll, Move, Steps
  <2> QED BY <2>1, <2>2, <2>3 DEF IInv, TypeOK, Poll, budget, readers, Steps
<1>2. StartedSet' = StartedSet
  BY DEF IInv, TypeOK, StartedSet, Poll, Kill, Move, process, caller, Exits
<1>3. BudgetsKept' /\ Cardinality(StartedSet)' <= commands'
  BY <1>2, SameChildren DEF IInv, BudgetsKept, Total, Poll, Kill, Move, budget, readers
<1>4. ASSUME NEW d \in Command
      PROVE  Staged(d)' /\ Flow(d)' /\ Drained(d)' /\ Concluded(d)'
  <2> USE DEF IInv, TypeOK, Poll, Kill, Move, process, readers, caller
  <2>1. Staged(d)'
    BY DEF Staged, Exits
  <2>2. Flow(d)'
    BY DEF Flow
  <2>3. Drained(d)'
    BY DEF Drained, Emptied, Holds, Staged, Exits
  <2>4. Concluded(d)'
    BY DEF Concluded, Exits
  <2> QED BY <2>1, <2>2, <2>3, <2>4
<1> QED BY <1>1, <1>3, <1>4 DEF IInv

\* Wait preserves the inductive invariant.
LEMMA WaitInv ==
  ASSUME IInv, NEW c \in Command, Wait(c) PROVE IInv'
<1>1. TypeOK'
  BY DEF IInv, TypeOK, Wait, Kill, Move, budget, process, readers, caller, Exits, Failures,
     Results
<1>2. StartedSet' = StartedSet
  BY DEF IInv, TypeOK, StartedSet, Wait, Kill, Move, process, caller, Exits
<1>3. BudgetsKept' /\ Cardinality(StartedSet)' <= commands'
  BY <1>2, SameChildren DEF IInv, BudgetsKept, Total, Wait, Kill, Move, budget, readers
<1>4. ASSUME NEW d \in Command
      PROVE  Staged(d)' /\ Flow(d)' /\ Drained(d)' /\ Concluded(d)'
  <2> USE DEF IInv, TypeOK, Wait, Kill, Move, process, readers, caller
  <2>1. Staged(d)'
    BY DEF Staged, Exits
  <2>2. Flow(d)'
    BY DEF Flow
  <2>3. Drained(d)'
    BY DEF Drained, Emptied, Holds, Staged, Exits
  <2>4. Concluded(d)'
    BY DEF Concluded, Exits
  <2> QED BY <2>1, <2>2, <2>3, <2>4
<1> QED BY <1>1, <1>3, <1>4 DEF IInv

\* Join preserves the inductive invariant.
LEMMA JoinInv ==
  ASSUME IInv, NEW c \in Command, Join(c) PROVE IInv'
<1>1. TypeOK'
  BY DEF IInv, TypeOK, Join, Joined, Move, budget, process, readers, caller, Exits, Failures,
     Results
<1>2. StartedSet' = StartedSet
  BY DEF IInv, TypeOK, StartedSet, Join, Joined, Move, process, caller, Exits
<1>3. BudgetsKept' /\ Cardinality(StartedSet)' <= commands'
  BY <1>2, SameChildren DEF IInv, BudgetsKept, Total, Join, Joined, Move, budget, readers
<1>4. ASSUME NEW d \in Command
      PROVE  Staged(d)' /\ Flow(d)' /\ Drained(d)' /\ Concluded(d)'
  <2> USE DEF IInv, TypeOK, Join, Joined, Move, process, readers, caller
  <2>1. Staged(d)'
    BY DEF Staged, Exits
  <2>2. Flow(d)'
    BY DEF Flow
  <2>3. Drained(d)'
    <3>1. /\ \A s \in Stream : Emptied(d, s)' <=> Emptied(d, s)
        /\ reader' = reader /\ closed' = closed
      BY DEF Emptied, Holds, Join
    <3>2. CASE d = c /\ ~gaveUp'[d]
      <4>1. \A s \in Stream : reader[d][s] = "end" /\ ~closed[d][s]
        <5>1. Joined(c)
          BY <3>2 DEF Join
        <5>2. pc[c] = "join"
          BY DEF Join
        <5> QED BY <3>2, <5>1, <5>2 DEF Joined, Staged
      <4> QED BY <3>1, <4>1 DEF Drained, Emptied, Holds, Join
    <3>3. CASE d = c /\ gaveUp'[d]
      BY <3>1, <3>3 DEF Drained, Emptied, Holds, Join
    <3>4. CASE d # c
      BY <3>4 DEF Drained, Emptied, Holds, Join, Move
    <3> QED BY <3>2, <3>3, <3>4
  <2>4. Concluded(d)'
    BY DEF Concluded, Exits
  <2> QED BY <2>1, <2>2, <2>3, <2>4
<1> QED BY <1>1, <1>3, <1>4 DEF IInv

\* Settle preserves the inductive invariant.
LEMMA SettleInv ==
  ASSUME IInv, NEW c \in Command, Settle(c) PROVE IInv'
<1>1. TypeOK'
  <2>1. child[c] \in Exits
    BY DEF IInv, TypeOK, Staged, Settle, Exits
  <2>2. Verdict(c) \in Results
    BY <2>1 DEF IInv, TypeOK, Verdict, Results, Failures
  <2> QED BY <2>2 DEF IInv, TypeOK, Settle, Answer, Move, budget, process, readers
<1>2. StartedSet' = StartedSet
  BY DEF IInv, TypeOK, StartedSet, Settle, Answer, Move, Verdict, process, caller, Exits
<1>3. BudgetsKept' /\ Cardinality(StartedSet)' <= commands'
  BY <1>2, SameChildren DEF IInv, BudgetsKept, Total, Settle, Answer, Move, Verdict, budget,
     readers
<1>4. ASSUME NEW d \in Command
      PROVE  Staged(d)' /\ Flow(d)' /\ Drained(d)' /\ Concluded(d)'
  <2> USE DEF IInv, TypeOK, Settle, Answer, Move, Verdict, process, readers, caller
  <2>1. Staged(d)'
    BY DEF Staged, Exits
  <2>2. Flow(d)'
    BY DEF Flow
  <2>3. Drained(d)'
    BY DEF Drained, Emptied, Holds, Staged, Exits
  <2>4. Concluded(d)'
    <3>1. CASE d = c
      <4>1. SUFFICES ASSUME Verdict(c) \in Exits
            PROVE  /\ child[c] # "none" /\ failure[c] = "none"
                   /\ ~gaveUp[c] => ~overflow[c] /\ \A s \in Stream : outputs[c][s] = written[c][s]
        BY <3>1 DEF Settle, Answer, Move, Concluded
      <4>2. child[c] # "none" /\ pc[c] = "settle"
        BY DEF Settle, Staged
      <4>3. failure[c] = "none" /\ ~overflow[c]
        BY <4>1 DEF Verdict, Exits, Failures
      <4>4. ASSUME ~gaveUp[c], NEW s \in Stream PROVE outputs[c][s] = written[c][s]
        <5>1. pipe[c][s] = 0 /\ hand[c][s] = 0
          BY <4>2, <4>4 DEF Drained, Emptied
        <5>2. written[c][s] = pipe[c][s] + hand[c][s] + outputs[c][s] /\ outputs[c][s] \in Nat
          BY <4>3 DEF Flow, PerStream
        <5> QED BY <5>1, <5>2
      <4> QED BY <4>2, <4>3, <4>4
    <3>2. CASE d # c
      BY <3>2 DEF Settle, Answer, Move, Concluded, Exits
    <3> QED BY <3>1, <3>2
  <2> QED BY <2>1, <2>2, <2>3, <2>4
<1> QED BY <1>1, <1>3, <1>4 DEF IInv

\* A started command is counted once more, and there is room for it.
LEMMA BeginInv ==
  ASSUME IInv, NEW c \in Command, Begin(c) PROVE IInv'
<1> USE DEF IInv, TypeOK
<1>1. /\ commands' \in Nat /\ commands' >= commands
      /\ child' \in [Command -> {"none", "running"} \cup Exits]
  BY DEF Begin, Exits
<1>2. TypeOK'
  BY <1>1 DEF Begin, Answer, Move, readers, Results, Failures
<1>3. \A d \in Command : Total(d)' = Total(d)
  BY DEF Begin, readers, Total
<1>4. Cardinality(StartedSet)' <= commands' /\ Cardinality(StartedSet)' <= MaxCommands
  <2>1. IsFiniteSet(StartedSet)
    BY SetsAssumption, FS_Subset DEF StartedSet
  <2>2. Cardinality(StartedSet) \in Nat /\ Cardinality(StartedSet) <= MaxCommands
    BY <2>1, FS_CardinalityType DEF BudgetsKept, StartedSet
  <2>3. CASE child' = child
    BY <1>1, <2>2, <2>3, SizesAssumption DEF StartedSet
  <2>4. CASE child' # child
    <3>1. /\ commands' = commands + 1 /\ commands' <= MaxCommands
          /\ child' = [child EXCEPT ![c] = "running"]
      BY <2>4 DEF Begin
    <3>2. child[c] = "none"
      BY DEF Begin, Staged
    <3>3. StartedSet' = StartedSet \cup {c} /\ c \notin StartedSet
      BY <3>1, <3>2 DEF StartedSet
    <3>4. Cardinality(StartedSet') = Cardinality(StartedSet) + 1
      BY <2>1, <3>3, FS_AddElement
    <3> QED BY <2>2, <3>1, <3>4, SizesAssumption
  <2> QED BY <2>3, <2>4
<1>5. BudgetsKept'
  BY <1>3, <1>4 DEF BudgetsKept, Begin, StartedSet
<1>6. ASSUME NEW d \in Command
      PROVE  Staged(d)' /\ Flow(d)' /\ Drained(d)' /\ Concluded(d)'
  <2> USE DEF readers
  <2>1. Staged(d)'
    BY DEF Staged, Begin, Answer, Move, Exits
  <2>2. Flow(d)'
    BY DEF Flow, Begin
  <2>3. Drained(d)'
    BY DEF Drained, Emptied, Holds, Staged, Begin, Answer, Move, Exits
  <2>4. Concluded(d)'
    BY DEF Concluded, Exits, Begin, Answer, Move
  <2> QED BY <2>1, <2>2, <2>3, <2>4
<1> QED BY <1>2, <1>4, <1>5, <1>6

\* Close preserves the inductive invariant.
LEMMA CloseInv ==
  ASSUME IInv, NEW c \in Command, Close(c) PROVE IInv'
<1>1. /\ closed' \in PerStream(BOOLEAN)
      /\ \A d \in Command, r \in Stream : closed'[d][r] => closed[d][r] \/ (d = c /\ pc[c] = "close")
      /\ \A d \in Command, r \in Stream : closed[d][r] => closed'[d][r]
  <2>1. CASE closed' = closed
    BY <2>1 DEF IInv, TypeOK
  <2>2. CASE \E s \in Stream : closed' = [closed EXCEPT ![c][s] = TRUE]
    <3>1. PICK s \in Stream : closed' = [closed EXCEPT ![c][s] = TRUE]
      BY <2>2
    <3>2. closed \in PerStream(BOOLEAN)
      BY DEF IInv, TypeOK
    <3>3. pc[c] = "close"
      BY <3>1, <3>2 DEF Close, PerStream
    <3> QED BY <3>1, <3>2, <3>3, Cell DEF PerStream
  <2> QED BY <2>1, <2>2 DEF Close
<1>2. TypeOK'
  BY <1>1 DEF IInv, TypeOK, Close, Move, budget, process, readers
<1>3. StartedSet' = StartedSet
  BY DEF StartedSet, Close, process
<1>4. BudgetsKept' /\ Cardinality(StartedSet)' <= commands'
  BY <1>3, SameChildren DEF IInv, BudgetsKept, Total, Close, budget, readers
<1>5. ASSUME NEW d \in Command
      PROVE  Staged(d)' /\ Flow(d)' /\ Drained(d)' /\ Concluded(d)'
  <2> USE DEF IInv, TypeOK, Close, Move, process, readers
  <2>1. Staged(d)'
    BY <1>1 DEF Staged
  <2>2. Flow(d)'
    BY DEF Flow
  <2>3. Drained(d)'
    BY <1>1 DEF Drained, Emptied, Holds
  <2>4. Concluded(d)'
    BY DEF Concluded, Exits
  <2> QED BY <2>1, <2>2, <2>3, <2>4
<1> QED BY <1>2, <1>4, <1>5 DEF IInv

-----------------------------------------------------------------------------
(* The streams and their readers.                                          *)

\* A reader goes on to another place.
LEMMA Goes ==
  ASSUME TypeOK, NEW c \in Command, NEW s \in Stream, NEW where \in Places, Go(c, s, where)
  PROVE  /\ reader' \in PerStream(Places)
         /\ \A d \in Command, r \in Stream :
              reader'[d][r] = IF d = c /\ r = s THEN where ELSE reader[d][r]
<1>1. reader \in PerStream(Places)
  BY DEF TypeOK, Places, PerStream
<1> QED BY <1>1, Cell DEF Go, PerStream

\* No stream of this command is closed while its reader goes through a step.
LEMMA NotDone ==
  ASSUME IInv, NEW c \in Command, NEW s \in Stream, reader[c][s] # "end", child[c] # "none"
  PROVE  /\ ~gaveUp[c] => pc[c] \notin {"close", "settle", "end"}
         /\ result[c] \in Exits => gaveUp[c]
BY DEF IInv, Drained, Emptied, Concluded

\* Write preserves the inductive invariant.
LEMMA WriteInv ==
  ASSUME IInv, NEW c \in Command, NEW s \in Stream, Write(c, s) PROVE IInv'
<1>1. /\ written' \in PerStream(Nat)
      /\ \A d \in Command, r \in Stream :
           written'[d][r] = IF d = c /\ r = s THEN written[c][s] + 1 ELSE written[d][r]
      /\ pipe' \in PerStream(Nat)
      /\ \A d \in Command, r \in Stream :
           pipe'[d][r] = IF d = c /\ r = s THEN pipe[c][s] + 1 ELSE pipe[d][r]
  BY Cell DEF Write, IInv, TypeOK, PerStream
<1>2. TypeOK'
  BY <1>1 DEF IInv, TypeOK, Write, budget, process, readers, caller, Places
<1>3. StartedSet' = StartedSet
  BY DEF StartedSet, Write, process, Kill, IInv, TypeOK
<1>4. BudgetsKept' /\ Cardinality(StartedSet)' <= commands'
  BY <1>3, SameChildren DEF IInv, BudgetsKept, Total, Write, budget, readers
<1>5. ASSUME NEW d \in Command
      PROVE  Staged(d)' /\ Flow(d)' /\ Drained(d)' /\ Concluded(d)'
  <2>1. Staged(d)'
    BY <1>1 DEF IInv, Staged, At, Write, process, caller
  <2>2. Flow(d)'
    BY <1>1 DEF IInv, TypeOK, PerStream, Flow, At, Write, process, caller, budget
  <2>3. Drained(d)'
    BY <1>1 DEF IInv, TypeOK, PerStream, Drained, Emptied, Holds, Write, caller
  <2>4. Concluded(d)'
    BY <1>1 DEF IInv, TypeOK, PerStream, Concluded, Drained, Emptied, Holds, Write, caller,
       Exits
  <2> QED BY <2>1, <2>2, <2>3, <2>4
<1> QED BY <1>2, <1>4, <1>5 DEF IInv

\* Enter preserves the inductive invariant.
LEMMA EnterInv ==
  ASSUME IInv, NEW c \in Command, NEW s \in Stream, Enter(c, s) PROVE IInv'
<1>1. /\ reader' \in PerStream(Places)
      /\ \A d \in Command, r \in Stream :
           reader'[d][r] = IF d = c /\ r = s THEN IF closed[c][s] THEN "end" ELSE "reading" ELSE reader[d][r]
  BY Goes DEF Enter, IInv, Places
<1>2. TypeOK'
  BY <1>1 DEF IInv, TypeOK, Enter, budget, process, readers, caller, Places
<1>3. StartedSet' = StartedSet
  BY DEF StartedSet, Enter, process, Kill, IInv, TypeOK
<1>4. BudgetsKept' /\ Cardinality(StartedSet)' <= commands'
  BY <1>3, SameChildren DEF IInv, BudgetsKept, Total, Enter, budget, readers
<1>5. ASSUME NEW d \in Command
      PROVE  Staged(d)' /\ Flow(d)' /\ Drained(d)' /\ Concluded(d)'
  <2>1. Staged(d)'
    BY <1>1 DEF IInv, Staged, At, Enter, process, caller
  <2>2. Flow(d)'
    BY <1>1 DEF IInv, TypeOK, PerStream, Flow, At, Enter, process, caller, budget
  <2>3. Drained(d)'
    <3>1. child' = child /\ heir' = heir /\ pipe' = pipe /\ hand' = hand
          /\ closed' = closed /\ pc' = pc /\ gaveUp' = gaveUp
      BY DEF Enter, process, caller
    <3>2. CASE d = c
      <4>1. ~gaveUp[c] => pc[c] \notin {"close", "settle", "end"}
        BY NotDone DEF Enter, At
      <4>2. ASSUME NEW r \in Stream, reader'[c][r] = "end", ~closed[c][r]
            PROVE  Emptied(c, r)'
        BY <1>1, <3>1, <4>2 DEF IInv, Drained, Emptied, Holds
      <4> QED BY <3>1, <3>2, <4>1, <4>2 DEF Drained
    <3>3. CASE d # c
      <4>1. \A r \in Stream : reader'[d][r] = reader[d][r]
        BY <1>1, <3>3
      <4> QED BY <3>1, <4>1 DEF IInv, Drained, Emptied, Holds
    <3> QED BY <3>2, <3>3
  <2>4. Concluded(d)'
    BY <1>1, NotDone DEF IInv, TypeOK, PerStream, Concluded, Drained, Emptied, At, Enter,
       process, caller, Exits
  <2> QED BY <2>1, <2>2, <2>3, <2>4
<1> QED BY <1>2, <1>4, <1>5 DEF IInv

\* Take preserves the inductive invariant.
LEMMA TakeInv ==
  ASSUME IInv, NEW c \in Command, NEW s \in Stream, Take(c, s) PROVE IInv'
<1>1. /\ pipe' \in PerStream(Nat)
      /\ \A d \in Command, r \in Stream :
           pipe'[d][r] = IF d = c /\ r = s THEN pipe[c][s] - 1 ELSE pipe[d][r]
      /\ hand' \in PerStream(Nat)
      /\ \A d \in Command, r \in Stream :
           hand'[d][r] = IF d = c /\ r = s THEN hand[c][s] + 1 ELSE hand[d][r]
  <2>1. pipe[c][s] - 1 \in Nat /\ hand[c][s] + 1 \in Nat
    <3>1. pipe[c][s] \in Nat /\ pipe[c][s] > 0 /\ hand[c][s] \in Nat
      BY DEF Take, IInv, TypeOK, PerStream
    <3>2. \A n \in Nat : n > 0 => n - 1 \in Nat
      OBVIOUS
    <3> QED BY <3>1, <3>2
  <2>2. pipe' = [pipe EXCEPT ![c][s] = pipe[c][s] - 1] /\ pipe \in PerStream(Nat)
    BY DEF Take, IInv, TypeOK, PerStream
  <2>3. hand' = [hand EXCEPT ![c][s] = hand[c][s] + 1] /\ hand \in PerStream(Nat)
    BY DEF Take, IInv, TypeOK, PerStream
  <2>4. /\ pipe' \in PerStream(Nat)
        /\ \A d \in Command, r \in Stream :
             pipe'[d][r] = IF d = c /\ r = s THEN pipe[c][s] - 1 ELSE pipe[d][r]
    BY <2>1, <2>2, Cell DEF PerStream
  <2>5. /\ hand' \in PerStream(Nat)
        /\ \A d \in Command, r \in Stream :
             hand'[d][r] = IF d = c /\ r = s THEN hand[c][s] + 1 ELSE hand[d][r]
    BY <2>1, <2>3, Cell DEF PerStream
  <2> QED BY <2>4, <2>5
<1>2. TypeOK'
  BY <1>1 DEF IInv, TypeOK, Take, budget, process, readers, caller, Places
<1>3. StartedSet' = StartedSet
  BY DEF StartedSet, Take, process, Kill, IInv, TypeOK
<1>4. BudgetsKept' /\ Cardinality(StartedSet)' <= commands'
  BY <1>3, SameChildren DEF IInv, BudgetsKept, Total, Take, budget, readers
<1>5. ASSUME NEW d \in Command
      PROVE  Staged(d)' /\ Flow(d)' /\ Drained(d)' /\ Concluded(d)'
  <2>1. Staged(d)'
    BY <1>1 DEF IInv, Staged, At, Take, process, caller
  <2>2. Flow(d)'
    BY <1>1 DEF IInv, TypeOK, PerStream, Flow, At, Take, process, caller, budget
  <2>3. Drained(d)'
    BY <1>1, NotDone DEF IInv, TypeOK, PerStream, Drained, Emptied, Holds, At, Take, process,
       caller
  <2>4. Concluded(d)'
    BY <1>1, NotDone DEF IInv, TypeOK, PerStream, Concluded, Drained, Emptied, At, Take,
       process, caller, Exits
  <2> QED BY <2>1, <2>2, <2>3, <2>4
<1> QED BY <1>2, <1>4, <1>5 DEF IInv

\* Deliver preserves the inductive invariant.
LEMMA DeliverInv ==
  ASSUME IInv, NEW c \in Command, NEW s \in Stream, Deliver(c, s) PROVE IInv'
<1>1. /\ reader' \in PerStream(Places)
      /\ \A d \in Command, r \in Stream :
           reader'[d][r] = IF d = c /\ r = s THEN IF hand[c][s] = 0 THEN "end" ELSE "chunk" ELSE reader[d][r]
  BY Goes DEF Deliver, IInv, Places
<1>2. TypeOK'
  BY <1>1 DEF IInv, TypeOK, Deliver, AtEnd, budget, process, readers, caller, Places
<1>3. StartedSet' = StartedSet
  BY DEF StartedSet, Deliver, AtEnd, process, Kill, IInv, TypeOK
<1>4. BudgetsKept' /\ Cardinality(StartedSet)' <= commands'
  BY <1>3, SameChildren DEF IInv, BudgetsKept, Total, Deliver, AtEnd, budget, readers
<1>5. ASSUME NEW d \in Command
      PROVE  Staged(d)' /\ Flow(d)' /\ Drained(d)' /\ Concluded(d)'
  <2>1. Staged(d)'
    BY <1>1 DEF IInv, Staged, At, Deliver, AtEnd, process, caller
  <2>2. Flow(d)'
    BY <1>1 DEF IInv, TypeOK, PerStream, Flow, At, Deliver, AtEnd, process, caller, budget
  <2>3. Drained(d)'
    <3>1. child' = child /\ heir' = heir /\ pipe' = pipe /\ hand' = hand
          /\ closed' = closed /\ pc' = pc /\ gaveUp' = gaveUp
      BY DEF Deliver, process, caller
    <3>2. CASE d = c
      <4>1. ~gaveUp[c] => pc[c] \notin {"close", "settle", "end"}
        BY NotDone DEF Deliver, At
      <4>2. ASSUME NEW r \in Stream, reader'[c][r] = "end", ~closed[c][r]
            PROVE  Emptied(c, r)'
        <5>1. CASE r = s
          <6>1. hand[c][s] = 0
            BY <1>1, <4>2, <5>1
          <6>2. AtEnd(c, s)
            BY <6>1, SizesAssumption DEF Deliver
          <6> QED BY <3>1, <4>2, <5>1, <6>1, <6>2 DEF AtEnd, Emptied, Holds
        <5>2. CASE r # s
          BY <1>1, <3>1, <4>2, <5>2 DEF IInv, Drained, Emptied, Holds
        <5> QED BY <5>1, <5>2
      <4> QED BY <3>1, <3>2, <4>1, <4>2 DEF Drained
    <3>3. CASE d # c
      <4>1. \A r \in Stream : reader'[d][r] = reader[d][r]
        BY <1>1, <3>3
      <4> QED BY <3>1, <4>1 DEF IInv, Drained, Emptied, Holds
    <3> QED BY <3>2, <3>3
  <2>4. Concluded(d)'
    BY <1>1, NotDone DEF IInv, TypeOK, PerStream, Concluded, Drained, Emptied, At, Deliver,
       AtEnd, process, caller, Exits
  <2> QED BY <2>1, <2>2, <2>3, <2>4
<1> QED BY <1>2, <1>4, <1>5 DEF IInv

\* Reject preserves the inductive invariant.
LEMMA RejectInv ==
  ASSUME IInv, NEW c \in Command, NEW s \in Stream, Reject(c, s) PROVE IInv'
<1>1. /\ reader' \in PerStream(Places)
      /\ \A d \in Command, r \in Stream :
           reader'[d][r] = IF d = c /\ r = s THEN "kill" ELSE reader[d][r]
      /\ hand' \in PerStream(Nat)
      /\ \A d \in Command, r \in Stream :
           hand'[d][r] = IF d = c /\ r = s THEN 0 ELSE hand[d][r]
  <2>1. Go(c, s, "kill") /\ hand' = [hand EXCEPT ![c][s] = 0] /\ hand \in PerStream(Nat)
    BY DEF Reject, IInv, TypeOK, PerStream
  <2> QED BY <2>1, Goes, Cell DEF IInv, PerStream, Places
<1>2. TypeOK'
  BY <1>1 DEF IInv, TypeOK, Reject, budget, process, readers, caller, Places
<1>3. StartedSet' = StartedSet
  BY DEF StartedSet, Reject, process, Kill, IInv, TypeOK
<1>4. BudgetsKept' /\ Cardinality(StartedSet)' <= commands'
  BY <1>3, SameChildren DEF IInv, BudgetsKept, Total, Reject, budget, readers
<1>5. ASSUME NEW d \in Command
      PROVE  Staged(d)' /\ Flow(d)' /\ Drained(d)' /\ Concluded(d)'
  <2>1. Staged(d)'
    BY <1>1 DEF IInv, Staged, At, Reject, process, caller
  <2>2. Flow(d)'
    BY <1>1 DEF IInv, TypeOK, PerStream, Flow, At, Reject, process, caller, budget
  <2>3. Drained(d)'
    BY <1>1, NotDone DEF IInv, TypeOK, PerStream, Drained, Emptied, Holds, At, Reject, process,
       caller
  <2>4. Concluded(d)'
    BY <1>1, NotDone DEF IInv, TypeOK, PerStream, Concluded, Drained, Emptied, At, Reject,
       process, caller, Exits
  <2> QED BY <2>1, <2>2, <2>3, <2>4
<1> QED BY <1>2, <1>4, <1>5 DEF IInv

\* ReaderKills preserves the inductive invariant.
LEMMA ReaderKillsInv ==
  ASSUME IInv, NEW c \in Command, NEW s \in Stream, ReaderKills(c, s) PROVE IInv'
<1>1. /\ reader' \in PerStream(Places)
      /\ \A d \in Command, r \in Stream :
           reader'[d][r] = IF d = c /\ r = s THEN "between" ELSE reader[d][r]
  BY Goes DEF ReaderKills, IInv, Places
<1>2. TypeOK'
  BY <1>1 DEF IInv, TypeOK, ReaderKills, Kill, Exits, budget, process, readers, caller, Places
<1>3. StartedSet' = StartedSet
  BY DEF StartedSet, ReaderKills, Kill, Exits, process, Kill, IInv, TypeOK
<1>4. BudgetsKept' /\ Cardinality(StartedSet)' <= commands'
  BY <1>3, SameChildren DEF IInv, BudgetsKept, Total, ReaderKills, Kill, Exits, budget, readers
<1>5. ASSUME NEW d \in Command
      PROVE  Staged(d)' /\ Flow(d)' /\ Drained(d)' /\ Concluded(d)'
  <2>0. /\ UNCHANGED <<pipe, hand, closed, pc, gaveUp>>
        /\ child'[d] = child[d] \/ (child[d] = "running" /\ child'[d] = "killed")
        /\ heir'[d] = heir[d] \/ (heir'[d] = FALSE)
    BY DEF IInv, TypeOK, ReaderKills, Kill, caller, Exits
  <2>1. Staged(d)'
    BY <1>1, <2>0 DEF IInv, Staged, At, ReaderKills
  <2>2. Flow(d)'
    BY <1>1 DEF IInv, TypeOK, PerStream, Flow, At, ReaderKills, Kill, Exits, process, caller,
       budget
  <2>3. Drained(d)'
    <3>1. ~Holds(d) => ~Holds(d)'
      BY <2>0 DEF Holds, Exits
    <3>2. \A r \in Stream : reader'[d][r] = "end" => reader[d][r] = "end"
      BY <1>1
    <3>3. \A r \in Stream : Emptied(d, r) => Emptied(d, r)'
      BY <1>1, <2>0, <3>1 DEF Emptied, At, ReaderKills
    <3>4. child'[d] # "none" => child[d] # "none"
      BY <2>0
    <3> QED BY <2>0, <3>2, <3>3, <3>4 DEF IInv, Drained
  <2>4. Concluded(d)'
    BY <1>1, NotDone DEF IInv, TypeOK, PerStream, Concluded, Drained, Emptied, At, ReaderKills,
       Kill, Exits, process, caller, Exits
  <2> QED BY <2>1, <2>2, <2>3, <2>4
<1> QED BY <1>2, <1>4, <1>5 DEF IInv

\* What is accepted is stored, unless something was thrown away before.
LEMMA AcceptInv ==
  ASSUME IInv, NEW c \in Command, NEW s \in Stream, Accept(c, s) PROVE IInv'
<1> DEFINE n == hand[c][s]
           kept == IF overflow[c] THEN 0 ELSE n
<1>0. /\ n \in Nat /\ charged \in Nat /\ charged' = charged + n
      /\ Total(c) + n <= MaxCommand /\ charged + n <= MaxOutput
      /\ UNCHANGED <<cancelled, scratch, commands, process, pipe, overflow, caller>>
  BY DEF Accept, Allowed, IInv, TypeOK, PerStream
<1>1. /\ reader' \in PerStream(Places)
      /\ \A d \in Command, r \in Stream :
           reader'[d][r] = IF d = c /\ r = s THEN "between" ELSE reader[d][r]
  BY Goes DEF Accept, IInv, Places
<1>2. /\ hand' \in PerStream(Nat)
      /\ \A d \in Command, r \in Stream :
           hand'[d][r] = IF d = c /\ r = s THEN 0 ELSE hand[d][r]
  <2>1. hand' = [hand EXCEPT ![c][s] = 0] /\ hand \in PerStream(Nat)
    BY DEF Accept, IInv, TypeOK, PerStream
  <2> QED BY <2>1, Cell DEF PerStream
<1>3. /\ outputs' \in PerStream(Nat)
      /\ \A d \in Command, r \in Stream :
           outputs'[d][r] = IF d = c /\ r = s THEN outputs[c][s] + kept ELSE outputs[d][r]
  <2>1. outputs \in PerStream(Nat)
    BY DEF IInv, TypeOK, PerStream
  <2>2. CASE overflow[c]
    BY <1>0, <2>1, <2>2 DEF Accept, PerStream
  <2>3. CASE ~overflow[c]
    <3>1. outputs' = [outputs EXCEPT ![c][s] = outputs[c][s] + n] /\ outputs[c][s] + n \in Nat
      BY <1>0, <2>1, <2>3 DEF Accept, PerStream
    <3> QED BY <2>1, <2>3, <3>1, Cell DEF PerStream
  <2> QED BY <2>2, <2>3
<1>4. TypeOK'
  <2>1. use' = use
    BY DEF Accept
  <2> QED BY <1>0, <1>1, <1>2, <1>3, <2>1 DEF IInv, TypeOK, process, caller, Places
<1>5. StartedSet' = StartedSet
  BY <1>0 DEF StartedSet, process
<1>6. ASSUME NEW d \in Command PROVE Total(d)' <= MaxCommand /\ Total(d)' <= charged'
  <2>1. /\ outputs[d]["stdout"] \in Nat /\ outputs[d]["stderr"] \in Nat
        /\ Total(d) <= MaxCommand /\ Total(d) <= charged
    BY DEF IInv, TypeOK, PerStream, BudgetsKept, Stream
  <2>2. CASE d = c
    <3>1. Total(d)' <= Total(d) + n
      BY <1>0, <1>3, <2>1, <2>2 DEF Total, Stream
    <3> QED BY <1>0, <2>1, <2>2, <3>1, <1>3, SizesAssumption DEF Total, Stream, PerStream
  <2>3. CASE d # c
    <3>1. Total(d)' = Total(d)
      BY <1>3, <2>3 DEF Total, Stream
    <3> QED BY <1>0, <2>1, <3>1 DEF Total
  <2> QED BY <2>2, <2>3
<1>7. BudgetsKept' /\ Cardinality(StartedSet)' <= commands'
  BY <1>0, <1>5, <1>6, SameChildren
<1>8. ASSUME NEW d \in Command
      PROVE  Staged(d)' /\ Flow(d)' /\ Drained(d)' /\ Concluded(d)'
  <2> USE <1>0 DEF process, caller
  <2>1. Staged(d)'
    BY <1>1 DEF IInv, Staged, At, Accept
  <2>2. Flow(d)'
    <3>1. SUFFICES ASSUME ~overflow[d], NEW r \in Stream
                   PROVE  written[d][r] = pipe[d][r] + hand'[d][r] + outputs'[d][r]
      BY DEF Flow
    <3>2. /\ written[d][r] = pipe[d][r] + hand[d][r] + outputs[d][r]
          /\ pipe[d][r] \in Nat /\ hand[d][r] \in Nat /\ outputs[d][r] \in Nat
      BY <3>1 DEF IInv, Flow, TypeOK, PerStream
    <3> QED BY <1>2, <1>3, <3>1, <3>2
  <2>3. Drained(d)'
    <3>1. \A r \in Stream : reader'[d][r] = "end" => reader[d][r] = "end"
      BY <1>1
    <3>2. \A r \in Stream : Emptied(d, r) => Emptied(d, r)'
      BY <1>1, <1>2 DEF Emptied, Holds, At, Accept
    <3> QED BY <3>1, <3>2 DEF IInv, Drained
  <2>4. Concluded(d)'
    <3>1. CASE d = c
      <4>1. result[c] \in Exits => gaveUp[c]
        BY NotDone DEF Accept, At
      <4> QED BY <3>1, <4>1 DEF IInv, Concluded
    <3>2. CASE d # c
      <4>1. \A r \in Stream : outputs'[d][r] = outputs[d][r]
        BY <1>3, <3>2
      <4> QED BY <4>1 DEF IInv, Concluded
    <3> QED BY <3>1, <3>2
  <2> QED BY <2>1, <2>2, <2>3, <2>4
<1> QED BY <1>4, <1>7, <1>8 DEF IInv

-----------------------------------------------------------------------------
(* The specification.                                                      *)

\* Stutter preserves the inductive invariant.
LEMMA StutterInv == ASSUME IInv, UNCHANGED vars PROVE IInv'
<1>1. \A c \in Command : Total(c)' = Total(c)
  BY DEF Total, vars, readers
<1>2. StartedSet' = StartedSet
  BY DEF StartedSet, vars, process
<1>3. TypeOK'
  BY DEF IInv, TypeOK, vars, budget, process, readers, caller
<1>4. BudgetsKept' /\ Cardinality(StartedSet)' <= commands'
  BY <1>1, <1>2 DEF IInv, BudgetsKept, StartedSet, vars, budget, process
<1>5. \A c \in Command : Staged(c)' /\ Flow(c)' /\ Drained(c)' /\ Concluded(c)'
  BY DEF IInv, Staged, Flow, Drained, Emptied, Holds, Concluded, vars, process, readers, caller
<1> QED BY <1>3, <1>4, <1>5 DEF IInv

\* Next preserves the inductive invariant.
LEMMA NextInv == ASSUME IInv, [Next]_vars PROVE IInv'
<1>1. CASE UNCHANGED vars
  BY <1>1, StutterInv
<1>2. CASE Cancel \/ Fill
  BY <1>2, CancelInv, FillInv
<1>3. ASSUME NEW c \in Command, RunGit(c)
      PROVE  IInv'
  BY <1>3, BeginInv, PollInv, WaitInv, JoinInv, CloseInv, SettleInv DEF RunGit
<1>4. ASSUME NEW c \in Command, Exit(c) \/ Fork(c) \/ HeirEnds(c) \/ Deadline(c)
      PROVE  IInv'
  BY <1>4, ExitInv, ForkInv, HeirEndsInv, DeadlineInv
<1>5. ASSUME NEW c \in Command, NEW s \in Stream, Write(c, s) \/ Drain(c, s)
      PROVE  IInv'
  BY <1>5, WriteInv, EnterInv, TakeInv, DeliverInv, AcceptInv, RejectInv, ReaderKillsInv
     DEF Drain
<1> QED BY <1>1, <1>2, <1>3, <1>4, <1>5 DEF Next

\* The inductive invariant holds of every behaviour, whatever goes wrong in it.
THEOREM Invariance == Spec => []IInv
BY InitInv, NextInv, PTL DEF Spec

\* Every variable keeps its type; no answer is given of a child that still runs.
THEOREM Typing == Spec => []TypeOK
<1>1. IInv => TypeOK
  BY DEF IInv
<1> QED BY <1>1, Invariance, PTL

\* record_output and begin_command keep the limits under any interleaving of
\* the readers of any number of commands.
THEOREM Bounded == Spec => []BudgetsKept
<1>1. IInv => BudgetsKept
  BY DEF IInv
<1> QED BY <1>1, Invariance, PTL

\* What run_git returns is complete if it could join its readers.
THEOREM Complete == Spec => []HonestResult
<1>1. ASSUME IInv PROVE HonestResult
  <2>1. SUFFICES ASSUME NEW c \in Command, result[c] \in Exits
                 PROVE  /\ failure[c] = "none"
                        /\ ~gaveUp[c] => ~overflow[c] /\ outputs[c] = written[c]
    BY DEF HonestResult
  <2>2. Concluded(c)
    BY <1>1 DEF IInv
  <2>3. outputs[c] \in [Stream -> Nat] /\ written[c] \in [Stream -> Nat]
    BY <1>1 DEF IInv, TypeOK, PerStream
  <2> QED BY <2>1, <2>2, <2>3 DEF Concluded
<1> QED BY <1>1, Invariance, PTL

\* run_git and run_owned_git leave no child of theirs behind.
THEOREM NoChildLeft == Spec => []Reaped
<1>1. IInv => Reaped
  BY DEF IInv, Staged, Reaped
<1> QED BY <1>1, Invariance, PTL

-----------------------------------------------------------------------------
(* The commands implement OutputAccount.                                   *)

\* A kill starts nothing.
LEMMA KillStarts ==
  ASSUME IInv, NEW c \in Command, Kill(c)
  PROVE  \A d \in Command :
           /\ child'[d] = "none" <=> child[d] = "none"
           /\ heir'[d] => heir[d]
BY DEF IInv, TypeOK, Kill, Exits

\* What a command's children, pipes and readers do leaves its caller alone.
LEMMA AsideAnswered ==
  ASSUME AllAnswered, UNCHANGED caller,
         \A d \in Command :
           /\ child'[d] = "none" <=> child[d] = "none"
           /\ heir'[d] => heir[d] \/ child[d] # "none"
  PROVE  AllAnswered'
BY DEF AllAnswered, Answered, caller

\* One caller takes a step.
LEMMA CallerAnswered ==
  ASSUME IInv, AllAnswered, NEW c \in Command, RunGit(c)
  PROVE  AllAnswered'
<1> USE DEF IInv, TypeOK
<1>1. SUFFICES ASSUME NEW d \in Command PROVE Answered(d)'
  BY DEF AllAnswered
<1>2. Answered(d) /\ Staged(d)
  BY DEF AllAnswered
<1>3. CASE Begin(c)
  BY <1>2, <1>3 DEF Begin, Answered, Staged, Answer, Move
<1>4. CASE Poll(c)
  <2>1. (child'[d] = "none" <=> child[d] = "none") /\ (heir'[d] => heir[d])
    BY <1>4, KillStarts DEF Poll
  <2>2. /\ UNCHANGED <<closed, gaveUp, result>> /\ pc[c] = "poll"
        /\ pc' = [pc EXCEPT ![c] = "wait"] /\ (d # c => failure'[d] = failure[d])
    BY <1>4 DEF Poll, Move
  <2>3. pc[d] = "poll" => child[d] # "none"
    BY <1>2 DEF Staged
  <2> QED BY <1>2, <2>1, <2>2, <2>3 DEF Answered
<1>5. CASE Wait(c)
  <2>1. (child'[d] = "none" <=> child[d] = "none") /\ (heir'[d] => heir[d])
    BY <1>5, KillStarts DEF Wait
  <2> QED BY <1>2, <1>5, <2>1 DEF Wait, Move, Answered
<1>6. CASE Join(c)
  BY <1>2, <1>6 DEF Join, Move, Answered, Staged, process
<1>7. CASE Close(c)
  <2>1. /\ UNCHANGED <<child, heir, gaveUp, failure, result>> /\ pc[c] = "close"
        /\ (pc'[d] = pc[d] \/ (d = c /\ pc'[d] = "settle"))
    BY <1>7 DEF Close, Move, process
  <2>2. CASE pc'[d] = pc[d]
    <3>1. pc[d] \in {"settle", "end"} => closed'[d] = closed[d]
      BY <1>7 DEF Close, PerStream
    <3> QED BY <1>2, <2>1, <2>2, <3>1 DEF Answered
  <2>3. CASE d = c /\ pc'[d] = "settle"
    BY <1>2, <1>7, <2>1, <2>3 DEF Close, Answered
  <2> QED BY <2>1, <2>2, <2>3
<1>8. CASE Settle(c)
  <2>1. child[c] # "none" /\ child[c] \in Exits
    BY <1>8 DEF Settle, Staged, Exits
  <2>2. Verdict(c) # "none"
    BY <2>1 DEF Verdict, Exits, Failures
  <2> QED BY <1>2, <1>8, <2>2 DEF Settle, Answer, Move, Answered, Exits, process
<1> QED BY <1>3, <1>4, <1>5, <1>6, <1>7, <1>8 DEF RunGit

\* An answer is given once, of a command whose streams are closed.
LEMMA NextAnswered ==
  ASSUME IInv, AllAnswered, [Next]_vars
  PROVE  AllAnswered'
<1>1. CASE UNCHANGED vars
  BY <1>1, AsideAnswered DEF vars, process
<1>2. CASE Cancel \/ Fill
  BY <1>2, AsideAnswered DEF Cancel, Fill, process
<1>3. ASSUME NEW c \in Command, RunGit(c) PROVE AllAnswered'
  BY <1>3, CallerAnswered
<1>4. ASSUME NEW c \in Command, Exit(c) \/ Fork(c) \/ HeirEnds(c) \/ Deadline(c)
      PROVE  AllAnswered'
  <2>1. UNCHANGED caller
    BY <1>4 DEF Exit, Fork, HeirEnds, Deadline
  <2>2. \A d \in Command : /\ child'[d] = "none" <=> child[d] = "none"
                           /\ heir'[d] => heir[d] \/ child[d] # "none"
    BY <1>4 DEF Exit, Fork, HeirEnds, Deadline, IInv, TypeOK
  <2> QED BY <2>1, <2>2, AsideAnswered
<1>5. ASSUME NEW c \in Command, NEW s \in Stream, Write(c, s) \/ Drain(c, s)
      PROVE  AllAnswered'
  <2>1. UNCHANGED caller
    BY <1>5 DEF Write, Drain, Enter, Take, Deliver, Accept, Reject, ReaderKills
  <2>2. \A d \in Command : /\ child'[d] = "none" <=> child[d] = "none"
                           /\ heir'[d] => heir[d] \/ child[d] # "none"
    <3>1. CASE ReaderKills(c, s)
      BY <3>1, KillStarts DEF ReaderKills
    <3>2. CASE ~ReaderKills(c, s)
      BY <1>5, <3>2 DEF Write, Drain, Enter, Take, Deliver, Accept, Reject, process
    <3> QED BY <3>1, <3>2
  <2> QED BY <2>1, <2>2, AsideAnswered
<1> QED BY <1>1, <1>2, <1>3, <1>4, <1>5 DEF Next

Accounts == [Account!Next]_(Account!vars)

\* Steps that concern neither output nor answers.
LEMMA AsideAccounts ==
  ASSUME UNCHANGED <<written, outputs, charged, overflow, failure, gaveUp, result>>,
         \A d \in Command : child'[d] = "none" <=> child[d] = "none"
  PROVE  Accounts
<1>1. UNCHANGED <<StartedSet, Spoiled, Unjoined, Told>>
  BY DEF StartedSet, Spoiled, Unjoined, Told
<1> QED BY <1>1 DEF Accounts, Account!vars

\* A command may still write, or be read from, until it is answered by a caller
\* that has joined its readers.
LEMMA StillOpen ==
  ASSUME IInv, AllAnswered, NEW c \in Command, child[c] # "none",
         \/ pc[c] # "end"
         \/ \E s \in Stream : reader[c][s] # "end"
  PROVE  Account!Open(c)
<1>1. c \in StartedSet
  BY DEF StartedSet
<1>2. CASE pc[c] # "end"
  BY <1>1, <1>2 DEF AllAnswered, Answered, Told, Account!Open
<1>3. CASE pc[c] = "end" /\ \E s \in Stream : reader[c][s] # "end"
  BY <1>1, <1>3, NotDone DEF Unjoined, Account!Open
<1> QED BY <1>2, <1>3

LEMMA WriteAccounts ==
  ASSUME IInv, AllAnswered, NEW c \in Command, NEW s \in Stream, Write(c, s)
  PROVE  Accounts
<1>1. UNCHANGED <<outputs, charged, StartedSet, Spoiled, Unjoined, Told>>
  BY DEF Write, budget, caller, StartedSet, Spoiled, Unjoined, Told
<1>2. c \in StartedSet
  BY DEF Write, Holds, StartedSet, AllAnswered, Answered
<1>3. Told[c] = "none"
  BY <1>2 DEF Write, Told, AllAnswered, Answered, StartedSet
<1>4. Account!Write(c, s)
  BY <1>1, <1>2, <1>3 DEF Write, Account!Write
<1> QED BY <1>4 DEF Accounts, Account!Next, Account!Stream, Stream

LEMMA AcceptAccounts ==
  ASSUME IInv, AllAnswered, NEW c \in Command, NEW s \in Stream, Accept(c, s)
  PROVE  Accounts
<1> DEFINE n == hand[c][s]
<1>1. UNCHANGED <<written, StartedSet, Spoiled, Unjoined, Told>>
  BY DEF Accept, process, caller, StartedSet, Spoiled, Unjoined, Told
<1>2. child[c] # "none" /\ reader[c][s] = "chunk"
  BY DEF Accept, At
<1>3. Account!Open(c)
  BY <1>2, StillOpen
<1>4. /\ n \in Nat /\ charged \in Nat /\ Total(c) + n <= MaxCommand
      /\ charged + n <= MaxOutput /\ charged' = charged + n
  BY DEF Accept, Allowed, IInv, TypeOK, PerStream
<1>5. n \in 0..MaxOutput
  BY <1>4, SizesAssumption
<1>6. \/ outputs[c][s] + n <= written[c][s] /\ outputs' = [outputs EXCEPT ![c][s] = @ + n]
      \/ c \in Spoiled /\ UNCHANGED outputs
  <2>1. CASE overflow[c]
    BY <2>1 DEF Accept, Spoiled
  <2>2. CASE ~overflow[c]
    <3>1. /\ written[c][s] = pipe[c][s] + hand[c][s] + outputs[c][s]
          /\ pipe[c][s] \in Nat /\ outputs[c][s] \in Nat
      BY <2>2 DEF IInv, Flow, TypeOK, PerStream
    <3> QED BY <1>4, <2>2, <3>1 DEF Accept
  <2> QED BY <2>1, <2>2
<1>7. Account!Keep(c, s, n)
  BY <1>1, <1>3, <1>4, <1>6 DEF Account!Keep, Account!Size, Total
<1> QED BY <1>5, <1>7 DEF Accounts, Account!Next, Account!Stream, Stream

LEMMA RejectAccounts ==
  ASSUME IInv, AllAnswered, NEW c \in Command, NEW s \in Stream, Reject(c, s)
  PROVE  Accounts
<1>1. UNCHANGED <<written, outputs, charged, StartedSet, Unjoined, Told>>
  BY DEF Reject, budget, process, caller, StartedSet, Unjoined, Told
<1>2. Spoiled' = Spoiled \cup {c}
  BY DEF Reject, caller, Spoiled, IInv, TypeOK
<1>3. child[c] # "none" /\ reader[c][s] = "chunk"
  BY DEF Reject, At
<1>4. Account!Spoil(c)
  BY <1>1, <1>2, <1>3, StillOpen DEF Account!Spoil
<1> QED BY <1>4 DEF Accounts, Account!Next

LEMMA BeginAccounts ==
  ASSUME IInv, AllAnswered, NEW c \in Command, Begin(c)
  PROVE  Accounts
<1>1. UNCHANGED <<written, outputs, charged, Spoiled, Unjoined>>
  BY DEF Begin, readers, Spoiled, Unjoined
<1>2. child[c] = "none" /\ result[c] = "none"
  BY DEF Begin, IInv, Staged, AllAnswered, Answered
<1>3. CASE \E how \in {"cancelled", "refused"} : Answer(c, how) /\ UNCHANGED child
  <2>1. StartedSet' = StartedSet
    BY <1>3 DEF StartedSet
  <2>2. Told[c] = "none" /\ Told' = [Told EXCEPT ![c] = "refusal"]
    <3>1. PICK how \in {"cancelled", "refused"} : result' = [result EXCEPT ![c] = how]
      BY <1>3 DEF Answer
    <3>2. how \notin Exits /\ how # "none" /\ result \in [Command -> Results]
      BY DEF Exits, IInv, TypeOK
    <3> QED BY <1>2, <3>1, <3>2 DEF Told
  <2>3. Account!Answer(c)
    BY <1>1, <2>1, <2>2 DEF Account!Answer
  <2> QED BY <2>3 DEF Accounts, Account!Next
<1>4. CASE /\ commands' = commands + 1 /\ commands' <= MaxCommands
           /\ child' = [child EXCEPT ![c] = "running"] /\ UNCHANGED result
  <2>1. StartedSet' = StartedSet \cup {c} /\ c \notin StartedSet
    BY <1>2, <1>4 DEF StartedSet, IInv, TypeOK
  <2>2. Cardinality(StartedSet) < MaxCommands
    <3>1. IsFiniteSet(StartedSet)
      BY SetsAssumption, FS_Subset DEF StartedSet
    <3>2. Cardinality(StartedSet) \in Nat /\ Cardinality(StartedSet) <= commands
      BY <3>1, FS_CardinalityType DEF IInv
    <3> QED BY <1>4, <3>2, SizesAssumption DEF IInv, TypeOK
  <2>3. Told[c] = "none" /\ Told' = Told
    BY <1>2, <1>4 DEF Told
  <2>4. Account!Cardinality(StartedSet) = Cardinality(StartedSet)
    BY DEF Account!Cardinality, Cardinality
  <2>5. Account!Start(c)
    BY <1>1, <2>1, <2>2, <2>3, <2>4 DEF Account!Start
  <2> QED BY <2>5 DEF Accounts, Account!Next
<1> QED BY <1>3, <1>4 DEF Begin

LEMMA PollAccounts ==
  ASSUME IInv, AllAnswered, NEW c \in Command, Poll(c)
  PROVE  Accounts
<1>1. \A d \in Command : child'[d] = "none" <=> child[d] = "none"
  BY KillStarts DEF Poll
<1>2. UNCHANGED <<written, outputs, charged, overflow, gaveUp, result>> /\ pc[c] = "poll"
  BY DEF Poll, budget, readers
<1>3. CASE UNCHANGED failure
  BY <1>1, <1>2, <1>3, AsideAccounts
<1>4. CASE \E why \in Failures : failure' = [failure EXCEPT ![c] = why]
  <2>1. UNCHANGED <<StartedSet, Unjoined, Told>>
    BY <1>1, <1>2 DEF StartedSet, Unjoined, Told
  <2>2. Spoiled' = Spoiled \cup {c}
    BY <1>2, <1>4 DEF Spoiled, Failures, IInv, TypeOK
  <2>3. Account!Open(c)
    BY <1>2, StillOpen DEF IInv, Staged
  <2>4. Account!Spoil(c)
    BY <1>2, <2>1, <2>2, <2>3 DEF Account!Spoil
  <2> QED BY <2>4 DEF Accounts, Account!Next
<1> QED BY <1>3, <1>4 DEF Poll

LEMMA JoinAccounts ==
  ASSUME IInv, AllAnswered, NEW c \in Command, Join(c)
  PROVE  Accounts
<1>1. UNCHANGED <<written, outputs, charged, StartedSet, Spoiled, Told>> /\ pc[c] = "join"
  BY DEF Join, budget, process, readers, StartedSet, Spoiled, Told
<1>2. child[c] # "none" /\ ~gaveUp[c]
  BY <1>1 DEF IInv, Staged, AllAnswered, Answered
<1>3. CASE gaveUp' = [gaveUp EXCEPT ![c] = FALSE]
  <2>1. Unjoined' = Unjoined
    BY <1>2, <1>3 DEF Unjoined, IInv, TypeOK
  <2> QED BY <1>1, <2>1 DEF Accounts, Account!vars
<1>4. CASE gaveUp' = [gaveUp EXCEPT ![c] = TRUE]
  <2>1. Unjoined' = Unjoined \cup {c}
    BY <1>4 DEF Unjoined, IInv, TypeOK
  <2>2. Account!GiveUp(c)
    BY <1>1, <1>2, <2>1, StillOpen DEF Account!GiveUp
  <2> QED BY <2>2 DEF Accounts, Account!Next
<1> QED BY <1>3, <1>4 DEF Join

\* What is answered is complete, by what the invariant says of results.
LEMMA SettleAccounts ==
  ASSUME IInv, AllAnswered, NEW c \in Command, Settle(c)
  PROVE  Accounts
<1>1. /\ UNCHANGED <<written, outputs, charged, overflow, StartedSet, Spoiled, Unjoined>>
      /\ pc[c] = "settle" /\ result' = [result EXCEPT ![c] = Verdict(c)]
  BY DEF Settle, Answer, budget, process, readers, StartedSet, Spoiled, Unjoined
<1>2. result[c] = "none" /\ Told[c] = "none" /\ child[c] \in Exits
  BY <1>1 DEF IInv, TypeOK, Staged, AllAnswered, Answered, Told, Exits
<1>3. CASE Verdict(c) \in Exits
  <2>1. c \in StartedSet \ Spoiled
    BY <1>2, <1>3 DEF StartedSet, Spoiled, Verdict, Exits, Failures, IInv, TypeOK
  <2>2. c \in Unjoined \/ outputs[c] = written[c]
    <3>1. Concluded(c)' /\ result'[c] \in Exits
      BY <1>1, <1>3, SettleInv DEF IInv, TypeOK
    <3>2. outputs[c] \in [Stream -> Nat] /\ written[c] \in [Stream -> Nat]
      BY DEF IInv, TypeOK, PerStream
    <3>3. gaveUp' = gaveUp
      BY DEF Settle
    <3> QED BY <1>1, <3>1, <3>2, <3>3 DEF Concluded, Unjoined
  <2>3. Told' = [Told EXCEPT ![c] = "output"]
    BY <1>1, <1>3 DEF Told, Exits, IInv, TypeOK
  <2>4. Account!Answer(c)
    BY <1>1, <1>2, <2>1, <2>2, <2>3 DEF Account!Answer
  <2> QED BY <2>4 DEF Accounts, Account!Next
<1>4. CASE Verdict(c) \notin Exits
  <2>1. Verdict(c) # "none"
    BY <1>2 DEF Verdict, Exits, Failures
  <2>2. Told' = [Told EXCEPT ![c] = "refusal"]
    BY <1>1, <1>4, <2>1 DEF Told, IInv, TypeOK
  <2>3. Account!Answer(c)
    BY <1>1, <1>2, <2>2 DEF Account!Answer
  <2> QED BY <2>3 DEF Accounts, Account!Next
<1> QED BY <1>3, <1>4

\* The callers, readers and descendants of all commands, in any order, keep the
\* account of one budget and of outputs that are complete.
THEOREM Refinement == Spec => Promise
<1>1. Init => Account!Init /\ AllAnswered
  <2> SUFFICES ASSUME Init PROVE Account!Init /\ AllAnswered
    OBVIOUS
  <2>1. StartedSet = {} /\ Spoiled = {} /\ Unjoined = {}
    BY DEF Init, StartedSet, Spoiled, Unjoined
  <2>2. charged \in 0..MaxOutput
    BY InitInv, SizesAssumption DEF IInv, TypeOK, BudgetsKept
  <2> QED BY <2>1, <2>2 DEF Init, Account!Init, Account!Stream, Stream, Told, AllAnswered, Answered
<1>2. IInv /\ AllAnswered /\ [Next]_vars => AllAnswered'
  BY NextAnswered
<1>3. IInv /\ AllAnswered /\ [Next]_vars => [Account!Next]_(Account!vars)
  <2> SUFFICES ASSUME IInv, AllAnswered, [Next]_vars PROVE Accounts
    BY DEF Accounts
  <2>1. ASSUME NEW c \in Command, Begin(c) \/ Poll(c) \/ Join(c) \/ Settle(c)
        PROVE  Accounts
    BY <2>1, BeginAccounts, PollAccounts, JoinAccounts, SettleAccounts
  <2>2. ASSUME NEW c \in Command, Wait(c) PROVE Accounts
    BY <2>2, KillStarts, AsideAccounts DEF Wait, budget, readers
  <2>3. ASSUME NEW c \in Command, NEW s \in Stream, Write(c, s) \/ Accept(c, s) \/ Reject(c, s)
        PROVE  Accounts
    BY <2>3, WriteAccounts, AcceptAccounts, RejectAccounts
  <2>4. ASSUME NEW c \in Command, NEW s \in Stream, ReaderKills(c, s) PROVE Accounts
    BY <2>4, KillStarts, AsideAccounts DEF ReaderKills, budget, caller
  <2>5. CASE UNCHANGED vars \/ Cancel \/ Fill
    BY <2>5, AsideAccounts DEF Cancel, Fill, vars, budget, process, readers, caller
  <2>6. ASSUME NEW c \in Command,
               Exit(c) \/ Fork(c) \/ HeirEnds(c) \/ Deadline(c) \/ Close(c)
        PROVE  Accounts
    <3>1. \A d \in Command : child'[d] = "none" <=> child[d] = "none"
      BY <2>6 DEF Exit, Fork, HeirEnds, Deadline, Close, IInv, TypeOK, process
    <3> QED BY <2>6, <3>1, AsideAccounts
         DEF Exit, Fork, HeirEnds, Deadline, Close, budget, process, readers, caller
  <2>7. ASSUME NEW c \in Command, NEW s \in Stream, Enter(c, s) \/ Take(c, s) \/ Deliver(c, s)
        PROVE  Accounts
    BY <2>7, AsideAccounts DEF Enter, Take, Deliver, budget, process, caller
  <2> QED BY <2>1, <2>2, <2>3, <2>4, <2>5, <2>6, <2>7 DEF Next, RunGit, Drain
<1> QED BY <1>1, <1>2, <1>3, Invariance, PTL DEF Spec, Promise, Account!Spec
=============================================================================
