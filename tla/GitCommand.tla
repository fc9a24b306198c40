----------------------------- MODULE GitCommand -----------------------------
(***************************************************************************)
(* Git commands run under one budget, agent_braid/git_process.run_git and  *)
(* its copy git_runtime_process.run_owned_git: per command a child, which  *)
(* may leave heirs that hold its pipes, two threads that read what it      *)
(* writes, and the caller, which watches the limits, kills, waits, joins   *)
(* the readers for a second each, closes the streams and answers.  Bytes   *)
(* are counted in units; a read returns Chunk units or what is left at the *)
(* end of the stream.  The thread that feeds the child's input takes no    *)
(* part in what is modelled.                                               *)
(***************************************************************************)
EXTENDS Naturals, FiniteSets

CONSTANTS Command,     \* commands run on the budget
          Tolerant,    \* commands run with allow_failure
          PipeSize,    \* what a pipe holds
          Chunk,       \* what a read asks for
          MaxCommand,  \* max_command_output_bytes
          MaxOutput,   \* max_output_bytes
          MaxCommands, \* max_commands
          Uses         \* the uses of a budget: the commands that are run on it,
                       \* a bound on what each writes to its streams, what may go
                       \* wrong, and what earlier commands took of the budget

Stream == {"stdout", "stderr"}
Troubles == {"cancel", "scratch", "heir", "failure"}
UseType == [asked : SUBSET Command, produces : [Command -> [Stream -> Nat]],
            trouble : SUBSET Troubles, commands : Nat, charged : Nat]

ASSUME SetsAssumption == IsFiniteSet(Command) /\ Tolerant \subseteq Command
ASSUME SizesAssumption ==
  /\ PipeSize \in Nat \ {0} /\ Chunk \in Nat \ {0}
  /\ MaxCommand \in Nat /\ MaxOutput \in Nat /\ MaxCommands \in Nat
ASSUME UsesAssumption == Uses \subseteq UseType /\ \A u \in Uses : u.charged <= MaxOutput

VARIABLES
  use,       \* the use that is made of the budget
  cancelled, \* the budget's cancel event
  scratch,   \* the temporary data exceeds its limit
  commands,  \* budget: commands begun
  charged,   \* budget: output_bytes
  pc,        \* the caller of each command
  child,     \* its child
  heir,      \* some process the child left holds its pipes
  late,      \* its deadline has passed
  written,   \* history: units written to each stream
  pipe,      \* units in the pipe
  reader,    \* the thread that reads it
  hand,      \* units its read has taken so far
  outputs,   \* units it has stored
  closed,    \* the caller has closed the stream
  overflow,  \* a reader found the output too large
  failure,   \* why the caller stopped the child
  gaveUp,    \* history: a reader was not joined in time
  result     \* how the call ended

budget == <<use, cancelled, scratch, commands, charged>>
process == <<child, heir, late, written>>
readers == <<pipe, reader, hand, outputs, overflow>>
caller == <<pc, closed, failure, gaveUp, result>>
vars == <<budget, process, readers, caller>>

Failures == {"cancelled", "timeout", "scratch"}
Exits == {"done", "failed", "killed"}
Results == Exits \cup Failures \cup {"none", "refused", "overflow", "error"}
PerStream(S) == [Command -> [Stream -> S]]

TypeOK ==
  /\ use \in Uses /\ cancelled \in BOOLEAN /\ scratch \in BOOLEAN
  /\ commands \in Nat /\ charged \in Nat
  /\ pc \in [Command -> {"idle", "poll", "wait", "join", "close", "settle", "end"}]
  /\ child \in [Command -> {"none", "running"} \cup Exits]
  /\ heir \in [Command -> BOOLEAN] /\ late \in [Command -> BOOLEAN]
  /\ written \in PerStream(Nat) /\ pipe \in PerStream(Nat)
  /\ reader \in PerStream({"between", "reading", "chunk", "kill", "end"})
  /\ hand \in PerStream(Nat) /\ outputs \in PerStream(Nat)
  /\ closed \in PerStream(BOOLEAN)
  /\ overflow \in [Command -> BOOLEAN]
  /\ failure \in [Command -> Failures \cup {"none"}]
  /\ gaveUp \in [Command -> BOOLEAN]
  /\ result \in [Command -> Results]

Init ==
  /\ use \in Uses
  /\ cancelled = FALSE /\ scratch = FALSE
  /\ commands = use.commands /\ charged = use.charged
  /\ pc = [c \in Command |-> "idle"]
  /\ child = [c \in Command |-> "none"]
  /\ heir = [c \in Command |-> FALSE] /\ late = [c \in Command |-> FALSE]
  /\ written = [c \in Command |-> [s \in Stream |-> 0]]
  /\ pipe = written /\ hand = written /\ outputs = written
  /\ reader = [c \in Command |-> [s \in Stream |-> "between"]]
  /\ closed = [c \in Command |-> [s \in Stream |-> FALSE]]
  /\ overflow = [c \in Command |-> FALSE]
  /\ failure = [c \in Command |-> "none"]
  /\ gaveUp = [c \in Command |-> FALSE]
  /\ result = [c \in Command |-> "none"]

-----------------------------------------------------------------------------
(* The surroundings: the budget's event and clock, the children, the heirs. *)

Cancel ==
  /\ "cancel" \in use.trouble /\ ~cancelled
  /\ cancelled' = TRUE
  /\ UNCHANGED <<use, scratch, commands, charged, process, readers, caller>>

Fill ==
  /\ "scratch" \in use.trouble /\ ~scratch
  /\ scratch' = TRUE
  /\ UNCHANGED <<use, cancelled, commands, charged, process, readers, caller>>

Deadline(c) ==
  /\ pc[c] = "poll" /\ ~late[c]
  /\ late' = [late EXCEPT ![c] = TRUE]
  /\ UNCHANGED <<budget, child, heir, written, readers, caller>>

Holds(c) == child[c] = "running" \/ heir[c]

Write(c, s) ==
  /\ Holds(c) /\ ~closed[c][s] /\ written[c][s] < use.produces[c][s] /\ pipe[c][s] < PipeSize
  /\ written' = [written EXCEPT ![c][s] = @ + 1]
  /\ pipe' = [pipe EXCEPT ![c][s] = @ + 1]
  /\ UNCHANGED <<budget, child, heir, late, reader, hand, outputs, overflow, caller>>

Fork(c) ==
  /\ "heir" \in use.trouble /\ child[c] = "running" /\ ~heir[c]
  /\ heir' = [heir EXCEPT ![c] = TRUE]
  /\ UNCHANGED <<budget, child, late, written, readers, caller>>

\* A child ends, well or with a failure.
Exit(c) ==
  /\ child[c] = "running"
  /\ \E how \in {"done", "failed"} :
       /\ how = "failed" => "failure" \in use.trouble
       /\ child' = [child EXCEPT ![c] = how]
  /\ UNCHANGED <<budget, heir, late, written, readers, caller>>

HeirEnds(c) ==
  /\ heir[c]
  /\ heir' = [heir EXCEPT ![c] = FALSE]
  /\ UNCHANGED <<budget, child, late, written, readers, caller>>

\* _kill: the child's group, if the child has not ended; an heir in a session
\* of its own goes on.
Kill(c) ==
  IF child[c] = "running"
  THEN /\ child' = [child EXCEPT ![c] = "killed"]
       /\ heir' \in {heir, [heir EXCEPT ![c] = FALSE]}
  ELSE UNCHANGED <<child, heir>>

-----------------------------------------------------------------------------
(* The readers, drain.                                                     *)

At(c, s, where) == reader[c][s] = where /\ child[c] # "none"
Go(c, s, where) == reader' = [reader EXCEPT ![c][s] = where]

\* read: it holds the stream until it has a chunk or meets the end; on a closed
\* stream it raises, and the thread dies.
Enter(c, s) ==
  /\ At(c, s, "between")
  /\ Go(c, s, IF closed[c][s] THEN "end" ELSE "reading")
  /\ UNCHANGED <<budget, process, pipe, hand, outputs, overflow, caller>>

\* Mutant: a read does not wait for something to read.
TakeAny(c, s) ==
  /\ At(c, s, "reading") /\ hand[c][s] < Chunk
  /\ pipe' = [pipe EXCEPT ![c][s] = @ - 1]
  /\ hand' = [hand EXCEPT ![c][s] = @ + 1]
  /\ UNCHANGED <<budget, process, reader, outputs, overflow, caller>>
Take(c, s) ==
  /\ At(c, s, "reading") /\ pipe[c][s] > 0 /\ hand[c][s] < Chunk
  /\ pipe' = [pipe EXCEPT ![c][s] = @ - 1]
  /\ hand' = [hand EXCEPT ![c][s] = @ + 1]
  /\ UNCHANGED <<budget, process, reader, outputs, overflow, caller>>

\* Mutant: the parent keeps its own end of the pipe open.
AtEndHeld(c, s) == pc[c] = "end" /\ ~Holds(c) /\ pipe[c][s] = 0
AtEnd(c, s) == ~Holds(c) /\ pipe[c][s] = 0

Deliver(c, s) ==
  /\ At(c, s, "reading") /\ (hand[c][s] = Chunk \/ AtEnd(c, s))
  /\ Go(c, s, IF hand[c][s] = 0 THEN "end" ELSE "chunk")
  /\ UNCHANGED <<budget, process, pipe, hand, outputs, overflow, caller>>

Total(c) == outputs[c]["stdout"] + outputs[c]["stderr"]

\* Mutant: only the command's own limit is looked at.
CommandAllows(c, n) == Total(c) + n <= MaxCommand
Allowed(c, n) == Total(c) + n <= MaxCommand /\ charged + n <= MaxOutput

\* Under the output lock, and record_output under the budget's: the chunk is
\* charged and stored, charged only, or too much.
Accept(c, s) ==
  LET n == hand[c][s]
  IN  /\ At(c, s, "chunk") /\ Allowed(c, n)
      /\ charged' = charged + n
      /\ outputs' = IF overflow[c] THEN outputs ELSE [outputs EXCEPT ![c][s] = @ + n]
      /\ hand' = [hand EXCEPT ![c][s] = 0]
      /\ Go(c, s, "between")
      /\ UNCHANGED <<use, cancelled, scratch, commands, process, pipe, overflow, caller>>

Reject(c, s) ==
  /\ At(c, s, "chunk") /\ ~Allowed(c, hand[c][s])
  /\ overflow' = [overflow EXCEPT ![c] = TRUE]
  /\ hand' = [hand EXCEPT ![c][s] = 0]
  /\ Go(c, s, "kill")
  /\ UNCHANGED <<budget, process, pipe, outputs, caller>>

\* The kill comes after the lock is given back.
ReaderKills(c, s) ==
  /\ At(c, s, "kill")
  /\ Kill(c) /\ Go(c, s, "between")
  /\ UNCHANGED <<budget, late, written, pipe, hand, outputs, overflow, caller>>

-----------------------------------------------------------------------------
(* The caller.                                                             *)

Move(c, where) == pc' = [pc EXCEPT ![c] = where]
Answer(c, how) ==
  /\ result' = [result EXCEPT ![c] = how]
  /\ Move(c, "end")

\* begin_command and Popen: the command is counted, even when the time is over
\* or it cannot start.
Begin(c) ==
  /\ pc[c] = "idle" /\ c \in use.asked
  /\ \/ /\ cancelled
        /\ Answer(c, "cancelled")
        /\ UNCHANGED <<commands, child>>
     \/ /\ ~cancelled
        /\ commands' = commands + 1
        /\ \/ /\ "failure" \in use.trouble
              /\ Answer(c, "refused") /\ UNCHANGED child
           \/ /\ commands' > MaxCommands \/ scratch
              /\ Answer(c, "refused") /\ UNCHANGED child
           \/ /\ commands' <= MaxCommands /\ ~scratch
              /\ child' = [child EXCEPT ![c] = "running"]
              /\ Move(c, "poll") /\ UNCHANGED result
  /\ UNCHANGED <<use, cancelled, scratch, charged, heir, late, written, readers,
                 closed, failure, gaveUp>>

\* The loop over poll(): its conditions in their order, scratch being sampled.
Poll(c) ==
  /\ pc[c] = "poll"
  /\ \/ /\ child[c] # "running"
        /\ UNCHANGED <<child, heir, failure>>
     \/ /\ child[c] = "running" /\ (cancelled \/ late[c] \/ scratch)
        /\ \E why \in Failures :
             /\ why = "cancelled" => cancelled
             /\ why = "timeout" => ~cancelled /\ late[c]
             /\ why = "scratch" => ~cancelled /\ ~late[c] /\ scratch
             /\ failure' = [failure EXCEPT ![c] = why]
        /\ Kill(c)
     \/ /\ child[c] = "running" /\ ~cancelled /\ ~late[c] /\ overflow[c]
        /\ UNCHANGED <<child, heir, failure>>
  /\ Move(c, "wait")
  /\ UNCHANGED <<budget, late, written, readers, closed, gaveUp, result>>

\* wait: for a second, then with a kill.
Wait(c) ==
  /\ pc[c] = "wait"
  /\ Kill(c) /\ Move(c, "join")
  /\ UNCHANGED <<budget, late, written, readers, closed, failure, gaveUp, result>>

\* Mutant: one reader is enough.
JoinedOne(c) == \E s \in Stream : reader[c][s] = "end"
Joined(c) == \A s \in Stream : reader[c][s] = "end"

\* join: the readers have ended, or a second has passed for one of them.
Join(c) ==
  /\ pc[c] = "join"
  /\ \E timely \in BOOLEAN :
       /\ timely => Joined(c)
       /\ gaveUp' = [gaveUp EXCEPT ![c] = ~timely]
  /\ Move(c, "close")
  /\ UNCHANGED <<budget, process, readers, closed, failure, result>>

\* close waits for a read that holds the stream; stdout comes first.
Close(c) ==
  /\ pc[c] = "close"
  /\ \/ \E s \in Stream :
          /\ ~closed[c][s] /\ (s = "stderr" => closed[c]["stdout"])
          /\ reader[c][s] # "reading"
          /\ closed' = [closed EXCEPT ![c][s] = TRUE]
          /\ UNCHANGED pc
     \/ /\ \A s \in Stream : closed[c][s]
        /\ Move(c, "settle") /\ UNCHANGED closed
  /\ UNCHANGED <<budget, process, readers, failure, gaveUp, result>>

Verdict(c) ==
  IF failure[c] # "none" THEN failure[c]
  ELSE IF cancelled THEN "cancelled"
  ELSE IF overflow[c] THEN "overflow"
  ELSE IF scratch THEN "scratch"
  ELSE IF child[c] = "done" \/ c \in Tolerant THEN child[c] ELSE "error"

Settle(c) ==
  /\ pc[c] = "settle"
  /\ Answer(c, Verdict(c))
  /\ UNCHANGED <<budget, process, readers, closed, failure, gaveUp>>

-----------------------------------------------------------------------------
Drain(c, s) ==
  \/ Enter(c, s) \/ Take(c, s) \/ Deliver(c, s)
  \/ Accept(c, s) \/ Reject(c, s) \/ ReaderKills(c, s)

RunGit(c) == Begin(c) \/ Poll(c) \/ Wait(c) \/ Join(c) \/ Close(c) \/ Settle(c)

Next ==
  \/ Cancel \/ Fill
  \/ \E c \in Command :
       \/ RunGit(c) \/ Exit(c) \/ Fork(c) \/ HeirEnds(c) \/ Deadline(c)
       \/ \E s \in Stream : Write(c, s) \/ Drain(c, s)

Spec == Init /\ [][Next]_vars

\* The threads are scheduled and time passes; the child itself owes nothing.
Scheduled ==
  \A c \in Command :
    /\ WF_vars(RunGit(c)) /\ WF_vars(Deadline(c))
    /\ \A s \in Stream : WF_vars(Drain(c, s))

\* What a child left behind ends by itself, or need not.
FairSpec == Spec /\ Scheduled /\ \A c \in Command : WF_vars(HeirEnds(c))
LingeringSpec == Spec /\ Scheduled

-----------------------------------------------------------------------------
(* Properties.                                                             *)

\* Whatever the readers of all commands do at once, the output a command keeps
\* stays within its limit and within what was charged, and that within the
\* budget; no more than max_commands children are ever started.
BudgetsKept ==
  /\ \A c \in Command : Total(c) <= MaxCommand /\ Total(c) <= charged
  /\ charged <= MaxOutput
  /\ Cardinality({c \in Command : child[c] # "none"}) <= MaxCommands

\* A result carries all the child and its heirs ever wrote, and none is given
\* of a command that was stopped or wrote too much, if its readers were joined.
HonestResult ==
  \A c \in Command : result[c] \in Exits =>
    /\ failure[c] = "none"
    /\ ~gaveUp[c] => ~overflow[c] /\ outputs[c] = written[c]

\* The commands keep their accounts as OutputAccount has it, whatever their
\* readers do at once and whenever they are given up.
StartedSet == {c \in Command : child[c] # "none"}
Spoiled == {c \in Command : overflow[c] \/ failure[c] # "none"}
Unjoined == {c \in Command : gaveUp[c]}
Told == [c \in Command |->
  IF result[c] = "none" THEN "none" ELSE IF result[c] \in Exits THEN "output" ELSE "refusal"]
Account == INSTANCE OutputAccount WITH
  started <- StartedSet, kept <- outputs, spoiled <- Spoiled, unjoined <- Unjoined,
  answer <- Told
Promise == Account!Spec

\* When a call ends, its child has ended and been waited for.
Reaped == \A c \in Command : pc[c] = "end" => child[c] # "running"

\* A command that was started is answered: neither a full pipe, nor a child
\* that never ends, nor one that writes too much keeps its caller for ever.
Returns == \A c \in Command : pc[c] = "poll" ~> pc[c] = "end"

-----------------------------------------------------------------------------
(* The inductive invariant.                                                *)

\* The caller's place, its child, its threads and its streams go together.
Staged(c) ==
  /\ child[c] = "none" =>
       pc[c] \in {"idle", "end"} /\ \A s \in Stream : reader[c][s] = "between"
  /\ pc[c] = "idle" => child[c] = "none"
  /\ pc[c] \in {"join", "close", "settle", "end"} => child[c] # "running"
  /\ \A s \in Stream : closed[c][s] => pc[c] \in {"close", "settle", "end"}

\* Until a reader throws something away, all that was written is in the pipe,
\* in its hands or stored.
Flow(c) ==
  ~overflow[c] =>
    \A s \in Stream : written[c][s] = pipe[c][s] + hand[c][s] + outputs[c][s]

\* A reader that ended by itself has read everything there will be.
Emptied(c, s) == reader[c][s] = "end" /\ ~Holds(c) /\ pipe[c][s] = 0 /\ hand[c][s] = 0
Drained(c) ==
  /\ \A s \in Stream : reader[c][s] = "end" /\ ~closed[c][s] => Emptied(c, s)
  /\ child[c] # "none" /\ pc[c] \in {"close", "settle", "end"} /\ ~gaveUp[c] =>
       \A s \in Stream : Emptied(c, s)

Concluded(c) ==
  result[c] \in Exits =>
    /\ pc[c] = "end" /\ child[c] # "none" /\ failure[c] = "none"
    /\ ~gaveUp[c] => ~overflow[c] /\ \A s \in Stream : outputs[c][s] = written[c][s]

IInv ==
  /\ TypeOK /\ BudgetsKept /\ Cardinality(StartedSet) <= commands
  /\ \A c \in Command : Staged(c) /\ Flow(c) /\ Drained(c) /\ Concluded(c)

\* An answered call is at its end, with its streams closed; only a call that was
\* started has heirs, readers to give up or a reason to stop.
Answered(c) ==
  /\ result[c] # "none" <=> pc[c] = "end"
  /\ child[c] # "none" /\ pc[c] \in {"settle", "end"} => \A s \in Stream : closed[c][s]
  /\ heir[c] => child[c] # "none"
  /\ gaveUp[c] => child[c] # "none" /\ pc[c] \in {"close", "settle", "end"}
  /\ failure[c] # "none" => child[c] # "none" /\ pc[c] \notin {"idle", "poll"}
AllAnswered == \A c \in Command : Answered(c)
=============================================================================
