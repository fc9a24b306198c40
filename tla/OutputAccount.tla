--------------------------- MODULE OutputAccount ---------------------------
(***************************************************************************)
(* What commands on one budget promise of their output, without threads,   *)
(* pipes, buffers, deadlines and kills: no more commands are started than  *)
(* the budget allows; all that is kept was written before, and charged     *)
(* within the budget's limit; nothing is thrown away but of a command that *)
(* is spoiled; a spoiled command is refused; and an answer whose readers   *)
(* were joined carries all that was written, and stays as it is.           *)
(***************************************************************************)
EXTENDS Naturals, FiniteSets

CONSTANTS Command, MaxCommand, MaxOutput, MaxCommands

VARIABLES started,  \* commands that run or ran
          written,  \* what each has written, by stream
          kept,     \* what was kept of it
          charged,  \* what was charged to the budget
          spoiled,  \* commands that were stopped, or wrote too much
          unjoined, \* commands whose readers were given up
          answer    \* "none", "output" or "refusal"

vars == <<started, written, kept, charged, spoiled, unjoined, answer>>

Stream == {"stdout", "stderr"}

Init ==
  /\ started = {} /\ spoiled = {} /\ unjoined = {} /\ charged \in 0..MaxOutput
  /\ written = [c \in Command |-> [s \in Stream |-> 0]]
  /\ kept = written
  /\ answer = [c \in Command |-> "none"]

Start(c) ==
  /\ c \notin started /\ answer[c] = "none" /\ Cardinality(started) < MaxCommands
  /\ started' = started \cup {c}
  /\ UNCHANGED <<written, kept, charged, spoiled, unjoined, answer>>

Write(c, s) ==
  /\ c \in started /\ answer[c] = "none"
  /\ written' = [written EXCEPT ![c][s] = @ + 1]
  /\ UNCHANGED <<started, kept, charged, spoiled, unjoined, answer>>

\* A reader that was given up may go on behind the answer.
Open(c) == c \in started /\ (answer[c] = "none" \/ c \in unjoined)
Size(c) == kept[c]["stdout"] + kept[c]["stderr"]

Keep(c, s, n) ==
  /\ Open(c) /\ Size(c) + n <= MaxCommand /\ charged + n <= MaxOutput
  /\ charged' = charged + n
  /\ \/ kept[c][s] + n <= written[c][s] /\ kept' = [kept EXCEPT ![c][s] = @ + n]
     \/ c \in spoiled /\ UNCHANGED kept
  /\ UNCHANGED <<started, written, spoiled, unjoined, answer>>

Spoil(c) ==
  /\ Open(c)
  /\ spoiled' = spoiled \cup {c}
  /\ UNCHANGED <<started, written, kept, charged, unjoined, answer>>

GiveUp(c) ==
  /\ Open(c)
  /\ unjoined' = unjoined \cup {c}
  /\ UNCHANGED <<started, written, kept, charged, spoiled, answer>>

Answer(c) ==
  /\ answer[c] = "none"
  /\ \/ answer' = [answer EXCEPT ![c] = "refusal"]
     \/ /\ c \in started \ spoiled
        /\ c \in unjoined \/ kept[c] = written[c]
        /\ answer' = [answer EXCEPT ![c] = "output"]
  /\ UNCHANGED <<started, written, kept, charged, spoiled, unjoined>>

Next ==
  \E c \in Command :
    \/ Start(c) \/ Spoil(c) \/ GiveUp(c) \/ Answer(c)
    \/ \E s \in Stream :
         \/ Write(c, s)
         \/ \E n \in 0..MaxOutput : Keep(c, s, n)

Spec == Init /\ [][Next]_vars
=============================================================================
