---------------------------- MODULE MCGitCommand ----------------------------
(* Small instances of GitCommand for TLC.                                  *)
EXTENDS GitCommand

CONSTANTS c1, c2

Use(asked, out, err, trouble, before, spent) ==
  [asked |-> asked, produces |-> [c \in Command |-> [stdout |-> out, stderr |-> err]],
   trouble |-> trouble, commands |-> before, charged |-> spent]

\* One command, to which everything may happen, and which may write too much.
Alone == Use({c1}, 2, 1, Troubles, 0, 0)
\* Two, whose readers race for the last unit of the budget.
Together == Use({c1, c2}, 1, 0, {}, 0, 2)
\* Two, of which the budget allows one more.
LastOne == Use({c1, c2}, 1, 0, {"failure"}, 1, 0)

EveryUse == {Alone, Together, LastOne}
OnlyAlone == {Alone}
=============================================================================
