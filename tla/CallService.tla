----------------------------- MODULE CallService -----------------------------
(***************************************************************************)
(* What the MCP server promises its client, without threads, locks, pools  *)
(* and signals: every request is answered at most once and only what was   *)
(* asked is answered; one tool call is admitted at a time; it is answered  *)
(* with a success only if it had not been told to stop when its answer was *)
(* decided; and a service that is over answers nothing.                    *)
(***************************************************************************)
EXTENDS Naturals

CONSTANTS Id, None

VARIABLES debt,   \* how many requests with this id are still to be answered
          call,   \* the call admitted under this id: "none", "clear", or "set" when told to stop
          reply,  \* the answer that was decided on and not yet given, or Nothing
          over    \* nothing is answered any more

vars == <<debt, call, reply, over>>

Nothing == [id |-> None, says |-> "none", final |-> FALSE]

Init ==
  /\ debt = [i \in Id |-> 0]
  /\ call = [i \in Id |-> "none"]
  /\ reply = Nothing
  /\ over = FALSE

One(condition) == IF condition THEN 1 ELSE 0

\* A request that is no admitted call and is not about to be answered.
Spare(i) == debt[i] > One(call[i] # "none") + One(reply.final /\ reply.id = i)

Ask(i) == debt' = [debt EXCEPT ![i] = @ + 1] /\ UNCHANGED <<call, reply, over>>

\* An answer without a call: a refusal, or a request that needs no tool.
AnswerAtOnce(i) ==
  /\ ~over /\ Spare(i)
  /\ debt' = [debt EXCEPT ![i] = @ - 1]
  /\ UNCHANGED <<call, reply, over>>

Admit(i) ==
  /\ ~over /\ Spare(i) /\ \A j \in Id : call[j] = "none"
  /\ call' = [call EXCEPT ![i] = "clear"]
  /\ UNCHANGED <<debt, reply, over>>

\* The call cannot begin: its request is answered at once instead.
Withdraw(i) ==
  /\ call[i] # "none" /\ (reply = Nothing \/ reply.final)
  /\ call' = [call EXCEPT ![i] = "none"]
  /\ UNCHANGED <<debt, reply, over>>

\* Calls are told to stop: by the client, a timer, or a disconnect.
Tell(S) ==
  /\ call' = [i \in Id |-> IF i \in S /\ call[i] # "none" THEN "set" ELSE call[i]]
  /\ UNCHANGED <<debt, reply, over>>

Decide(i, says) ==
  /\ reply = Nothing /\ call[i] # "none"
  /\ says = "ok" => call[i] = "clear"
  /\ reply' = [id |-> i, says |-> says, final |-> FALSE]
  /\ UNCHANGED <<debt, call, over>>

\* The call is no longer admitted, so that the next one may be.
Release ==
  /\ reply # Nothing /\ ~reply.final
  /\ call' = [call EXCEPT ![reply.id] = "none"]
  /\ reply' = [id |-> reply.id, says |-> reply.says, final |-> TRUE]
  /\ UNCHANGED <<debt, over>>

Answer ==
  /\ ~over /\ reply.final /\ debt[reply.id] > 0
  /\ debt' = [debt EXCEPT ![reply.id] = @ - 1]
  /\ reply' = Nothing
  /\ UNCHANGED <<call, over>>

\* The service is over; an answer it was about to give may be lost.
Close == over' = TRUE /\ reply' \in {reply, Nothing} /\ UNCHANGED <<debt, call>>

\* What is still asked stays unanswered, whatever becomes of the calls.
Wind == over /\ over' /\ \A i \in Id : debt'[i] >= debt[i]

Next ==
  \/ \E i \in Id :
       \/ Ask(i) \/ AnswerAtOnce(i) \/ Admit(i) \/ Withdraw(i)
       \/ \E says \in {"ok", "error"} : Decide(i, says)
  \/ \E S \in SUBSET Id : Tell(S)
  \/ Release \/ Answer \/ Close \/ Wind

Spec == Init /\ [][Next]_vars
=============================================================================
