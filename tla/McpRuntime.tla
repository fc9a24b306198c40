----------------------------- MODULE McpRuntime -----------------------------
(***************************************************************************)
(* The stdio MCP server, agent_braid/mcp_runtime.py: the main thread that  *)
(* reads frames, the single worker of its pool that runs tools, the        *)
(* callback that answers a finished call (on the worker, or on the main    *)
(* thread when the call finished first), the timer of each call, the       *)
(* signal handler that runs on the main thread wherever it stands, and the *)
(* client that may break the pipe.  A request is named by its id; what a   *)
(* tool does is that it starts its durable phases, behind a look at its    *)
(* cancel event.                                                           *)
(***************************************************************************)
EXTENDS Naturals

CONSTANTS Id,          \* request ids a client uses
          None,        \* no request
          MaxFrames,   \* bound on the frames a client sends
          MaxSignals   \* bound on SIGINT and SIGTERM

ASSUME BoundAssumption == MaxFrames \in Nat /\ MaxSignals \in Nat /\ None \notin Id

VARIABLES
  session,   \* "new", "initializing" or "initialized"
  closed,    \* self.closed
  hungUp,    \* history: some cancel_all has returned
  pipe,      \* the client reads the output
  active,    \* the cancel event of each registered call: "none", "clear", "set"
  lock,      \* active_lock between two steps: "free", or held by "main"
  main,      \* where the main thread stands
  frame,     \* the request it works on
  queue,     \* calls submitted to the pool and not started
  worker,    \* how far the call taken from the pool has come
  job,       \* that call
  verdict,   \* what it will be answered: "ok" or "error"
  owed,      \* history: requests read with this id and not yet answered
  sent,      \* frames sent
  signals    \* signals delivered

client == <<pipe, sent, signals>>
server == <<session, closed, hungUp>>
pool == <<queue, worker, job, verdict>>
vars == <<server, active, lock, main, frame, owed, client, pool>>

MainLabels ==
  {"reading", "responding", "cancelling", "calling", "registering", "submitting", "attaching",
   "finishing", "hanging up", "closing", "cancelling all", "draining", "handling",
   "handling last", "leaving", "done"}
WorkerLabels ==
  {"idle", "entered", "running", "returned", "finishing", "decided", "answering", "hanging up"}

TypeOK ==
  /\ session \in {"new", "initializing", "initialized"}
  /\ closed \in BOOLEAN /\ hungUp \in BOOLEAN /\ pipe \in BOOLEAN
  /\ active \in [Id -> {"none", "clear", "set"}]
  /\ lock \in {"free", "main"}
  /\ main \in MainLabels /\ frame \in Id \cup {None}
  /\ queue \subseteq Id
  /\ worker \in WorkerLabels /\ job \in Id \cup {None} /\ verdict \in {"ok", "error"}
  /\ owed \in [Id -> Nat]
  /\ sent \in 0..MaxFrames /\ signals \in 0..MaxSignals

Init ==
  /\ session = "new"
  /\ closed = FALSE /\ hungUp = FALSE /\ pipe = TRUE
  /\ active = [i \in Id |-> "none"]
  /\ lock = "free"
  /\ main = "reading" /\ frame = None
  /\ queue = {}
  /\ worker = "idle" /\ job = None /\ verdict = "ok"
  /\ owed = [i \in Id |-> 0]
  /\ sent = 0 /\ signals = 0

Registered == {i \in Id : active[i] # "none"}

\* cancel_all sets the event of every registered call.
SetAll == [i \in Id |-> IF active[i] = "none" THEN "none" ELSE "set"]

Owe(i) == owed' = [owed EXCEPT ![i] = @ + 1]
Pay(i) == owed' = [owed EXCEPT ![i] = @ - 1]

\* The loop looks at self.closed before it waits for another frame.
Loop == IF closed THEN "closing" ELSE "reading"

-----------------------------------------------------------------------------
(* The main thread: serve and receive.                                     *)

\* A frame arrives; the server may have closed since the loop looked.
Read(next, i) ==
  /\ main = "reading" /\ sent < MaxFrames
  /\ sent' = sent + 1
  /\ main' = next /\ frame' = i
  /\ UNCHANGED <<closed, hungUp, active, lock, pipe, signals, pool>>

\* A request answered at once: a refused frame, ping, tools/list, an unknown
\* method or tool, a call before the session is initialized.
Request(i) == Read("responding", i) /\ Owe(i) /\ UNCHANGED session

\* initialize, once: a second one is such a refused frame.
Initialize(i) ==
  /\ session = "new" /\ session' = "initializing"
  /\ Read("responding", i) /\ Owe(i)

\* notifications/initialized; refused, without an answer, anywhere else.
Initialized ==
  /\ session' = IF session = "initializing" THEN "initialized" ELSE session
  /\ Read(Loop, None) /\ UNCHANGED owed

\* notifications/cancelled names the call it is about.
CancelFrame(i) == Read("cancelling", i) /\ UNCHANGED <<session, owed>>

\* tools/call.
CallFrame(i) ==
  /\ session = "initialized"
  /\ Read("calling", i) /\ Owe(i) /\ UNCHANGED session

\* _write by the main thread, when the worker does not hold output_lock;
\* nothing is written once closed.
Respond ==
  /\ main = "responding" /\ worker # "hanging up" /\ (closed \/ pipe)
  /\ IF closed THEN UNCHANGED owed ELSE Pay(frame)
  /\ main' = Loop /\ frame' = None
  /\ UNCHANGED <<server, active, lock, client, pool>>

\* A broken pipe closes.
RespondFails ==
  /\ main = "responding" /\ worker # "hanging up" /\ ~closed /\ ~pipe
  /\ closed' = TRUE /\ main' = "hanging up" /\ frame' = None
  /\ UNCHANGED <<session, hungUp, active, lock, owed, client, pool>>

\* Its cancel_all.
HangUp ==
  /\ main = "hanging up" /\ lock = "free"
  /\ active' = SetAll /\ hungUp' = TRUE
  /\ main' = "closing"
  /\ UNCHANGED <<session, closed, lock, frame, owed, client, pool>>

\* active_lock is taken, to cancel a call or to register one.
TakeLock ==
  /\ main \in {"cancelling", "calling"} /\ lock = "free"
  /\ lock' = "main"
  /\ main' = IF main = "calling" THEN "registering" ELSE main
  /\ UNCHANGED <<server, active, frame, owed, client, pool>>

\* Mutant: the lock stays taken when the call is not registered.
HeldForUnknown == IF active[frame] = "none" THEN "main" ELSE "free"
Unlocked == "free"

Cancel ==
  /\ main = "cancelling" /\ lock = "main"
  /\ active' = [active EXCEPT ![frame] = IF @ = "none" THEN @ ELSE "set"]
  /\ lock' = Unlocked /\ main' = Loop /\ frame' = None
  /\ UNCHANGED <<server, owed, client, pool>>

\* A call is admitted when none is registered.
Admissible(i) == Registered = {}

Register ==
  /\ main = "registering" /\ Admissible(frame)
  /\ active' = [active EXCEPT ![frame] = "clear"]
  /\ lock' = "free" /\ main' = "submitting"
  /\ UNCHANGED <<server, frame, owed, client, pool>>

\* A busy server, or a duplicate id, which is answered without naming it.
Reject ==
  /\ main = "registering" /\ ~Admissible(frame)
  /\ lock' = "free" /\ main' = "responding"
  /\ UNCHANGED <<server, active, frame, owed, client, pool>>

\* The timer is started and the call submitted to the pool.
Submit ==
  /\ main = "submitting"
  /\ queue' = queue \cup {frame}
  /\ main' = "attaching"
  /\ UNCHANGED <<server, active, lock, frame, owed, client, worker, job, verdict>>

Unregistered(i) == [active EXCEPT ![i] = "none"]

\* The pool cannot take it.
SubmitFails ==
  /\ main = "submitting" /\ lock = "free"
  /\ active' = Unregistered(frame)
  /\ main' = "responding"
  /\ UNCHANGED <<server, lock, frame, owed, client, pool>>

\* Mutant: the callback of a call that has finished never runs.
AttachOnly ==
  /\ main = "attaching"
  /\ worker' = IF worker = "returned" THEN "idle" ELSE worker
  /\ job' = IF worker = "returned" THEN None ELSE job
  /\ main' = Loop /\ frame' = None
  /\ UNCHANGED <<server, active, lock, owed, client, queue, verdict>>
\* add_done_callback: the callback of a call that has finished runs at once.
Attach ==
  /\ main = "attaching"
  /\ IF worker = "returned" THEN main' = "finishing" /\ worker' = "finishing"
                            ELSE main' = Loop /\ UNCHANGED worker
  /\ frame' = None
  /\ UNCHANGED <<server, active, lock, owed, client, queue, job, verdict>>

\* The client has closed its end of the input.
EndOfInput ==
  /\ main = "reading" /\ main' = "closing"
  /\ UNCHANGED <<server, active, lock, frame, owed, client, pool>>

\* The cancel_all of the finally clause, which waits for active_lock.
Close ==
  /\ main = "closing"
  /\ closed' = TRUE /\ main' = "cancelling all"
  /\ UNCHANGED <<session, hungUp, active, lock, frame, owed, client, pool>>

CloseAll ==
  /\ main = "cancelling all" /\ lock = "free"
  /\ active' = SetAll /\ hungUp' = TRUE
  /\ main' = "draining"
  /\ UNCHANGED <<session, closed, lock, frame, owed, client, pool>>

\* pool.shutdown(wait=True, cancel_futures=True): the callback of a queued
\* call, now cancelled, releases it unanswered; the running one is awaited.
Drain ==
  /\ main = "draining" /\ lock = "free"
  /\ active' = [i \in Id |-> IF i \in queue THEN "none" ELSE active[i]]
  /\ queue' = {}
  /\ main' = "leaving"
  /\ UNCHANGED <<server, lock, frame, owed, client, worker, job, verdict>>

\* The process ends when its pool has nothing left to do.
Leave ==
  /\ main = "leaving" /\ queue = {} /\ worker \in {"idle", "returned"}
  /\ main' = "done"
  /\ UNCHANGED <<server, active, lock, frame, owed, client, pool>>

\* A signal interrupts the main thread between any two of its steps, with the
\* callback it may be running and the lock it may be holding; the handler
\* starts cancel_all.  In the finally clause the rest of it is skipped too.
Signal ==
  /\ main \notin {"handling", "handling last", "leaving", "done"}
  /\ signals < MaxSignals
  /\ signals' = signals + 1
  /\ closed' = TRUE
  /\ main' = IF main \in {"closing", "cancelling all", "draining"} THEN "handling last"
                                                                   ELSE "handling"
  /\ frame' = None
  /\ IF main = "finishing" THEN worker' = "idle" /\ job' = None ELSE UNCHANGED <<worker, job>>
  /\ UNCHANGED <<session, hungUp, active, lock, owed, pipe, sent, queue, verdict>>

\* It sets every event, for which it needs active_lock, and raises.
Handle ==
  /\ main \in {"handling", "handling last"} /\ lock = "free"
  /\ active' = SetAll /\ hungUp' = TRUE
  /\ main' = IF main = "handling" THEN "closing" ELSE "leaving"
  /\ UNCHANGED <<session, closed, lock, frame, owed, client, pool>>

-----------------------------------------------------------------------------
(* The worker of the pool, the callback, and the timers.                   *)

Take(i) ==
  /\ worker \in {"idle", "returned"} /\ i \in queue
  /\ job' = i /\ queue' = queue \ {i}
  /\ worker' = "entered"
  /\ UNCHANGED <<server, active, lock, main, frame, owed, client, verdict>>

\* invoke looks at the cancel event first: the tool starts its durable phases.
Start ==
  /\ worker = "entered" /\ active[job] = "clear"
  /\ worker' = "running"
  /\ UNCHANGED <<server, active, lock, main, frame, owed, client, queue, job, verdict>>

\* The call ends: refused because its event is set, or the tool returns or
\* raises, which a cancelled one may do too.  Its callback may not be there yet.
Return(v) ==
  /\ \/ worker = "running"
     \/ worker = "entered" /\ v = "error"
  /\ verdict' = v
  /\ worker' = IF main = "attaching" /\ frame = job THEN "returned" ELSE "finishing"
  /\ UNCHANGED <<server, active, lock, main, frame, owed, client, queue, job>>

\* Mutant: the event is not looked at again.
AsReturned == verdict
\* _finish: a call whose event was set, or is gone, is not a success.
Verdict == IF active[job] = "clear" THEN verdict ELSE "error"

Decide ==
  /\ worker = "finishing" /\ lock = "free"
  /\ verdict' = Verdict /\ worker' = "decided"
  /\ UNCHANGED <<server, active, lock, main, frame, owed, client, queue, job>>

\* Mutant: a finished call is marked, not removed.
Marked == [active EXCEPT ![job] = "finished"]
\* Mutant: the registration of a call that failed stays.
ReleasedIfOk == IF verdict = "ok" THEN [active EXCEPT ![job] = "none"] ELSE active
Released == [active EXCEPT ![job] = "none"]

Release ==
  /\ worker = "decided" /\ lock = "free"
  /\ active' = Released
  /\ worker' = "answering"
  /\ UNCHANGED <<server, lock, main, frame, owed, client, queue, job, verdict>>

\* The callback has ended; so has the main thread's turn, if it ran it.
Idle ==
  /\ worker' = "idle" /\ job' = None
  /\ main' = IF main = "finishing" THEN Loop ELSE main

\* _write by the callback, when the main thread does not hold output_lock.
Answer ==
  /\ worker = "answering" /\ main # "hanging up" /\ (closed \/ pipe)
  /\ IF closed THEN UNCHANGED owed ELSE Pay(job)
  /\ Idle
  /\ UNCHANGED <<server, active, lock, frame, client, queue, verdict>>

AnswerFails ==
  /\ worker = "answering" /\ main # "hanging up" /\ ~closed /\ ~pipe
  /\ closed' = TRUE /\ worker' = "hanging up"
  /\ UNCHANGED <<session, hungUp, active, lock, main, frame, owed, client, queue, job, verdict>>

AnswerHangsUp ==
  /\ worker = "hanging up" /\ lock = "free"
  /\ active' = SetAll /\ hungUp' = TRUE
  /\ Idle
  /\ UNCHANGED <<session, closed, lock, frame, owed, client, queue, verdict>>

\* TOOL_TIMEOUT_SECONDS have passed for a call whose timer runs.
TimeOut(i) ==
  /\ active[i] = "clear" /\ ~(main = "submitting" /\ frame = i)
  /\ active' = [active EXCEPT ![i] = "set"]
  /\ UNCHANGED <<server, lock, main, frame, owed, client, pool>>

\* The client stops reading what the server writes.
Break ==
  /\ pipe /\ pipe' = FALSE
  /\ UNCHANGED <<server, active, lock, main, frame, owed, sent, signals, pool>>

-----------------------------------------------------------------------------
Receive ==
  \/ Initialized \/ EndOfInput
  \/ \E i \in Id : Request(i) \/ Initialize(i) \/ CancelFrame(i) \/ CallFrame(i)

MainStep ==
  \/ Respond \/ RespondFails \/ HangUp \/ TakeLock \/ Cancel \/ Register \/ Reject
  \/ Submit \/ SubmitFails \/ Attach \/ Close \/ CloseAll \/ Drain \/ Leave \/ Handle

WorkerStep ==
  \/ (\E i \in Id : Take(i)) \/ Start \/ Return("ok") \/ Return("error")
  \/ Decide \/ Release \/ Answer \/ AnswerFails \/ AnswerHangsUp

Next ==
  \/ Receive \/ MainStep \/ WorkerStep
  \/ Signal \/ Break \/ \E i \in Id : TimeOut(i)

Spec == Init /\ [][Next]_vars

\* Both threads run; a tool returns, for every stage it runs has limits; and
\* a client that no longer reads closes its end of the input as well.
FairSpec == Spec /\ WF_vars(MainStep) /\ WF_vars(WorkerStep) /\ WF_vars(~pipe /\ EndOfInput)

-----------------------------------------------------------------------------
(* Properties.                                                             *)

Busy == {"entered", "running", "returned", "finishing", "decided"}

\* A registration belongs to a call that is on its way to its answer: none
\* is ever left behind to keep the server busy (receive, _finish).
Outstanding(i) ==
  \/ main \in {"submitting", "attaching"} /\ frame = i
  \/ i \in queue
  \/ job = i /\ worker \in Busy
NoLeakedCall == ~closed => \A i \in Registered : Outstanding(i)

\* While the server is open and at rest, every request has been answered,
\* exactly once.
AllAnswered ==
  ~closed /\ main = "reading" /\ queue = {} /\ worker = "idle" => \A i \in Id : owed[i] = 0

\* One tool call at a time is between its admission and its release.
OneInFlight == \A i, j \in Registered : i = j

\* The inductive invariant, of an open server: a call in the pool is a
\* registered one, and there is no other; a call whose callback is not there
\* yet has not gone past its return; and the requests owed an answer are the
\* one the main thread works on, the queued ones and the worker's.
Labels ==
  /\ job = None <=> worker = "idle"
  /\ main \in {"responding", "cancelling", "calling", "registering", "submitting", "attaching"}
       => frame \in Id
  /\ \/ worker = "hanging up"
     \/ main \in {"hanging up", "cancelling all", "draining", "handling", "handling last", "leaving"}
     => closed

Pool ==
  /\ queue \subseteq Registered
  /\ worker \in Busy => job \in Registered /\ queue = {}
  /\ main \in {"submitting", "attaching"} => frame \in Registered
  /\ main = "submitting" => queue = {} /\ worker \notin Busy
  /\ main = "attaching" =>
       frame \in queue \/ (job = frame /\ worker \in {"entered", "running", "returned"})
  /\ worker = "returned" => main = "attaching"
  /\ NoLeakedCall

One(condition) == IF condition THEN 1 ELSE 0
Held(i) ==
  One(main \in {"responding", "calling", "registering", "submitting"} /\ frame = i)
    + One(i \in queue) + One(job = i)
Ledger == \A i \in Id : owed[i] = Held(i)

IInv == TypeOK /\ Labels /\ OneInFlight /\ (~closed => Pool /\ Ledger)

\* To its client the server is CallService: one answer for each request while
\* it is open, one call at a time, a success only for a call that no timer,
\* client or disconnect had told to stop, and nothing once it has closed.
Reply ==
  IF worker \in {"decided", "answering"}
  THEN [id |-> job, says |-> verdict, final |-> worker = "answering"]
  ELSE [id |-> None, says |-> "none", final |-> FALSE]
Service == INSTANCE CallService WITH
  debt <- owed, call <- active, reply <- Reply, over <- closed
Promise == Service!Spec

\* After a disconnect has been handled, no tool starts its work
\* (specs/021-m4-alpha-runtime/g1-contract.md: "No post-disconnect durable
\* phase starts").
NoLateStart == [][worker = "entered" /\ worker' = "running" => ~hungUp]_vars

\* A server that has closed ends, once its worker is done, unless a signal
\* interrupted it: the handler may wait for a lock its own thread holds.
Exits == closed ~> main = "done" \/ signals > 0
=============================================================================
