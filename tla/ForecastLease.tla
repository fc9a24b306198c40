---------------------------- MODULE ForecastLease ----------------------------
(***************************************************************************)
(* One container of the numerical model at a time: the lease file of       *)
(* agent_braid/forecast_lease and the workers of agent_braid/              *)
(* forecast_worker that take it.  A worker locks the file, writes in it    *)
(* that cleanup is pending, lets a Docker engine create and run its        *)
(* container, answers forecasts, and writes that cleanup is confirmed when *)
(* the container is gone.  Workers of one process share its table of       *)
(* descriptors, and the lowest free number is opened next.  A call of the  *)
(* engine may fail before or behind its effect, the engine may create a    *)
(* container after the client was killed, and processes die anywhere.      *)
(***************************************************************************)
EXTENDS Naturals, FiniteSets

CONSTANTS Worker,    \* DockerCPUWorker objects
          Process,   \* their processes
          Home,      \* worker -> its process
          Number,    \* descriptor numbers of a process
          Trouble,   \* what may go wrong: disk, engine, escape
          MaxCalls,  \* bound on the calls
          MaxKills,  \* bound on the deaths of processes
          None

ASSUME HomeAssumption == Home \in [Worker -> Process]
ASSUME NumberAssumption == Number \subseteq Nat \ {0}
ASSUME NoneAssumption == None \notin Worker
ASSUME BoundAssumption == MaxCalls \in Nat /\ MaxKills \in Nat

VARIABLES
  record,      \* what the lease file says
  table,       \* process -> number -> the worker that opened the lease there
  holder,      \* the worker whose open file holds the lock
  alive,       \* the processes that live
  pc,          \* where each worker's call stands
  closing,     \* the call is close
  sure,        \* the cleanup has raised nothing so far
  fd,          \* WorkerLease.fd, 0 for None
  container,   \* DockerCPUWorker.container is not None
  unconfirmed, \* create_unconfirmed
  loaded,      \* loaded
  attached,    \* process is not None
  closed,      \* closed
  answer,      \* how the worker's last call ended
  exists,      \* engine: the workers whose container exists
  pending,     \* engine: the containers it has yet to create or to forget
  calls, kills

lease == <<record, table, holder>>
self == <<container, unconfirmed, loaded, attached, closed>>
engine == <<exists, pending>>
bounds == <<calls, kills>>
vars == <<lease, alive, pc, closing, sure, fd, self, answer, engine, bounds>>

Records == {"empty", "clean", "pending", "torn"}
Steps == {"idle", "acquire", "mark", "admit", "create", "run", "predict", "remove", "wait", "release"}
Answers == {"none", "forecast", "refused", "uncleaned", "closed", "raised"}

TypeOK ==
  /\ record \in Records
  /\ table \in [Process -> [Number -> Worker \cup {None}]]
  /\ holder \in Worker \cup {None}
  /\ alive \subseteq Process
  /\ pc \in [Worker -> Steps]
  /\ closing \in [Worker -> BOOLEAN] /\ sure \in [Worker -> BOOLEAN]
  /\ fd \in [Worker -> Number \cup {0}]
  /\ container \in [Worker -> BOOLEAN] /\ unconfirmed \in [Worker -> BOOLEAN]
  /\ loaded \in [Worker -> BOOLEAN] /\ attached \in [Worker -> BOOLEAN]
  /\ closed \in [Worker -> BOOLEAN]
  /\ answer \in [Worker -> Answers]
  /\ exists \subseteq Worker /\ pending \subseteq Worker
  /\ calls \in 0..MaxCalls /\ kills \in 0..MaxKills

No == [w \in Worker |-> FALSE]

Init ==
  /\ record = "empty" /\ table = [p \in Process |-> [n \in Number |-> None]] /\ holder = None
  /\ alive = Process
  /\ pc = [w \in Worker |-> "idle"]
  /\ closing = No /\ sure = No
  /\ fd = [w \in Worker |-> 0]
  /\ container = No /\ unconfirmed = No /\ loaded = No /\ attached = No /\ closed = No
  /\ answer = [w \in Worker |-> "none"]
  /\ exists = {} /\ pending = {}
  /\ calls = 0 /\ kills = 0

-----------------------------------------------------------------------------
(* A worker's calls.  Its lock admits one at a time; a second is turned    *)
(* away and changes nothing.                                               *)

At(w, step) == pc[w] = step /\ Home[w] \in alive
Goto(w, step) == pc' = [pc EXCEPT ![w] = step]
End(w, how) == Goto(w, "idle") /\ answer' = [answer EXCEPT ![w] = how]

\* A request fails: it is cancelled, late, refused or answered wrongly.
Fails == "engine" \in Trouble

\* Mutant: a closed worker goes on working.
NeverShut(w) == TRUE
Working(w) == ~closed[w]

\* forecast begins; a closed worker, a refused request and a cancelled one
\* clean up as every failure does.
Forecast(w) ==
  /\ At(w, "idle") /\ calls < MaxCalls
  /\ calls' = calls + 1
  /\ closing' = [closing EXCEPT ![w] = FALSE]
  /\ sure' = [sure EXCEPT ![w] = TRUE]
  /\ \/ Goto(w, "remove") /\ (~Working(w) \/ Fails)
     \/ Goto(w, IF loaded[w] THEN "predict" ELSE "acquire") /\ Working(w)
  /\ UNCHANGED <<lease, alive, fd, self, answer, engine, kills>>

Close(w) ==
  /\ At(w, "idle") /\ calls < MaxCalls
  /\ calls' = calls + 1
  /\ closing' = [closing EXCEPT ![w] = TRUE]
  /\ sure' = [sure EXCEPT ![w] = TRUE]
  /\ Goto(w, "remove")
  /\ UNCHANGED <<lease, alive, fd, self, answer, engine, kills>>

-----------------------------------------------------------------------------
(* The lease, WorkerLease.                                                 *)

Free(w, n) == table[Home[w]][n] = None
Lowest(w, n) == Free(w, n) /\ \A m \in Number : Free(w, m) => n <= m

\* Mutant: whoever finds the file unlocked may have it.
Unlocked == holder = None
\* The file is not locked and says nothing, or that cleanup was confirmed.
Available == holder = None /\ record \in {"empty", "clean"}

\* acquire up to the assignment of fd; busy and uncleaned leave as they came.
Acquire(w) ==
  /\ At(w, "acquire")
  /\ \/ \E n \in Number :
          /\ Available /\ Lowest(w, n)
          /\ table' = [table EXCEPT ![Home[w]][n] = w]
          /\ holder' = w
          /\ fd' = [fd EXCEPT ![w] = n]
          /\ Goto(w, "mark")
     \/ /\ ~Available \/ ~\E n \in Number : Free(w, n)
        /\ Goto(w, "remove") /\ UNCHANGED <<table, holder, fd>>
  /\ UNCHANGED <<record, alive, closing, sure, self, answer, engine, bounds>>

\* What the worker's number stands for now, if anything.
Valid(w) == fd[w] # 0 /\ table[Home[w]][fd[w]] # None
Opened(w) == table[Home[w]][fd[w]]

\* The descriptor is closed, whosever it is, and with it the lock.
Shut(w) ==
  /\ table' = [table EXCEPT ![Home[w]][fd[w]] = None]
  /\ holder' = IF holder = Opened(w) THEN None ELSE holder

\* _write: the record is replaced and synced; it is torn by a short write,
\* which nobody looks at; or an error stops it, wherever it has come to.
Writes(w, says, done) ==
  /\ \/ record' = says
     \/ "disk" \in Trouble /\ record' = "torn"
     \/ ~done /\ record' = record
  /\ ~done => "disk" \in Trouble

\* _write(False); when it raises, acquire closes the descriptor and keeps fd.
Mark(w) ==
  /\ At(w, "mark")
  /\ \/ /\ Valid(w) /\ Writes(w, "pending", TRUE)
        /\ Goto(w, "admit") /\ UNCHANGED <<table, holder, fd>>
     \/ /\ Valid(w) /\ Writes(w, "pending", FALSE)
        /\ Shut(w) /\ Goto(w, "remove") /\ UNCHANGED fd
     \/ /\ ~Valid(w)
        /\ Goto(w, "remove") /\ UNCHANGED <<lease, fd>>
  /\ UNCHANGED <<alive, closing, sure, self, answer, engine, bounds>>

-----------------------------------------------------------------------------
(* Start, prediction and the engine.                                       *)

\* A step of forecast fails: the worker cleans up, or an exception that
\* forecast does not catch ends the call as it stands (an interrupt, or a
\* killed client that is not reaped in time).
Fail(w) ==
  \/ Fails /\ Goto(w, "remove") /\ UNCHANGED answer
  \/ "escape" \in Trouble /\ End(w, "raised")

\* The checks between the lease and the creation.
Admit(w) ==
  /\ At(w, "admit")
  /\ \/ /\ Goto(w, "create") /\ UNCHANGED answer
        /\ unconfirmed' = [unconfirmed EXCEPT ![w] = TRUE]
     \/ Fail(w) /\ UNCHANGED unconfirmed
  /\ UNCHANGED <<lease, alive, closing, sure, fd, container, loaded, attached, closed, engine, bounds>>

\* container create answers with the id, or its client fails and the request
\* is refused, still under way, or done.
Create(w) ==
  /\ At(w, "create")
  /\ \/ /\ w \notin exists /\ exists' = exists \cup {w}
        /\ container' = [container EXCEPT ![w] = TRUE]
        /\ unconfirmed' = [unconfirmed EXCEPT ![w] = FALSE]
        /\ Goto(w, "run") /\ UNCHANGED <<answer, pending>>
     \/ /\ Fail(w)
        /\ pending' \in {pending, pending \cup {w}}
        /\ UNCHANGED <<exists, container, unconfirmed>>
  /\ UNCHANGED <<lease, alive, closing, sure, fd, loaded, attached, closed, bounds>>

\* The engine does what a killed client had asked for, or forgets it.
EngineCreates(w) ==
  /\ w \in pending
  /\ pending' = pending \ {w}
  /\ exists' \in {exists, exists \cup {w}}
  /\ UNCHANGED <<lease, alive, pc, closing, sure, fd, self, answer, bounds>>

\* The container is inspected, started, loaded and has answered; or not.
Run(w) ==
  /\ At(w, "run")
  /\ \/ /\ End(w, "forecast")
        /\ loaded' = [loaded EXCEPT ![w] = TRUE]
        /\ attached' = [attached EXCEPT ![w] = TRUE]
     \/ /\ Fail(w) /\ UNCHANGED loaded
        /\ attached' \in {attached, [attached EXCEPT ![w] = TRUE]}
  /\ UNCHANGED <<lease, alive, closing, sure, fd, container, unconfirmed, closed, engine, bounds>>

Predict(w) ==
  /\ At(w, "predict")
  /\ End(w, "forecast") \/ Fail(w)
  /\ UNCHANGED <<lease, alive, closing, sure, fd, self, engine, bounds>>

-----------------------------------------------------------------------------
(* _close_owned.                                                           *)

\* The container is inspected and removed; the client may fail before or
\* behind that.  A creation that was not confirmed is left alone.
Remove(w) ==
  /\ At(w, "remove")
  /\ \/ /\ ~unconfirmed[w] /\ ~container[w]
        /\ UNCHANGED <<container, exists, sure>>
     \/ /\ ~unconfirmed[w] /\ container[w]
        /\ exists' = exists \ {w}
        /\ container' = [container EXCEPT ![w] = FALSE]
        /\ UNCHANGED sure
     \/ /\ unconfirmed[w] \/ (container[w] /\ Fails)
        /\ sure' = [sure EXCEPT ![w] = FALSE]
        /\ exists' \in IF unconfirmed[w] THEN {exists} ELSE {exists, exists \ {w}}
        /\ UNCHANGED container
  /\ loaded' = [loaded EXCEPT ![w] = FALSE]
  /\ Goto(w, "wait")
  /\ UNCHANGED <<lease, alive, closing, fd, unconfirmed, attached, closed, answer, pending, bounds>>

\* How the call is answered, when the cleanup has raised nothing or has.
Concludes(w, clean) ==
  /\ End(w, IF ~clean THEN "uncleaned" ELSE IF closing[w] THEN "closed" ELSE "refused")
  /\ closed' = [closed EXCEPT ![w] = @ \/ (closing[w] /\ clean)]

\* The attached client ends, or does not even when terminated: then the
\* exception leaves the lease as it is.
Wait(w) ==
  /\ At(w, "wait")
  /\ \/ /\ Goto(w, "release")
        /\ attached' = [attached EXCEPT ![w] = FALSE]
        /\ UNCHANGED <<closed, answer>>
     \/ /\ attached[w] /\ Fails
        /\ Concludes(w, FALSE) /\ UNCHANGED attached
  /\ UNCHANGED <<lease, alive, closing, sure, fd, container, unconfirmed, loaded, engine, bounds>>

\* Mutant: a container is gone when nobody knows its id.
NoContainer(w) == ~container[w]
Cleaned(w) == ~container[w] /\ ~unconfirmed[w]

\* Mutant: the record keeps how the call went on instead.
SaysStep(w) == IF Cleaned(w) THEN pc[w] ELSE "pending"
Says(w) == IF Cleaned(w) THEN "clean" ELSE "pending"

\* release: whatever the number stands for is written, unlocked and closed.
ReleaseLease(w) ==
  /\ At(w, "release")
  /\ \/ /\ fd[w] = 0
        /\ Concludes(w, sure[w]) /\ UNCHANGED <<lease, fd>>
     \/ /\ Valid(w) /\ Shut(w)
        /\ fd' = [fd EXCEPT ![w] = 0]
        /\ \E done \in BOOLEAN :
             Writes(w, Says(w), done) /\ Concludes(w, sure[w] /\ done)
     \/ /\ fd[w] # 0 /\ ~Valid(w)
        /\ Concludes(w, FALSE) /\ UNCHANGED <<lease, fd>>
  /\ UNCHANGED <<alive, closing, sure, container, unconfirmed, loaded, attached, engine, bounds>>

-----------------------------------------------------------------------------
\* A process dies: its descriptors are closed, a write it was at may be torn,
\* and a creation it had asked for is still under way.
Residents(p) == {w \in Worker : Home[w] = p}

Torn(w) ==
  CASE pc[w] = "mark" /\ Valid(w) -> {record, "pending", "torn"}
    [] pc[w] = "release" /\ Valid(w) -> {record, Says(w), "torn"}
    [] OTHER -> {record}

Kill(p) ==
  /\ p \in alive /\ kills < MaxKills
  /\ kills' = kills + 1
  /\ alive' = alive \ {p}
  /\ table' = [table EXCEPT ![p] = [n \in Number |-> None]]
  /\ holder' = IF \E n \in Number : table[p][n] = holder THEN None ELSE holder
  /\ record' \in {record} \cup UNION {Torn(w) : w \in Residents(p)}
  /\ pending' \in SUBSET (pending \cup {w \in Residents(p) : pc[w] = "create"})
  /\ pending \subseteq pending'
  /\ UNCHANGED <<pc, closing, sure, fd, self, answer, exists, calls>>

Next ==
  \/ \E w \in Worker :
       \/ Forecast(w) \/ Close(w) \/ Acquire(w) \/ Mark(w) \/ Admit(w) \/ Create(w)
       \/ EngineCreates(w) \/ Run(w) \/ Predict(w) \/ Remove(w) \/ Wait(w) \/ ReleaseLease(w)
  \/ \E p \in Process : Kill(p)

Spec == Init /\ [][Next]_vars

-----------------------------------------------------------------------------
(* Properties.                                                             *)

Lives(w) == Home[w] \in alive
Owed == exists \cup pending

\* One container at a time, those included that the engine has yet to create
\* ("Cross-process one-container admission with persistent unresolved-cleanup
\* state").
OneContainer == \A v, w \in Owed : v = w

\* A worker that was closed has left no container behind, nor the request for
\* one; and a lease that may be taken is taken with none in existence.
ClosedForGood ==
  /\ \A w \in Worker : closed[w] => w \notin Owed
  /\ Available => Owed = {}

\* A worker takes the lease, brings its container into the world and gives the
\* lease up as LeaseDebt has it, whatever fails or dies on the way.
SaysNow == IF record \in {"empty", "clean"} THEN "free" ELSE "owing"
Retired == {w \in Worker : closed[w]}
Debt == INSTANCE LeaseDebt WITH
  tenant <- holder, says <- SaysNow, owed <- Owed, retired <- Retired
Promise == Debt!Spec

-----------------------------------------------------------------------------
(* The inductive invariant behind the properties above, where no worker    *)
(* shares its process or no write of the lease fails.                      *)

Sheltered ==
  "disk" \notin Trouble \/ \A v, w \in Worker : Home[v] = Home[w] => v = w

\* An open lease is open under its worker's number and locked by it; a number
\* that stands for nothing is left by a failed write.
Descriptors ==
  /\ \A p \in Process, n \in Number : table[p][n] # None =>
       /\ Home[table[p][n]] = p /\ p \in alive
       /\ fd[table[p][n]] = n /\ holder = table[p][n]
  /\ holder # None => fd[holder] # 0 /\ table[Home[holder]][fd[holder]] = holder
  /\ "disk" \notin Trouble =>
       \A w \in Worker : fd[w] # 0 /\ Lives(w) => table[Home[w]][fd[w]] = w

\* A container that may exist, or that its worker believes may exist, makes
\* its worker the only one with a claim, and the record says so.
Claims == Owed \cup {w \in Worker : Lives(w) /\ ~Cleaned(w)}
Claimed ==
  /\ \A v, w \in Claims : v = w
  /\ Claims # {} => record \in {"pending", "torn"}
  /\ holder # None => Claims \subseteq {holder}
  /\ \A w \in Worker : Lives(w) =>
       /\ pc[w] \in {"mark", "admit", "create"} => holder = w /\ w \notin Owed /\ ~container[w]
       /\ pc[w] \in {"mark", "admit"} => ~unconfirmed[w]
       /\ pc[w] \in {"admit", "create"} => record \in {"pending", "torn"}
       /\ pc[w] = "create" => unconfirmed[w]

\* What a worker knows of its own container is true.
Known ==
  \A w \in Worker : Lives(w) =>
    /\ w \in Owed => ~Cleaned(w)
    /\ container[w] => w \notin pending
    /\ pc[w] \in {"wait", "release"} /\ sure[w] => Cleaned(w)

\* A closed worker has nothing to do with containers any more.
Finished ==
  \A w \in Worker : closed[w] =>
    /\ w \notin Owed /\ Cleaned(w)
    /\ pc[w] \in {"idle", "remove", "wait", "release"}

IInv == TypeOK /\ Descriptors /\ Claimed /\ Known /\ Finished
=============================================================================
