------------------------- MODULE ToolingCoordination -------------------------
(***************************************************************************)
(* The private register of task claims, agent_braid/tooling_coordination:  *)
(* one JSON snapshot that every caller reads, changes and replaces as a    *)
(* whole under a lock it does not wait for.  A caller may die, or its      *)
(* write may fail, on either side of the replacement, and until the        *)
(* directory is synced a power loss may bring an older snapshot back.      *)
(* Callers begin work when start has returned, and report native work as   *)
(* finished only when they have verified that it stopped.  A call that is  *)
(* refused changes nothing and is no action here.                          *)
(***************************************************************************)
EXTENDS Naturals, FiniteSets

CONSTANTS Caller,      \* processes that use the register
          Task,        \* the tasks it was initialised with
          Deps,        \* task -> the tasks it depends on
          Native,      \* tasks of the native executor
          MaxEvents,   \* length of the history a snapshot may hold
          MaxFaults    \* bound on deaths, failed writes and power losses

ASSUME InventoryAssumption == Deps \in [Task -> SUBSET Task] /\ Native \subseteq Task
ASSUME BoundAssumption == MaxEvents \in Nat /\ MaxFaults \in Nat

VARIABLES
  registry,  \* registry.json, as a reader finds it
  disk,      \* the snapshots a power loss may leave of it
  pc,        \* where each caller stands
  snap,      \* the snapshot it is about to write
  given,     \* the claim its call will return, or has returned to start
  claims,    \* the claims it knows
  told,      \* history: how often start has returned for a task
  running,   \* tasks whose work goes on
  faults     \* deaths, failed writes and power losses so far

files == <<registry, disk>>
call == <<pc, snap, given>>
work == <<told, running>>
vars == <<files, call, claims, work, faults>>

Active == {"claimed", "started", "interrupted"}
Terminal == {"complete", "failed"}
Begun == {"started", "interrupted"} \cup Terminal

\* A token is the number of the event that drew it; 0 is none.
Token == 0..(MaxEvents + 1)
Record == [status : {"pending", "blocked"} \cup Active \cup Terminal, token : Token,
           started : BOOLEAN, evidence : BOOLEAN, stop : BOOLEAN, reason : BOOLEAN]
Fresh == [status |-> "pending", token |-> 0,
          started |-> FALSE, evidence |-> FALSE, stop |-> FALSE, reason |-> FALSE]

\* A snapshot: the length of its history, and its tasks.  Without a file
\* there is no event.
Snapshot == [revision : Token, task : [Task -> Record]]
NoFile == [revision |-> 0, task |-> [t \in Task |-> Fresh]]

\* What a call returns when its write is durable.
Nothing == [what |-> "nothing"]
Return(what, t, k) == [what |-> what, task |-> t, token |-> k]
ReturnType == [what : {"claim", "start"}, task : Task, token : Token] \cup {Nothing}
ClaimType == [task : Task, token : Token]

TypeOK ==
  /\ registry \in Snapshot /\ disk \subseteq Snapshot
  /\ pc \in [Caller -> {"idle", "writing", "replaced"}]
  /\ snap \in [Caller -> Snapshot]
  /\ given \in [Caller -> ReturnType]
  /\ claims \in [Caller -> SUBSET ClaimType]
  /\ told \in [Task -> Nat] /\ running \subseteq Task
  /\ faults \in 0..MaxFaults

Init ==
  /\ registry = NoFile /\ disk = {NoFile}
  /\ pc = [c \in Caller |-> "idle"]
  /\ snap = [c \in Caller |-> NoFile]
  /\ given = [c \in Caller |-> Nothing]
  /\ claims = [c \in Caller |-> {}]
  /\ told = [t \in Task |-> 0] /\ running = {}
  /\ faults = 0

-----------------------------------------------------------------------------
(* A call: it takes the lock if that is free, reads, checks and computes.  *)

LockFree == \A c \in Caller : pc[c] = "idle"

Call(c, snapshot, return) ==
  /\ LockFree
  /\ pc' = [pc EXCEPT ![c] = "writing"]
  /\ snap' = [snap EXCEPT ![c] = snapshot]
  /\ given' = [given EXCEPT ![c] = return]
  /\ UNCHANGED <<files, claims, work, faults>>

\* _record: every change is an event.
Changed(t, record) ==
  [revision |-> registry.revision + 1, task |-> [registry.task EXCEPT ![t] = record]]
Status(t) == registry.task[t].status

Initialize(c) ==
  /\ registry.revision = 0
  /\ Call(c, [NoFile EXCEPT !.revision = 1], Nothing)

\* inspect shows every claim, and so returns those whose caller is gone.
Inspect(c) ==
  /\ LockFree /\ registry.revision > 0
  /\ claims' = [claims EXCEPT ![c] =
       {[task |-> t, token |-> registry.task[t].token] : t \in {u \in Task : Status(u) \in Active}}]
  /\ UNCHANGED <<files, call, work, faults>>

\* Mutant: a dependency that failed counts as well.
DependenciesOver(tasks, t) == \A d \in Deps[t] : tasks[d].status \in Terminal
\* What claim and the validation ask of the tasks that t depends on.
DependenciesMet(tasks, t) == \A d \in Deps[t] : tasks[d].status = "complete"

\* Mutant: an interrupted reservation does not count.
ReservedUntilInterrupted == \E t \in Native : Status(t) \in {"claimed", "started"}
NativeReserved == \E t \in Native : Status(t) \in Active

ClaimTask(c, t) ==
  /\ registry.revision > 0 /\ Status(t) = "pending"
  /\ DependenciesMet(registry.task, t)
  /\ t \in Native => ~NativeReserved
  /\ LET k == registry.revision + 1
     IN  Call(c, Changed(t, [registry.task[t] EXCEPT !.status = "claimed", !.token = k]),
              Return("claim", t, k))

Block(c, t) ==
  /\ registry.revision > 0 /\ Status(t) = "pending"
  /\ Call(c, Changed(t, [registry.task[t] EXCEPT !.status = "blocked", !.reason = TRUE]), Nothing)

Unblock(c, t) ==
  /\ registry.revision > 0 /\ Status(t) = "blocked"
  /\ Call(c, Changed(t, [registry.task[t] EXCEPT !.status = "pending", !.reason = FALSE]), Nothing)

\* _claimed: one of the caller's claims is the one the record holds.
Owns(c, t) ==
  /\ registry.revision > 0 /\ registry.task[t].token # 0
  /\ [task |-> t, token |-> registry.task[t].token] \in claims[c]

Startable == {"claimed"}

Start(c, t) ==
  /\ Owns(c, t) /\ Status(t) \in Startable
  /\ Call(c, Changed(t, [registry.task[t] EXCEPT !.status = "started", !.started = TRUE]),
          Return("start", t, registry.task[t].token))

Released(r) == [r EXCEPT !.status = "pending", !.token = 0]

Release(c, t) ==
  /\ Owns(c, t) /\ Status(t) = "claimed"
  /\ Call(c, Changed(t, Released(registry.task[t])), Nothing)

Interrupt(c, t) ==
  /\ Owns(c, t) /\ Status(t) = "started"
  /\ Call(c, Changed(t, [registry.task[t] EXCEPT !.status = "interrupted", !.reason = TRUE]),
          Nothing)

\* Mutant: interrupted work is not finished.
StartedOnly == {"started"}
Finishable == {"started", "interrupted"}

\* finish, with the receipts it asks for: of native work, that it stopped.
Finish(c, t, status) ==
  /\ Owns(c, t) /\ Status(t) \in Finishable
  /\ t \in Native => t \notin running
  /\ Call(c, Changed(t, [registry.task[t] EXCEPT !.status = status, !.evidence = TRUE,
                                                 !.stop = t \in Native, !.reason = FALSE]), Nothing)

-----------------------------------------------------------------------------
(* _write: the snapshot is validated, renamed over the old one and synced. *)

\* Mutant: the history is not bounded.
AnyLength == Nat \ {0}
Length == 1..MaxEvents

\* _validate_snapshot.
Consistent(t, r) ==
  /\ r.token # 0 <=> r.status \in Active \cup Terminal
  /\ r.started <=> r.status \in Begun
  /\ r.reason <=> r.status \in {"blocked", "interrupted"}
  /\ r.evidence <=> r.status \in Terminal
  /\ r.stop <=> r.status \in Terminal /\ t \in Native
Valid(s) ==
  /\ s.revision \in Length
  /\ \A t \in Task :
       /\ Consistent(t, s.task[t])
       /\ s.task[t].status \in Active \cup Terminal => DependenciesMet(s.task, t)
  /\ \A t, u \in Native :
       s.task[t].status \in Active /\ s.task[u].status \in Active => t = u

Leave(c) ==
  /\ pc' = [pc EXCEPT ![c] = "idle"]
  /\ snap' = [snap EXCEPT ![c] = NoFile] /\ given' = [given EXCEPT ![c] = Nothing]

Reject(c) ==
  /\ pc[c] = "writing" /\ ~Valid(snap[c])
  /\ Leave(c)
  /\ UNCHANGED <<files, claims, work, faults>>

Replace(c) ==
  /\ pc[c] = "writing" /\ Valid(snap[c])
  /\ registry' = snap[c] /\ disk' = disk \cup {snap[c]}
  /\ pc' = [pc EXCEPT ![c] = "replaced"]
  /\ UNCHANGED <<snap, given, claims, work, faults>>

\* Mutant: the directory is not synced.
NotSynced == disk
Synced == {registry}

\* The call returns; work begins behind a start.
Sync(c) ==
  /\ pc[c] = "replaced"
  /\ disk' = Synced
  /\ LET r == given[c] IN
     /\ claims' = IF r.what = "claim"
                  THEN [claims EXCEPT ![c] = @ \cup {[task |-> r.task, token |-> r.token]}]
                  ELSE claims
     /\ IF r.what = "start"
        THEN told' = [told EXCEPT ![r.task] = @ + 1] /\ running' = running \cup {r.task}
        ELSE UNCHANGED work
  /\ Leave(c)
  /\ UNCHANGED <<registry, faults>>

-----------------------------------------------------------------------------
(* What the register cannot help.                                          *)

Fault == faults < MaxFaults /\ faults' = faults + 1

\* The write raises: before the replacement, as when the snapshot has grown
\* too large, or after it.
WriteFails(c) ==
  /\ pc[c] # "idle" /\ Fault
  /\ Leave(c)
  /\ UNCHANGED <<files, claims, work>>

\* The caller dies, with the claims it knew.
Die(c) ==
  /\ pc[c] # "idle" \/ claims[c] # {}
  /\ Fault
  /\ Leave(c)
  /\ claims' = [claims EXCEPT ![c] = {}]
  /\ UNCHANGED <<files, work>>

PowerLoss ==
  /\ Fault
  /\ registry' \in disk /\ disk' = {registry'}
  /\ pc' = [c \in Caller |-> "idle"] /\ snap' = [c \in Caller |-> NoFile]
  /\ given' = [c \in Caller |-> Nothing] /\ claims' = [c \in Caller |-> {}]
  /\ running' = {} /\ UNCHANGED told

\* The work of a task ends.
End(t) ==
  /\ t \in running /\ running' = running \ {t}
  /\ UNCHANGED <<files, call, claims, told, faults>>

-----------------------------------------------------------------------------
Write(c) == Reject(c) \/ Replace(c) \/ Sync(c)

Operate(c) ==
  \/ Initialize(c) \/ Inspect(c)
  \/ \E t \in Task :
       \/ ClaimTask(c, t) \/ Block(c, t) \/ Unblock(c, t) \/ Start(c, t) \/ Release(c, t)
       \/ Interrupt(c, t) \/ \E status \in Terminal : Finish(c, t, status)

Next ==
  \/ \E c \in Caller : Operate(c) \/ Write(c) \/ WriteFails(c) \/ Die(c)
  \/ PowerLoss \/ \E t \in Task : End(t)

Spec == Init /\ [][Next]_vars

\* The operating system runs the caller that has the lock; work ends; somebody
\* keeps looking at the register, and somebody reconciles what was found.
FairSpec ==
  /\ Spec
  /\ WF_vars(\E c \in Caller : Write(c)) /\ SF_vars(\E c \in Caller : Inspect(c))
  /\ WF_vars(\E t \in Task : End(t))
  /\ \A t \in Task : SF_vars(\E c \in Caller : Finish(c, t, "complete"))

-----------------------------------------------------------------------------
(* Properties.                                                             *)

\* No operation that its own checks admit is refused by the validation of
\* what it writes, but for a history that is full (_write).
NoSelfRefusal ==
  \A c \in Caller : pc[c] = "writing" /\ ~Valid(snap[c]) => snap[c].revision > MaxEvents

\* A start that has returned is never undone: whatever dies, fails or loses
\* power, every snapshot that may be left says that the work has begun.
StartsLast == \A t \in Task : told[t] > 0 => \A s \in disk : s.task[t].status \in Begun

\* The work of a task begins once: nobody else is ever told to start it
\* ("never replay").
StartsOnce == \A t \in Task : told[t] <= 1

\* The register keeps the promise of WorkOrder: dependencies are complete for
\* good before a task begins, and native work is done one task at a time.
begun == {t \in Task : told[t] > 0}
complete == {t \in Task : \A s \in disk : s.task[t].status = "complete"}
Order == INSTANCE WorkOrder WITH begun <- begun, complete <- complete
Promise == Order!Spec

\* Work that began is settled, although its caller and the claim it held are
\* gone, unless the history is full.
Settles ==
  \A t \in Task :
    told[t] > 0 ~> Status(t) \in Terminal \/ registry.revision = MaxEvents

-----------------------------------------------------------------------------
(* The inductive invariant behind the properties above.                    *)

\* Every snapshot that may be left, or is about to be, is valid and knows of
\* the work that began, and that native work goes on.
Good(s) == s = NoFile \/ Valid(s)
Knows(s) ==
  \A t \in Task :
    /\ told[t] > 0 => s.task[t].status \in Begun
    /\ t \in running \cap Native => s.task[t].status \in Finishable
Files == registry \in disk /\ \A s \in disk : Good(s) /\ Knows(s)

\* A write carries what it was computed from, and a start is for a task that
\* nobody was told to start.
Writes(c) ==
  pc[c] # "idle" =>
    /\ \A d \in Caller : pc[d] # "idle" => d = c
    /\ Knows(snap[c])
    /\ pc[c] = "writing" =>
         /\ Valid(snap[c]) \/ snap[c].revision > MaxEvents
         /\ \A t \in Task :
              Status(t) = "complete" => snap[c].task[t].status = "complete"
    /\ pc[c] = "replaced" => registry = snap[c]
    /\ given[c].what = "start" =>
         told[given[c].task] = 0 /\ snap[c].task[given[c].task].status = "started"

IInv ==
  /\ TypeOK
  /\ Files
  /\ \A c \in Caller : Writes(c)
  /\ StartsOnce
  /\ \A t \in running : told[t] > 0
=============================================================================
