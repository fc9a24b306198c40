---------------------- MODULE ToolingCoordinationProofs ----------------------
(***************************************************************************)
(* Theorems about ToolingCoordination, for every set of callers, every     *)
(* inventory of tasks, every length of history and every number of faults. *)
(***************************************************************************)
EXTENDS ToolingCoordination, TLAPS

\* The empty register is a snapshot.
LEMMA NoFileType == NoFile \in Snapshot
BY BoundAssumption DEF NoFile, Snapshot, Fresh, Record, Token, Active, Terminal

\* Initially the invariant holds.
LEMMA InitInv == Init => IInv
<1> SUFFICES ASSUME Init PROVE IInv
  OBVIOUS
<1>1. TypeOK
  BY NoFileType, BoundAssumption DEF Init, TypeOK, ReturnType
<1>2. Files
  BY DEF Init, Files, Good, Knows
<1> QED
  BY <1>1, <1>2 DEF Init, IInv, Writes, StartsOnce

\* A register that has a file is valid.
LEMMA HasFile == Files /\ registry.revision > 0 => Valid(registry) /\ Knows(registry)
BY DEF Files, Good, NoFile

\* What a caller may carry into a write.
Fits(s, r) ==
  /\ s \in Snapshot /\ Knows(s)
  /\ Valid(s) \/ s.revision > MaxEvents
  /\ \A t \in Task : Status(t) = "complete" => s.task[t].status = "complete"
  /\ r \in ReturnType
  /\ r.what = "start" => told[r.task] = 0 /\ s.task[r.task].status = "started"

\* A call that computes such a snapshot keeps the invariant.
LEMMA CallInv ==
  ASSUME IInv, NEW c \in Caller, NEW s, NEW r, Call(c, s, r), Fits(s, r)
  PROVE  IInv'
<1>1. /\ \A d \in Caller : pc[d] = "idle"
      /\ pc' = [pc EXCEPT ![c] = "writing"]
      /\ snap' = [snap EXCEPT ![c] = s] /\ given' = [given EXCEPT ![c] = r]
      /\ UNCHANGED <<registry, disk, claims, told, running, faults>>
  BY DEF Call, LockFree, files, work
<1>2. TypeOK'
  BY <1>1 DEF IInv, TypeOK, Fits
<1>3. Files'
  BY <1>1 DEF IInv, Files, Good, Valid, Knows
<1>4. ASSUME NEW d \in Caller PROVE Writes(d)'
  <2>1. CASE d = c
    <3>1. pc'[d] = "writing" /\ snap'[d] = s /\ given'[d] = r
      BY <1>1, <2>1 DEF IInv, TypeOK
    <3>2. \A e \in Caller : pc'[e] # "idle" => e = d
      BY <1>1, <2>1 DEF IInv, TypeOK
    <3>3. Knows(snap[d])'
      BY <1>1, <3>1 DEF Knows, Fits
    <3> QED
      BY <1>1, <3>1, <3>2, <3>3 DEF Writes, Fits, Status, Valid
  <2>2. CASE d # c
    BY <1>1, <2>2 DEF IInv, TypeOK, Writes
  <2> QED
    BY <2>1, <2>2
<1> QED
  BY <1>1, <1>2, <1>3, <1>4 DEF IInv, StartsOnce

\* What the change of one task that is not complete has to respect so that
\* the validation passes, unless the history is full.
LEMMA ChangedFits ==
  ASSUME TypeOK, Files, registry.revision > 0,
         NEW t \in Task, Status(t) # "complete", NEW r \in Record, Consistent(t, r),
         r.status \in Active \cup Terminal => \A d \in Deps[t] : Status(d) = "complete",
         t \in Native /\ r.status \in Active =>
           \A u \in Native : Status(u) \in Active => u = t,
         told[t] > 0 => r.status \in Begun,
         t \in running \cap Native => r.status \in Finishable
  PROVE  LET s == Changed(t, r)
         IN  /\ s \in Snapshot /\ Knows(s)
             /\ Valid(s) \/ s.revision > MaxEvents
             /\ \A u \in Task : Status(u) = "complete" => s.task[u].status = "complete"
             /\ s.task[t] = r
<1> DEFINE s == Changed(t, r)
<1>1. Valid(registry) /\ Knows(registry)
  BY HasFile
<1>2. registry \in Snapshot /\ registry.revision \in 1..MaxEvents
  BY <1>1 DEF TypeOK, Valid, Length
<1>3. /\ s.revision = registry.revision + 1
      /\ s.task[t] = r /\ \A u \in Task \ {t} : s.task[u] = registry.task[u]
  BY <1>2 DEF Changed, Snapshot
<1>4. s \in Snapshot
  BY <1>2, BoundAssumption DEF Changed, Snapshot, Token
<1>5. Knows(s)
  BY <1>1, <1>3 DEF Knows
<1>6. \A u \in Task : Status(u) = "complete" => s.task[u].status = "complete"
  BY <1>3 DEF Status
<1>7. Valid(s) \/ s.revision > MaxEvents
  <2> SUFFICES ASSUME s.revision <= MaxEvents PROVE Valid(s)
    BY <1>2, <1>3, BoundAssumption
  <2>1. s.revision \in Length
    BY <1>2, <1>3, BoundAssumption DEF Length
  <2>2. ASSUME NEW u \in Task
        PROVE  /\ Consistent(u, s.task[u])
               /\ s.task[u].status \in Active \cup Terminal =>
                    \A d \in Deps[u] : s.task[d].status = "complete"
    <3>1. Deps[u] \subseteq Task
      BY InventoryAssumption
    <3>2. s.task[u].status \in Active \cup Terminal => \A d \in Deps[u] : Status(d) = "complete"
      BY <1>1, <1>3 DEF Valid, DependenciesMet, Status
    <3>3. Consistent(u, s.task[u])
      BY <1>1, <1>3 DEF Valid
    <3> QED
      BY <1>6, <3>1, <3>2, <3>3
  <2>3. ASSUME NEW u \in Native, NEW v \in Native,
               s.task[u].status \in Active, s.task[v].status \in Active
        PROVE  u = v
    <3>1. u \in Task /\ v \in Task
      BY InventoryAssumption
    <3>2. CASE u # t /\ v # t
      BY <1>1, <1>3, <2>3, <3>1, <3>2 DEF Valid
    <3>3. CASE u = t \/ v = t
      BY <1>3, <2>3, <3>1, <3>3 DEF Status
    <3> QED
      BY <3>2, <3>3
  <2> QED
    BY <2>1, <2>2, <2>3 DEF Valid, DependenciesMet
<1> QED
  BY <1>3, <1>4, <1>5, <1>6, <1>7

\* A record a caller found in the register.
LEMMA Found ==
  ASSUME TypeOK, Files, registry.revision > 0, NEW t \in Task
  PROVE  /\ registry.task[t] \in Record /\ Consistent(t, registry.task[t])
         /\ Status(t) \in Active \cup Terminal => \A d \in Deps[t] : Status(d) = "complete"
         /\ told[t] > 0 => Status(t) \in Begun
         /\ t \in running \cap Native => Status(t) \in Finishable
         /\ t \in Native /\ Status(t) \in Active =>
              \A u \in Native : Status(u) \in Active => u = t
<1>1. Valid(registry) /\ Knows(registry)
  BY HasFile
<1>2. registry.task \in [Task -> Record]
  BY DEF TypeOK, Snapshot
<1> QED
  BY <1>1, <1>2 DEF Valid, DependenciesMet, Knows, Status

\* A call that changes one task and returns nothing of note.
LEMMA PlainCallInv ==
  ASSUME IInv, NEW c \in Caller, registry.revision > 0,
         NEW t \in Task, Status(t) # "complete", NEW r \in Record, Consistent(t, r),
         r.status \in Active \cup Terminal => \A d \in Deps[t] : Status(d) = "complete",
         t \in Native /\ r.status \in Active =>
           \A u \in Native : Status(u) \in Active => u = t,
         told[t] > 0 => r.status \in Begun,
         t \in running \cap Native => r.status \in Finishable,
         NEW ret \in ReturnType,
         ret.what = "start" => ret.task = t /\ told[t] = 0 /\ r.status = "started",
         Call(c, Changed(t, r), ret)
  PROVE  IInv'
<1>1. TypeOK /\ Files
  BY DEF IInv
<1>2. Fits(Changed(t, r), ret)
  BY <1>1, ChangedFits DEF Fits
<1> QED
  BY <1>2, CallInv

\* initialize writes a register without work.
LEMMA InitializeInv ==
  ASSUME IInv, NEW c \in Caller, Initialize(c)
  PROVE  IInv'
<1> DEFINE s == [NoFile EXCEPT !.revision = 1]
<1>1. registry = NoFile /\ registry \in disk
  BY DEF IInv, Files, Good, Valid, Length, Initialize
<1>2. s = [revision |-> 1, task |-> NoFile.task] /\ s \in Snapshot
  BY NoFileType, BoundAssumption DEF NoFile, Snapshot, Token
<1>3. Knows(s)
  BY <1>1, <1>2 DEF IInv, Files, Knows
<1>4. Valid(s) \/ s.revision > MaxEvents
  <2> SUFFICES ASSUME s.revision <= MaxEvents PROVE Valid(s)
    BY <1>2, BoundAssumption
  <2>1. \A t \in Task : s.task[t] = Fresh
    BY <1>2 DEF NoFile
  <2>2. s.revision \in Length
    BY <1>2, BoundAssumption DEF Length
  <2>3. \A t \in Task : Consistent(t, s.task[t])
    BY <2>1 DEF Consistent, Fresh, Active, Terminal, Begun
  <2>4. \A t \in Task : s.task[t].status \notin Active \cup Terminal
    BY <2>1 DEF Fresh, Active, Terminal
  <2> HIDE DEF s
  <2> QED
    BY <2>2, <2>3, <2>4, InventoryAssumption DEF Valid
<1>5. \A t \in Task : Status(t) # "complete"
  BY <1>1 DEF Status, NoFile, Fresh
<1>6. Fits(s, Nothing)
  BY <1>2, <1>3, <1>4, <1>5 DEF Fits, ReturnType, Nothing
<1> QED
  BY <1>6, CallInv DEF Initialize

\* claim reserves a pending task whose dependencies are complete.
LEMMA ClaimTaskInv ==
  ASSUME IInv, NEW c \in Caller, NEW t \in Task, ClaimTask(c, t)
  PROVE  IInv'
<1> DEFINE r == [registry.task[t] EXCEPT !.status = "claimed", !.token = registry.revision + 1]
<1>1. TypeOK /\ Files /\ registry.revision > 0
  BY DEF IInv, ClaimTask
<1>2. registry.task[t] \in Record /\ Consistent(t, registry.task[t])
  BY <1>1, Found
<1>3. r \in Record /\ Consistent(t, r) /\ Status(t) # "complete"
  <2>1. /\ r.status = "claimed" /\ r.token = registry.revision + 1
        /\ r.started = registry.task[t].started /\ r.evidence = registry.task[t].evidence
        /\ r.stop = registry.task[t].stop /\ r.reason = registry.task[t].reason
    BY <1>2 DEF Record
  <2>2. r \in Record
    <3>1. registry.revision + 1 \in Token \ {0}
      BY <1>1, HasFile, BoundAssumption DEF Valid, Length, Token
    <3> QED
      BY <1>2, <3>1 DEF Record, Active, Terminal
  <2>3. registry.task[t].status = "pending"
    BY DEF ClaimTask, Status
  <2> HIDE DEF r
  <2>4. Consistent(t, r)
    BY <1>1, <1>2, <2>1, <2>3, HasFile, BoundAssumption DEF Valid, Length, Consistent, Active,
       Terminal, Begun
  <2> QED
    BY <2>2, <2>3, <2>4 DEF Status
<1>4. r.status \in Active \cup Terminal => \A d \in Deps[t] : Status(d) = "complete"
  BY <1>1, <1>2, Found DEF ClaimTask, DependenciesMet, Active, Terminal, Status
<1>5. t \in Native /\ r.status \in Active => \A u \in Native : Status(u) \in Active => u = t
  BY <1>1, <1>2, Found DEF ClaimTask, Active, Terminal, Status, NativeReserved
<1>6. /\ told[t] > 0 => r.status \in Begun
      /\ t \in running \cap Native => r.status \in Finishable
  BY <1>1, <1>2, Found DEF ClaimTask, Begun, Terminal, Status, Finishable
<1>7. Return("claim", t, registry.revision + 1) \in ReturnType
  BY <1>3 DEF Return, ReturnType, Record
<1> QED
  BY <1>1, <1>3, <1>4, <1>5, <1>6, <1>7, PlainCallInv DEF ClaimTask, Return

\* block puts a pending task aside.
LEMMA BlockInv ==
  ASSUME IInv, NEW c \in Caller, NEW t \in Task, Block(c, t)
  PROVE  IInv'
<1> DEFINE r == [registry.task[t] EXCEPT !.status = "blocked", !.reason = TRUE]
<1>1. TypeOK /\ Files /\ registry.revision > 0
  BY DEF IInv, Block
<1>2. registry.task[t] \in Record /\ Consistent(t, registry.task[t])
  BY <1>1, Found
<1>3. r \in Record /\ Consistent(t, r) /\ Status(t) # "complete"
  <2>1. /\ r.status = "blocked" /\ r.token = registry.task[t].token
        /\ r.started = registry.task[t].started /\ r.evidence = registry.task[t].evidence
        /\ r.stop = registry.task[t].stop /\ r.reason = TRUE
    BY <1>2 DEF Record
  <2>2. r \in Record
    BY <1>2, BoundAssumption DEF Record, Token, Active, Terminal
  <2>3. registry.task[t].status = "pending"
    BY DEF Block, Status
  <2> HIDE DEF r
  <2>4. Consistent(t, r)
    BY <1>2, <2>1, <2>3 DEF Consistent, Active, Terminal, Begun
  <2> QED
    BY <2>2, <2>3, <2>4 DEF Status
<1>4. r.status \in Active \cup Terminal => \A d \in Deps[t] : Status(d) = "complete"
  BY <1>1, <1>2, Found DEF Block, Active, Terminal, Status
<1>5. t \in Native /\ r.status \in Active => \A u \in Native : Status(u) \in Active => u = t
  BY <1>1, <1>2, Found DEF Block, Active, Terminal, Status
<1>6. /\ told[t] > 0 => r.status \in Begun
      /\ t \in running \cap Native => r.status \in Finishable
  BY <1>1, <1>2, Found DEF Block, Begun, Terminal, Status, Finishable
<1> QED
  BY <1>1, <1>3, <1>4, <1>5, <1>6, PlainCallInv DEF Block, ReturnType, Nothing

\* unblock puts it back.
LEMMA UnblockInv ==
  ASSUME IInv, NEW c \in Caller, NEW t \in Task, Unblock(c, t)
  PROVE  IInv'
<1> DEFINE r == [registry.task[t] EXCEPT !.status = "pending", !.reason = FALSE]
<1>1. TypeOK /\ Files /\ registry.revision > 0
  BY DEF IInv, Unblock
<1>2. registry.task[t] \in Record /\ Consistent(t, registry.task[t])
  BY <1>1, Found
<1>3. r \in Record /\ Consistent(t, r) /\ Status(t) # "complete"
  <2>1. /\ r.status = "pending" /\ r.token = registry.task[t].token
        /\ r.started = registry.task[t].started /\ r.evidence = registry.task[t].evidence
        /\ r.stop = registry.task[t].stop /\ r.reason = FALSE
    BY <1>2 DEF Record
  <2>2. r \in Record
    BY <1>2, BoundAssumption DEF Record, Token, Active, Terminal
  <2>3. registry.task[t].status = "blocked"
    BY DEF Unblock, Status
  <2> HIDE DEF r
  <2>4. Consistent(t, r)
    BY <1>2, <2>1, <2>3 DEF Consistent, Active, Terminal, Begun
  <2> QED
    BY <2>2, <2>3, <2>4 DEF Status
<1>4. r.status \in Active \cup Terminal => \A d \in Deps[t] : Status(d) = "complete"
  BY <1>1, <1>2, Found DEF Unblock, Active, Terminal, Status
<1>5. t \in Native /\ r.status \in Active => \A u \in Native : Status(u) \in Active => u = t
  BY <1>1, <1>2, Found DEF Unblock, Active, Terminal, Status
<1>6. /\ told[t] > 0 => r.status \in Begun
      /\ t \in running \cap Native => r.status \in Finishable
  BY <1>1, <1>2, Found DEF Unblock, Begun, Terminal, Status, Finishable
<1> QED
  BY <1>1, <1>3, <1>4, <1>5, <1>6, PlainCallInv DEF Unblock, ReturnType, Nothing

\* start is for a claim that has not started, so that nobody was told to.
LEMMA StartInv ==
  ASSUME IInv, NEW c \in Caller, NEW t \in Task, Start(c, t)
  PROVE  IInv'
<1> DEFINE r == [registry.task[t] EXCEPT !.status = "started", !.started = TRUE]
<1>1. TypeOK /\ Files /\ registry.revision > 0
  BY DEF IInv, Start, Owns
<1>2. registry.task[t] \in Record /\ Consistent(t, registry.task[t])
  BY <1>1, Found
<1>3. r \in Record /\ Consistent(t, r) /\ Status(t) # "complete"
  <2>1. /\ r.status = "started" /\ r.token = registry.task[t].token
        /\ r.started = TRUE /\ r.evidence = registry.task[t].evidence
        /\ r.stop = registry.task[t].stop /\ r.reason = registry.task[t].reason
    BY <1>2 DEF Record
  <2>2. r \in Record
    BY <1>2, BoundAssumption DEF Record, Token, Active, Terminal
  <2>3. registry.task[t].status = "claimed"
    BY DEF Start, Status, Startable
  <2> HIDE DEF r
  <2>4. Consistent(t, r)
    BY <1>2, <2>1, <2>3 DEF Consistent, Active, Terminal, Begun
  <2> QED
    BY <2>2, <2>3, <2>4 DEF Status
<1>4. r.status \in Active \cup Terminal => \A d \in Deps[t] : Status(d) = "complete"
  BY <1>1, <1>2, Found DEF Start, Active, Terminal, Status, Startable
<1>5. t \in Native /\ r.status \in Active => \A u \in Native : Status(u) \in Active => u = t
  BY <1>1, <1>2, Found DEF Start, Active, Terminal, Status, Startable
<1>6. /\ told[t] > 0 => r.status \in Begun
      /\ t \in running \cap Native => r.status \in Finishable
  BY <1>1, <1>2, Found DEF Start, Begun, Terminal, Status, Finishable, Startable
<1>7. Return("start", t, registry.task[t].token) \in ReturnType
  BY <1>2 DEF Return, ReturnType, Record
<1>8. told[t] = 0
  BY <1>1, <1>2, Found DEF Start, Startable, Status, Begun, Terminal, TypeOK
<1> QED
  <2> DEFINE ret == Return("start", t, registry.task[t].token)
  <2>1. Call(c, Changed(t, r), ret)
    BY DEF Start
  <2>2. ret.task = t /\ r.status = "started"
    BY <1>2 DEF Return, Record
  <2>3. ret \in ReturnType
    BY <1>7
  <2> HIDE DEF r, ret
  <2> QED
    BY <1>1, <1>3, <1>4, <1>5, <1>6, <1>8, <2>1, <2>2, <2>3, PlainCallInv

\* release gives a claim back whose work did not begin.
LEMMA ReleaseInv ==
  ASSUME IInv, NEW c \in Caller, NEW t \in Task, Release(c, t)
  PROVE  IInv'
<1> DEFINE r == Released(registry.task[t])
<1>1. TypeOK /\ Files /\ registry.revision > 0
  BY DEF IInv, Release, Owns
<1>2. registry.task[t] \in Record /\ Consistent(t, registry.task[t])
  BY <1>1, Found
<1>3. r \in Record /\ Consistent(t, r) /\ Status(t) # "complete"
  <2>1. /\ r.status = "pending" /\ r.token = 0
        /\ r.started = registry.task[t].started /\ r.evidence = registry.task[t].evidence
        /\ r.stop = registry.task[t].stop /\ r.reason = registry.task[t].reason
    BY <1>2 DEF Record, Released
  <2>2. r \in Record
    <3>1. 0 \in Token
      BY BoundAssumption DEF Token
    <3> QED
      BY <1>2, <3>1 DEF Record, Released
  <2>3. registry.task[t].status = "claimed"
    BY DEF Release, Status
  <2> HIDE DEF r
  <2>4. Consistent(t, r)
    BY <1>2, <2>1, <2>3 DEF Consistent, Active, Terminal, Begun
  <2> QED
    BY <2>2, <2>3, <2>4 DEF Status
<1>4. r.status \in Active \cup Terminal => \A d \in Deps[t] : Status(d) = "complete"
  BY <1>1, <1>2, Found DEF Release, Active, Terminal, Status, Released
<1>5. t \in Native /\ r.status \in Active => \A u \in Native : Status(u) \in Active => u = t
  BY <1>1, <1>2, Found DEF Release, Active, Terminal, Status, Released
<1>6. /\ told[t] > 0 => r.status \in Begun
      /\ t \in running \cap Native => r.status \in Finishable
  BY <1>1, <1>2, Found DEF Release, Begun, Terminal, Status, Finishable, Released
<1> QED
  BY <1>1, <1>3, <1>4, <1>5, <1>6, PlainCallInv DEF Release, ReturnType, Nothing

\* interrupt keeps the task reserved.
LEMMA InterruptInv ==
  ASSUME IInv, NEW c \in Caller, NEW t \in Task, Interrupt(c, t)
  PROVE  IInv'
<1> DEFINE r == [registry.task[t] EXCEPT !.status = "interrupted", !.reason = TRUE]
<1>1. TypeOK /\ Files /\ registry.revision > 0
  BY DEF IInv, Interrupt, Owns
<1>2. registry.task[t] \in Record /\ Consistent(t, registry.task[t])
  BY <1>1, Found
<1>3. r \in Record /\ Consistent(t, r) /\ Status(t) # "complete"
  <2>1. /\ r.status = "interrupted" /\ r.token = registry.task[t].token
        /\ r.started = registry.task[t].started /\ r.evidence = registry.task[t].evidence
        /\ r.stop = registry.task[t].stop /\ r.reason = TRUE
    BY <1>2 DEF Record
  <2>2. r \in Record
    BY <1>2, BoundAssumption DEF Record, Token, Active, Terminal
  <2>3. registry.task[t].status = "started"
    BY DEF Interrupt, Status
  <2> HIDE DEF r
  <2>4. Consistent(t, r)
    BY <1>2, <2>1, <2>3 DEF Consistent, Active, Terminal, Begun
  <2> QED
    BY <2>2, <2>3, <2>4 DEF Status
<1>4. r.status \in Active \cup Terminal => \A d \in Deps[t] : Status(d) = "complete"
  BY <1>1, <1>2, Found DEF Interrupt, Active, Terminal, Status
<1>5. t \in Native /\ r.status \in Active => \A u \in Native : Status(u) \in Active => u = t
  BY <1>1, <1>2, Found DEF Interrupt, Active, Terminal, Status
<1>6. /\ told[t] > 0 => r.status \in Begun
      /\ t \in running \cap Native => r.status \in Finishable
  BY <1>1, <1>2, Found DEF Interrupt, Begun, Terminal, Status, Finishable
<1> QED
  BY <1>1, <1>3, <1>4, <1>5, <1>6, PlainCallInv DEF Interrupt, ReturnType, Nothing

\* finish ends a task whose native work has stopped.
LEMMA FinishInv ==
  ASSUME IInv, NEW c \in Caller, NEW t \in Task, NEW status \in Terminal, Finish(c, t, status)
  PROVE  IInv'
<1> DEFINE r == [registry.task[t] EXCEPT !.status = status, !.evidence = TRUE,
                                     !.stop = t \in Native, !.reason = FALSE]
<1>1. TypeOK /\ Files /\ registry.revision > 0
  BY DEF IInv, Finish, Owns
<1>2. registry.task[t] \in Record /\ Consistent(t, registry.task[t])
  BY <1>1, Found
<1>3. r \in Record /\ Consistent(t, r) /\ Status(t) # "complete"
  <2>1. /\ r.status = status /\ r.token = registry.task[t].token
        /\ r.started = registry.task[t].started /\ r.evidence = TRUE
        /\ r.stop = (t \in Native) /\ r.reason = FALSE
    BY <1>2 DEF Record
  <2>2. r \in Record
    <3>1. (t \in Native) \in BOOLEAN /\ status \in {"complete", "failed"}
      BY DEF Terminal
    <3> QED
      BY <1>2, <3>1 DEF Record, Terminal
  <2>3. registry.task[t].status \in {"started", "interrupted"}
    BY DEF Finish, Status, Finishable
  <2> HIDE DEF r
  <2>4. Consistent(t, r)
    BY <1>2, <2>1, <2>3 DEF Consistent, Active, Terminal, Begun
  <2> QED
    BY <2>2, <2>3, <2>4 DEF Status
<1>4. r.status \in Active \cup Terminal => \A d \in Deps[t] : Status(d) = "complete"
  BY <1>1, <1>2, Found DEF Finish, Active, Terminal, Status, Finishable
<1>5. t \in Native /\ r.status \in Active => \A u \in Native : Status(u) \in Active => u = t
  BY <1>1, <1>2, Found DEF Finish, Active, Terminal, Status, Finishable
<1>6. /\ told[t] > 0 => r.status \in Begun
      /\ t \in running \cap Native => r.status \in Finishable
  BY <1>1, <1>2, Found DEF Finish, Begun, Terminal, Status, Finishable
<1> QED
  BY <1>1, <1>3, <1>4, <1>5, <1>6, PlainCallInv DEF Finish, ReturnType, Nothing

\* inspect tells its caller the claims there are.
LEMMA InspectInv ==
  ASSUME IInv, NEW c \in Caller, Inspect(c)
  PROVE  IInv'
<1> DEFINE found == {[task |-> t, token |-> registry.task[t].token] :
                       t \in {u \in Task : Status(u) \in Active}}
<1>1. /\ claims' = [claims EXCEPT ![c] = found]
      /\ UNCHANGED <<registry, disk, pc, snap, given, told, running, faults>>
  BY DEF Inspect, files, call, work
<1>2. found \subseteq ClaimType
  BY DEF IInv, TypeOK, Snapshot, Record, ClaimType
<1> HIDE DEF found
<1>3. TypeOK'
  BY <1>1, <1>2 DEF IInv, TypeOK
<1> QED
  BY <1>1, <1>3 DEF IInv, Files, Good, Valid, Knows, Writes, StartsOnce, Status

\* What a caller leaves a call with keeps the invariant, if the register does.
LEMMA LeaveInv ==
  ASSUME IInv, NEW c \in Caller, Leave(c), UNCHANGED <<files, work>>,
         claims' \in [Caller -> SUBSET ClaimType], faults' \in 0..MaxFaults
  PROVE  IInv'
<1>1. /\ pc' = [pc EXCEPT ![c] = "idle"] /\ snap' = [snap EXCEPT ![c] = NoFile]
      /\ given' = [given EXCEPT ![c] = Nothing]
      /\ UNCHANGED <<registry, disk, told, running>>
  BY DEF Leave, files, work
<1>2. TypeOK'
  BY <1>1, NoFileType DEF IInv, TypeOK, ReturnType
<1>3. ASSUME NEW d \in Caller PROVE Writes(d)'
  <2>1. CASE d = c
    BY <1>1, <2>1 DEF IInv, TypeOK, Writes
  <2>2. CASE d # c
    <3>1. pc'[d] = pc[d] /\ snap'[d] = snap[d] /\ given'[d] = given[d]
      BY <1>1, <2>2 DEF IInv, TypeOK
    <3>2. \A e \in Caller : pc'[e] # "idle" => pc[e] # "idle"
      BY <1>1 DEF IInv, TypeOK
    <3>3. Writes(d)
      BY DEF IInv
    <3> QED
      BY <1>1, <3>1, <3>2, <3>3 DEF Writes, Knows, Status, Valid
  <2> QED
    BY <2>1, <2>2
<1> QED
  BY <1>1, <1>2, <1>3 DEF IInv, Files, Good, Valid, Knows, StartsOnce

\* A refused write changes nothing.
LEMMA RejectInv == ASSUME IInv, NEW c \in Caller, Reject(c) PROVE IInv'
BY LeaveInv DEF Reject, IInv, TypeOK

\* A write that raises leaves one of the snapshots there already were.
LEMMA WriteFailsInv == ASSUME IInv, NEW c \in Caller, WriteFails(c) PROVE IInv'
BY LeaveInv, BoundAssumption DEF WriteFails, Fault, IInv, TypeOK

\* So does a caller that dies.
LEMMA DieInv == ASSUME IInv, NEW c \in Caller, Die(c) PROVE IInv'
<1>1. claims' \in [Caller -> SUBSET ClaimType]
  BY DEF Die, IInv, TypeOK
<1>2. faults' \in 0..MaxFaults
  BY BoundAssumption DEF Die, Fault, IInv, TypeOK
<1> QED
  BY <1>1, <1>2, LeaveInv DEF Die

\* The replacement adds a snapshot that may be left.
LEMMA ReplaceInv ==
  ASSUME IInv, NEW c \in Caller, Replace(c)
  PROVE  IInv'
<1>1. /\ pc[c] = "writing" /\ Valid(snap[c])
      /\ registry' = snap[c] /\ disk' = disk \cup {snap[c]}
      /\ pc' = [pc EXCEPT ![c] = "replaced"]
      /\ UNCHANGED <<snap, given, claims, told, running, faults>>
  BY DEF Replace, work
<1>2. Writes(c) /\ Knows(snap[c])
  BY <1>1 DEF IInv, Writes
<1>3. TypeOK'
  BY <1>1 DEF IInv, TypeOK
<1>4. Files'
  BY <1>1, <1>2 DEF IInv, Files, Good, Valid, Knows
<1>5. ASSUME NEW d \in Caller PROVE Writes(d)'
  <2>1. CASE d = c
    <3>1. pc'[c] = "replaced" /\ \A e \in Caller : pc'[e] # "idle" => e = c
      BY <1>1, <1>2 DEF IInv, TypeOK, Writes
    <3> QED
      BY <1>1, <1>2, <2>1, <3>1 DEF Writes, Knows
  <2>2. CASE d # c
    BY <1>1, <1>2, <2>2 DEF IInv, TypeOK, Writes
  <2> QED
    BY <2>1, <2>2
<1> QED
  BY <1>1, <1>3, <1>4, <1>5 DEF IInv, StartsOnce

\* When the call returns, its snapshot is the only one, and knows of the work
\* that begins behind a start.
LEMMA SyncInv ==
  ASSUME IInv, NEW c \in Caller, Sync(c)
  PROVE  IInv'
<1> DEFINE r == given[c]
<1>1. /\ pc[c] = "replaced" /\ disk' = {registry} /\ UNCHANGED <<registry, faults>>
      /\ pc' = [pc EXCEPT ![c] = "idle"] /\ snap' = [snap EXCEPT ![c] = NoFile]
      /\ given' = [given EXCEPT ![c] = Nothing]
  BY DEF Sync, Synced, Leave
<1>2. r \in ReturnType /\ Writes(c) /\ registry = snap[c]
  BY <1>1 DEF IInv, TypeOK, Writes
<1>3. claims' \in [Caller -> SUBSET ClaimType]
  BY <1>2 DEF Sync, IInv, TypeOK, ReturnType, Nothing, ClaimType
<1>4. \A d \in Caller : pc'[d] = "idle"
  BY <1>1, <1>2 DEF IInv, TypeOK, Writes
<1>5. Good(registry)' /\ Knows(registry)
  BY <1>1 DEF IInv, Files, Good, Valid
<1>6. CASE r.what = "start"
  <2>1. r.task \in Task
    BY <1>2, <1>6 DEF ReturnType, Nothing
  <2>2. told' = [told EXCEPT ![r.task] = @ + 1] /\ running' = running \cup {r.task}
    BY <1>6 DEF Sync
  <2>3. told[r.task] = 0 /\ registry.task[r.task].status = "started"
    BY <1>1, <1>2, <1>6 DEF Writes
  <2> HIDE DEF r
  <2>4. told' \in [Task -> Nat] /\ \A t \in Task : told'[t] = IF t = r.task THEN 1 ELSE told[t]
    BY <2>1, <2>2, <2>3 DEF IInv, TypeOK
  <2>5. Knows(registry)'
    <3> SUFFICES ASSUME NEW t \in Task
                 PROVE  /\ told'[t] > 0 => registry.task[t].status \in Begun
                        /\ t \in running' \cap Native => registry.task[t].status \in Finishable
      BY <1>1 DEF Knows
    <3>1. CASE t = r.task
      BY <2>3, <3>1 DEF Begun, Finishable
    <3>2. CASE t # r.task
      BY <1>5, <2>2, <2>4, <3>2 DEF Knows
    <3> QED
      BY <3>1, <3>2
  <2>6. StartsOnce' /\ \A t \in running' : told'[t] > 0
    BY <2>1, <2>2, <2>4 DEF IInv, TypeOK, StartsOnce
  <2>7. TypeOK'
    BY <1>1, <1>3, <2>1, <2>2, <2>4, NoFileType DEF IInv, TypeOK, ReturnType
  <2> QED
    BY <1>1, <1>4, <1>5, <2>5, <2>6, <2>7 DEF IInv, Files, Writes
<1>7. CASE r.what # "start"
  <2>1. UNCHANGED <<told, running>>
    BY <1>7 DEF Sync, work
  <2>2. TypeOK'
    BY <1>1, <1>3, <2>1, NoFileType DEF IInv, TypeOK, ReturnType
  <2> QED
    BY <1>1, <1>4, <1>5, <2>1, <2>2 DEF IInv, Files, Writes, Knows, StartsOnce
<1> QED
  BY <1>6, <1>7

\* A power loss leaves one of the snapshots.
LEMMA PowerLossInv == ASSUME IInv, PowerLoss PROVE IInv'
<1>1. /\ registry' \in disk /\ disk' = {registry'} /\ running' = {} /\ UNCHANGED told
      /\ pc' = [c \in Caller |-> "idle"] /\ snap' = [c \in Caller |-> NoFile]
      /\ given' = [c \in Caller |-> Nothing] /\ claims' = [c \in Caller |-> {}]
      /\ faults' \in 0..MaxFaults
  BY BoundAssumption DEF PowerLoss, Fault, IInv, TypeOK
<1>2. TypeOK'
  BY <1>1, NoFileType DEF IInv, TypeOK, ReturnType
<1>3. Files'
  BY <1>1 DEF IInv, Files, Good, Valid, Knows
<1> QED
  BY <1>1, <1>2, <1>3 DEF IInv, Writes, StartsOnce

\* Work that ends makes less to know.
LEMMA EndInv == ASSUME IInv, NEW t \in Task, End(t) PROVE IInv'
<1>1. /\ running' \subseteq running
      /\ UNCHANGED <<registry, disk, pc, snap, given, claims, told, faults>>
  BY DEF End, files, call
<1> QED
  BY <1>1 DEF IInv, TypeOK, Files, Good, Valid, Knows, Writes, StartsOnce, Status

\* Every step keeps the invariant.
LEMMA StepInv == IInv /\ [Next]_vars => IInv'
<1> SUFFICES ASSUME IInv, [Next]_vars PROVE IInv'
  OBVIOUS
<1>1. ASSUME NEW c \in Caller, Operate(c) PROVE IInv'
  BY <1>1, InitializeInv, InspectInv, ClaimTaskInv, BlockInv, UnblockInv, StartInv, ReleaseInv,
     InterruptInv, FinishInv
  DEF Operate
<1>2. ASSUME NEW c \in Caller, Write(c) PROVE IInv'
  BY <1>2, RejectInv, ReplaceInv, SyncInv DEF Write
<1>3. CASE UNCHANGED vars
  BY <1>3 DEF vars, files, call, work, IInv, TypeOK, Files, Good, Valid, Knows, Writes,
     StartsOnce,
              Status
<1> QED
  BY <1>1, <1>2, <1>3, WriteFailsInv, DieInv, PowerLossInv, EndInv DEF Next

\* The invariant that the properties rest on: what every snapshot that may be
\* left knows, and what a write in progress carries (_write).
THEOREM Invariance == Spec => []IInv
<1>1. Init => IInv
  BY InitInv
<1>2. IInv /\ [Next]_vars => IInv'
  BY StepInv
<1> QED
  BY <1>1, <1>2, PTL DEF Spec

\* Every variable keeps its type: no history outgrows its bound by more than
\* the event that is refused (_record, _validate_snapshot).
THEOREM Typing == Spec => []TypeOK
<1>1. IInv => TypeOK
  BY DEF IInv
<1> QED
  BY <1>1, Invariance, PTL

\* No operation that its own checks admit is refused by the validation of
\* what it writes, but for a full history (_write, _validate_snapshot).
THEOREM SelfRefusal == Spec => []NoSelfRefusal
<1>1. IInv => NoSelfRefusal
  BY DEF IInv, Writes, NoSelfRefusal
<1> QED
  BY <1>1, Invariance, PTL

\* A start that has returned survives every death, failed write and power
\* loss (start, _write).
THEOREM DurableStart == Spec => []StartsLast
<1>1. IInv => StartsLast
  BY DEF IInv, Files, Knows, StartsLast
<1> QED
  BY <1>1, Invariance, PTL

\* The work of a task begins at most once (start).
THEOREM NeverReplayed == Spec => []StartsOnce
<1>1. IInv => StartsOnce
  BY DEF IInv
<1> QED
  BY <1>1, Invariance, PTL

\* What the register promises depends on its files and on the work only.
LEMMA SameOrder == UNCHANGED <<files, work>> => UNCHANGED Order!vars
BY DEF files, work, Order!vars, begun, complete

\* Completions last, and no native work goes on that is newly complete, when
\* snapshots become fewer.
LEMMA FewerSnapshots ==
  ASSUME Files, disk' \subseteq disk, registry' \in disk'
  PROVE  Order!Settle /\ complete \subseteq complete' /\ complete' \subseteq Task
<1>1. complete \subseteq complete' /\ complete' \subseteq Task
  BY DEF complete
<1>2. ASSUME NEW t \in complete', t \in running \cap Native PROVE FALSE
  <2>1. t \in Task /\ registry'.task[t].status = "complete" /\ Knows(registry')
    BY <1>2 DEF complete, Files
  <2> QED
    BY <1>2, <2>1 DEF Knows, Finishable
<1> QED
  BY <1>1, <1>2 DEF Order!Settle

\* The replacement takes no completion away, and makes none durable.
LEMMA ReplaceOrder ==
  ASSUME IInv, NEW c \in Caller, Replace(c)
  PROVE  UNCHANGED Order!vars
<1>1. /\ disk' = disk \cup {snap[c]} /\ registry \in disk /\ UNCHANGED <<told, running>>
      /\ \A t \in Task : Status(t) = "complete" => snap[c].task[t].status = "complete"
  BY DEF Replace, work, IInv, Files, Writes
<1>2. complete' = complete
  BY <1>1 DEF complete, Status
<1> QED
  BY <1>1, <1>2 DEF Order!vars, begun

\* A call that returns lets the work of a start begin: the first time, behind
\* complete dependencies, and while no other native work goes on.
LEMMA SyncOrder ==
  ASSUME IInv, NEW c \in Caller, Sync(c)
  PROVE  Order!Next
<1> DEFINE r == given[c]
<1>1. /\ pc[c] = "replaced" /\ disk' = {registry} /\ registry' = registry
      /\ r \in ReturnType /\ registry = snap[c] /\ Writes(c)
  BY DEF Sync, Synced, IInv, TypeOK, Writes
<1>2. Files /\ TypeOK
  BY DEF IInv
<1>3. Order!Settle
  BY <1>1, <1>2, FewerSnapshots DEF Files
<1>4. CASE r.what = "start"
  <2>1. r.task \in Task
    BY <1>1, <1>4 DEF ReturnType, Nothing
  <2>2. told' = [told EXCEPT ![r.task] = @ + 1] /\ running' = running \cup {r.task}
    BY <1>4 DEF Sync
  <2>3. told[r.task] = 0 /\ registry.task[r.task].status = "started"
    BY <1>1, <1>4 DEF Writes
  <2>4. Valid(registry) /\ Knows(registry)
    BY <1>2, <2>1, <2>3 DEF Files, Good, NoFile, Fresh
  <2> HIDE DEF r
  <2>5. r.task \notin begun /\ begun' = begun \cup {r.task}
    BY <1>2, <2>1, <2>2, <2>3 DEF begun, TypeOK
  <2>6. Deps[r.task] \subseteq complete'
    BY <1>1, <2>1, <2>3, <2>4, InventoryAssumption DEF Valid, DependenciesMet, complete, Active
  <2>7. ASSUME r.task \in Native, NEW u \in running \cap Native PROVE FALSE
    <3>1. u \in Task /\ registry.task[u].status \in Active /\ told[u] > 0
      BY <1>2, <2>4, <2>7 DEF Knows, Finishable, Active, TypeOK, IInv
    <3>2. u = r.task
      BY <2>3, <2>4, <2>7, <3>1 DEF Valid, Active
    <3> QED
      BY <2>3, <3>1, <3>2
  <2>8. Order!Begin(r.task)
    BY <1>3, <2>1, <2>2, <2>5, <2>6, <2>7 DEF Order!Begin
  <2> QED
    BY <2>1, <2>8 DEF Order!Next
<1>5. CASE r.what # "start"
  BY <1>3, <1>5 DEF Sync, work, begun, Order!Next
<1> QED
  BY <1>4, <1>5

\* A power loss is one in both.
LEMMA PowerLossOrder == ASSUME IInv, PowerLoss PROVE Order!Next
<1>1. /\ registry' \in disk /\ disk' = {registry'} /\ running' = {} /\ UNCHANGED told
      /\ Files
  BY DEF PowerLoss, IInv
<1>2. complete \subseteq complete' /\ complete' \subseteq Task
  BY <1>1, FewerSnapshots
<1> QED
  BY <1>1, <1>2 DEF Order!Next, Order!PowerLoss, begun

\* So is the end of work.
LEMMA EndOrder == ASSUME NEW t \in Task, End(t) PROVE Order!Next
BY DEF End, files, Order!Next, Order!End, begun, complete

\* Every step is one of WorkOrder or changes nothing there.
LEMMA StepOrder == IInv /\ [Next]_vars => [Order!Next]_(Order!vars)
<1> SUFFICES ASSUME IInv, [Next]_vars PROVE Order!Next \/ UNCHANGED Order!vars
  OBVIOUS
<1>1. ASSUME NEW c \in Caller, Operate(c) PROVE UNCHANGED <<files, work>>
  BY <1>1
  DEF Operate, Initialize, Inspect, ClaimTask, Block, Unblock, Start, Release, Interrupt, Finish,
      Call
<1>2. ASSUME NEW c \in Caller, Reject(c) \/ WriteFails(c) \/ Die(c)
      PROVE  UNCHANGED <<files, work>>
  BY <1>2 DEF Reject, WriteFails, Die
<1>3. CASE UNCHANGED vars
  BY <1>3, SameOrder DEF vars
<1> QED
  BY <1>1, <1>2, <1>3, SameOrder, ReplaceOrder, SyncOrder, PowerLossOrder, EndOrder
  DEF Next, Write

\* The register keeps the promise of WorkOrder: work begins once, behind
\* dependencies that are complete for good, native work one task at a time
\* (claim, start, finish).
THEOREM Refinement == Spec => Promise
<1>1. Init => Order!Init
  BY DEF Init, NoFile, Fresh, Order!Init, begun, complete
<1>2. IInv /\ [Next]_vars => [Order!Next]_(Order!vars)
  BY StepOrder
<1> QED
  BY <1>1, <1>2, Invariance, PTL DEF Spec, Promise, Order!Spec
==============================================================================
