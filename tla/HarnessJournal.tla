--------------------------- MODULE HarnessJournal ---------------------------
(***************************************************************************)
(* The durable attempt journal, agent_braid/harness_journal: one file per  *)
(* record, chained within an attempt, written by processes that hold a     *)
(* lock they do not wait for and read by others that hold none.  A process *)
(* may be killed, or a call of the file system fail, between any two       *)
(* steps, and a power loss takes back the newest names that no sync of the *)
(* directory covers.  Calls refused for their arguments change nothing and *)
(* are no action here.                                                     *)
(***************************************************************************)
EXTENDS Naturals, Sequences, FiniteSets

CONSTANTS Process,         \* callers of the journal
          Attempt,         \* attempt ids they use
          Reservation,     \* admissions they hold
          Manifest,        \* manifests they present
          Outcome,         \* terminal states of a fixture
          Granted,         \* reservation -> the manifest it admits
          Expires,         \* reservation -> first time it is no longer valid
          Budget,          \* reservation -> records its attempt may find the journal to hold
          MaxCheckpoints,  \* MAX_CHECKPOINTS
          MaxAttempts,     \* MAX_ATTEMPTS
          MaxTime,         \* bound on the clocks of the callers
          MaxCalls,        \* bound on the calls
          MaxFaults,       \* bound on kills, failed system calls and power losses
          None

ASSUME ReservationAssumption ==
  /\ Granted \in [Reservation -> Manifest]
  /\ Expires \in [Reservation -> Nat] /\ Budget \in [Reservation -> Nat]
ASSUME BoundAssumption ==
  /\ MaxCheckpoints \in Nat /\ MaxAttempts \in Nat /\ MaxTime \in Nat
  /\ MaxCalls \in Nat /\ MaxFaults \in Nat

VARIABLES
  dir,        \* the record published under each name
  unsynced,   \* names published since the directory was last synced, in order
  temps,      \* temporary files left in the directory
  lock,       \* the process that holds .lock
  stage,      \* where each process stands
  job,        \* the call it makes
  base,       \* the names an inspection is sure to see
  answer,     \* how the call ended that ended last, if nothing came after
  dispatches, \* history: how often a fixture was dispatched under a reservation
  ran,        \* history: how the fixtures of each attempt ended
  calls, faults

files == <<dir, unsynced, temps>>
history == <<dispatches, ran>>
bounds == <<calls, faults>>
vars == <<files, lock, stage, job, base, answer, history, bounds>>

\* The files of an attempt: start, cp01 ... and end.
StartSlot == 0
EndSlot == MaxCheckpoints + 1
Slot == StartSlot..EndSlot
Name == Attempt \X Slot
\* Mutant: the lock file is not counted.
RecordsOnly == MaxAttempts * (MaxCheckpoints + 2)
MaxEntries == 1 + MaxAttempts * (MaxCheckpoints + 2)

\* What a record says: a start its reservation, an end its state.  The hash
\* of the record before it is that record's place in the chain.
Says == Reservation \cup Outcome \cup {"checkpoint", "reconciled"}
Record == [manifest : Manifest, at : 0..MaxTime, prev : Slot \cup {None}, says : Says]

Op == {"begin", "checkpoint", "finish", "reconcile", "inspect"}
Job == [op : Op, run : BOOLEAN, attempt : Attempt, manifest : Manifest, now : 0..MaxTime,
        reservation : Reservation \cup {None}, outcome : Outcome \cup {None},
        slot : Slot, record : Record \cup {None}]
Stage == {"idle", "enter", "decide", "publish", "sync", "dispatch", "running", "scan"}

\* A status, or the reason of a refusal.
Refusal == {"busy", "refused", "corrupt", "exhausted"}
Status == {"started", "checkpointed", "reconciled"} \cup Outcome
Answer == [op : Op, attempt : Attempt, says : Status \cup Refusal,
           from : SUBSET Slot, seen : SUBSET Slot, raced : BOOLEAN]

ASSUME NoneAssumption ==
  /\ None \notin Process /\ None \notin Reservation /\ None \notin Record
  /\ None \notin Outcome \cup {"reconciled"}
ASSUME OutcomeAssumption ==
  Outcome \cap (Refusal \cup {"started", "checkpointed", "reconciled"}) = {}

TypeOK ==
  /\ dir \in [Name -> Record \cup {None}]
  /\ unsynced \in Seq(Name) /\ temps \in 0..1
  /\ lock \in Process \cup {None}
  /\ stage \in [Process -> Stage]
  /\ job \in [Process -> Job \cup {None}]
  /\ base \in [Process -> SUBSET Name]
  /\ answer \in Answer \cup {None}
  /\ dispatches \in [Reservation -> Nat] /\ ran \in [Attempt -> SUBSET Outcome]
  /\ calls \in 0..MaxCalls /\ faults \in 0..MaxFaults

Init ==
  /\ dir = [n \in Name |-> None] /\ unsynced = <<>> /\ temps = 0
  /\ lock = None
  /\ stage = [p \in Process |-> "idle"]
  /\ job = [p \in Process |-> None]
  /\ base = [p \in Process |-> {}]
  /\ answer = None
  /\ dispatches = [r \in Reservation |-> 0] /\ ran = [a \in Attempt |-> {}]
  /\ calls = 0 /\ faults = 0

-----------------------------------------------------------------------------
(* Reading the journal.                                                    *)

Written == {n \in Name : dir[n] # None}
Slots(S, a) == {s \in Slot : <<a, s>> \in S}
Begun(S) == {a \in Attempt : Slots(S, a) # {}}
IsLast(s, slots) == s \in slots /\ \A t \in slots : t <= s

\* Mutant: the chain is not followed.
Present(S, a, s) == s = EndSlot \/ s - 1 \in Slots(S, a)
\* The record before s, among those that were found.
Follows(S, a, s) ==
  LET q == dir[<<a, s>>].prev
  IN  /\ q \in Slots(S, a) /\ q < s
      /\ \A t \in Slots(S, a) : ~(q < t /\ t < s)
      /\ s # EndSlot => q + 1 = s
      /\ dir[<<a, s>>].manifest = dir[<<a, StartSlot>>].manifest
      /\ dir[<<a, s>>].at >= dir[<<a, q>>].at

Whole(S, a) ==
  /\ StartSlot \in Slots(S, a)
  /\ \A s \in Slots(S, a) \ {StartSlot} : Follows(S, a, s)

InBudget(S, t) == 1 + Cardinality(S) + t <= MaxEntries /\ Cardinality(Begun(S)) <= MaxAttempts
Sound(S) == \A a \in Begun(S) : Whole(S, a)

\* _load refuses an irregular journal; it repairs nothing.
Loads(S, t) == InBudget(S, t) /\ Sound(S)
LoadRefusal(S, t) == IF InBudget(S, t) THEN "corrupt" ELSE "exhausted"

Ended(S, a) == EndSlot \in Slots(S, a)
StatusOf(S, a) ==
  CASE Ended(S, a) -> dir[<<a, EndSlot>>].says
    [] ~Ended(S, a) /\ Slots(S, a) = {StartSlot} -> "started"
    [] OTHER -> "checkpointed"

\* _bound: the attempt exists, with this manifest, and time has not gone back.
BoundTo(S, j) ==
  LET slots == Slots(S, j.attempt)
  IN  /\ StartSlot \in slots
      /\ dir[<<j.attempt, StartSlot>>].manifest = j.manifest
      /\ \A s \in slots : IsLast(s, slots) => j.now >= dir[<<j.attempt, s>>].at

-----------------------------------------------------------------------------
(* Calls and their ends.                                                   *)

NewJob(op, run, a, m, now, r) ==
  [op |-> op, run |-> run, attempt |-> a, manifest |-> m, now |-> now, reservation |-> r,
   outcome |-> None, slot |-> StartSlot, record |-> None]

Call(p, j, at) ==
  /\ stage[p] = "idle" /\ calls < MaxCalls
  /\ job' = [job EXCEPT ![p] = j]
  /\ stage' = [stage EXCEPT ![p] = at]
  /\ answer' = None
  /\ calls' = calls + 1
  /\ UNCHANGED <<files, lock, history, faults>>

\* run_journaled: begin, checkpoint, dispatch and finish, at one time.
RunJournaled(p, a, r, m, now) ==
  /\ Granted[r] = m /\ now < Expires[r]
  /\ Call(p, NewJob("begin", TRUE, a, m, now, r), "enter")
  /\ UNCHANGED base

Checkpoint(p, a, m, now) ==
  Call(p, NewJob("checkpoint", FALSE, a, m, now, None), "enter") /\ UNCHANGED base

Reconcile(p, a, m, now) ==
  Call(p, NewJob("reconcile", FALSE, a, m, now, None), "enter") /\ UNCHANGED base

\* inspect_attempt takes no lock: what is published from here on it may see or not.
Inspect(p, a, m, now) ==
  /\ Call(p, NewJob("inspect", FALSE, a, m, now, None), "scan")
  /\ base' = [base EXCEPT ![p] = Written]

\* The answer says, of the names S, when at least those in from had to be seen.
Tell(p, says, from, S) ==
  answer' = [op |-> job[p].op, attempt |-> job[p].attempt, says |-> says,
             from |-> Slots(from, job[p].attempt), seen |-> Slots(S, job[p].attempt),
             raced |-> from # Written]

Release(p) == lock' = IF lock = p THEN None ELSE lock

\* A call ends, and with it the process's work.
Return(p, says, from, S) ==
  /\ Tell(p, says, from, S)
  /\ stage' = [stage EXCEPT ![p] = "idle"]
  /\ job' = [job EXCEPT ![p] = None]
  /\ base' = [base EXCEPT ![p] = {}]
  /\ Release(p)

\* A refusal is an exception: it ends run_journaled too.
Refuse(p, says) == Return(p, says, Written, Written)

Enter(p) ==
  /\ stage[p] = "enter"
  /\ \/ /\ lock = None
        /\ lock' = p
        /\ stage' = [stage EXCEPT ![p] = "decide"]
        /\ UNCHANGED <<job, base>> /\ answer' = None
     \/ /\ lock # None
        /\ Refuse(p, "busy")
  /\ UNCHANGED <<files, history, bounds>>

-----------------------------------------------------------------------------
(* Writing a record, with the lock held.                                   *)

\* Mutant: a reservation may be used again once its attempt has ended.
UnusedByOpen(r) == \A a \in Begun(Written) : Ended(Written, a) \/ dir[<<a, StartSlot>>].says # r
Unused(r) == \A a \in Begun(Written) : dir[<<a, StartSlot>>].says # r

\* Mutant: an attempt that has not ended is no obstacle.
BeginBeside(j) == j.attempt \notin Begun(Written) /\ Unused(j.reservation)
BeginChecks(j) ==
  /\ j.attempt \notin Begun(Written)
  /\ \A a \in Begun(Written) : Ended(Written, a)
  /\ Unused(j.reservation)
  /\ \A a \in Begun(Written) : \A s \in Slot :
       IsLast(s, Slots(Written, a)) => j.now >= dir[<<a, s>>].at

\* The record a call would publish: its slot, the one before it, what it says.
Draft(slot, last, says) == [slot |-> slot, last |-> last, says |-> says]

\* Mutants: the end of a run lacks its state; a reconciled attempt gets one.
NextDraftUnset(j, last) ==
  CASE j.op = "checkpoint" -> Draft(last + 1, last, "checkpoint")
    [] j.op = "finish" -> Draft(EndSlot, last, None)
    [] j.op = "reconcile" -> Draft(EndSlot, last, "reconciled")
NextDraftUpgraded(j, last) ==
  CASE j.op = "checkpoint" -> Draft(last + 1, last, "checkpoint")
    [] j.op = "finish" -> Draft(EndSlot, last, j.outcome)
    [] j.op = "reconcile" -> Draft(EndSlot, last, CHOOSE o \in Outcome : TRUE)
NextDraft(j, last) ==
  CASE j.op = "checkpoint" -> Draft(last + 1, last, "checkpoint")
    [] j.op = "finish" -> Draft(EndSlot, last, j.outcome)
    [] j.op = "reconcile" -> Draft(EndSlot, last, "reconciled")

Drafts(j) ==
  IF j.op = "begin"
  THEN {d \in {Draft(StartSlot, None, j.reservation)} : BeginChecks(j)}
  ELSE {NextDraft(j, last) : last \in
         {s \in Slots(Written, j.attempt) :
            /\ BoundTo(Written, j) /\ ~Ended(Written, j.attempt)
            /\ IsLast(s, Slots(Written, j.attempt))
            /\ j.op = "checkpoint" => s < MaxCheckpoints}}

\* _append: all records of the journal count against this attempt's budget.
Fits(j) ==
  LET r == IF j.op = "begin" THEN j.reservation ELSE dir[<<j.attempt, StartSlot>>].says
  IN  Cardinality(Written) + 1 <= Budget[r]

Known(j) == j.op = "reconcile" /\ BoundTo(Written, j) /\ Ended(Written, j.attempt)

\* Why a call is turned away under the lock, or nothing.
Objection(j) ==
  IF ~Loads(Written, temps) THEN LoadRefusal(Written, temps)
  ELSE IF Drafts(j) = {} THEN "refused"
  ELSE IF ~Fits(j) THEN "exhausted" ELSE "none"

\* The checks, then the sweep and a temporary file, whole and synced.
Decide(p) ==
  LET j == job[p]
      known == Loads(Written, temps) /\ Known(j)
  IN  /\ stage[p] = "decide"
      /\ \/ /\ known
            /\ Return(p, StatusOf(Written, j.attempt), Written, Written)
            /\ UNCHANGED temps
         \/ /\ ~known /\ Objection(j) # "none"
            /\ Refuse(p, Objection(j))
            /\ UNCHANGED temps
         \/ /\ ~known /\ Objection(j) = "none"
            /\ \E d \in Drafts(j) :
                 /\ dir[<<j.attempt, d.slot>>] = None
                 /\ job' = [job EXCEPT ![p].slot = d.slot,
                              ![p].record = [manifest |-> j.manifest, at |-> j.now,
                                             prev |-> d.last, says |-> d.says]]
            /\ temps' = 1
            /\ stage' = [stage EXCEPT ![p] = "publish"]
            /\ UNCHANGED <<lock, base>> /\ answer' = None
      /\ UNCHANGED <<dir, unsynced, history, bounds>>

Publish(p) ==
  LET name == <<job[p].attempt, job[p].slot>>
  IN  /\ stage[p] = "publish"
      /\ dir' = [dir EXCEPT ![name] = job[p].record]
      /\ unsynced' = Append(unsynced, name)
      /\ temps' = 0
      /\ stage' = [stage EXCEPT ![p] = "sync"]
      /\ answer' = None
      /\ UNCHANGED <<lock, job, base, history, bounds>>

\* The directory is synced and the call returns; a run goes on with its next.
Sync(p) ==
  LET j == job[p]
  IN  /\ stage[p] = "sync"
      /\ unsynced' = <<>>
      /\ \/ /\ j.run /\ j.op # "finish"
            /\ lock' = None
            /\ job' = [job EXCEPT ![p].op = "checkpoint", ![p].record = None]
            /\ stage' = [stage EXCEPT ![p] = IF j.op = "begin" THEN "enter" ELSE "dispatch"]
            /\ UNCHANGED base /\ answer' = None
         \/ /\ ~j.run \/ j.op = "finish"
            /\ Return(p, StatusOf(Written, j.attempt), Written, Written)
      /\ UNCHANGED <<dir, temps, history, bounds>>

\* run_fixture: the fixture starts, runs without the lock, and is observed to end.
Dispatch(p) ==
  /\ stage[p] = "dispatch"
  /\ dispatches' = [dispatches EXCEPT ![job[p].reservation] = @ + 1]
  /\ stage' = [stage EXCEPT ![p] = "running"]
  /\ answer' = None
  /\ UNCHANGED <<files, lock, job, base, ran, bounds>>

FixtureEnds(p, o) ==
  /\ stage[p] = "running"
  /\ ran' = [ran EXCEPT ![job[p].attempt] = @ \cup {o}]
  /\ job' = [job EXCEPT ![p].op = "finish", ![p].outcome = o]
  /\ stage' = [stage EXCEPT ![p] = "enter"]
  /\ answer' = None
  /\ UNCHANGED <<files, lock, base, dispatches, bounds>>

-----------------------------------------------------------------------------
(* Reading without the lock, and faults.                                   *)

\* The scan finds what was there when it began and any of what came since, a
\* temporary file that has become a record included.
Scan(p) ==
  LET j == job[p]
  IN  /\ stage[p] = "scan"
      /\ \E S \in SUBSET Written, t \in {temps} \cup (IF Written = base[p] THEN {} ELSE {1}) :
           /\ base[p] \subseteq S
           /\ Return(p, IF ~Loads(S, t) THEN LoadRefusal(S, t)
                        ELSE IF ~BoundTo(S, j) THEN "refused" ELSE StatusOf(S, j.attempt),
                     base[p], S)
      /\ UNCHANGED <<files, history, bounds>>

\* A process is killed, or a system call or the runner fails under it.
Stop(p) ==
  /\ stage[p] # "idle" /\ faults < MaxFaults
  /\ faults' = faults + 1
  /\ stage' = [stage EXCEPT ![p] = "idle"]
  /\ job' = [job EXCEPT ![p] = None]
  /\ base' = [base EXCEPT ![p] = {}]
  /\ Release(p)
  /\ answer' = None
  /\ UNCHANGED <<files, history, calls>>

\* The file system brings back a directory in which the last names are missing.
PowerLoss ==
  /\ faults < MaxFaults
  /\ faults' = faults + 1
  /\ \E k \in 0..Len(unsynced) :
       dir' = [n \in Name |->
                IF \E i \in (k + 1)..Len(unsynced) : unsynced[i] = n THEN None ELSE dir[n]]
  /\ unsynced' = <<>>
  /\ temps' \in 0..temps
  /\ lock' = None
  /\ stage' = [p \in Process |-> "idle"]
  /\ job' = [p \in Process |-> None]
  /\ base' = [p \in Process |-> {}]
  /\ answer' = None
  /\ UNCHANGED <<history, calls>>

Next ==
  \/ \E p \in Process :
       \/ \E a \in Attempt, m \in Manifest, now \in 0..MaxTime :
            \/ \E r \in Reservation : RunJournaled(p, a, r, m, now)
            \/ Checkpoint(p, a, m, now)
            \/ Reconcile(p, a, m, now)
            \/ Inspect(p, a, m, now)
       \/ Enter(p) \/ Decide(p) \/ Publish(p) \/ Sync(p)
       \/ Dispatch(p) \/ (\E o \in Outcome : FixtureEnds(p, o))
       \/ Scan(p) \/ Stop(p)
  \/ PowerLoss

Spec == Init /\ [][Next]_vars

-----------------------------------------------------------------------------
(* Properties.                                                             *)

\* Whoever holds the lock next can read the journal: no sequence of calls,
\* kills and power losses leaves one that _load refuses for ever.
Readable == Loads(Written, temps)

\* A fixture is dispatched at most once under a reservation, and what spent
\* the reservation stays in the journal whatever crashes.
OneDispatch ==
  \A r \in Reservation : dispatches[r] > 0 =>
    dispatches[r] = 1 /\ \E a \in Begun(Written) : dir[<<a, StartSlot>>].says = r

\* A recorded outcome is one the attempt's own fixture really had.
NeverUpgraded ==
  \A a \in Attempt : Ended(Written, a) /\ dir[<<a, EndSlot>>].says # "reconciled" =>
    dir[<<a, EndSlot>>].says \in ran[a]

\* A status says what was true of the attempt at some moment of the call,
\* even when the directory was read while records were published.
HonestStatus ==
  answer # None /\ answer.says \in Status =>
    LET slots == Slots(Written, answer.attempt)
    IN  /\ answer.from \subseteq answer.seen /\ answer.seen \subseteq slots
        /\ \A s \in answer.seen, t \in slots \ answer.seen : s < t
        /\ answer.says = StatusOf({answer.attempt} \X answer.seen, answer.attempt)

\* A journal is called corrupt or full only by an inspection that raced with
\* a publication.
NoFalseAlarm ==
  answer # None /\ answer.says \in {"corrupt", "exhausted"} =>
    answer.op = "inspect" /\ answer.raced

\* An attempt without an end can be reconciled by whoever finds the lock free.
Reconcilable ==
  lock = None => \A a \in Begun(Written) : Ended(Written, a) \/
    LET j == NewJob("reconcile", FALSE, a, dir[<<a, StartSlot>>].manifest, MaxTime, None)
    IN  Loads(Written, temps) /\ Drafts(j) # {} /\ Fits(j)

\* The journal keeps the promise of AttemptLog.
Safe == {n \in Written : \A i \in 1..Len(unsynced) : unsynced[i] # n}
EntryOf(S, a) ==
  LET slots == Slots(S, a)
  IN  [start |-> IF StartSlot \in slots THEN dir[<<a, StartSlot>>].says ELSE None,
       marks |-> Cardinality(slots \ {StartSlot, EndSlot}),
       end |-> IF EndSlot \in slots THEN dir[<<a, EndSlot>>].says ELSE None]
Abstract == INSTANCE AttemptLog WITH
  Verdict <- Outcome \cup {"reconciled"},
  log <- [a \in Attempt |-> EntryOf(Written, a)],
  safe <- [a \in Attempt |-> EntryOf(Safe, a)]
Promise == Abstract!Spec

-----------------------------------------------------------------------------
(* The inductive invariant.                                                *)

\* A record is of the kind its name says.
Fitting(s, rec) ==
  /\ s = StartSlot => rec.says \in Reservation
  /\ s = EndSlot => rec.says \in Outcome \cup {"reconciled"}
Typed == \A n \in Name : dir[n] # None => Fitting(n[2], dir[n])

\* A process's call goes with its stage, and the lock with three of these.
Locking == {"decide", "publish", "sync"}
Employed(p) ==
  LET j == job[p]
  IN  /\ lock = p <=> stage[p] \in Locking
      /\ stage[p] # "idle" =>
           /\ j \in Job /\ (j.op = "inspect" <=> stage[p] = "scan")
           /\ j.run => j.reservation \in Reservation /\ j.op \in {"begin", "checkpoint", "finish"}
           /\ j.op \in {"begin", "finish"} => j.run
           /\ j.op = "finish" => j.outcome \in ran[j.attempt]
           /\ stage[p] \in {"dispatch", "running"} => j.run /\ j.op = "checkpoint"
      /\ base[p] \subseteq Written

\* What is about to be published still fits the journal.
Appends(j) ==
  LET a == j.attempt  slots == Slots(Written, j.attempt)
  IN  /\ dir[<<a, j.slot>>] = None /\ j.record \in Record /\ Fitting(j.slot, j.record)
      /\ j.op = "begin" =>
           /\ j.slot = StartSlot /\ j.record.says = j.reservation
           /\ slots = {} /\ Unused(j.reservation)
           /\ \A b \in Begun(Written) : Ended(Written, b)
      /\ j.op # "begin" =>
           /\ j.slot # StartSlot /\ ~Ended(Written, a)
           /\ \E last \in slots :
                /\ IsLast(last, slots) /\ j.record.prev = last /\ last < j.slot
                /\ j.slot # EndSlot => j.slot = last + 1
                /\ j.record.at >= dir[<<a, last>>].at
           /\ j.record.manifest = dir[<<a, StartSlot>>].manifest
      /\ j.slot = EndSlot => j.record.says \in ran[a] \cup {"reconciled"}
Ready == \A p \in Process : stage[p] = "publish" => Appends(job[p])

\* Names are published, and so may be lost, in the order of their attempt.
Ordered(u, W) ==
  /\ \A i \in 1..Len(u) : u[i] \in W
  /\ \A i, k \in 1..Len(u) : u[i] = u[k] => i = k
  /\ \A i \in 1..Len(u), a \in Attempt, q, s \in Slot :
       u[i] = <<a, q>> /\ q < s /\ <<a, s>> \in W => \E k \in (i + 1)..Len(u) : u[k] = <<a, s>>
InOrder == Ordered(unsynced, Written)
Safely(n) == n \in Written /\ \A i \in 1..Len(unsynced) : unsynced[i] # n

\* A run owns its attempt from the publication of its start, which no power
\* loss takes back once it has returned.
Owns(p) == stage[p] # "idle" /\ job[p].run /\ (job[p].op # "begin" \/ stage[p] = "sync")
Fresh(p) == Owns(p) /\ job[p].op # "finish" /\ stage[p] # "running"
Owned(p) ==
  LET j == job[p]  n == <<j.attempt, StartSlot>>
  IN  Owns(p) =>
        /\ n \in Written /\ dir[n].says = j.reservation
        /\ j.op # "begin" => Safely(n)
        /\ Fresh(p) => dispatches[j.reservation] = 0
        /\ \A q \in Process : Owns(q) /\ q # p => job[q].attempt # j.attempt
Spent ==
  /\ \A a, b \in Attempt : a \in Begun(Written) /\ b \in Begun(Written) /\
       dir[<<a, StartSlot>>].says = dir[<<b, StartSlot>>].says => a = b
  /\ \A r \in Reservation : dispatches[r] > 0 =>
       /\ dispatches[r] = 1
       /\ \E a \in Attempt : Safely(<<a, StartSlot>>) /\ dir[<<a, StartSlot>>].says = r
       /\ \A a \in Attempt : a \in Begun(Written) /\ dir[<<a, StartSlot>>].says = r => Safely(<<a, StartSlot>>)

\* Room for the one record that a temporary file may become.
Spare == temps = 1 => \E n \in Name : dir[n] = None

IInv ==
  /\ TypeOK /\ Typed /\ Sound(Written) /\ Ready /\ InOrder /\ Spent /\ Spare
  /\ \A p \in Process : Employed(p) /\ Owned(p)
  /\ NeverUpgraded /\ HonestStatus
=============================================================================
