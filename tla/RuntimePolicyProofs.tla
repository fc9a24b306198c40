------------------------- MODULE RuntimePolicyProofs -------------------------
(***************************************************************************)
(* Theorems about RuntimePolicy, for every number of callers, grants,      *)
(* plans, operations and faults, and for a clock that moves either way.    *)
(***************************************************************************)
EXTENDS RuntimePolicy, FiniteSetTheorems, TLAPS

\* Initially the invariant holds.
LEMMA InitInv == Init => IInv
<1> SUFFICES ASSUME Init PROVE IInv
  OBVIOUS
<1> USE SizeAssumption, PlanAssumption, GrantedAssumption, FaultsAssumption
<1>1. TypeOK
  BY DEF Init, TypeOK, Run!Init, Run!TypeOK, Labels, Answers
<1>2. StoreExclusive /\ RunExclusive /\ JournalFirst /\ \A c \in Caller : CallInv(c)
  BY DEF Init, StoreExclusive, OwnsStore, RunExclusive, OwnsRun, JournalFirst, CallInv
<1>3. Ledger
  BY DEF Init, Ledger, NoGrant
<1>4. Capacity
  <2>1. Records = {}
    BY DEF Init, Records
  <2> QED
    BY <2>1, FS_EmptySet DEF Capacity
<1> QED
  BY <1>1, <1>2, <1>3, <1>4 DEF IInv, Init

-----------------------------------------------------------------------------
(* The parts of the invariant that most actions leave alone.               *)

\* The owner of the store is the only one.
LEMMA Alone ==
  ASSUME StoreExclusive, NEW c \in Caller, OwnsStore(c), NEW d \in Caller, d # c
  PROVE  ~OwnsStore(d)
BY DEF StoreExclusive

\* As long as the same identifiers have a record, their number is the same.
LEMMA SameRecords ==
  ASSUME Capacity, \A g \in Grant : grant'[g] = NoGrant <=> grant[g] = NoGrant
  PROVE  Capacity'
<1>1. Records' = Records
  BY DEF Records
<1> QED
  BY <1>1 DEF Capacity

\* What is claimed of a caller that does not own the store is only that a
\* run it looks at exists.
LEMMA Bystander ==
  ASSUME NEW d \in Caller, ~OwnsStore(d), CallInv(d), pc'[d] = pc[d],
         life # "absent" => life' # "absent"
  PROVE  CallInv(d)'
BY DEF CallInv, OwnsStore, OwnsRun

\* The record a dispatch works with is a full record once its job is typed.
LEMMA JobRecord ==
  ASSUME TypeOK, NEW c \in Caller, job[c] \in JobType
  PROVE  /\ job[c].grant \in Grant /\ job[c].plan \in Plan
         /\ grant[job[c].grant] \in GrantRecord \cup {NoGrant}
BY DEF TypeOK, JobType

\* The fields of the record of an identifier that has one.
LEMMA RecordFields ==
  ASSUME NEW r \in GrantRecord \cup {NoGrant}, r.state # "none"
  PROVE  r \in GrantRecord
BY DEF NoGrant

\* A step of the store's owner c preserves the invariant when it does so for
\* c and for the parts that are not about callers.
LEMMA Assemble ==
  ASSUME IInv, NEW c \in Caller, OwnsStore(c),
         \A d \in Caller \ {c} : pc'[d] = pc[d],
         life # "absent" => life' # "absent",
         life' = "absent" => orphan' = "none",
         TypeOK', Ledger', RunExclusive', Capacity', CallInv(c)',
         /\ pc'[c] \in {"start", "drive"}
         /\ job'[c].action = "execute" /\ job'[c].plan \in Parallel
         => job'[c].plan \in journal'
  PROVE  IInv'
<1>1. \A d \in Caller \ {c} : ~OwnsStore(d) /\ ~OwnsStore(d)' /\ CallInv(d)'
  BY Alone, Bystander DEF IInv, OwnsStore
<1>2. StoreExclusive'
  BY <1>1 DEF StoreExclusive
<1>3. JournalFirst'
  BY <1>1 DEF JournalFirst, OwnsStore
<1> QED
  BY <1>1, <1>2, <1>3 DEF IInv

\* A call that ends, having left the run and the store consistent.
LEMMA LeaveInv ==
  ASSUME IInv, NEW c \in Caller, pc[c] # "idle",
         NEW what \in Answers, Leave(c, what),
         UNCHANGED <<journal, run>>,
         grant' \in [Grant -> GrantRecord \cup {NoGrant}], clock' \in 0..MaxTime,
         faults' \in 0..MaxFaults, started' \in [Grant -> Nat],
         Ledger', Capacity',
         orphan' = orphan \/ ((RunFree \/ OwnsRun(c)) /\ orphan' \in {"none", "reader", "writer"}),
         life = "absent" => orphan' = orphan,
         \A d \in Caller \ {c} : pc[d] = "report" => orphan' # "writer",
         \A d \in Caller \ {c} : OwnsStore(d) => grant' = grant
  PROVE  IInv'
<1>1. /\ \A d \in Caller \ {c} : pc'[d] = pc[d] /\ job'[d] = job[d]
      /\ pc'[c] = "idle" /\ TypeOK
  BY DEF Leave, Goto, TypeOK, IInv
<1>2. TypeOK'
  <2>1. orphan' \in {"none", "reader", "writer"} /\ answer' \in Answers
    BY DEF IInv, TypeOK, Leave
  <2>2. pc' \in [Caller -> Labels] /\ job' \in [Caller -> JobType \cup {NoJob}]
    BY <1>1 DEF TypeOK, Leave, Goto, Labels
  <2>3. cancelled' \in [Caller -> BOOLEAN]
    BY <1>1 DEF TypeOK, Leave
  <2> QED
    BY <1>1, <2>1, <2>2, <2>3 DEF TypeOK, Run!TypeOK, run
<1>3. RunExclusive'
  BY <1>1 DEF IInv, RunExclusive, OwnsRun, RunFree
<1>4. \A d \in Caller : CallInv(d)'
  <2> SUFFICES ASSUME NEW d \in Caller, d # c PROVE CallInv(d)'
    BY <1>1 DEF CallInv, OwnsStore, OwnsRun
  <2>1. CallInv(d)
    BY DEF IInv
  <2>2. CASE ~OwnsStore(d)
    BY <1>1, <2>1, <2>2, Bystander DEF run
  <2>3. CASE OwnsStore(d)
    BY <1>1, <2>1, <2>3 DEF CallInv, OwnsStore, OwnsRun, Authorised, run
  <2> QED
    BY <2>2, <2>3
<1>5. StoreExclusive' /\ JournalFirst'
  BY <1>1 DEF IInv, StoreExclusive, JournalFirst, OwnsStore
<1>6. life' = "absent" => orphan' = "none"
  BY DEF IInv, run
<1> QED
  BY <1>2, <1>3, <1>4, <1>5, <1>6 DEF IInv

\* A call that ends without touching a record: it reports, is refused, fails
\* or dies, and only a death may leave an orphan behind.
LEMMA QuietLeaveInv ==
  ASSUME IInv, NEW c \in Caller, pc[c] # "idle", NEW what \in Answers, Leave(c, what),
         UNCHANGED <<clock, grant, journal, run, started>>,
         faults' \in 0..MaxFaults,
         orphan' = orphan \/ orphan' \in Leavings(c)
  PROVE  IInv'
<1>1. Ledger' /\ Capacity'
  BY SameRecords DEF IInv, Ledger
<1>2. TypeOK /\ RunExclusive /\ CallInv(c)
  BY DEF IInv
<1>3. \/ orphan' = orphan
      \/ orphan' \in {"none", "reader", "writer"} /\ RunFree /\ life # "absent" /\ orphan' # "writer"
      \/ orphan' \in {"none", "reader", "writer"} /\ OwnsRun(c) /\ life # "absent"
           /\ (OwnsStore(c) \/ orphan' # "writer")
  BY <1>2 DEF Leavings, CallInv, OwnsRun, OwnsStore
<1>4. \A d \in Caller \ {c} : pc[d] = "report" => orphan' # "writer"
  BY <1>3, Alone DEF IInv, CallInv, OwnsStore
<1> QED
  BY <1>1, <1>2, <1>3, <1>4, LeaveInv DEF TypeOK, run

\* Ends preserves the inductive invariant.
LEMMA EndsInv ==
  ASSUME IInv, NEW c \in Caller,
         Report(c) \/ Retry(c) \/ Refuse(c) \/ Looked(c) \/ Fail(c) \/ Die(c)
  PROVE  IInv'
<1>1. pc[c] # "idle" /\ faults' \in 0..MaxFaults
  BY FaultsAssumption DEF Report, Retry, Refuse, Refused, Looked, Fail, Die, IInv, TypeOK
<1>2. UNCHANGED <<clock, grant, journal, run, started>> /\ (orphan' = orphan \/ orphan' \in Leavings(c))
  BY DEF Report, Retry, Refuse, Looked, Fail, Die
<1>3. \E what \in Answers : Leave(c, what)
  BY DEF Report, Retry, Refuse, Looked, Fail, Die, Answers, NotRepeated
<1> QED
  BY <1>1, <1>2, <1>3, QuietLeaveInv

\* Issued preserves the inductive invariant.
LEMMA IssuedInv == ASSUME IInv, NEW c \in Caller, Issued(c) PROVE IInv'
<1>1. TypeOK /\ pc[c] = "write" /\ OwnsStore(c) /\ job[c] \in JobType
      /\ grant[job[c].grant].state = "partial" /\ Ledger
  BY DEF IInv, Issued, OwnsStore, CallInv
<1> DEFINE g == job[c].grant
<1>2. g \in Grant /\ grant[g] \in GrantRecord /\ grant' = [grant EXCEPT ![g].state = "issued"]
  BY <1>1, JobRecord, RecordFields DEF Issued
<1>3. grant' \in [Grant -> GrantRecord \cup {NoGrant}]
  BY <1>1, <1>2 DEF TypeOK, GrantRecord
<1>4. Ledger'
  BY <1>1, <1>2 DEF TypeOK, Ledger, Issued
<1>5. Capacity'
  <2>1. grant'[g] # NoGrant /\ grant[g] # NoGrant
    BY <1>1, <1>2 DEF TypeOK, NoGrant, GrantRecord
  <2> QED
    BY <2>1, <1>1, <1>2, SameRecords DEF IInv, TypeOK
<1>6. \A d \in Caller \ {c} : ~OwnsStore(d) /\ pc[d] # "report"
  BY <1>1, Alone DEF IInv, OwnsStore
<1> QED
  BY <1>1, <1>3, <1>4, <1>5, <1>6, LeaveInv DEF Issued, TypeOK, Answers, run

\* Consume preserves the inductive invariant.
LEMMA ConsumeInv == ASSUME IInv, NEW c \in Caller, Consume(c) PROVE IInv'
<1>1. TypeOK /\ pc[c] = "locked" /\ OwnsStore(c) /\ job[c] \in JobType /\ Matches(c) /\ ~Spent(c)
  BY DEF IInv, Consume, OwnsStore, CallInv
<1> DEFINE g == job[c].grant
<1>2. g \in Grant /\ grant[g] \in GrantRecord /\ grant[g].state = "issued"
  BY <1>1, JobRecord, RecordFields DEF Matches, Spent
<1>3. grant' = [grant EXCEPT ![g] = [grant[g] EXCEPT !.state = "consumed"]]
  BY DEF Consume, Consumed
<1>4. [grant[g] EXCEPT !.state = "consumed"] \in GrantRecord
  BY <1>2 DEF GrantRecord
<1>5. AfterConsume(c) \in {"prepare", "start"}
  BY DEF AfterConsume
<1>6. TypeOK'
  BY <1>1, <1>2, <1>3, <1>4, <1>5 DEF TypeOK, Consume, Goto, Labels, Run!TypeOK, run
<1>7. Ledger'
  <2>1. Ledger /\ started[g] = 0
    BY <1>1, <1>2 DEF IInv, Ledger
  <2>2. grant'[g].state = "consumed" /\ started'[g] = 1
    BY <1>1, <1>2, <1>3, <2>1 DEF TypeOK, GrantRecord, Consume
  <2>3. \A h \in Grant \ {g} : grant'[h] = grant[h] /\ started'[h] = started[h]
    BY <1>1, <1>2, <1>3 DEF TypeOK, Consume
  <2> QED
    BY <2>1, <2>2, <2>3 DEF Ledger
<1>8. Capacity'
  <2>1. grant'[g] # NoGrant /\ grant[g] # NoGrant
    BY <1>1, <1>2, <1>3, <1>4 DEF TypeOK, NoGrant, GrantRecord
  <2> QED
    BY <2>1, <1>1, <1>2, <1>3, SameRecords DEF IInv, TypeOK
<1>9. RunExclusive' /\ (life' = "absent" => orphan' = "none")
  BY <1>1, <1>5 DEF IInv, TypeOK, RunExclusive, OwnsRun, Consume, Goto, run
<1>10. CallInv(c)'
  <2>1. Authorised(c, job[c].action)'
    <3>1. grant'[g] = [grant[g] EXCEPT !.state = "consumed"] /\ job' = job
      BY <1>1, <1>2, <1>3 DEF TypeOK, Consume
    <3>2. /\ grant'[g].state = "consumed"
          /\ grant'[g].plan = job[c].plan /\ grant'[g].action = job[c].action
      BY <1>1, <1>2, <3>1 DEF GrantRecord, Matches
    <3>3. job[c] # NoJob
      BY <1>1 DEF NoJob, JobType
    <3> QED
      BY <3>1, <3>2, <3>3 DEF Authorised
  <2>2. pc'[c] \in {"prepare", "start"} /\ job' = job
    BY <1>1, <1>5 DEF TypeOK, Consume, Goto
  <2>3. pc'[c] = "prepare" => job[c].action = "execute" /\ job[c].plan \in Parallel
    BY <1>1 DEF TypeOK, Consume, Goto, AfterConsume
  <2> QED
    BY <1>1, <2>1, <2>2, <2>3 DEF CallInv, OwnsRun
<1>11. pc'[c] = "start" => ~(job'[c].action = "execute" /\ job'[c].plan \in Parallel)
  BY <1>1 DEF TypeOK, Consume, Goto, AfterConsume
<1>12. pc'[c] # "drive" /\ \A d \in Caller \ {c} : pc'[d] = pc[d]
  BY <1>1, <1>5 DEF TypeOK, Consume, Goto
<1> QED
  BY <1>1, <1>6, <1>7, <1>8, <1>9, <1>10, <1>11, <1>12, Assemble DEF Consume, run

\* A step of a dispatch after its consumption: no record changes.
LEMMA DispatchStep ==
  ASSUME IInv, NEW c \in Caller,
         pc[c] \in {"prepare", "start", "drive", "undo"},
         NEW label \in {"start", "drive", "undo", "report"}, pc' = [pc EXCEPT ![c] = label],
         UNCHANGED <<clock, grant, orphan, job, cancelled, answer, faults, started>>,
         journal' \subseteq Parallel, journal \subseteq journal',
         Run!TypeOK', life # "absent" => life' # "absent",
         life' = "absent" => life = "absent",
         RunExclusive', life' = "absent" => orphan = "none",
         CallInv(c)',
         label = "start" => job[c].plan \in journal',
         label = "drive" => pc[c] \in {"start", "drive"}
  PROVE  IInv'
<1>1. TypeOK /\ OwnsStore(c) /\ job[c] \in JobType
  BY DEF IInv, OwnsStore, CallInv
<1>2. TypeOK'
  BY <1>1 DEF TypeOK, Labels
<1>3. Ledger' /\ Capacity'
  BY SameRecords DEF IInv, Ledger
<1>4. pc'[c] = label /\ \A d \in Caller \ {c} : pc'[d] = pc[d]
  BY <1>1 DEF TypeOK
<1>5. /\ pc'[c] \in {"start", "drive"}
      /\ job'[c].action = "execute" /\ job'[c].plan \in Parallel
      => job'[c].plan \in journal'
  BY <1>4 DEF IInv, JournalFirst
<1> QED
  BY <1>1, <1>2, <1>3, <1>4, <1>5, Assemble

\* Prepare preserves the inductive invariant.
LEMMA PrepareInv == ASSUME IInv, NEW c \in Caller, Prepare(c) PROVE IInv'
<1>1. TypeOK /\ pc[c] = "prepare" /\ CallInv(c) /\ RunExclusive /\ life = "absent" /\ orphan = "none"
  BY DEF IInv, Prepare
<1>2. job[c] \in JobType /\ job[c].plan \in Parallel /\ Authorised(c, job[c].action)
  BY <1>1 DEF CallInv, OwnsStore
<1>3. pc' = [pc EXCEPT ![c] = "start"] /\ journal' = journal \cup {job[c].plan} /\ UNCHANGED run
  BY DEF Prepare, Goto
<1>4. RunExclusive' /\ CallInv(c)'
  BY <1>1, <1>2, <1>3 DEF Prepare, TypeOK, RunExclusive, OwnsRun, CallInv, Authorised
<1>5. journal' \subseteq Parallel /\ Run!TypeOK'
  BY <1>1, <1>2, <1>3 DEF TypeOK, Run!TypeOK, run
<1> QED
  BY <1>1, <1>3, <1>4, <1>5, DispatchStep DEF Prepare, run

\* Start preserves the inductive invariant.
LEMMA StartInv == ASSUME IInv, NEW c \in Caller, Start(c) PROVE IInv'
<1>1. TypeOK /\ pc[c] = "start" /\ CallInv(c) /\ RunExclusive
      /\ (life = "absent" => orphan = "none" /\ \A d \in Caller : ~OwnsRun(d))
  BY DEF IInv, Start, CallInv
<1>2. job[c] \in JobType /\ Authorised(c, job[c].action)
  BY <1>1 DEF CallInv, OwnsStore
<1>3. /\ pc' = [pc EXCEPT ![c] = "drive"] /\ life' # "absent" /\ Run!TypeOK'
      /\ orphan = "none" /\ \A d \in Caller : ~OwnsRun(d)
  BY <1>1 DEF Start, Goto, Startable, RunFree, Run!Publish, TypeOK, Run!TypeOK, run
<1>4. RunExclusive' /\ CallInv(c)'
  BY <1>1, <1>2, <1>3 DEF Start, TypeOK, RunExclusive, OwnsRun, CallInv, Authorised
<1> QED
  BY <1>1, <1>3, <1>4, DispatchStep DEF Start, TypeOK

\* Drive preserves the inductive invariant.
LEMMA DriveInv ==
  ASSUME IInv, NEW c \in Caller, Advance(c) \/ Complete(c) \/ GiveUp(c) \/ Restore(c) \/ Seal(c)
  PROVE  IInv'
<1>1. TypeOK /\ pc[c] \in {"drive", "undo"} /\ CallInv(c) /\ RunExclusive
  BY DEF IInv, Advance, Complete, GiveUp, Restore, Seal
<1>2. job[c] \in JobType /\ Authorised(c, job[c].action) /\ life # "absent" /\ OwnsRun(c)
  BY <1>1 DEF CallInv, OwnsStore, OwnsRun
<1>3. orphan = "none" /\ \A d \in Caller \ {c} : ~OwnsRun(d)
  BY <1>1, <1>2 DEF RunExclusive
<1>4. PICK label \in {"drive", "undo", "report"} :
        /\ pc' = [pc EXCEPT ![c] = label]
        /\ label = "drive" => pc[c] = "drive"
        /\ label = "undo" => job[c].action = "abort" /\ life' = "aborting"
        /\ label = "report" => life' = IF job[c].action = "abort" THEN "aborted" ELSE "completed"
  <2>1. CASE Advance(c)
    BY <2>1, <1>1 DEF Advance, call, TypeOK
  <2>2. CASE Complete(c)
    BY <2>2 DEF Complete, Completed, Goto, Run!Complete, run
  <2>3. CASE GiveUp(c)
    BY <2>3 DEF GiveUp, Goto, Run!GiveUp
  <2>4. CASE Restore(c)
    BY <2>4, <1>1 DEF Restore, call, TypeOK, Run!Restore, CallInv
  <2>5. CASE Seal(c)
    BY <2>5, <1>1 DEF Seal, Goto, Run!Seal, CallInv
  <2> QED
    BY <2>1, <2>2, <2>3, <2>4, <2>5
<1>5. life' # "absent" /\ Run!TypeOK'
  BY <1>1, <1>2, SizeAssumption DEF Advance, Complete, Completed, GiveUp, Restore, Seal, TypeOK,
     Run!TypeOK,
     Run!Advance, Run!Complete, Run!GiveUp, Run!Restore, Run!Seal, run
<1>6. UNCHANGED <<clock, grant, journal, orphan, job, cancelled, answer, faults, started>>
  BY DEF Advance, Complete, GiveUp, Restore, Seal, call
<1>7. RunExclusive'
  BY <1>1, <1>3, <1>4, <1>6 DEF RunExclusive, OwnsRun, TypeOK
<1>8. CallInv(c)'
  BY <1>1, <1>2, <1>3, <1>4, <1>5, <1>6 DEF CallInv, Authorised, TypeOK, OwnsRun, OwnsStore
<1> QED
  BY <1>1, <1>2, <1>3, <1>4, <1>5, <1>6, <1>7, <1>8, DispatchStep DEF TypeOK

\* Only the capacity check stands between an issue and one record too many.
LEMMA IssueCapacity ==
  ASSUME IInv, Files < MaxGrants, NEW g \in Grant, grant[g] = NoGrant,
         NEW r \in GrantRecord, grant' = [grant EXCEPT ![g] = r]
  PROVE  Capacity'
<1> USE FiniteAssumption, SizeAssumption, PlanAssumption
<1>1. IsFiniteSet(Records) /\ IsFiniteSet(journal)
  BY FS_Subset DEF Records, IInv, TypeOK
<1>2. Cardinality(Records) \in Nat /\ Cardinality(journal) \in Nat
  BY <1>1, FS_CardinalityType
<1>3. Records' = Records \cup {g} /\ g \notin Records
  BY DEF Records, IInv, TypeOK, GrantRecord, NoGrant
<1>4. Cardinality(Records') = Cardinality(Records) + 1
  BY <1>1, <1>3, FS_AddElement
<1> QED
  BY <1>2, <1>4 DEF Capacity, Files

\* Issue preserves the inductive invariant.
LEMMA IssueInv ==
  ASSUME IInv, NEW c \in Caller, NEW g \in Grant, NEW plan \in Plan, NEW action \in Granted,
         NEW ttl \in Ttl, Issue(c, g, plan, action, ttl)
  PROVE  IInv'
<1> DEFINE r == Record("partial", plan, action, clock, clock + ttl)
           j == [grant |-> g, plan |-> plan, action |-> action]
<1>1. TypeOK /\ StoreFree /\ grant[g] = NoGrant /\ pc[c] = "idle"
  BY DEF IInv, Issue, Enter
<1>2. r \in GrantRecord /\ r.state = "partial" /\ j \in JobType
  BY <1>1, TtlAssumption, GrantedAssumption, SizeAssumption DEF Record, GrantRecord, JobType,
     TypeOK
<1>3. grant' = [grant EXCEPT ![g] = r] /\ job' = [job EXCEPT ![c] = j] /\ pc' = [pc EXCEPT ![c] = "write"]
  BY DEF Issue, Enter, Goto
<1>4. TypeOK'
  BY <1>1, <1>2, <1>3 DEF TypeOK, Issue, Enter, Labels, Answers, Run!TypeOK, run
<1>5. Capacity'
  BY <1>1, <1>2, <1>3, IssueCapacity DEF Issue
<1>6. Ledger'
  BY <1>1, <1>2, <1>3 DEF IInv, Ledger, TypeOK, NoGrant, Issue
<1>7. \A d \in Caller : CallInv(d)'
  <2>1. CallInv(c)'
    BY <1>1, <1>2, <1>3 DEF TypeOK, CallInv, OwnsRun
  <2>2. ASSUME NEW d \in Caller \ {c} PROVE CallInv(d)'
    BY <1>1, <1>3, Bystander DEF StoreFree, IInv, Issue, run, TypeOK
  <2> QED
    BY <2>1, <2>2
<1>8. StoreExclusive' /\ RunExclusive' /\ JournalFirst' /\ (life' = "absent" => orphan' = "none")
  BY <1>1, <1>3 DEF StoreFree, IInv, TypeOK, StoreExclusive, OwnsStore, RunExclusive, OwnsRun,
     JournalFirst, Issue, run
<1> QED
  BY <1>4, <1>5, <1>6, <1>7, <1>8 DEF IInv

\* Dispatch preserves the inductive invariant.
LEMMA DispatchInv ==
  ASSUME IInv, NEW c \in Caller, NEW g \in Grant, NEW plan \in Plan, NEW action \in Granted,
         Dispatch(c, g, plan, action)
  PROVE  IInv'
<1> DEFINE j == [grant |-> g, plan |-> plan, action |-> action]
<1>1. TypeOK /\ StoreFree /\ pc[c] = "idle" /\ j \in JobType
  BY GrantedAssumption DEF IInv, Dispatch, Enter, JobType
<1>2. job' = [job EXCEPT ![c] = j] /\ pc' = [pc EXCEPT ![c] = "locked"]
  BY DEF Dispatch, Enter, Goto
<1>3. TypeOK'
  BY <1>1, <1>2 DEF TypeOK, Dispatch, Enter, Labels, Answers, Run!TypeOK, run
<1>4. Capacity' /\ Ledger'
  BY SameRecords DEF IInv, Ledger, Dispatch
<1>5. \A d \in Caller : CallInv(d)'
  <2>1. CallInv(c)'
    BY <1>1, <1>2 DEF TypeOK, CallInv, OwnsRun
  <2>2. ASSUME NEW d \in Caller \ {c} PROVE CallInv(d)'
    BY <1>1, <1>2, Bystander DEF StoreFree, IInv, Dispatch, run, TypeOK
  <2> QED
    BY <2>1, <2>2
<1>6. StoreExclusive' /\ RunExclusive' /\ JournalFirst' /\ (life' = "absent" => orphan' = "none")
  BY <1>1, <1>2 DEF StoreFree, IInv, TypeOK, StoreExclusive, OwnsStore, RunExclusive, OwnsRun,
     JournalFirst, Dispatch, run
<1> QED
  BY <1>3, <1>4, <1>5, <1>6 DEF IInv

\* Look preserves the inductive invariant.
LEMMA LookInv == ASSUME IInv, NEW c \in Caller, NEW plan \in Plan, Look(c, plan) PROVE IInv'
<1>1. TypeOK /\ pc[c] = "idle" /\ RunFree /\ life # "absent"
  BY DEF IInv, Look, Enter
<1>2. job' = [job EXCEPT ![c] = NoJob] /\ pc' = [pc EXCEPT ![c] = "look"]
  BY DEF Look, Enter, Goto
<1>3. TypeOK'
  BY <1>1, <1>2 DEF TypeOK, Look, Enter, Labels, Answers, Run!TypeOK, run
<1>4. Capacity' /\ Ledger'
  BY SameRecords DEF IInv, Ledger, Look
<1>5. \A d \in Caller : CallInv(d)'
  <2>1. CallInv(c)'
    BY <1>1, <1>2 DEF TypeOK, CallInv, OwnsStore, Look, run
  <2>2. ASSUME NEW d \in Caller \ {c} PROVE CallInv(d)'
    BY <1>1, <1>2 DEF IInv, Look, run, TypeOK, CallInv, OwnsStore, OwnsRun, Authorised
  <2> QED
    BY <2>1, <2>2
<1>6. StoreExclusive' /\ RunExclusive' /\ JournalFirst' /\ (life' = "absent" => orphan' = "none")
  BY <1>1, <1>2 DEF RunFree, IInv, TypeOK, StoreExclusive, OwnsStore, RunExclusive, OwnsRun,
     JournalFirst, Look, run
<1> QED
  BY <1>3, <1>4, <1>5, <1>6 DEF IInv

\* Cancel preserves the inductive invariant.
LEMMA CancelInv == ASSUME IInv, NEW c \in Caller, Cancel(c) PROVE IInv'
<1>1. TypeOK'
  BY FaultsAssumption DEF IInv, TypeOK, Cancel, Run!TypeOK, run
<1>2. Capacity' /\ Ledger'
  BY SameRecords DEF IInv, Ledger, Cancel
<1>3. \A d \in Caller : CallInv(d)'
  BY DEF IInv, CallInv, Cancel, OwnsStore, OwnsRun, Authorised, run
<1>4. StoreExclusive' /\ RunExclusive' /\ JournalFirst' /\ (life' = "absent" => orphan' = "none")
  BY DEF IInv, Cancel, StoreExclusive, OwnsStore, RunExclusive, OwnsRun, JournalFirst, run
<1> QED
  BY <1>1, <1>2, <1>3, <1>4 DEF IInv

\* Tick preserves the inductive invariant.
LEMMA TickInv == ASSUME IInv, Tick PROVE IInv'
<1>1. TypeOK'
  BY DEF IInv, TypeOK, Tick, Run!TypeOK, run, call
<1>2. Capacity' /\ Ledger'
  BY SameRecords DEF IInv, Ledger, Tick
<1>3. \A d \in Caller : CallInv(d)'
  BY DEF IInv, CallInv, Tick, OwnsStore, OwnsRun, Authorised, run, call
<1>4. StoreExclusive' /\ RunExclusive' /\ JournalFirst' /\ (life' = "absent" => orphan' = "none")
  BY DEF IInv, Tick, StoreExclusive, OwnsStore, RunExclusive, OwnsRun, JournalFirst, run, call
<1> QED
  BY <1>1, <1>2, <1>3, <1>4 DEF IInv

\* Where an orphaned writer may still act, nobody relies on the run.
LEMMA OrphanEndsInv == ASSUME IInv, OrphanEnds PROVE IInv'
<1>1. /\ TypeOK /\ life # "absent" /\ orphan # "none" /\ orphan' = "none" /\ UNCHANGED call
      /\ UNCHANGED <<clock, grant, journal, faults, started>>
      /\ \A d \in Caller : ~OwnsRun(d) /\ CallInv(d)
  BY DEF IInv, OrphanEnds, RunExclusive
<1>2. Run!TypeOK' /\ life' = life /\ (orphan # "writer" => result' = result)
  BY <1>1, SizeAssumption DEF OrphanEnds, Run!Advance, Run!Restore, TypeOK, Run!TypeOK, run
<1>3. TypeOK'
  BY <1>1, <1>2 DEF TypeOK, call
<1>4. Capacity' /\ Ledger'
  BY <1>1, SameRecords DEF IInv, Ledger
<1>5. \A d \in Caller : CallInv(d)'
  BY <1>1, <1>2 DEF CallInv, OwnsStore, OwnsRun, Authorised, call
<1>6. StoreExclusive' /\ RunExclusive' /\ JournalFirst'
  BY <1>1 DEF IInv, StoreExclusive, OwnsStore, RunExclusive, OwnsRun, JournalFirst, call
<1> QED
  BY <1>1, <1>3, <1>4, <1>5, <1>6 DEF IInv

\* Every step preserves the invariant.
LEMMA NextInv == IInv /\ [Next]_vars => IInv'
<1> SUFFICES ASSUME IInv, [Next]_vars PROVE IInv'
  OBVIOUS
<1>1. CASE UNCHANGED vars
  <2>1. TypeOK' /\ Capacity' /\ Ledger'
    BY <1>1 DEF IInv, TypeOK, Run!TypeOK, Capacity, Records, Ledger, vars, run, call
  <2>2. \A d \in Caller : CallInv(d)'
    BY <1>1 DEF IInv, CallInv, OwnsStore, OwnsRun, Authorised, vars, run, call
  <2>3. StoreExclusive' /\ RunExclusive' /\ JournalFirst' /\ (life' = "absent" => orphan' = "none")
    BY <1>1 DEF IInv, StoreExclusive, OwnsStore, RunExclusive, OwnsRun, JournalFirst, vars, run,
       call
  <2> QED
    BY <2>1, <2>2, <2>3 DEF IInv
<1>2. CASE Tick \/ OrphanEnds
  BY <1>2, TickInv, OrphanEndsInv
<1>3. CASE \E c \in Caller : Begin(c)
  BY <1>3, IssueInv, DispatchInv, LookInv DEF Begin
<1>4. CASE \E c \in Caller : Step(c)
  BY <1>4, IssuedInv, ConsumeInv, PrepareInv, StartInv, DriveInv, EndsInv DEF Step
<1>5. CASE \E c \in Caller : Fault(c)
  BY <1>5, CancelInv, EndsInv DEF Fault
<1> QED
  BY <1>1, <1>2, <1>3, <1>4, <1>5 DEF Next

-----------------------------------------------------------------------------
(* The theorems.                                                           *)

\* The inductive invariant holds in every reachable state.
THEOREM Invariance == Spec => []IInv
  BY InitInv, NextInv, PTL DEF Spec

\* Every variable keeps its type.
THEOREM Typing == Spec => []TypeOK
<1>1. IInv => TypeOK
  BY DEF IInv
<1> QED
  BY <1>1, Invariance, PTL

\* No grant starts two dispatches.
THEOREM GrantsAreSpentOnce == Spec => []OneDispatch
<1>1. IInv => OneDispatch
  BY DEF IInv, Ledger, OneDispatch
<1> QED
  BY <1>1, Invariance, PTL

\* The run has one reader or writer at a time, orphans included.
THEOREM RunIsExclusive == Spec => []RunExclusive
<1>1. IInv => RunExclusive
  BY DEF IInv
<1> QED
  BY <1>1, Invariance, PTL

\* The store holds at most MAX_GRANTS records.
THEOREM StoreIsBounded == Spec => []Capacity
<1>1. IInv => Capacity
  BY DEF IInv
<1> QED
  BY <1>1, Invariance, PTL

\* A parallel plan's journal is durable before its run is published.
THEOREM JournalComesFirst == Spec => []JournalFirst
<1>1. IInv => JournalFirst
  BY DEF IInv
<1> QED
  BY <1>1, Invariance, PTL

\* Callers that begin, end or are cancelled leave the run alone.
LEMMA RunKept ==
  ASSUME NEW c \in Caller,
         \/ Begin(c) \/ Fault(c) \/ Issued(c) \/ Consume(c) \/ Prepare(c)
         \/ Report(c) \/ Retry(c) \/ Refuse(c) \/ Looked(c)
  PROVE  run' = run
BY DEF Begin, Fault, Issue, Dispatch, Look, Cancel, Fail, Die, Issued, Consume, Prepare, Report,
   Retry, Refuse, Looked

\* The run changes only under a consumed grant for that plan and action.
THEOREM EffectsAreGranted == Spec => EffectsGranted
<1>1. ASSUME IInv, [Next]_vars PROVE [EffectGranted]_vars
  <2> SUFFICES ASSUME Next, run' # run PROVE EffectGranted
    BY <1>1 DEF vars, EffectGranted
  <2>1. CASE Tick
    BY <2>1 DEF Tick
  <2>2. CASE OrphanEnds
    BY <2>2 DEF OrphanEnds, EffectGranted
  <2>3. CASE \E c \in Caller : Begin(c) \/ Step(c) \/ Fault(c)
    <3>1. PICK c \in Caller : Start(c) \/ Advance(c) \/ Complete(c) \/ GiveUp(c) \/ Restore(c) \/ Seal(c)
      BY <2>3, RunKept DEF Step
    <3>2. TypeOK /\ CallInv(c) /\ pc[c] \in {"start", "drive", "undo"}
      BY <1>1, <3>1 DEF IInv, Start, Advance, Complete, GiveUp, Restore, Seal
    <3>3. job[c] \in JobType /\ Authorised(c, job[c].action)
      BY <3>2 DEF CallInv, OwnsStore
    <3>4. job[c].action \in {"execute", "resume", "abort"}
      BY <3>3 DEF JobType
    <3>5. CASE Start(c)
      <4>1. job[c].action = "execute" /\ Run!Publish /\ pc[c] = "start"
        BY <3>5 DEF Start
      <4> QED
        BY <4>1, <3>3 DEF EffectGranted
    <3>6. CASE Advance(c) \/ Complete(c)
      <4>1. job[c].action # "abort" /\ pc[c] = "drive" /\ (Run!Advance \/ Run!Complete)
        BY <3>6 DEF Advance, Complete, Completed
      <4> QED
        BY <4>1, <3>3, <3>4 DEF EffectGranted
    <3>7. CASE GiveUp(c)
      <4>1. job[c].action = "abort" /\ pc[c] = "drive" /\ Run!GiveUp
        BY <3>7 DEF GiveUp
      <4> QED
        BY <4>1, <3>3 DEF EffectGranted
    <3>8. CASE Restore(c) \/ Seal(c)
      <4>1. job[c].action = "abort" /\ pc[c] = "undo" /\ (Run!Restore \/ Run!Seal)
        BY <3>2, <3>8 DEF Restore, Seal, CallInv
      <4> QED
        BY <4>1, <3>3 DEF EffectGranted
    <3> QED
      BY <3>1, <3>5, <3>6, <3>7, <3>8
  <2> QED
    BY <2>1, <2>2, <2>3 DEF Next
<1> QED
  BY <1>1, Invariance, PTL DEF Spec, EffectsGranted

\* Who goes idle in a step is who ends its call in it.
LEMMA WhoLeaves ==
  ASSUME TypeOK, Next, NEW c \in Caller, pc[c] # "idle", pc'[c] = "idle"
  PROVE  \/ Report(c)
         \/ answer' # "performed"
<1>1. CASE Tick \/ OrphanEnds
  BY <1>1 DEF Tick, OrphanEnds, call
<1>2. CASE \E d \in Caller : Begin(d)
  BY <1>2 DEF Begin, Issue, Dispatch, Look, Enter
<1>3. CASE \E d \in Caller : Fault(d)
  BY <1>3 DEF Fault, Cancel, Fail, Die, Leave
<1>4. CASE \E d \in Caller : Step(d)
  <2>1. PICK d \in Caller : Step(d)
    BY <1>4
  <2>2. CASE Consume(d) \/ Prepare(d) \/ Start(d)
    BY <2>2 DEF TypeOK, Consume, AfterConsume, Prepare, Start, Goto
  <2>3. CASE Advance(d) \/ Complete(d) \/ GiveUp(d) \/ Restore(d) \/ Seal(d)
    BY <2>3 DEF TypeOK, Advance, Complete, GiveUp, Restore, Seal, Goto, call
  <2>4. CASE Issued(d) \/ Retry(d) \/ Refuse(d) \/ Looked(d)
    BY <2>4 DEF Issued, Retry, Refuse, Looked, Leave, NotRepeated
  <2>5. CASE Report(d)
    BY <2>5 DEF TypeOK, Report, Leave, Goto
  <2> QED
    BY <2>1, <2>2, <2>3, <2>4, <2>5 DEF Step
<1> QED
  BY <1>1, <1>2, <1>3, <1>4 DEF Next

\* A dispatch answers "performed" only of a run that has reached what was asked.
THEOREM AnswersAreHonest == Spec => HonestAnswers
<1>1. ASSUME IInv, [Next]_vars PROVE [AllAnswersTrue]_vars
  <2> SUFFICES ASSUME Next, NEW c \in Caller, pc[c] # "idle", pc'[c] = "idle", answer' = "performed"
               PROVE  life = IF job[c].action = "abort" THEN "aborted" ELSE "completed"
    BY <1>1 DEF AllAnswersTrue, AnswerTrue
  <2>1. Report(c)
    BY <1>1, WhoLeaves DEF IInv
  <2> QED
    BY <1>1, <2>1 DEF Report, IInv, CallInv
<1> QED
  BY <1>1, Invariance, PTL DEF Spec, HonestAnswers
-----------------------------------------------------------------------------
(* The store keeps the promise of GrantBook.                               *)

Keeps == Book!Next \/ UNCHANGED Book!vars

\* Only a change of what is in effect, or of its job, changes Active.
LEMMA ActiveSame ==
  ASSUME \A d \in Caller : InEffect(d)' = InEffect(d) /\ (InEffect(d) => job'[d] = job[d])
  PROVE  Active' = Active
<1>1. Active' \subseteq Active
  BY DEF Active
<1>2. Active \subseteq Active'
  BY DEF Active
<1> QED
  BY <1>1, <1>2

\* A dispatch in effect is the only one.
LEMMA ActiveOne ==
  ASSUME StoreExclusive, NEW c \in Caller, InEffect(c)
  PROVE  Active = {job[c]} /\ \A d \in Caller : InEffect(d) => d = c
<1>1. \A d \in Caller : InEffect(d) => OwnsStore(d)
  BY DEF InEffect, OwnsStore
<1>2. \A d \in Caller : InEffect(d) => d = c
  BY <1>1 DEF StoreExclusive
<1> QED
  BY <1>2 DEF Active

\* Behind a caller that owns the store and is not in effect nobody is.
LEMMA ActiveNone ==
  ASSUME StoreExclusive, NEW c \in Caller, OwnsStore(c), ~InEffect(c)
  PROVE  Active = {} /\ \A d \in Caller : ~InEffect(d)
<1>1. \A d \in Caller : InEffect(d) => OwnsStore(d)
  BY DEF InEffect, OwnsStore
<1>2. \A d \in Caller : ~InEffect(d)
  BY <1>1 DEF StoreExclusive
<1> QED
  BY <1>2 DEF Active

\* When the only dispatch in effect leaves, none is.
LEMMA ActiveLeft ==
  ASSUME StoreExclusive, TypeOK, NEW c \in Caller, InEffect(c), pc' = [pc EXCEPT ![c] = "idle"]
  PROVE  Active' = {}
<1>1. \A d \in Caller : InEffect(d) => d = c
  BY ActiveOne
<1>2. \A d \in Caller : ~InEffect(d)'
  BY <1>1 DEF TypeOK, InEffect
<1> QED
  BY <1>2 DEF Active

\* A caller that moves between labels that are not in effect changes nothing.
LEMMA ActiveElsewhere ==
  ASSUME TypeOK, NEW c \in Caller, ~InEffect(c), NEW label \in Labels,
         label \notin {"prepare", "start", "drive", "undo", "report"},
         pc' = [pc EXCEPT ![c] = label], \A d \in Caller \ {c} : job'[d] = job[d]
  PROVE  Active' = Active
<1>1. \A d \in Caller : InEffect(d)' = InEffect(d) /\ (InEffect(d) => job'[d] = job[d])
  BY DEF TypeOK, InEffect
<1> QED
  BY <1>1, ActiveSame

\* A dispatch that goes on to another label stays in effect.
LEMMA ActiveMoves ==
  ASSUME TypeOK, NEW c \in Caller, InEffect(c), job' = job,
         pc' = pc \/ (\E label \in {"prepare", "start", "drive", "undo", "report"} : Goto(c, label))
  PROVE  Active' = Active
<1>1. \A d \in Caller : InEffect(d)' = InEffect(d)
  BY DEF TypeOK, InEffect, Goto
<1> QED
  BY <1>1, ActiveSame

\* A call that is not in effect ends.
LEMMA OtherLeaves ==
  ASSUME TypeOK, NEW c \in Caller, ~InEffect(c), NEW what, what # "performed", Leave(c, what),
         UNCHANGED <<Pages, Stray, run>>
  PROVE  Book!Other
<1>1. pc' = [pc EXCEPT ![c] = "idle"] /\ \A d \in Caller \ {c} : job'[d] = job[d]
  BY DEF Leave, Goto, TypeOK
<1>2. Active' = Active
  BY <1>1, ActiveElsewhere DEF Labels
<1>3. Told' = FALSE
  BY DEF Told, Leave
<1> QED
  BY <1>2, <1>3 DEF Book!Other, Book!run, run

\* The dispatch in effect ends without having been performed.
LEMMA DispatchLapses ==
  ASSUME TypeOK, StoreExclusive, NEW c \in Caller, InEffect(c), NEW what, what # "performed",
         Leave(c, what), UNCHANGED <<Pages, run>>, Stray' \in {Stray, TRUE}
  PROVE  Book!Lapse
<1>1. Active # {}
  BY ActiveOne
<1>2. Active' = {}
  BY ActiveLeft DEF Leave, Goto
<1>3. Told' = FALSE
  BY DEF Told, Leave
<1> QED
  BY <1>1, <1>2, <1>3 DEF Book!Lapse, Book!run, run

\* Calls begin outside of the book; a record without its bytes says nothing.
LEMMA BeginKeeps ==
  ASSUME IInv, NEW c \in Caller, Begin(c)
  PROVE  Book!Other
<1>1. TypeOK /\ pc[c] = "idle" /\ answer' = "none" /\ UNCHANGED <<run, orphan>>
  BY DEF IInv, Begin, Issue, Dispatch, Look, Enter
<1>2. \E label \in {"write", "locked", "look"}, j \in JobType \cup {NoJob} : Enter(c, label, j)
  <2>1. CASE \E g \in Grant, plan \in Plan, action \in Granted, ttl \in Ttl :
               Issue(c, g, plan, action, ttl)
    BY <2>1, GrantedAssumption DEF Issue, JobType
  <2>2. CASE \E g \in Grant, plan \in Plan, action \in Granted : Dispatch(c, g, plan, action)
    BY <2>2, GrantedAssumption DEF Dispatch, JobType
  <2>3. CASE \E plan \in Plan : Look(c, plan)
    BY <2>3 DEF Look
  <2> QED
    BY <2>1, <2>2, <2>3 DEF Begin
<1>3. Active' = Active
  <2>1. PICK label \in {"write", "locked", "look"}, j \in JobType \cup {NoJob} : Enter(c, label, j)
    BY <1>2
  <2>2. pc' = [pc EXCEPT ![c] = label] /\ \A d \in Caller \ {c} : job'[d] = job[d]
    BY <1>1, <2>1 DEF Enter, Goto, TypeOK
  <2>3. ~InEffect(c) /\ label \in Labels
    BY <1>1 DEF InEffect, Labels
  <2> QED
    BY <1>1, <2>2, <2>3, ActiveElsewhere
<1>4. \A g \in Grant : TermsOf(grant[g])' = TermsOf(grant[g])
  <2>1. CASE grant' = grant
    BY <2>1 DEF TermsOf
  <2>2. ASSUME NEW g \in Grant, NEW plan \in Plan, NEW action \in Granted, NEW ttl \in Ttl,
               Issue(c, g, plan, action, ttl), NEW h \in Grant
        PROVE  TermsOf(grant[h])' = TermsOf(grant[h])
    <3>1. grant[g].state = "none" /\ grant'[g].state = "partial"
      BY <1>1, <2>2 DEF Issue, Record, NoGrant, TypeOK
    <3>2. h # g => grant'[h] = grant[h]
      BY <1>1, <2>2 DEF Issue, TypeOK
    <3> QED
      BY <3>1, <3>2 DEF TermsOf
  <2> QED
    BY <2>1, <2>2 DEF Begin, Dispatch, Look
<1>5. Pages' = Pages
  BY <1>4 DEF Pages
<1> QED
  BY <1>1, <1>3, <1>5 DEF Book!Other, Book!run, run, Told, Stray

\* What the book says of a record, by its state.
LEMMA TermsByState ==
  ASSUME NEW r, NEW plan, NEW action, r.plan = plan, r.action = action
  PROVE  /\ r.state = "issued" => TermsOf(r) = Book!Terms(plan, action, FALSE)
         /\ r.state = "consumed" => TermsOf(r) = Book!Terms(plan, action, TRUE)
<1>1. ASSUME r.state = "issued" PROVE TermsOf(r) = Book!Terms(plan, action, FALSE)
  BY <1>1 DEF TermsOf, Book!Terms
<1>2. ASSUME r.state = "consumed" PROVE TermsOf(r) = Book!Terms(plan, action, TRUE)
  BY <1>2 DEF TermsOf, Book!Terms
<1> QED
  BY <1>1, <1>2

LEMMA TermsBlank ==
  ASSUME NEW r, r.state \notin {"issued", "consumed"}
  PROVE  TermsOf(r) = Book!Blank
BY DEF TermsOf, Book!Blank

\* A record that is durable says what its grant is for.
LEMMA IssuedKeeps ==
  ASSUME IInv, NEW c \in Caller, Issued(c)
  PROVE  Book!Next
<1> DEFINE g == job[c].grant
           r == grant[g]
<1>1. TypeOK /\ pc[c] = "write" /\ g \in Grant /\ r.state = "partial" /\ UNCHANGED <<orphan, run>>
  BY DEF IInv, Issued, CallInv, OwnsStore, JobType
<1>2. r \in GrantRecord /\ r.plan \in Plan /\ r.action \in Granted
  BY <1>1 DEF TypeOK, GrantRecord, NoGrant
<1>3. grant' = [grant EXCEPT ![g].state = "issued"]
  BY DEF Issued
<1>4. grant'[g].state = "issued" /\ grant'[g].plan = r.plan /\ grant'[g].action = r.action
  BY <1>1, <1>2, <1>3 DEF TypeOK, GrantRecord
<1>5. TermsOf(grant[g]) = Book!Blank
      /\ TermsOf(grant'[g]) = Book!Terms(r.plan, r.action, FALSE)
  <2>1. TermsOf(grant[g]) = Book!Blank
    BY <1>1, TermsBlank
  <2>2. TermsOf(grant'[g]) = Book!Terms(r.plan, r.action, FALSE)
    BY <1>4, TermsByState
  <2> QED
    BY <2>1, <2>2
<1>6. \A h \in Grant : h # g => TermsOf(grant'[h]) = TermsOf(grant[h])
  BY <1>1, <1>3 DEF TermsOf, TypeOK
<1>7. Pages' = [Pages EXCEPT ![g] = Book!Terms(r.plan, r.action, FALSE)] /\ Pages[g] = Book!Blank
  <2> DEFINE new == Book!Terms(r.plan, r.action, FALSE)
  <2>1. Pages = [h \in Grant |-> TermsOf(grant[h])] /\ Pages' = [h \in Grant |-> TermsOf(grant'[h])]
    BY DEF Pages
  <2>2. TermsOf(grant'[g]) = new /\ TermsOf(grant[g]) = Book!Blank
    BY <1>5
  <2> HIDE DEF new
  <2> QED
    BY <1>1, <1>6, <2>1, <2>2 DEF new
<1>8. Active' = Active /\ Told' = FALSE
  <2>1. pc' = [pc EXCEPT ![c] = "idle"] /\ (\A d \in Caller \ {c} : job'[d] = job[d])
    BY <1>1 DEF Issued, Leave, Goto, TypeOK
  <2>2. ~InEffect(c) /\ "idle" \in Labels
    BY <1>1 DEF InEffect, Labels
  <2>3. answer' = "issued"
    BY DEF Issued, Leave
  <2> QED
    BY <1>1, <2>1, <2>2, <2>3, ActiveElsewhere DEF Told
<1>9. Book!Issue(g, r.plan, r.action)
  BY <1>1, <1>7, <1>8 DEF Book!Issue, Book!run, run, Stray
<1> QED
  BY <1>1, <1>2, <1>9 DEF Book!Next

\* A grant is spent when its dispatch comes into effect.
LEMMA ConsumeKeeps ==
  ASSUME IInv, NEW c \in Caller, Consume(c)
  PROVE  Book!Next
<1> DEFINE j == job[c]
           g == j.grant
           r == grant[g]
<1>1. TypeOK /\ StoreExclusive /\ pc[c] = "locked" /\ Matches(c) /\ r.state # "consumed"
  BY DEF IInv, Consume, Spent
<1>2. /\ j \in JobType /\ g \in Grant /\ r.state = "issued" /\ r.plan = j.plan /\ r.action = j.action
      /\ r \in GrantRecord
  <2>1. j \in JobType /\ r.state = "issued" /\ r.plan = j.plan /\ r.action = j.action
    BY <1>1 DEF IInv, CallInv, OwnsStore, Matches
  <2>2. g \in Grant /\ r \in GrantRecord
    BY <1>1, <2>1 DEF JobType, TypeOK, NoGrant
  <2> QED
    BY <2>1, <2>2
<1>3. j \in Book!Dispatches
  <2>1. j.action \in Granted
    BY <1>2 DEF GrantRecord
  <2> QED
    BY <1>2, <2>1 DEF JobType, Book!Dispatches
<1>4. grant' = [grant EXCEPT ![g] = [r EXCEPT !.state = "consumed"]]
  BY DEF Consume, Consumed
<1>5. grant'[g].state = "consumed" /\ grant'[g].plan = j.plan /\ grant'[g].action = j.action
  BY <1>1, <1>2, <1>4 DEF TypeOK, GrantRecord
<1>6. /\ TermsOf(grant[g]) = Book!Terms(j.plan, j.action, FALSE)
      /\ TermsOf(grant'[g]) = Book!Terms(j.plan, j.action, TRUE)
  <2>1. TermsOf(grant[g]) = Book!Terms(j.plan, j.action, FALSE)
    BY <1>2, TermsByState
  <2>2. TermsOf(grant'[g]) = Book!Terms(j.plan, j.action, TRUE)
    BY <1>5, TermsByState
  <2> QED
    BY <2>1, <2>2
<1>7. \A h \in Grant : h # g => TermsOf(grant'[h]) = TermsOf(grant[h])
  BY <1>1, <1>2, <1>4 DEF TermsOf, TypeOK
<1>8. /\ Pages' = [Pages EXCEPT ![g] = Book!Terms(j.plan, j.action, TRUE)]
      /\ Pages[g] = Book!Terms(j.plan, j.action, FALSE)
  <2> DEFINE old == Book!Terms(j.plan, j.action, FALSE)
             new == Book!Terms(j.plan, j.action, TRUE)
  <2>1. Pages = [h \in Grant |-> TermsOf(grant[h])] /\ Pages' = [h \in Grant |-> TermsOf(grant'[h])]
    BY DEF Pages
  <2>2. TermsOf(grant'[g]) = new /\ TermsOf(grant[g]) = old
    BY <1>6
  <2> HIDE DEF old, new
  <2> QED
    BY <1>2, <1>7, <2>1, <2>2 DEF old, new
<1>9. Active = {} /\ Active' = {j}
  <2>1. Active = {} /\ \A d \in Caller : ~InEffect(d)
    BY <1>1, ActiveNone DEF OwnsStore, InEffect
  <2>2. job' = job /\ pc' = [pc EXCEPT ![c] = AfterConsume(c)] /\ AfterConsume(c) \in {"prepare", "start"}
    BY DEF Consume, Goto, AfterConsume
  <2>3. \A d \in Caller : InEffect(d)' <=> d = c
    BY <1>1, <2>1, <2>2 DEF InEffect, TypeOK
  <2> QED
    BY <2>1, <2>2, <2>3 DEF Active
<1>10. UNCHANGED <<Stray, run, Told>>
  BY DEF Consume, Stray, Told
<1>11. Book!Spend(j)
  BY <1>8, <1>9, <1>10 DEF Book!Spend, Book!run, run
<1> QED
  BY <1>3, <1>11 DEF Book!Next

\* Steps of a dispatch in effect that do not end it: the run changes as its
\* grant allows, beside no stray, or not at all.
LEMMA DrivenKeeps ==
  ASSUME IInv, NEW c \in Caller,
         Prepare(c) \/ Start(c) \/ Advance(c) \/ Complete(c) \/ GiveUp(c) \/ Restore(c) \/ Seal(c)
  PROVE  Keeps
<1>1. /\ TypeOK /\ StoreExclusive /\ InEffect(c) /\ CallInv(c) /\ job' = job
      /\ UNCHANGED <<grant, orphan, answer>>
      /\ pc' = pc \/ (\E label \in {"prepare", "start", "drive", "undo", "report"} : Goto(c, label))
  BY DEF IInv, InEffect, Prepare, Start, Advance, Complete, GiveUp, Restore, Seal, call
<1>2. UNCHANGED <<Pages, Active, Stray, Told>>
  BY <1>1, ActiveMoves DEF Pages, TermsOf, Stray, Told
<1>3. job[c] \in Active
  BY <1>1 DEF Active
<1>4. CASE run' = run
  BY <1>2, <1>4 DEF Keeps, Book!vars, Book!run, run
<1>5. CASE run' # run
  <2>1. job[c].action \in {"execute", "resume", "abort"}
    BY <1>1 DEF CallInv, InEffect, OwnsStore, JobType
  <2>2. ~Stray
    BY <1>1, <1>5 DEF IInv, RunExclusive, OwnsRun, Stray, Prepare, Start, Advance, Complete, GiveUp,
       Restore, Seal, Run!Publish
  <2>3. Book!Allowed(job[c].action)
    <3>1. CASE Prepare(c)
      BY <1>5, <3>1 DEF Prepare
    <3>2. CASE Start(c)
      BY <1>5, <3>2 DEF Start, Book!Allowed, Run!Publish, Book!Run!Publish
    <3>3. CASE Advance(c) \/ Complete(c)
      BY <1>5, <2>1, <3>3 DEF Advance, Complete, Completed, Book!Allowed, Run!Advance, Run!Complete,
         Book!Run!Advance, Book!Run!Complete
    <3>4. CASE GiveUp(c) \/ Restore(c) \/ Seal(c)
      <4>1. job[c].action = "abort"
        BY <1>1, <3>4 DEF GiveUp, Restore, Seal, CallInv
      <4> QED
        BY <3>4, <4>1 DEF GiveUp, Restore, Seal, Book!Allowed, Run!GiveUp, Run!Restore, Run!Seal,
           Book!Run!GiveUp, Book!Run!Restore, Book!Run!Seal
    <3> QED
      BY <3>1, <3>2, <3>3, <3>4
  <2> QED
    BY <1>2, <1>3, <2>2, <2>3 DEF Keeps, Book!Next, Book!Effect
<1> QED
  BY <1>4, <1>5

\* A dispatch is called performed of a run that has reached what was asked.
LEMMA ReportKeeps ==
  ASSUME IInv, NEW c \in Caller, Report(c)
  PROVE  Book!Perform
<1>1. TypeOK /\ StoreExclusive /\ CallInv(c) /\ pc[c] = "report" /\ InEffect(c)
  BY DEF IInv, Report, InEffect
<1>2. job[c] \in Active /\ Book!Reached(job[c].action)
  BY <1>1 DEF Active, CallInv, Book!Reached
<1>3. Active' = {}
  BY <1>1, ActiveLeft DEF Report, Leave, Goto
<1>4. Told' = TRUE /\ UNCHANGED <<Pages, Stray, run>>
  BY DEF Report, Leave, Told, Pages, Stray
<1> QED
  BY <1>2, <1>3, <1>4 DEF Book!Perform, Book!run, run

\* The other ends of calls: a dispatch in effect lapses, and may leave its last
\* command behind; any other call makes no difference.
LEMMA EndsKeep ==
  ASSUME IInv, NEW c \in Caller, Retry(c) \/ Refuse(c) \/ Looked(c) \/ Fail(c) \/ Die(c)
  PROVE  Keeps
<1>1. TypeOK /\ StoreExclusive /\ grant' = grant /\ run' = run
  BY DEF IInv, Retry, Refuse, Looked, Fail, Die
<1>2. PICK what \in {"error", "inspected", "not-repeated"} : Leave(c, what)
  BY DEF Retry, Refuse, Looked, Fail, Die, NotRepeated
<1>3. Pages' = Pages
  BY <1>1 DEF Pages, TermsOf
<1>4. Stray' \in {Stray, TRUE}
  <2>1. CASE orphan' = "writer"
    BY <2>1 DEF Stray
  <2>2. CASE orphan' # "writer"
    <3>1. CASE Die(c)
      <4>1. orphan' \in Leavings(c)
        BY <3>1 DEF Die
      <4>2. CASE pc[c] = "look" \/ OwnsRun(c)
        BY <4>2 DEF IInv, RunExclusive, OwnsRun, Stray
      <4>3. CASE ~(pc[c] = "look" \/ OwnsRun(c))
        BY <2>2, <4>1, <4>3 DEF Leavings, RunFree, Stray
      <4> QED
        BY <4>2, <4>3
    <3>2. CASE ~Die(c)
      BY <2>2, <3>2 DEF Retry, Refuse, Looked, Fail, Stray
    <3> QED
      BY <3>1, <3>2
  <2> QED
    BY <2>1, <2>2
<1>5. CASE InEffect(c)
  <2>1. Book!Lapse
    BY <1>1, <1>2, <1>3, <1>4, <1>5, DispatchLapses
  <2> QED
    BY <2>1 DEF Keeps, Book!Next
<1>6. CASE ~InEffect(c)
  <2>1. Stray' = Stray
    <3>1. CASE Die(c)
      <4>1. orphan' \in Leavings(c) /\ pc[c] \in {"write", "locked", "look"}
        BY <1>1, <1>6, <3>1 DEF Die, InEffect, TypeOK, Labels
      <4>2. pc[c] = "look" => orphan = "none" /\ orphan' \in {"none", "reader"}
        BY <4>1 DEF IInv, RunExclusive, OwnsRun, Leavings
      <4>3. pc[c] = "locked" => orphan' = orphan \/ (orphan = "none" /\ orphan' \in {"none", "reader"})
        BY <4>1 DEF Leavings, OwnsRun, RunFree
      <4>4. pc[c] = "write" => orphan' = orphan
        BY <4>1 DEF Leavings, OwnsRun
      <4> QED
        BY <4>1, <4>2, <4>3, <4>4 DEF Stray
    <3>2. CASE ~Die(c)
      BY <3>2 DEF Retry, Refuse, Looked, Fail, Stray
    <3> QED
      BY <3>1, <3>2
  <2>2. Book!Other
    BY <1>1, <1>2, <1>3, <1>6, <2>1, OtherLeaves
  <2> QED
    BY <2>2 DEF Keeps, Book!Next
<1> QED
  BY <1>5, <1>6

\* What ends without its caller: an orphan, whose last command may still show.
LEMMA OrphanKeeps ==
  ASSUME IInv, OrphanEnds
  PROVE  Keeps
<1>1. UNCHANGED <<grant, pc, job, answer>> /\ orphan' = "none"
  BY DEF OrphanEnds, call
<1>2. \A d \in Caller : InEffect(d)' = InEffect(d) /\ (InEffect(d) => job'[d] = job[d])
  BY <1>1 DEF InEffect
<1>3. UNCHANGED <<Pages, Active, Told>> /\ Stray' = FALSE
  BY <1>1, <1>2, ActiveSame DEF Pages, TermsOf, Told, Stray
<1>4. CASE orphan = "writer"
  <2>1. Run!Advance \/ Run!Restore \/ run' = run
    BY <1>4 DEF OrphanEnds
  <2>2. Book!StrayEnds
    BY <1>3, <1>4, <2>1 DEF Book!StrayEnds, Stray, Run!Advance, Run!Restore, Book!Run!Advance,
       Book!Run!Restore, Book!run, run
  <2> QED
    BY <2>2 DEF Keeps, Book!Next
<1>5. CASE orphan # "writer"
  BY <1>3, <1>5 DEF OrphanEnds, Stray, Keeps, Book!vars, Book!run, run
<1> QED
  BY <1>4, <1>5

\* Time and a cancellation leave the book as it is.
LEMMA UnnoticedKeeps ==
  ASSUME Tick \/ (\E c \in Caller : Cancel(c)) \/ UNCHANGED vars
  PROVE  UNCHANGED Book!vars
<1>1. UNCHANGED <<grant, run, orphan, pc, job, answer>>
  BY DEF Tick, Cancel, vars, call
<1>2. \A d \in Caller : InEffect(d)' = InEffect(d) /\ (InEffect(d) => job'[d] = job[d])
  BY <1>1 DEF InEffect
<1> QED
  BY <1>1, <1>2, ActiveSame DEF Pages, TermsOf, Stray, Told, Book!vars, Book!run, run

\* To the operator the store is GrantBook: a grant is for what it was issued
\* for and spent once, before its dispatch has any effect; that dispatch is the
\* only one in effect, and moves the run as the grant allows; what is left of a
\* dispatch that died ends before another has an effect; and "performed" is
\* said only of a run that has reached what was asked.
THEOREM Refinement == Spec => Promise
<1>1. Init => Book!Init
  <2> SUFFICES ASSUME Init PROVE Book!Init
    OBVIOUS
  <2>1. Pages = [g \in Grant |-> Book!Blank]
    BY DEF Init, Pages, TermsOf, NoGrant, Book!Blank
  <2>2. Active = {}
    BY DEF Init, Active, InEffect
  <2>3. ~Stray /\ ~Told
    BY DEF Init, Stray, Told
  <2> QED
    BY <2>1, <2>2, <2>3 DEF Init, Book!Init, Run!Init, Book!Run!Init, Stray, Told
<1>2. IInv /\ [Next]_vars => [Book!Next]_(Book!vars)
  <2> SUFFICES ASSUME IInv, [Next]_vars PROVE Keeps
    BY DEF Keeps
  <2>1. CASE Tick \/ UNCHANGED vars
    BY <2>1, UnnoticedKeeps DEF Keeps
  <2>2. CASE OrphanEnds
    BY <2>2, OrphanKeeps
  <2>3. ASSUME NEW c \in Caller, Begin(c) PROVE Keeps
    BY <2>3, BeginKeeps DEF Keeps, Book!Next
  <2>4. ASSUME NEW c \in Caller, Step(c) PROVE Keeps
    BY <2>4, IssuedKeeps, ConsumeKeeps, DrivenKeeps, ReportKeeps, EndsKeep DEF Step, Keeps, Book!Next
  <2>5. ASSUME NEW c \in Caller, Fault(c) PROVE Keeps
    BY <2>5, EndsKeep, UnnoticedKeeps DEF Fault, Keeps
  <2> QED
    BY <2>1, <2>2, <2>3, <2>4, <2>5 DEF Next
<1> QED
  BY <1>1, <1>2, Invariance, PTL DEF Spec, Promise, Book!Spec
=============================================================================
