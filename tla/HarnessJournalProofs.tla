------------------------ MODULE HarnessJournalProofs ------------------------
(***************************************************************************)
(* What HarnessJournal keeps for any number of processes, attempts,        *)
(* checkpoints, kills and power losses: its types, one dispatch under a    *)
(* reservation, outcomes that are never invented, statuses that were true, *)
(* and, where the limits leave room, a journal that stays readable.        *)
(***************************************************************************)
EXTENDS HarnessJournal, TLAPS, FiniteSetTheorems, NaturalsInduction, WellFoundedInduction

-----------------------------------------------------------------------------
(* The files of an attempt.                                                *)

\* The slots of an attempt are numbered from its start to its end.
LEMMA SlotFacts ==
  /\ Slot \subseteq Nat /\ StartSlot = 0 /\ EndSlot = MaxCheckpoints + 1
  /\ StartSlot \in Slot /\ EndSlot \in Slot /\ StartSlot # EndSlot
  /\ \A s \in Slot : StartSlot <= s /\ s <= EndSlot
  /\ \A s \in Nat : s \in Slot <=> s <= EndSlot
BY BoundAssumption DEF Slot, StartSlot, EndSlot

\* The slots of an attempt are those of its names.
LEMMA SlotsOf ==
  ASSUME NEW S, NEW a
  PROVE  \A s : s \in Slots(S, a) <=> s \in Slot /\ <<a, s>> \in S
BY DEF Slots

\* A whole attempt that has begun has its start.
LEMMA BegunOf ==
  ASSUME NEW S, NEW a \in Attempt, Sound(S)
  PROVE  a \in Begun(S) <=> <<a, StartSlot>> \in S
<1>1. CASE a \in Begun(S)
  <2>1. StartSlot \in Slots(S, a)
    BY <1>1 DEF Sound, Whole
  <2> QED BY <1>1, <2>1 DEF Slots
<1>2. CASE <<a, StartSlot>> \in S
  <2>1. StartSlot \in Slots(S, a)
    BY <1>2, SlotFacts DEF Slots
  <2> QED BY <1>2, <2>1 DEF Begun
<1> QED BY <1>1, <1>2

\* A set of naturals that is not empty has a least member.
LEMMA Least ==
  ASSUME NEW T \in SUBSET Nat, T # {}
  PROVE  \E x \in T : \A y \in T : x <= y
<1> DEFINE R == OpToRel(<, Nat)
<1>1. IsWellFoundedOn(R, Nat)
  BY NatLessThanWellFounded
<1>2. \A x, y \in Nat : <<y, x>> \in R <=> y < x
  BY DEF OpToRel
<1> HIDE DEF R
<1>3. \E x \in T : \A y \in T : ~(<<y, x>> \in R)
  BY <1>1, WFMin, Zenon
<1>4. PICK x \in T : \A y \in T : ~(<<y, x>> \in R)
  BY <1>3
<1>5. ASSUME NEW y \in T PROVE x <= y
  <2>1. ~(<<y, x>> \in R) /\ x \in Nat /\ y \in Nat
    BY <1>4
  <2>2. ~(y < x)
    BY <1>2, <2>1
  <2> QED BY <2>1, <2>2
<1> QED BY <1>5

\* The checkpoints that a whole attempt has are the first ones.
LEMMA Filled ==
  ASSUME NEW S, NEW a \in Attempt, Whole(S, a), NEW s \in Slots(S, a), s # EndSlot,
         NEW t \in Nat, t <= s
  PROVE  t \in Slots(S, a)
<1> DEFINE Missing == {u \in Nat : u <= s /\ s - u \notin Slots(S, a)}
<1> USE SlotFacts
<1>1. s \in Slot /\ s \in Nat
  BY SlotsOf
<1>2. SUFFICES ASSUME t \notin Slots(S, a) PROVE FALSE
  OBVIOUS
<1>3. s - t \in Missing
  BY <1>1, <1>2
<1>4. PICK x \in Missing : \A y \in Missing : x <= y
  <2>1. Missing \in SUBSET Nat
    OBVIOUS
  <2> HIDE DEF Missing
  <2> QED BY <1>3, <2>1, Least
<1>5. x \in Nat /\ x <= s /\ s - x \notin Slots(S, a)
  BY <1>4
<1>6. x # 0
  BY <1>1, <1>5
<1>7. x - 1 \in Nat /\ x - 1 <= s /\ s - (x - 1) \in Slots(S, a)
  <2>1. x - 1 \in Nat /\ x - 1 <= s /\ ~(x <= x - 1)
    BY <1>1, <1>5, <1>6
  <2>2. x - 1 \notin Missing
    BY <1>4, <2>1
  <2> QED BY <2>1, <2>2
<1> DEFINE v == s - (x - 1)
<1>8. v \in Slots(S, a) /\ v # StartSlot /\ v # EndSlot /\ v - 1 = s - x
  <2>1. v \in Slots(S, a) /\ v \in Slot /\ v - 1 = s - x /\ v <= s
    BY <1>1, <1>5, <1>7, SlotsOf
  <2> QED BY <1>1, <1>5, <2>1
<1>9. Follows(S, a, v)
  BY <1>8 DEF Whole
<1>10. PICK q \in Slots(S, a) : q + 1 = v
  BY <1>8, <1>9 DEF Follows
<1>11. q \in Nat
  BY SlotsOf
<1> QED BY <1>1, <1>5, <1>8, <1>10, <1>11

\* An inspection that found a whole attempt missed only what came after.
LEMMA SeenFirst ==
  ASSUME Sound(Written), NEW S, S \subseteq Written, Sound(S), NEW a \in Attempt,
         NEW s \in Slots(S, a), NEW t \in Slots(Written, a), t \notin Slots(S, a)
  PROVE  s < t
<1> USE SlotFacts
<1>1. s \in Slot /\ t \in Slot /\ <<a, s>> \in S /\ s \in Nat /\ t \in Nat
  BY SlotsOf
<1>2. Whole(S, a)
  BY <1>1 DEF Sound, Begun
<1>3. SUFFICES ASSUME t < s PROVE FALSE
  BY <1>1
<1>4. s = EndSlot
  BY <1>1, <1>2, <1>3, Filled
<1>5. s \in Slots(Written, a) /\ Whole(Written, a)
  BY <1>1, SlotsOf DEF Sound, Begun
<1> DEFINE q == dir[<<a, s>>].prev
<1>6. q \in Slots(S, a) /\ q < s
  BY <1>2, <1>4 DEF Whole, Follows
<1>7. ~(q < t)
  <2>1. \A u \in Slots(Written, a) : ~(q < u /\ u < s)
    BY <1>4, <1>5 DEF Whole, Follows
  <2> QED BY <1>3, <2>1
<1>8. q \in Nat /\ t <= q /\ q # EndSlot
  <2>1. q \in Nat
    BY <1>6, SlotsOf
  <2> HIDE DEF q
  <2> QED BY <1>1, <1>4, <1>6, <1>7, <2>1
<1> HIDE DEF q
<1> QED BY <1>1, <1>2, <1>6, <1>8, Filled

-----------------------------------------------------------------------------
(* Steps that publish nothing.                                             *)

Progress == \A a \in Attempt : ran[a] \subseteq ran'[a]

\* Chains stay whole when no file changes.
LEMMA SoundQuiet == ASSUME Sound(Written), dir' = dir PROVE Sound(Written)'
<1>1. Written' = Written
  BY DEF Written
<1> QED BY <1>1 DEF Sound, Begun, Slots, Whole, Follows

\* No names are in order.
LEMMA EmptyOrder == ASSUME NEW W PROVE Ordered(<<>>, W)
<1>1. Len(<<>>) = 0
  OBVIOUS
<1> QED BY <1>1 DEF Ordered

\* A sync of the directory makes more names safe, and never fewer.
LEMMA SafelyQuiet ==
  ASSUME dir' = dir, unsynced' \in {unsynced, <<>>}
  PROVE  /\ \A n : Safely(n) => Safely(n)'
         /\ unsynced' = <<>> => \A n \in Written : Safely(n)'
<1>1. Written' = Written /\ Len(<<>>) = 0
  BY DEF Written
<1> QED BY <1>1 DEF Safely

\* What holds of the files holds when they do not change.
LEMMA FilesQuiet ==
  ASSUME Typed, Sound(Written), InOrder, Spare,
         dir' = dir, unsynced' \in {unsynced, <<>>}, temps' \in {temps, 0}
  PROVE  Typed' /\ Sound(Written)' /\ InOrder' /\ Spare' /\ Written' = Written
<1>1. Written' = Written
  BY DEF Written
<1>2. Typed'
  BY DEF Typed, Fitting
<1>3. Sound(Written)'
  BY SoundQuiet
<1>4. InOrder'
  <2>1. CASE unsynced' = unsynced
    BY <1>1, <2>1 DEF InOrder
  <2>2. CASE unsynced' = <<>>
    BY <2>2, EmptyOrder DEF InOrder
  <2> QED BY <2>1, <2>2
<1>5. Spare'
  BY DEF Spare
<1> QED BY <1>1, <1>2, <1>3, <1>4, <1>5

\* No reservation is spent when no file changes and no fixture starts.
LEMMA SpentQuiet ==
  ASSUME Spent, dir' = dir, unsynced' \in {unsynced, <<>>}, dispatches' = dispatches
  PROVE  Spent'
<1>1. Begun(Written)' = Begun(Written)
  BY DEF Written, Begun, Slots
<1>2. \A n : Safely(n) => Safely(n)'
  BY SafelyQuiet
<1> QED BY <1>1, <1>2 DEF Spent

\* Recorded outcomes stay true when no file changes.
LEMMA NeverUpgradedQuiet ==
  ASSUME NeverUpgraded, UNCHANGED dir, Progress PROVE NeverUpgraded'
<1>1. Written' = Written
  BY DEF Written
<1>2. \A a \in Attempt : Ended(Written, a)' <=> Ended(Written, a)
  BY <1>1 DEF Ended, Slots
<1> QED BY <1>2 DEF NeverUpgraded, Progress

\* A record about to be published still fits when no file changes.
LEMMA ReadyQuiet ==
  ASSUME TypeOK, Ready, UNCHANGED dir, Progress,
         \A p \in Process : stage'[p] = "publish" =>
            stage[p] = "publish" /\ job'[p] = job[p] /\ job[p].attempt \in Attempt
  PROVE  Ready'
<1>1. Written' = Written
  BY DEF Written
<1>2. SUFFICES ASSUME NEW p \in Process, stage'[p] = "publish" PROVE Appends(job[p])'
  BY DEF Ready
<1>3. Appends(job[p]) /\ job'[p] = job[p] /\ job[p].attempt \in Attempt
  BY <1>2 DEF Ready
<1>4. ran[job[p].attempt] \subseteq ran'[job[p].attempt]
  BY <1>3 DEF Progress
<1> QED BY <1>1, <1>3, <1>4 DEF Appends, Fitting, Unused, Begun, Ended, Slots, IsLast

\* Whoever takes no part in a step keeps its place.
LEMMA EmployedQuiet ==
  ASSUME NEW p \in Process, Employed(p), Progress, Written \subseteq Written',
         stage'[p] = stage[p], job'[p] = job[p], base'[p] = base[p],
         lock' = p <=> lock = p
  PROVE  Employed(p)'
<1>1. job[p] \in Job => ran[job[p].attempt] \subseteq ran'[job[p].attempt]
  BY DEF Progress, Job
<1> QED BY <1>1 DEF Employed

\* Runs keep their attempts when no file changes.
LEMMA OwnedQuiet ==
  ASSUME \A p \in Process : Owned(p), dir' = dir, unsynced' \in {unsynced, <<>>},
         dispatches' = dispatches,
         \A p \in Process : Owns(p)' =>
            /\ Owns(p) /\ job'[p].attempt = job[p].attempt
            /\ job'[p].reservation = job[p].reservation
            /\ job[p].op = "begin" => job'[p].op = "begin"
            /\ Fresh(p)' => Fresh(p)
  PROVE  \A p \in Process : Owned(p)'
<1>1. Written' = Written
  BY DEF Written
<1> SUFFICES ASSUME NEW p \in Process, Owns(p)' PROVE Owned(p)'
  BY DEF Owned
<1>2. Owns(p) /\ Owned(p) /\ job'[p].attempt = job[p].attempt
  OBVIOUS
<1>3. \A q \in Process : Owns(q)' => Owns(q) /\ job'[q].attempt = job[q].attempt
  OBVIOUS
<1>4. job'[p].op # "begin" => job[p].op # "begin"
  OBVIOUS
<1>5. \A n : Safely(n) => Safely(n)'
  BY SafelyQuiet
<1> QED BY <1>1, <1>2, <1>3, <1>4, <1>5 DEF Owned

\* Without an answer there is no status.
LEMMA HonestNone == ASSUME answer' = None PROVE HonestStatus'
BY DEF HonestStatus

\* A refusal is no status.
LEMMA HonestRefusal ==
  ASSUME NEW p \in Process, NEW says \in Refusal, Refuse(p, says) PROVE HonestStatus'
<1>1. says \notin Status
  BY OutcomeAssumption DEF Refusal, Status
<1>2. answer'.says = says
  BY DEF Refuse, Return, Tell
<1> QED BY <1>1, <1>2 DEF HonestStatus

\* The status of the journal as it is.
LEMMA HonestNow ==
  ASSUME NEW p \in Process, job[p] \in Job, UNCHANGED dir,
         Return(p, StatusOf(Written, job[p].attempt), Written, Written)
  PROVE  HonestStatus'
<1> DEFINE a == job[p].attempt  seen == Slots(Written, job[p].attempt)
<1>1. /\ answer'.attempt = a /\ answer'.from = seen /\ answer'.seen = seen
      /\ answer'.says = StatusOf(Written, a) /\ Written' = Written
  BY DEF Return, Tell, Written
<1>2. Slots({a} \X seen, a) = seen
  BY DEF Slots
<1>3. StatusOf({answer.attempt} \X answer.seen, answer.attempt)' = StatusOf(Written, a)
  <2>1. Slots({answer'.attempt} \X answer'.seen, answer'.attempt) = seen
    BY <1>1, <1>2
  <2>2. Ended({answer.attempt} \X answer.seen, answer.attempt)' <=> Ended(Written, a)
    BY <2>1 DEF Ended
  <2> QED BY <1>1, <2>1, <2>2 DEF StatusOf
<1>4. Slots(Written, answer.attempt)' = seen
  BY <1>1 DEF Slots
<1> QED BY <1>1, <1>3, <1>4 DEF HonestStatus

-----------------------------------------------------------------------------
(* Calls.                                                                  *)

\* Init preserves the inductive invariant.
LEMMA InitInv == Init => IInv
<1> SUFFICES ASSUME Init PROVE IInv
  OBVIOUS
<1>1. Written = {} /\ Begun(Written) = {}
  BY DEF Init, Written, Begun, Slots
<1>2. TypeOK
  <2>1. unsynced \in Seq(Name) /\ temps \in 0..1 /\ calls \in 0..MaxCalls /\ faults \in 0..MaxFaults
    BY BoundAssumption DEF Init
  <2>2. /\ dir \in [Name -> Record \cup {None}] /\ job \in [Process -> Job \cup {None}]
        /\ stage \in [Process -> Stage] /\ base \in [Process -> SUBSET Name]
    BY DEF Init, Stage
  <2>3. dispatches \in [Reservation -> Nat] /\ ran \in [Attempt -> SUBSET Outcome]
    BY DEF Init
  <2> QED BY <2>1, <2>2, <2>3 DEF Init, TypeOK
<1>3. Typed /\ Sound(Written) /\ Ready /\ InOrder
  <2>1. unsynced = <<>> /\ Len(unsynced) = 0
    BY DEF Init
  <2>2. Ordered(unsynced, Written)
    BY <1>1, <2>1 DEF Ordered
  <2> QED BY <1>1, <2>2 DEF Init, Typed, Sound, Ready, InOrder
<1>4. Spent /\ Spare
  BY <1>1 DEF Init, Spent, Spare
<1>5. \A p \in Process : Employed(p) /\ Owned(p)
  BY NoneAssumption DEF Init, Employed, Owned, Owns, Locking
<1>6. NeverUpgraded /\ HonestStatus
  BY DEF Init, NeverUpgraded, HonestStatus, Ended, Slots, Written
<1> QED BY <1>2, <1>3, <1>4, <1>5, <1>6 DEF IInv

\* A call puts an idle process before its first step.
LEMMA CallInv ==
  ASSUME IInv, NEW p \in Process, NEW op \in Op \ {"finish"}, NEW run \in BOOLEAN,
         NEW a \in Attempt, NEW m \in Manifest, NEW now \in 0..MaxTime,
         NEW r \in Reservation \cup {None}, NEW at \in {"enter", "scan"},
         run <=> op = "begin", run => r \in Reservation, op = "inspect" <=> at = "scan",
         Call(p, NewJob(op, run, a, m, now, r), at),
         base' \in {base, [base EXCEPT ![p] = Written]}
  PROVE  IInv'
<1> DEFINE j == NewJob(op, run, a, m, now, r)
<1>1. /\ stage[p] = "idle" /\ job' = [job EXCEPT ![p] = j] /\ stage' = [stage EXCEPT ![p] = at]
      /\ answer' = None /\ calls < MaxCalls /\ calls' = calls + 1
      /\ dir' = dir /\ unsynced' = unsynced /\ temps' = temps /\ lock' = lock
      /\ dispatches' = dispatches /\ ran' = ran /\ faults' = faults
  BY DEF Call, files, history
<1>2. /\ j \in Job /\ j.op = op /\ j.run = run /\ j.attempt = a /\ j.reservation = r
  <2>1. None \in Outcome \cup {None} /\ None \in Record \cup {None}
    OBVIOUS
  <2> QED BY <2>1, SlotFacts DEF NewJob, Job
<1> HIDE DEF j
<1>3. Written' = Written
  BY <1>1 DEF Written
<1>4. TypeOK'
  <2>1. base' \in [Process -> SUBSET Name]
    BY DEF IInv, TypeOK, Written
  <2>2. stage' \in [Process -> Stage] /\ job' \in [Process -> Job \cup {None}]
    BY <1>1, <1>2 DEF IInv, TypeOK, Stage
  <2>3. calls' \in 0..MaxCalls
    BY <1>1, BoundAssumption DEF IInv, TypeOK
  <2> QED BY <1>1, <2>1, <2>2, <2>3 DEF IInv, TypeOK
<1>5. Progress
  BY <1>1 DEF Progress
<1>6. stage'[p] = at /\ job'[p] = j
  BY <1>1 DEF IInv, TypeOK
<1>7. \A q \in Process : q # p =>
        stage'[q] = stage[q] /\ job'[q] = job[q] /\ base'[q] = base[q]
  BY <1>1 DEF IInv, TypeOK
<1>8. \A q \in Process : Employed(q)'
  <2>1. Employed(p)'
    <3>1. base'[p] \subseteq Written'
      BY <1>3 DEF IInv, TypeOK, Employed
    <3> QED BY <1>1, <1>2, <1>6, <3>1 DEF IInv, Employed, Locking
  <2>2. ASSUME NEW q \in Process, q # p PROVE Employed(q)'
    BY <1>1, <1>3, <1>5, <1>7, <2>2, EmployedQuiet DEF IInv
  <2> QED BY <2>1, <2>2
<1>9. Typed' /\ Sound(Written)' /\ InOrder' /\ Spare'
  BY <1>1, FilesQuiet DEF IInv
<1>10. Ready'
  BY <1>1, <1>5, <1>6, <1>7, ReadyQuiet DEF IInv, Employed, Job
<1>11. \A q \in Process : Owned(q)'
  <2>1. ~Owns(p)'
    BY <1>2, <1>6 DEF Owns
  <2>2. \A q \in Process : q # p => (Owns(q)' <=> Owns(q)) /\ (Fresh(q)' <=> Fresh(q))
    BY <1>7 DEF Owns, Fresh
  <2> QED BY <1>1, <1>7, <2>1, <2>2, OwnedQuiet DEF IInv
<1>12. Spent' /\ NeverUpgraded' /\ HonestStatus'
  BY <1>1, <1>5, SpentQuiet, NeverUpgradedQuiet, HonestNone DEF IInv
<1> QED BY <1>4, <1>8, <1>9, <1>10, <1>11, <1>12 DEF IInv

\* Calls preserves the inductive invariant.
LEMMA CallsInv ==
  ASSUME IInv, NEW p \in Process, NEW a \in Attempt, NEW m \in Manifest, NEW now \in 0..MaxTime,
         \/ \E r \in Reservation : RunJournaled(p, a, r, m, now)
         \/ Checkpoint(p, a, m, now) \/ Reconcile(p, a, m, now) \/ Inspect(p, a, m, now)
  PROVE  IInv'
<1>1. CASE \E r \in Reservation : RunJournaled(p, a, r, m, now)
  <2>1. PICK r \in Reservation : RunJournaled(p, a, r, m, now)
    BY <1>1
  <2>2. Call(p, NewJob("begin", TRUE, a, m, now, r), "enter") /\ base' = base
    BY <2>1 DEF RunJournaled
  <2>3. "begin" \in Op \ {"finish"}
    BY DEF Op
  <2> QED BY <2>2, <2>3, CallInv
<1>2. CASE Checkpoint(p, a, m, now)
  <2>1. Call(p, NewJob("checkpoint", FALSE, a, m, now, None), "enter") /\ base' = base
    BY <1>2 DEF Checkpoint
  <2>2. "checkpoint" \in Op \ {"finish"}
    BY DEF Op
  <2> QED BY <2>1, <2>2, CallInv
<1>3. CASE Reconcile(p, a, m, now)
  <2>1. Call(p, NewJob("reconcile", FALSE, a, m, now, None), "enter") /\ base' = base
    BY <1>3 DEF Reconcile
  <2>2. "reconcile" \in Op \ {"finish"}
    BY DEF Op
  <2> QED BY <2>1, <2>2, CallInv
<1>4. CASE Inspect(p, a, m, now)
  <2>1. /\ Call(p, NewJob("inspect", FALSE, a, m, now, None), "scan")
        /\ base' = [base EXCEPT ![p] = Written]
    BY <1>4 DEF Inspect
  <2>2. "inspect" \in Op \ {"finish"}
    BY DEF Op
  <2> QED BY <2>1, <2>2, CallInv
<1> QED BY <1>1, <1>2, <1>3, <1>4

-----------------------------------------------------------------------------
(* Ends of calls.                                                          *)

Same == /\ dir' = dir /\ unsynced' \in {unsynced, <<>>} /\ temps' = temps
        /\ dispatches' = dispatches /\ ran' = ran

\* The unsynced names stay a sequence of names.
LEMMA UnsyncedType == ASSUME TypeOK, Same PROVE unsynced' \in Seq(Name)
<1>1. <<>> \in Seq(Name)
  OBVIOUS
<1>2. unsynced \in Seq(Name) /\ unsynced' \in {unsynced, <<>>}
  BY DEF TypeOK, Same
<1> QED BY <1>1, <1>2

\* All of the invariant but its types and the last answer.
Core == /\ Typed /\ Sound(Written) /\ Ready /\ InOrder /\ Spent /\ Spare /\ NeverUpgraded
        /\ \A p \in Process : Employed(p) /\ Owned(p)

\* A process that stops working leaves all others as they were.
LEMMA LeaveCore ==
  ASSUME IInv, NEW p \in Process, Same,
         stage' = [stage EXCEPT ![p] = "idle"], job' = [job EXCEPT ![p] = None],
         base' = [base EXCEPT ![p] = {}], Release(p)
  PROVE  /\ Core'
         /\ stage' \in [Process -> Stage] /\ job' \in [Process -> Job \cup {None}]
         /\ base' \in [Process -> SUBSET Name] /\ lock' \in Process \cup {None}
<1>1. Written' = Written /\ Progress
  BY DEF Same, Written, Progress
<1>2. stage'[p] = "idle" /\ job'[p] = None /\ base'[p] = {}
  BY DEF IInv, TypeOK
<1>3. \A q \in Process : q # p =>
        stage'[q] = stage[q] /\ job'[q] = job[q] /\ base'[q] = base[q] /\ (lock' = q <=> lock = q)
  BY NoneAssumption DEF IInv, TypeOK, Release
<1>4. lock' # p
  BY NoneAssumption DEF Release
<1>5. \A q \in Process : Employed(q)'
  <2>1. Employed(p)'
    BY <1>2, <1>4 DEF Employed, Locking
  <2>2. ASSUME NEW q \in Process, q # p PROVE Employed(q)'
    BY <1>1, <1>3, <2>2, EmployedQuiet DEF IInv
  <2> QED BY <2>1, <2>2
<1>6. Typed' /\ Sound(Written)' /\ InOrder' /\ Spare'
  BY FilesQuiet DEF IInv, Same
<1>7. Ready'
  BY <1>1, <1>2, <1>3, ReadyQuiet DEF IInv, Employed, Job, Same
<1>8. \A q \in Process : Owned(q)'
  <2>1. ~Owns(p)'
    BY <1>2 DEF Owns
  <2>2. \A q \in Process : q # p => (Owns(q)' <=> Owns(q)) /\ (Fresh(q)' <=> Fresh(q))
    BY <1>3 DEF Owns, Fresh
  <2> QED BY <1>3, <2>1, <2>2, OwnedQuiet DEF IInv, Same
<1>9. Spent' /\ NeverUpgraded'
  BY <1>1, SpentQuiet, NeverUpgradedQuiet DEF IInv, Same
<1>10. /\ stage' \in [Process -> Stage] /\ job' \in [Process -> Job \cup {None}]
       /\ base' \in [Process -> SUBSET Name] /\ lock' \in Process \cup {None}
  BY DEF IInv, TypeOK, Stage, Release
<1> QED BY <1>5, <1>6, <1>7, <1>8, <1>9, <1>10 DEF Core

\* An answer has its type.
LEMMA AnswerType ==
  ASSUME NEW p \in Process, job[p] \in Job, NEW says \in Status \cup Refusal, NEW from, NEW S,
         Tell(p, says, from, S)
  PROVE  answer' \in Answer
BY DEF Tell, Answer, Job, Slots

\* Return preserves the inductive invariant.
LEMMA ReturnInv ==
  ASSUME IInv, NEW p \in Process, stage[p] # "idle", Same, UNCHANGED bounds,
         NEW says \in Status \cup Refusal, NEW from, NEW S, Return(p, says, from, S), HonestStatus'
  PROVE  IInv'
<1>1. job[p] \in Job
  BY DEF IInv, Employed
<1>2. answer' \in Answer
  BY <1>1, AnswerType DEF Return
<1>3. /\ Core'
      /\ stage' \in [Process -> Stage] /\ job' \in [Process -> Job \cup {None}]
      /\ base' \in [Process -> SUBSET Name] /\ lock' \in Process \cup {None}
  BY LeaveCore DEF Return
<1>4. TypeOK'
  <2>1. unsynced' \in Seq(Name)
    BY UnsyncedType DEF IInv
  <2> QED BY <1>2, <1>3, <2>1 DEF IInv, TypeOK, Same, bounds
<1> QED BY <1>3, <1>4 DEF IInv, Core

\* Refuse preserves the inductive invariant.
LEMMA RefuseInv ==
  ASSUME IInv, NEW p \in Process, stage[p] # "idle", Same, UNCHANGED bounds,
         NEW says \in Refusal, Refuse(p, says)
  PROVE  IInv'
BY ReturnInv, HonestRefusal DEF Refuse

\* StatusOf gives a status.
LEMMA StatusType ==
  ASSUME TypeOK, Typed, NEW S, S \subseteq Written, NEW a \in Attempt
  PROVE  StatusOf(S, a) \in Status
<1>1. CASE Ended(S, a)
  <2>1. <<a, EndSlot>> \in Written /\ <<a, EndSlot>> \in Name
    BY <1>1, SlotFacts DEF Ended, Slots, Name
  <2>2. dir[<<a, EndSlot>>].says \in Outcome \cup {"reconciled"}
    BY <2>1 DEF Typed, Fitting, Written
  <2> QED BY <1>1, <2>2 DEF StatusOf, Status
<1>2. CASE ~Ended(S, a)
  BY <1>2 DEF StatusOf, Status
<1> QED BY <1>1, <1>2

\* The moves of a process that ends nothing and publishes nothing.
LEMMA MoveInv ==
  ASSUME IInv, NEW p \in Process, dir' = dir, unsynced' = unsynced, temps' \in 0..1,
         Progress, dispatches' = dispatches, ran' \in [Attempt -> SUBSET Outcome],
         lock' \in Process \cup {None}, \A q \in Process \ {p} : lock' = q <=> lock = q,
         NEW at \in Stage, at # "idle", stage[p] # "idle", stage' = [stage EXCEPT ![p] = at],
         NEW j \in Job, job' = [job EXCEPT ![p] = j],
         base' = base, answer' = None, UNCHANGED bounds,
         j.attempt = job[p].attempt, j.reservation = job[p].reservation, j.run = job[p].run,
         job[p].op = "begin" <=> j.op = "begin", at # "sync",
         job[p].op = "finish" \/ stage[p] = "running" => j.op = "finish",
         Employed(p)', Ready', Spare'
  PROVE  IInv'
<1>1. Written' = Written
  BY DEF Written
<1>2. stage'[p] = at /\ job'[p] = j
  BY DEF IInv, TypeOK
<1>3. \A q \in Process : q # p => stage'[q] = stage[q] /\ job'[q] = job[q] /\ base'[q] = base[q]
  BY DEF IInv, TypeOK
<1>4. TypeOK'
  BY DEF IInv, TypeOK, bounds
<1>5. \A q \in Process : Employed(q)'
  BY <1>1, <1>3, EmployedQuiet DEF IInv
<1>6. Typed' /\ Sound(Written)' /\ InOrder'
  <2>1. Typed' /\ InOrder'
    BY <1>1 DEF IInv, Typed, Fitting, InOrder
  <2>2. Sound(Written)'
    BY SoundQuiet DEF IInv
  <2> QED BY <2>1, <2>2
<1>7. Spent' /\ NeverUpgraded' /\ HonestStatus'
  BY SpentQuiet, NeverUpgradedQuiet, HonestNone DEF IInv
<1>8. \A q \in Process : Owned(q)'
  <2>1. \A q \in Process : q # p => (Owns(q)' <=> Owns(q)) /\ (Fresh(q)' <=> Fresh(q))
    BY <1>3 DEF Owns, Fresh
  <2>2. Owns(p)' => Owns(p) /\ (Fresh(p)' => Fresh(p))
    BY <1>2 DEF Owns, Fresh
  <2> QED BY <1>2, <1>3, <2>1, <2>2, OwnedQuiet DEF IInv
<1> QED BY <1>4, <1>5, <1>6, <1>7, <1>8 DEF IInv

-----------------------------------------------------------------------------
(* The steps of a call.                                                    *)

\* Enter preserves the inductive invariant.
LEMMA EnterInv == ASSUME IInv, NEW p \in Process, Enter(p) PROVE IInv'
<1>1. stage[p] = "enter" /\ Same /\ unsynced' = unsynced /\ UNCHANGED bounds
  BY DEF Enter, files, history, Same
<1>2. CASE lock # None /\ Refuse(p, "busy")
  <2>1. "busy" \in Refusal
    BY DEF Refusal
  <2> QED BY <1>1, <1>2, <2>1, RefuseInv
<1>3. CASE lock = None /\ lock' = p /\ stage' = [stage EXCEPT ![p] = "decide"]
           /\ job' = job /\ base' = base /\ answer' = None
  <2> DEFINE j == job[p]
  <2>1. j \in Job /\ Employed(p)
    BY <1>1 DEF IInv, Employed
  <2>2. job' = [job EXCEPT ![p] = j] /\ job'[p] = j /\ stage'[p] = "decide"
    BY <1>3 DEF IInv, TypeOK
  <2>3. Progress /\ Written' = Written
    BY <1>1 DEF Progress, Same, Written
  <2>4. Employed(p)'
    BY <1>1, <1>3, <2>1, <2>2, <2>3 DEF Employed, Locking, Same
  <2>5. Ready'
    <3>1. \A q \in Process : stage'[q] = "publish" =>
            stage[q] = "publish" /\ job'[q] = job[q] /\ job[q].attempt \in Attempt
      BY <1>1, <1>3, <2>2 DEF IInv, TypeOK, Employed, Job
    <3> QED BY <1>1, <2>3, <3>1, ReadyQuiet DEF IInv, Same
  <2>6. Spare'
    BY <1>1 DEF IInv, Spare, Same
  <2>7. /\ temps' \in 0..1 /\ ran' \in [Attempt -> SUBSET Outcome] /\ lock' \in Process \cup {None}
        /\ \A q \in Process \ {p} : lock' = q <=> lock = q
    BY <1>1, <1>3, NoneAssumption DEF IInv, TypeOK, Same
  <2>8. "decide" \in Stage
    BY DEF Stage
  <2> HIDE DEF j
  <2>9. j.attempt = job[p].attempt /\ j.reservation = job[p].reservation /\ j.run = job[p].run
        /\ j.op = job[p].op
    BY DEF j
  <2> QED BY <1>1, <1>3, <2>1, <2>2, <2>3, <2>4, <2>5, <2>6, <2>7, <2>8, <2>9, MoveInv DEF Same
<1> QED BY <1>2, <1>3 DEF Enter

\* FixtureEnds preserves the inductive invariant.
LEMMA FixtureEndsInv ==
  ASSUME IInv, NEW p \in Process, NEW o \in Outcome, FixtureEnds(p, o) PROVE IInv'
<1> DEFINE a == job[p].attempt
           j == [job[p] EXCEPT !.op = "finish", !.outcome = o]
<1>1. /\ stage[p] = "running" /\ dir' = dir /\ unsynced' = unsynced /\ temps' = temps
      /\ lock' = lock /\ base' = base /\ dispatches' = dispatches /\ UNCHANGED bounds
      /\ answer' = None /\ stage' = [stage EXCEPT ![p] = "enter"]
      /\ ran' = [ran EXCEPT ![a] = @ \cup {o}]
  BY DEF FixtureEnds, files
<1>2. job[p] \in Job /\ job[p].op = "checkpoint" /\ job[p].run /\ Employed(p)
  BY <1>1 DEF IInv, Employed
<1>3. job' = [job EXCEPT ![p] = j]
  BY <1>2 DEF FixtureEnds, IInv, TypeOK
<1>4. /\ j \in Job /\ j.op = "finish" /\ j.outcome = o /\ j.attempt = a
      /\ j.reservation = job[p].reservation /\ j.run = job[p].run
  BY <1>2 DEF Job, Op
<1> HIDE DEF j
<1>5. a \in Attempt
  BY <1>2 DEF Job
<1>6. /\ ran' \in [Attempt -> SUBSET Outcome] /\ o \in ran'[a] /\ Progress
      /\ Written' = Written /\ job'[p] = j /\ stage'[p] = "enter"
  BY <1>1, <1>3, <1>5 DEF IInv, TypeOK, Progress, Written
<1>7. Employed(p)'
  BY <1>1, <1>2, <1>4, <1>6 DEF Employed, Locking
<1>8. Ready'
  <2>1. \A q \in Process : stage'[q] = "publish" =>
            stage[q] = "publish" /\ job'[q] = job[q] /\ job[q].attempt \in Attempt
    BY <1>1, <1>3, <1>6 DEF IInv, TypeOK, Employed, Job
  <2> QED BY <1>1, <1>6, <2>1, ReadyQuiet DEF IInv
<1>9. Spare' /\ temps' \in 0..1 /\ lock' \in Process \cup {None}
  BY <1>1 DEF IInv, Spare, TypeOK
<1>10. "enter" \in Stage
  BY DEF Stage
<1> QED BY <1>1, <1>2, <1>3, <1>4, <1>6, <1>7, <1>8, <1>9, <1>10, MoveInv

\* Scan preserves the inductive invariant.
LEMMA ScanInv == ASSUME IInv, NEW p \in Process, Scan(p) PROVE IInv'
<1>1. stage[p] = "scan" /\ Same /\ UNCHANGED bounds
  BY DEF Scan, files, history, Same
<1>2. job[p] \in Job /\ base[p] \subseteq Written
  BY <1>1 DEF IInv, Employed
<1> DEFINE j == job[p]
           ToldOf(S, t) == IF ~Loads(S, t) THEN LoadRefusal(S, t)
                           ELSE IF ~BoundTo(S, j) THEN "refused" ELSE StatusOf(S, j.attempt)
<1>3. PICK S \in SUBSET Written, t \in {temps} \cup (IF Written = base[p] THEN {} ELSE {1}) :
        base[p] \subseteq S /\ Return(p, ToldOf(S, t), base[p], S)
  BY DEF Scan
<1>4. StatusOf(S, j.attempt) \in Status
  BY <1>2, StatusType DEF IInv, Job
<1>5. ToldOf(S, t) \in Status \cup Refusal
  BY <1>4 DEF LoadRefusal, Refusal
<1>6. HonestStatus'
  <2>1. CASE ToldOf(S, t) \in Refusal
    <3>1. answer'.says \notin Status
      BY <1>3, <2>1, OutcomeAssumption DEF Return, Tell, Refusal, Status
    <3> QED BY <3>1 DEF HonestStatus
  <2>2. CASE Loads(S, t) /\ ToldOf(S, t) = StatusOf(S, j.attempt)
    <3> DEFINE a == j.attempt
    <3>1. /\ answer'.attempt = a /\ answer'.from = Slots(base[p], a) /\ answer'.seen = Slots(S, a)
          /\ answer'.says = StatusOf(S, a)
      BY <1>3, <2>2 DEF Return, Tell
    <3>2. a \in Attempt /\ Sound(S) /\ Sound(Written)
      BY <1>2, <2>2 DEF Job, Loads, IInv
    <3> HIDE DEF a
    <3>3. Slots(Written, answer.attempt)' = Slots(Written, a)
      BY <1>1, <3>1 DEF Written, Slots, Same
    <3>4. Slots(base[p], a) \subseteq Slots(S, a) /\ Slots(S, a) \subseteq Slots(Written, a)
      BY <1>3 DEF Slots
    <3>5. \A s \in Slots(S, a), u \in Slots(Written, a) \ Slots(S, a) : s < u
      BY <3>2, SeenFirst
    <3>6. StatusOf({answer.attempt} \X answer.seen, answer.attempt)' = StatusOf(S, a)
      <4>1. Slots({answer'.attempt} \X answer'.seen, answer'.attempt) = Slots(S, a)
        BY <3>1 DEF Slots
      <4>2. Ended({answer.attempt} \X answer.seen, answer.attempt)' <=> Ended(S, a)
        BY <4>1 DEF Ended
      <4> QED BY <1>1, <3>1, <4>1, <4>2 DEF StatusOf, Same
    <3> QED BY <3>1, <3>3, <3>4, <3>5, <3>6 DEF HonestStatus
  <2>3. CASE ~(Loads(S, t) /\ ToldOf(S, t) = StatusOf(S, j.attempt))
    BY <2>1, <2>3 DEF LoadRefusal, Refusal
  <2> QED BY <2>2, <2>3
<1> HIDE DEF ToldOf
<1> QED BY <1>1, <1>3, <1>5, <1>6, ReturnInv

\* Stop preserves the inductive invariant.
LEMMA StopInv == ASSUME IInv, NEW p \in Process, Stop(p) PROVE IInv'
<1>1. Same /\ answer' = None /\ calls' = calls /\ faults' = faults + 1 /\ faults < MaxFaults
  BY DEF Stop, files, history, Same
<1>2. /\ Core'
      /\ stage' \in [Process -> Stage] /\ job' \in [Process -> Job \cup {None}]
      /\ base' \in [Process -> SUBSET Name] /\ lock' \in Process \cup {None}
  BY <1>1, LeaveCore DEF Stop
<1>3. TypeOK'
  <2>1. faults' \in 0..MaxFaults
    BY <1>1, BoundAssumption DEF IInv, TypeOK
  <2>2. unsynced' \in Seq(Name)
    BY <1>1, UnsyncedType DEF IInv
  <2> QED BY <1>1, <1>2, <2>1, <2>2 DEF IInv, TypeOK, Same
<1> QED BY <1>1, <1>2, <1>3, HonestNone DEF IInv, Core

-----------------------------------------------------------------------------
(* Decisions, publications and syncs.                                      *)

\* A call that goes on writes a record that fits what is there.
LEMMA DraftAppends ==
  ASSUME TypeOK, Typed, Sound(Written), NEW p \in Process, Employed(p), stage[p] = "decide",
         NEW d \in Drafts(job[p])
  PROVE  LET j == job[p]
             rec == [manifest |-> j.manifest, at |-> j.now, prev |-> d.last, says |-> d.says]
             k == [j EXCEPT !.slot = d.slot, !.record = rec]
         IN  /\ d.slot \in Slot /\ rec \in Record /\ k \in Job
             /\ dir[<<j.attempt, d.slot>>] = None => Appends(k)
<1> DEFINE j == job[p]
           rec == [manifest |-> j.manifest, at |-> j.now, prev |-> d.last, says |-> d.says]
           k == [j EXCEPT !.slot = d.slot, !.record = rec]
           a == j.attempt
           slots == Slots(Written, a)
<1>1. /\ j \in Job /\ a \in Attempt /\ j.manifest \in Manifest /\ j.now \in 0..MaxTime
      /\ j.run => j.reservation \in Reservation /\ j.op \in {"begin", "checkpoint", "finish"}
      /\ j.op \in {"begin", "finish"} => j.run
      /\ j.op = "finish" => j.outcome \in ran[a]
      /\ j.op \in {"begin", "checkpoint", "finish", "reconcile"}
  BY DEF Employed, Job, Op
<1>2. CASE j.op = "begin"
  <2>1. BeginChecks(j) /\ d = Draft(StartSlot, None, j.reservation)
    BY <1>2 DEF Drafts
  <2>2. d.slot = StartSlot /\ d.last = None /\ d.says = j.reservation /\ j.reservation \in Reservation
    BY <1>1, <1>2, <2>1 DEF Draft
  <2>3. rec \in Record
    BY <1>1, <2>2 DEF Record, Says
  <2>4. slots = {} /\ Unused(j.reservation) /\ \A b \in Begun(Written) : Ended(Written, b)
    BY <1>1, <2>1 DEF BeginChecks, Begun
  <2>5. k \in Job /\ k.attempt = a /\ k.op = "begin" /\ k.slot = StartSlot /\ k.record = rec
        /\ k.reservation = j.reservation
    BY <1>1, <1>2, <2>2, <2>3, SlotFacts DEF Job
  <2> HIDE DEF k, a
  <2>6. rec.says = j.reservation
    BY <2>2
  <2> HIDE DEF rec
  <2>7. dir[<<a, d.slot>>] = None => Appends(k)
    BY <2>2, <2>3, <2>4, <2>5, <2>6, SlotFacts DEF Appends, Fitting
  <2> QED BY <2>2, <2>3, <2>5, <2>7, SlotFacts DEF k, a, rec
<1>3. CASE j.op # "begin"
  <2>1. PICK last \in slots :
          /\ BoundTo(Written, j) /\ ~Ended(Written, a) /\ IsLast(last, slots)
          /\ j.op = "checkpoint" => last < MaxCheckpoints
          /\ d = NextDraft(j, last)
    BY <1>3 DEF Drafts
  <2>2. last \in Slot /\ last \in Nat /\ last # EndSlot /\ last < EndSlot
    <3>1. last \in Slot /\ last # EndSlot
      BY <2>1 DEF Ended, Slots
    <3> QED BY <3>1, SlotFacts, BoundAssumption
  <2>3. /\ d.last = last
        /\ j.op = "checkpoint" => d.slot = last + 1 /\ d.slot < EndSlot /\ d.says = "checkpoint"
        /\ j.op # "checkpoint" => d.slot = EndSlot
        /\ j.op = "finish" => d.says = j.outcome
        /\ j.op = "reconcile" => d.says = "reconciled"
    BY <1>1, <1>3, <2>1, <2>2, SlotFacts, BoundAssumption DEF NextDraft, Draft
  <2>4. /\ d.slot \in Slot /\ d.slot # StartSlot /\ last < d.slot
        /\ d.slot # EndSlot => d.slot = last + 1
        /\ d.slot = EndSlot => j.op \in {"finish", "reconcile"}
    BY <1>1, <1>3, <2>2, <2>3, SlotFacts, BoundAssumption
  <2>5. j.op = "finish" => j.outcome \in Outcome
    BY <1>1 DEF TypeOK
  <2>6. /\ d.says \in Says
        /\ d.slot = EndSlot => d.says \in Outcome \cup {"reconciled"} /\ d.says \in ran[a] \cup {"reconciled"}
    BY <1>1, <1>3, <2>3, <2>4, <2>5 DEF Says
  <2>7. rec \in Record /\ rec.prev = last /\ rec.says = d.says /\ rec.manifest = j.manifest /\ rec.at = j.now
    BY <1>1, <2>2, <2>3, <2>6 DEF Record
  <2>8. k \in Job /\ k.attempt = a /\ k.op = j.op /\ k.slot = d.slot /\ k.record = rec
    BY <1>1, <2>4, <2>7 DEF Job
  <2>9. rec.at >= dir[<<a, last>>].at /\ rec.manifest = dir[<<a, StartSlot>>].manifest
    BY <2>1, <2>7 DEF BoundTo
  <2> HIDE DEF k, a, rec
  <2>10. dir[<<a, d.slot>>] = None => Appends(k)
    BY <1>3, <2>1, <2>4, <2>6, <2>7, <2>8, <2>9 DEF Appends, Fitting, slots
  <2> QED BY <2>4, <2>7, <2>8, <2>10 DEF k, a, rec
<1> QED BY <1>2, <1>3

\* Decide preserves the inductive invariant.
LEMMA DecideInv == ASSUME IInv, NEW p \in Process, Decide(p) PROVE IInv'
<1> DEFINE j == job[p]
           known == Loads(Written, temps) /\ Known(j)
<1>1. /\ stage[p] = "decide" /\ dir' = dir /\ unsynced' = unsynced /\ UNCHANGED bounds
      /\ dispatches' = dispatches /\ ran' = ran
  BY DEF Decide, history
<1>2. j \in Job /\ Employed(p) /\ lock = p
  BY <1>1 DEF IInv, Employed, Locking
<1>3. CASE known /\ Return(p, StatusOf(Written, j.attempt), Written, Written) /\ temps' = temps
  <2>1. StatusOf(Written, j.attempt) \in Status
    BY <1>2, StatusType DEF IInv, Job
  <2>2. HonestStatus'
    BY <1>1, <1>2, <1>3, HonestNow
  <2> QED BY <1>1, <1>3, <2>1, <2>2, ReturnInv DEF Same
<1>4. CASE ~known /\ Objection(j) # "none" /\ Refuse(p, Objection(j)) /\ temps' = temps
  <2>1. Objection(j) \in Refusal
    BY <1>4 DEF Objection, LoadRefusal, Refusal
  <2> QED BY <1>1, <1>4, <2>1, RefuseInv DEF Same
<1>5. CASE /\ \E d \in Drafts(j) :
                /\ dir[<<j.attempt, d.slot>>] = None
                /\ job' = [job EXCEPT ![p].slot = d.slot,
                             ![p].record = [manifest |-> j.manifest, at |-> j.now,
                                            prev |-> d.last, says |-> d.says]]
           /\ temps' = 1 /\ stage' = [stage EXCEPT ![p] = "publish"]
           /\ lock' = lock /\ base' = base /\ answer' = None
  <2>1. PICK d \in Drafts(j) :
          /\ dir[<<j.attempt, d.slot>>] = None
          /\ job' = [job EXCEPT ![p].slot = d.slot,
                       ![p].record = [manifest |-> j.manifest, at |-> j.now,
                                      prev |-> d.last, says |-> d.says]]
    BY <1>5
  <2> DEFINE rec == [manifest |-> j.manifest, at |-> j.now, prev |-> d.last, says |-> d.says]
             k == [j EXCEPT !.slot = d.slot, !.record = rec]
  <2>2. d.slot \in Slot /\ rec \in Record /\ k \in Job /\ Appends(k)
    BY <1>1, <1>2, <2>1, DraftAppends DEF IInv
  <2>3. /\ k.attempt = j.attempt /\ k.reservation = j.reservation /\ k.run = j.run /\ k.op = j.op
        /\ k.outcome = j.outcome
    BY <1>2 DEF Job
  <2>4. job' = [job EXCEPT ![p] = k]
    BY <1>2, <2>1 DEF IInv, TypeOK, Job
  <2> HIDE DEF k, rec
  <2>5. job'[p] = k /\ stage'[p] = "publish" /\ base'[p] = base[p] /\ Progress /\ Written' = Written
    BY <1>1, <1>5, <2>4 DEF IInv, TypeOK, Progress, Written
  <2>6. Employed(p)'
    BY <1>1, <1>2, <1>5, <2>2, <2>3, <2>5 DEF Employed, Locking
  <2>7. Ready'
    <3>1. ASSUME NEW q \in Process, stage'[q] = "publish" PROVE Appends(job[q])'
      <4>1. q = p
        <5>1. lock = q <=> stage[q] \in Locking
          BY DEF IInv, Employed
        <5>2. CASE q # p
          <6>1. stage[q] = "publish"
            BY <1>5, <3>1, <5>2 DEF IInv, TypeOK
          <6> QED BY <1>2, <5>1, <5>2, <6>1 DEF Locking
        <5> QED BY <5>2
      <4>2. Appends(job[p])'
        BY <1>1, <2>2, <2>5 DEF Appends, Fitting, Unused, Begun, Ended, Slots, IsLast
      <4> QED BY <4>1, <4>2
    <3> QED BY <3>1 DEF Ready
  <2>8. Spare'
    <3>1. <<j.attempt, d.slot>> \in Name
      BY <1>2, <2>2 DEF Job, Name
    <3> QED BY <1>1, <2>1, <3>1 DEF Spare
  <2>9. /\ temps' \in 0..1 /\ ran' \in [Attempt -> SUBSET Outcome] /\ lock' \in Process \cup {None}
        /\ \A q \in Process \ {p} : lock' = q <=> lock = q
    BY <1>1, <1>5 DEF IInv, TypeOK
  <2>10. "publish" \in Stage
    BY DEF Stage
  <2> QED BY <1>1, <1>5, <2>2, <2>3, <2>4, <2>5, <2>6, <2>7, <2>8, <2>9, <2>10, MoveInv
<1> QED BY <1>3, <1>4, <1>5 DEF Decide

\* Dispatch preserves the inductive invariant.
LEMMA DispatchInv == ASSUME IInv, NEW p \in Process, Dispatch(p) PROVE IInv'
<1> DEFINE r == job[p].reservation
<1>1. /\ stage[p] = "dispatch" /\ dir' = dir /\ unsynced' = unsynced /\ temps' = temps
      /\ lock' = lock /\ job' = job /\ base' = base /\ ran' = ran /\ UNCHANGED bounds
      /\ answer' = None /\ stage' = [stage EXCEPT ![p] = "running"]
      /\ dispatches' = [dispatches EXCEPT ![r] = @ + 1]
  BY DEF Dispatch, files
<1>2. /\ job[p] \in Job /\ job[p].run /\ job[p].op = "checkpoint" /\ r \in Reservation
      /\ Employed(p) /\ Owned(p) /\ Owns(p) /\ Fresh(p)
  BY <1>1 DEF IInv, Employed, Owns, Fresh
<1> HIDE DEF r
<1>3. dispatches[r] = 0 /\ Safely(<<job[p].attempt, StartSlot>>)
      /\ dir[<<job[p].attempt, StartSlot>>].says = r
  BY <1>2 DEF Owned, r
<1>4. /\ dispatches'[r] = 1 /\ \A x \in Reservation : x # r => dispatches'[x] = dispatches[x]
      /\ dispatches' \in [Reservation -> Nat]
  BY <1>1, <1>2, <1>3 DEF IInv, TypeOK
<1>5. /\ stage'[p] = "running" /\ Progress /\ Written' = Written
      /\ \A q \in Process : q # p => stage'[q] = stage[q]
  BY <1>1 DEF IInv, TypeOK, Progress, Written
<1>6. TypeOK'
  BY <1>1, <1>4 DEF IInv, TypeOK, Stage, bounds
<1>7. \A q \in Process : Employed(q)'
  <2>1. Employed(p)'
    BY <1>1, <1>2, <1>5 DEF Employed, Locking
  <2>2. ASSUME NEW q \in Process, q # p PROVE Employed(q)'
    BY <1>1, <1>5, <2>2, EmployedQuiet DEF IInv
  <2> QED BY <2>1, <2>2
<1>8. Typed' /\ Sound(Written)' /\ InOrder' /\ Spare' /\ NeverUpgraded' /\ HonestStatus'
  BY <1>1, <1>5, FilesQuiet, NeverUpgradedQuiet, HonestNone DEF IInv
<1>9. Ready'
  <2>1. \A q \in Process : stage'[q] = "publish" =>
            stage[q] = "publish" /\ job'[q] = job[q] /\ job[q].attempt \in Attempt
    BY <1>1, <1>5 DEF IInv, Employed, Job
  <2> QED BY <1>1, <1>5, <2>1, ReadyQuiet DEF IInv
<1>10. \A n : Safely(n)' <=> Safely(n)
  BY <1>1, <1>5 DEF Safely
<1>11. Begun(Written)' = Begun(Written)
  BY <1>5 DEF Begun, Slots
<1>12. Spent'
  <2>1. \A a \in Attempt : a \in Begun(Written) /\ dir[<<a, StartSlot>>].says = r =>
          Safely(<<a, StartSlot>>)
    <3>1. job[p].attempt \in Attempt /\ job[p].attempt \in Begun(Written)
      BY <1>2, <1>3, SlotFacts DEF Job, Safely, Begun, Slots
    <3> QED BY <1>3, <3>1 DEF IInv, Spent
  <2>2. \E a \in Attempt : Safely(<<a, StartSlot>>) /\ dir[<<a, StartSlot>>].says = r
    BY <1>2, <1>3 DEF Job
  <2> QED BY <1>1, <1>4, <1>10, <1>11, <2>1, <2>2 DEF IInv, Spent
<1>13. \A q \in Process : Owned(q)'
  <2>1. \A q \in Process : Owns(q)' <=> Owns(q)
    BY <1>1, <1>5 DEF Owns
  <2>2. ~Fresh(p)' /\ \A q \in Process : Fresh(q)' => Fresh(q)
    BY <1>1, <1>5 DEF Fresh, Owns
  <2>3. ASSUME NEW q \in Process, q # p, Fresh(q) PROVE job[q].reservation # r
    <3>1. /\ Owned(q) /\ Owns(q) /\ job[q] \in Job /\ job[q].attempt # job[p].attempt
          /\ job[q].attempt \in Attempt /\ job[p].attempt \in Attempt
      BY <1>2, <2>3 DEF IInv, Fresh, Owns, Owned, Employed, Job
    <3>2. /\ <<job[q].attempt, StartSlot>> \in Written /\ <<job[p].attempt, StartSlot>> \in Written
          /\ dir[<<job[q].attempt, StartSlot>>].says = job[q].reservation
      BY <1>3, <3>1 DEF Owned, Safely
    <3>3. job[q].attempt \in Begun(Written) /\ job[p].attempt \in Begun(Written)
      BY <3>1, <3>2, BegunOf DEF IInv
    <3> QED BY <1>3, <3>1, <3>2, <3>3 DEF IInv, Spent
  <2>4. ASSUME NEW q \in Process, Owns(q) PROVE Owned(q)'
    <3>1. Owned(q) /\ (Owns(q) => job[q].reservation \in Reservation)
      BY DEF IInv, Employed, Owns
    <3>2. Fresh(q)' => dispatches'[job[q].reservation] = 0
      BY <1>4, <2>2, <2>3, <2>4, <3>1 DEF Owned
    <3> QED BY <1>1, <1>5, <1>10, <2>1, <2>4, <3>1, <3>2 DEF Owned
  <2> QED BY <2>1, <2>4 DEF Owned
<1> QED BY <1>6, <1>7, <1>8, <1>9, <1>12, <1>13 DEF IInv

\* Sync preserves the inductive invariant.
LEMMA SyncInv == ASSUME IInv, NEW p \in Process, Sync(p) PROVE IInv'
<1> DEFINE j == job[p]
<1>1. /\ stage[p] = "sync" /\ dir' = dir /\ unsynced' = <<>> /\ temps' = temps
      /\ dispatches' = dispatches /\ ran' = ran /\ UNCHANGED bounds /\ Same
  BY DEF Sync, history, Same
<1>2. j \in Job /\ Employed(p) /\ lock = p
  BY <1>1 DEF IInv, Employed, Locking
<1>3. CASE Return(p, StatusOf(Written, j.attempt), Written, Written)
  <2>1. StatusOf(Written, j.attempt) \in Status
    BY <1>2, StatusType DEF IInv, Job
  <2>2. HonestStatus'
    BY <1>1, <1>2, <1>3, HonestNow
  <2> QED BY <1>1, <1>3, <2>1, <2>2, ReturnInv
<1>4. CASE /\ j.run /\ j.op # "finish" /\ lock' = None
           /\ job' = [job EXCEPT ![p].op = "checkpoint", ![p].record = None]
           /\ stage' = [stage EXCEPT ![p] = IF j.op = "begin" THEN "enter" ELSE "dispatch"]
           /\ base' = base /\ answer' = None
  <2> DEFINE k == [j EXCEPT !.op = "checkpoint", !.record = None]
             at == IF j.op = "begin" THEN "enter" ELSE "dispatch"
  <2>1. /\ k \in Job /\ k.op = "checkpoint" /\ k.run = j.run /\ k.attempt = j.attempt
        /\ k.reservation = j.reservation /\ at \in {"enter", "dispatch"}
    BY <1>2 DEF Job, Op
  <2>2. job' = [job EXCEPT ![p] = k]
    BY <1>2, <1>4 DEF IInv, TypeOK, Job
  <2> HIDE DEF k, at
  <2>3. job'[p] = k /\ stage'[p] = at /\ base'[p] = base[p] /\ Progress /\ Written' = Written
    BY <1>1, <1>4, <2>2 DEF IInv, TypeOK, Progress, Written, at
  <2>4. \A q \in Process : q # p =>
          /\ stage'[q] = stage[q] /\ job'[q] = job[q] /\ base'[q] = base[q]
          /\ (lock' = q <=> lock = q)
    BY <1>2, <1>4, <2>2, NoneAssumption DEF IInv, TypeOK
  <2>5. TypeOK'
    <3>1. stage' \in [Process -> Stage] /\ job' \in [Process -> Job \cup {None}]
      BY <1>4, <2>1, <2>2 DEF IInv, TypeOK, Stage, at
    <3>2. unsynced' \in Seq(Name)
      BY <1>1
    <3> QED BY <1>1, <1>4, <3>1, <3>2 DEF IInv, TypeOK, bounds
  <2>6. \A q \in Process : Employed(q)'
    <3>1. Employed(p)'
      BY <1>2, <1>4, <2>1, <2>3, NoneAssumption DEF Employed, Locking
    <3>2. ASSUME NEW q \in Process, q # p PROVE Employed(q)'
      BY <2>3, <2>4, <3>2, EmployedQuiet DEF IInv
    <3> QED BY <3>1, <3>2
  <2>7. Typed' /\ Sound(Written)' /\ InOrder' /\ Spare'
    BY <1>1, FilesQuiet DEF IInv
  <2>8. Ready'
    <3>1. \A q \in Process : stage'[q] = "publish" =>
            stage[q] = "publish" /\ job'[q] = job[q] /\ job[q].attempt \in Attempt
      BY <2>1, <2>3, <2>4 DEF IInv, Employed, Job
    <3> QED BY <1>1, <2>3, <3>1, ReadyQuiet DEF IInv
  <2>9. Spent' /\ NeverUpgraded' /\ HonestStatus'
    BY <1>1, <1>4, <2>3, SpentQuiet, NeverUpgradedQuiet, HonestNone DEF IInv
  <2>10. \A q \in Process : Owned(q)'
    <3>1. Owns(p) /\ Fresh(p)
      BY <1>1, <1>2, <1>4 DEF Owns, Fresh
    <3>2. \A q \in Process : (Owns(q)' => Owns(q)) /\ (Fresh(q)' => Fresh(q))
      BY <2>4, <3>1 DEF Owns, Fresh
    <3>3. \A q \in Process : job'[q].attempt = job[q].attempt /\ job'[q].reservation = job[q].reservation
      BY <2>1, <2>3, <2>4
    <3>4. \A n \in Written : Safely(n)'
      BY <1>1, SafelyQuiet
    <3>5. ASSUME NEW q \in Process, Owns(q)' PROVE Owned(q)'
      <4>1. Owned(q) /\ Owns(q)
        BY <3>2, <3>5 DEF IInv
      <4>2. /\ <<job[q].attempt, StartSlot>> \in Written
            /\ dir[<<job[q].attempt, StartSlot>>].says = job[q].reservation
            /\ Fresh(q) => dispatches[job[q].reservation] = 0
            /\ \A x \in Process : Owns(x) /\ x # q => job[x].attempt # job[q].attempt
        BY <4>1 DEF Owned
      <4> QED BY <1>1, <2>3, <3>2, <3>3, <3>4, <4>2 DEF Owned
    <3> QED BY <3>5 DEF Owned
  <2> QED BY <2>5, <2>6, <2>7, <2>8, <2>9, <2>10 DEF IInv
<1> QED BY <1>3, <1>4 DEF Sync

\* A published record is the last of its attempt.
LEMMA PublishInv == ASSUME IInv, NEW p \in Process, Publish(p) PROVE IInv'
<1>0. PICK j : j = job[p]
  OBVIOUS
<1> DEFINE a == j.attempt
           name == <<a, j.slot>>
           rec == j.record
<1>1. /\ stage[p] = "publish" /\ dir' = [dir EXCEPT ![name] = rec]
      /\ unsynced' = Append(unsynced, name) /\ temps' = 0 /\ stage' = [stage EXCEPT ![p] = "sync"]
      /\ answer' = None /\ lock' = lock /\ job' = job /\ base' = base
      /\ dispatches' = dispatches /\ ran' = ran /\ UNCHANGED bounds /\ j = job[p]
  BY <1>0 DEF Publish, history
<1>2. /\ j \in Job /\ Employed(p) /\ lock = p /\ Appends(j) /\ a \in Attempt /\ j.slot \in Slot
      /\ (j.op \in {"begin", "finish"} => j.run) /\ j = job[p]
  BY <1>1 DEF IInv, Employed, Locking, Ready, Job
<1>3. /\ name \in Name /\ dir[name] = None /\ rec \in Record /\ Fitting(j.slot, rec) /\ rec # None
      /\ name \notin Written /\ name[1] = a /\ name[2] = j.slot
  BY <1>2, NoneAssumption DEF Appends, Name, Written
<1> HIDE DEF name, rec
<1>4. /\ dir' \in [Name -> Record \cup {None}] /\ dir'[name] = rec
      /\ \A n \in Name : n # name => dir'[n] = dir[n]
  BY <1>1, <1>3 DEF IInv, TypeOK
<1>5. Written' = Written \cup {name}
  BY <1>3, <1>4 DEF Written
<1>6. /\ \A s \in Slot : <<a, s>> \in Name /\ (<<a, s>> = name <=> s = j.slot)
      /\ \A b \in Attempt, s \in Slot : <<b, s>> \in Name /\ (b # a => <<b, s>> # name)
  BY <1>2 DEF Name, name
<1>7. /\ Slots(Written, a)' = Slots(Written, a) \cup {j.slot}
      /\ \A b \in Attempt : b # a => Slots(Written, b)' = Slots(Written, b)
  <2>1. \A b \in Attempt : Slots(Written, b)' = {s \in Slot : <<b, s>> \in Written \cup {name}}
    BY <1>5 DEF Slots
  <2>2. Slots(Written, a)' = Slots(Written, a) \cup {j.slot}
    BY <1>2, <1>5, <1>6 DEF Slots
  <2> QED BY <1>6, <2>1, <2>2 DEF Slots
<1>8. /\ stage'[p] = "sync" /\ Progress /\ Written \subseteq Written'
      /\ \A q \in Process : q # p => stage'[q] = stage[q]
  BY <1>1, <1>5 DEF IInv, TypeOK, Progress
<1>9. TypeOK'
  <2>1. unsynced' \in Seq(Name)
    BY <1>1, <1>3 DEF IInv, TypeOK
  <2> QED BY <1>1, <1>4, <2>1 DEF IInv, TypeOK, Stage, bounds
<1>10. Typed'
  BY <1>2, <1>3, <1>4 DEF IInv, Typed, Fitting
<1>11. \A q \in Process : Employed(q)'
  <2>1. Employed(p)'
    BY <1>1, <1>2, <1>5, <1>8 DEF Employed, Locking
  <2>2. ASSUME NEW q \in Process, q # p PROVE Employed(q)'
    BY <1>1, <1>8, <2>2, EmployedQuiet DEF IInv
  <2> QED BY <2>1, <2>2
<1>12. Ready'
  <2>1. ASSUME NEW q \in Process, stage'[q] = "publish" PROVE FALSE
    <3>1. q # p /\ stage[q] = "publish"
      BY <1>8, <2>1
    <3> QED BY <1>2, <3>1 DEF IInv, Employed, Locking
  <2> QED BY <2>1 DEF Ready
<1>13. \A s \in Slots(Written, a) : s < j.slot
  <2>1. CASE j.op = "begin"
    BY <1>2, <2>1 DEF Appends
  <2>2. CASE j.op # "begin"
    <3>1. PICK last \in Slots(Written, a) : IsLast(last, Slots(Written, a)) /\ last < j.slot
      BY <1>2, <2>2 DEF Appends
    <3>2. last \in Nat /\ j.slot \in Nat /\ \A s \in Slots(Written, a) : s \in Nat
      BY <1>2, <3>1, SlotFacts DEF Slots
    <3>3. \A s \in Slots(Written, a) : s <= last
      BY <3>1 DEF IsLast
    <3> QED BY <3>1, <3>2, <3>3
  <2> QED BY <2>1, <2>2
<1>14. Sound(Written)'
  <2> SUFFICES ASSUME NEW b \in Attempt, b \in Begun(Written)' PROVE Whole(Written, b)'
    BY DEF Sound, Begun
  <2>1. CASE b # a
    <3>1. Slots(Written, b)' = Slots(Written, b)
      BY <1>7, <2>1
    <3>2. Whole(Written, b)
      BY <3>1 DEF IInv, Sound, Begun
    <3>3. \A s \in Slot : dir'[<<b, s>>] = dir[<<b, s>>]
      BY <1>4, <1>6, <2>1
    <3>4. Slots(Written, b) \subseteq Slot
      BY DEF Slots
    <3>5. ASSUME NEW s \in Slots(Written, b) \ {StartSlot} PROVE Follows(Written, b, s)'
      <4>1. Follows(Written, b, s) /\ dir[<<b, s>>].prev \in Slot /\ s \in Slot
        BY <3>2, <3>4, <3>5 DEF Whole, Follows
      <4>2. /\ dir'[<<b, s>>] = dir[<<b, s>>] /\ dir'[<<b, StartSlot>>] = dir[<<b, StartSlot>>]
            /\ dir'[<<b, dir[<<b, s>>].prev>>] = dir[<<b, dir[<<b, s>>].prev>>]
        BY <3>3, <4>1, SlotFacts
      <4> QED BY <3>1, <4>1, <4>2 DEF Follows
    <3> QED BY <3>1, <3>2, <3>5 DEF Whole
  <2>2. CASE b = a /\ j.op = "begin"
    <3>1. Slots(Written, a)' = {StartSlot}
      BY <1>2, <1>7, <2>2 DEF Appends
    <3> QED BY <2>2, <3>1 DEF Whole
  <2>3. CASE b = a /\ j.op # "begin"
    <3> DEFINE slots == Slots(Written, a)
    <3>1. PICK last \in slots :
            /\ IsLast(last, slots) /\ rec.prev = last /\ last < j.slot
            /\ j.slot # EndSlot => j.slot = last + 1
            /\ rec.at >= dir[<<a, last>>].at
            /\ rec.manifest = dir[<<a, StartSlot>>].manifest
      BY <1>2, <2>3 DEF Appends, rec
    <3>2. Whole(Written, a) /\ slots \subseteq Slot /\ StartSlot \in slots
      BY <1>2, <3>1 DEF IInv, Sound, Begun, Whole, Slots
    <3>3. /\ \A s \in slots : dir'[<<a, s>>] = dir[<<a, s>>] /\ s < j.slot
          /\ dir'[<<a, j.slot>>] = rec
      <4>1. \A s \in slots : s < j.slot /\ s # j.slot
        BY <1>2, <1>13, <3>2, SlotFacts
      <4> QED BY <1>2, <1>4, <1>6, <3>2, <4>1
    <3>4. Slots(Written, a)' = slots \cup {j.slot}
      BY <1>7
    <3> HIDE DEF slots
    <3>5. ASSUME NEW s \in slots \ {StartSlot} PROVE Follows(Written, a, s)'
      <4>1. Follows(Written, a, s)
        BY <3>2, <3>5 DEF Whole, slots
      <4>2. \A t \in slots : t \in Nat /\ t < j.slot
        BY <3>2, <3>3, SlotFacts
      <4>3. s \in Nat /\ j.slot \in Nat /\ s < j.slot
        BY <1>2, <3>5, <4>2, SlotFacts
      <4>4. PICK q : q = dir[<<a, s>>].prev
        OBVIOUS
      <4>5. /\ q \in slots /\ q < s /\ \A t \in slots : ~(q < t /\ t < s)
            /\ s # EndSlot => q + 1 = s
            /\ dir[<<a, s>>].manifest = dir[<<a, StartSlot>>].manifest
            /\ dir[<<a, s>>].at >= dir[<<a, q>>].at
        BY <4>1, <4>4 DEF Follows, slots
      <4>6. /\ dir'[<<a, s>>] = dir[<<a, s>>] /\ dir'[<<a, q>>] = dir[<<a, q>>]
            /\ dir'[<<a, StartSlot>>] = dir[<<a, StartSlot>>]
        BY <3>2, <3>3, <3>5, <4>5
      <4>7. ASSUME NEW t \in slots \cup {j.slot} PROVE ~(q < t /\ t < s)
        <5>1. CASE t \in slots
          BY <4>5, <5>1
        <5>2. CASE t = j.slot
          BY <4>3, <5>2
        <5> QED BY <5>1, <5>2
      <4> QED BY <3>4, <4>4, <4>5, <4>6, <4>7 DEF Follows
    <3>6. Follows(Written, a, j.slot)'
      <4>1. /\ last \in slots \cup {j.slot} /\ dir'[<<a, last>>] = dir[<<a, last>>]
            /\ dir'[<<a, StartSlot>>] = dir[<<a, StartSlot>>]
        BY <3>1, <3>2, <3>3
      <4>2. \A t \in slots \cup {j.slot} : ~(last < t /\ t < j.slot)
        <5>1. last \in Nat /\ j.slot \in Nat /\ \A t \in slots : t \in Nat
          BY <1>2, <3>1, <3>2, SlotFacts
        <5>2. \A t \in slots : t <= last
          BY <3>1 DEF IsLast, slots
        <5> QED BY <5>1, <5>2
      <4>3. Follows(Written, a, j.slot)' <=>
              /\ rec.prev \in Slots(Written, a)' /\ rec.prev < j.slot
              /\ \A t \in Slots(Written, a)' : ~(rec.prev < t /\ t < j.slot)
              /\ j.slot # EndSlot => rec.prev + 1 = j.slot
              /\ rec.manifest = dir'[<<a, StartSlot>>].manifest
              /\ rec.at >= dir'[<<a, rec.prev>>].at
        BY <1>1, <3>3 DEF Follows
      <4> QED BY <3>1, <3>4, <4>1, <4>2, <4>3
    <3> QED BY <1>1, <2>3, <3>2, <3>4, <3>5, <3>6 DEF Whole
  <2> QED BY <2>1, <2>2, <2>3
<1>15. InOrder'
  <2>1. /\ Len(unsynced') = Len(unsynced) + 1 /\ Len(unsynced) \in Nat
        /\ \A i \in 1..Len(unsynced) : unsynced'[i] = unsynced[i]
        /\ unsynced'[Len(unsynced) + 1] = name
    BY <1>1, <1>3 DEF IInv, TypeOK
  <2>2. \A i \in 1..Len(unsynced) : unsynced[i] \in Written
    BY DEF IInv, InOrder, Ordered
  <2>3. \A i \in 1..Len(unsynced') : unsynced'[i] \in Written'
    BY <1>5, <2>1, <2>2
  <2>4. \A i, k \in 1..Len(unsynced') : unsynced'[i] = unsynced'[k] => i = k
    <3>1. \A i, k \in 1..Len(unsynced) : unsynced[i] = unsynced[k] => i = k
      BY DEF IInv, InOrder, Ordered
    <3> QED BY <1>3, <2>1, <2>2, <3>1
  <2>5. ASSUME NEW i \in 1..Len(unsynced'), NEW b \in Attempt, NEW q \in Slot, NEW s \in Slot,
               unsynced'[i] = <<b, q>>, q < s, <<b, s>> \in Written'
        PROVE  \E k \in (i + 1)..Len(unsynced') : unsynced'[k] = <<b, s>>
    <3>1. CASE <<b, s>> = name
      <4>1. i # Len(unsynced) + 1
        <5>1. SUFFICES ASSUME i = Len(unsynced) + 1 PROVE FALSE
          OBVIOUS
        <5>2. <<b, q>> = <<b, s>>
          BY <2>1, <2>5, <3>1, <5>1
        <5> QED BY <2>5, <5>2, SlotFacts
      <4> QED BY <2>1, <3>1, <4>1
    <3>2. CASE <<b, s>> # name
      <4>1. <<b, s>> \in Written
        BY <1>5, <2>5, <3>2
      <4>2. i # Len(unsynced) + 1
        <5>1. SUFFICES ASSUME i = Len(unsynced) + 1 PROVE FALSE
          OBVIOUS
        <5>2. <<b, q>> = name
          BY <2>1, <2>5, <5>1
        <5>3. b = a /\ q = j.slot
          BY <5>2 DEF name
        <5>4. s \in Slots(Written, a)
          BY <4>1, <5>3 DEF Slots
        <5> QED BY <1>13, <2>5, <5>3, <5>4, SlotFacts
      <4>3. i \in 1..Len(unsynced) /\ unsynced[i] = <<b, q>>
        BY <2>1, <2>5, <4>2
      <4>4. PICK k \in (i + 1)..Len(unsynced) : unsynced[k] = <<b, s>>
        BY <2>5, <4>1, <4>3 DEF IInv, InOrder, Ordered
      <4>5. k \in 1..Len(unsynced) /\ k \in (i + 1)..Len(unsynced')
        BY <2>1, <4>3
      <4> QED BY <2>1, <4>4, <4>5
    <3> QED BY <3>1, <3>2
  <2>6. \A i \in 1..Len(unsynced'), b \in Attempt, q, s \in Slot :
          unsynced'[i] = <<b, q>> /\ q < s /\ <<b, s>> \in Written'
            => \E k \in (i + 1)..Len(unsynced') : unsynced'[k] = <<b, s>>
    BY <2>5
  <2> QED BY Zenon, <2>3, <2>4, <2>6 DEF InOrder, Ordered
<1>16. Spare'
  BY <1>1 DEF Spare
<1>17. \A n : Safely(n) => Safely(n)'
  <2>1. /\ Len(unsynced') = Len(unsynced) + 1 /\ Len(unsynced) \in Nat
        /\ \A i \in 1..Len(unsynced) : unsynced'[i] = unsynced[i]
        /\ unsynced'[Len(unsynced) + 1] = name
    BY <1>1, <1>3 DEF IInv, TypeOK
  <2> QED BY <1>3, <1>5, <2>1 DEF Safely
<1>18. /\ \A b \in Attempt : b \in Begun(Written)' <=> b \in Begun(Written) \/ b = a
       /\ j.op = "begin" => a \notin Begun(Written)
       /\ j.op # "begin" => a \in Begun(Written)
       /\ \A b \in Begun(Written) : dir'[<<b, StartSlot>>] = dir[<<b, StartSlot>>]
       /\ j.op = "begin" => dir'[<<a, StartSlot>>].says = j.reservation
  <2>1. \A b \in Attempt : b \in Begun(Written)' <=> b \in Begun(Written) \/ b = a
    BY <1>7 DEF Begun
  <2>2. /\ j.op = "begin" => a \notin Begun(Written) /\ j.slot = StartSlot /\ rec.says = j.reservation
        /\ j.op # "begin" => a \in Begun(Written) /\ j.slot # StartSlot
    BY <1>2 DEF Appends, Begun, rec
  <2>3. \A b \in Begun(Written) : b \in Attempt /\ <<b, StartSlot>> # name
    BY <1>6, <2>2, SlotFacts DEF Begun
  <2>4. j.op = "begin" => <<a, StartSlot>> = name
    BY <2>2 DEF name
  <2> QED BY <1>4, <1>6, <2>1, <2>2, <2>3, <2>4, SlotFacts
<1>19. /\ \A b \in Attempt : Safely(<<b, StartSlot>>) => b \in Begun(Written)
       /\ \A b \in Begun(Written) : j.op = "begin" => dir[<<b, StartSlot>>].says # j.reservation
  <2>1. \A b \in Attempt : Safely(<<b, StartSlot>>) => b \in Begun(Written)
    BY BegunOf DEF IInv, Safely
  <2>2. j.op = "begin" => Unused(j.reservation)
    BY <1>2 DEF Appends
  <2> QED BY <2>1, <2>2 DEF Unused
<1>20. Spent'
  <2>1. ASSUME NEW b \in Attempt, NEW c \in Attempt, b \in Begun(Written)', c \in Begun(Written)',
               dir'[<<b, StartSlot>>].says = dir'[<<c, StartSlot>>].says
        PROVE  b = c
    BY <1>18, <1>19, <2>1 DEF IInv, Spent
  <2>2. ASSUME NEW r \in Reservation, dispatches[r] > 0
        PROVE  /\ dispatches[r] = 1
               /\ \E b \in Attempt : Safely(<<b, StartSlot>>)' /\ dir'[<<b, StartSlot>>].says = r
               /\ \A b \in Attempt : b \in Begun(Written)' /\ dir'[<<b, StartSlot>>].says = r =>
                    Safely(<<b, StartSlot>>)'
    <3>1. dispatches[r] = 1
      BY <2>2 DEF IInv, Spent
    <3>2. PICK b \in Attempt : Safely(<<b, StartSlot>>) /\ dir[<<b, StartSlot>>].says = r
      BY <2>2 DEF IInv, Spent
    <3>3. Safely(<<b, StartSlot>>)' /\ dir'[<<b, StartSlot>>].says = r /\ b \in Begun(Written)'
      BY <1>17, <1>18, <1>19, <3>2
    <3>4. \A c \in Attempt : c \in Begun(Written)' /\ dir'[<<c, StartSlot>>].says = r => c = b
      BY <2>1, <3>3
    <3> QED BY <3>1, <3>3, <3>4
  <2> QED BY <1>1, <2>1, <2>2 DEF Spent
<1>21. \A q \in Process : Owned(q)'
  <2>1. Written \subseteq Written' /\ name \in Written'
    BY <1>5
  <2>2. ASSUME NEW q \in Process, Owns(q) PROVE job[q].attempt \in Begun(Written)
    <3>1. <<job[q].attempt, StartSlot>> \in Written /\ job[q].attempt \in Attempt
      BY <2>2 DEF IInv, Owned, Owns, Employed, Job
    <3> QED BY <3>1, BegunOf DEF IInv
  <2>3. \A q \in Process : Owns(q)' => Owns(q) \/ (q = p /\ j.op = "begin")
    BY <1>1, <1>8 DEF Owns
  <2>4. \A q \in Process : Owns(q)' /\ Owns(q) => (Fresh(q)' <=> Fresh(q))
    BY <1>1, <1>8 DEF Fresh
  <2>5. ASSUME NEW q \in Process, Owns(q)', NEW x \in Process, Owns(x)', q # x
        PROVE  job[q].attempt # job[x].attempt
    <3>1. CASE Owns(q) /\ Owns(x)
      BY <2>5, <3>1 DEF IInv, Owned
    <3>2. CASE ~Owns(q)
      <4>1. q = p /\ j.op = "begin" /\ Owns(x)
        BY <2>3, <2>5, <3>2
      <4>2. job[x].attempt \in Begun(Written) /\ a \notin Begun(Written) /\ job[q].attempt = a
        BY <1>1, <1>18, <2>2, <4>1
      <4> QED BY <4>2
    <3>3. CASE ~Owns(x)
      <4>1. x = p /\ j.op = "begin" /\ Owns(q)
        BY <2>3, <2>5, <3>3
      <4>2. job[q].attempt \in Begun(Written) /\ a \notin Begun(Written) /\ job[x].attempt = a
        BY <1>1, <1>18, <2>2, <4>1
      <4> QED BY <4>2
    <3> QED BY <3>1, <3>2, <3>3
  <2>6. ASSUME NEW q \in Process, Owns(q)', Owns(q) PROVE Owned(q)'
    <3>0. PICK n : n = <<job[q].attempt, StartSlot>>
      OBVIOUS
    <3>1. /\ n \in Written /\ dir[n].says = job[q].reservation
          /\ job[q].op # "begin" => Safely(n)
          /\ Fresh(q) => dispatches[job[q].reservation] = 0
      BY <2>6, <3>0 DEF IInv, Owned
    <3>2. dir'[n] = dir[n]
      BY <1>18, <2>2, <2>6, <3>0
    <3>3. n \in Written' /\ (Safely(n) => Safely(n)')
      BY <1>17, <2>1, <3>1
    <3> QED BY <1>1, <2>4, <2>5, <2>6, <3>0, <3>1, <3>2, <3>3 DEF Owned
  <2>7. ASSUME Owns(p)', j.op = "begin" PROVE Owned(p)'
    <3>1. <<a, StartSlot>> \in Written' /\ dir'[<<a, StartSlot>>].says = j.reservation
      BY <1>2, <1>18, <2>1, <2>7 DEF Appends, name
    <3>2. dispatches[j.reservation] = 0
      <4>1. j.reservation \in Reservation
        BY <1>1, <1>2, <2>7 DEF Employed
      <4>2. SUFFICES ASSUME dispatches[j.reservation] > 0 PROVE FALSE
        BY <4>1 DEF IInv, TypeOK
      <4>3. PICK b \in Attempt : Safely(<<b, StartSlot>>) /\ dir[<<b, StartSlot>>].says = j.reservation
        BY <4>1, <4>2 DEF IInv, Spent
      <4> QED BY <1>19, <2>7, <4>3
    <3> QED BY <1>1, <2>5, <2>7, <3>1, <3>2 DEF Owned
  <2> QED BY <2>3, <2>6, <2>7 DEF Owned
<1>22. NeverUpgraded'
  <2>1. ASSUME NEW b \in Attempt, Ended(Written, b)', dir'[<<b, EndSlot>>].says # "reconciled"
        PROVE  dir'[<<b, EndSlot>>].says \in ran[b]
    <3>1. CASE <<b, EndSlot>> = name
      <4>1. b = a /\ j.slot = EndSlot
        BY <3>1 DEF name
      <4> QED BY <1>2, <1>4, <2>1, <3>1, <4>1 DEF Appends, rec
    <3>2. CASE <<b, EndSlot>> # name
      <4>1. dir'[<<b, EndSlot>>] = dir[<<b, EndSlot>>] /\ <<b, EndSlot>> \in Written
        BY <1>4, <1>5, <1>6, <2>1, <3>2, SlotFacts DEF Ended, Slots
      <4>2. Ended(Written, b)
        BY <4>1, SlotFacts DEF Ended, Slots
      <4> QED BY <2>1, <4>1, <4>2 DEF IInv, NeverUpgraded
    <3> QED BY <3>1, <3>2
  <2> QED BY <1>1, <2>1 DEF NeverUpgraded
<1>23. HonestStatus'
  BY <1>1, HonestNone
<1> QED BY <1>9, <1>10, <1>11, <1>12, <1>14, <1>15, <1>16, <1>20, <1>21, <1>22, <1>23 DEF IInv

\* What is on the disk after a power loss: of each attempt its first records,
\* and all that were safe.
LEMMA Remains ==
  ASSUME IInv, PowerLoss
  PROVE  /\ dir' \in [Name -> Record \cup {None}] /\ Written' \subseteq Written
         /\ \A n \in Written' : n \in Name /\ dir'[n] = dir[n]
         /\ \A n \in Name : dir[n] = None => dir'[n] = None
         /\ \A n : Safely(n) => n \in Written'
         /\ \A a \in Attempt : \A q, s \in Slot :
              q < s /\ <<a, q>> \in Written /\ <<a, s>> \in Written' => <<a, q>> \in Written'
<1>2. PICK k \in 0..Len(unsynced) :
        dir' = [n \in Name |->
                 IF \E i \in (k + 1)..Len(unsynced) : unsynced[i] = n THEN None ELSE dir[n]]
  BY DEF PowerLoss
<1> DEFINE Lost == {n \in Name : \E i \in (k + 1)..Len(unsynced) : unsynced[i] = n}
<1>3. /\ dir' \in [Name -> Record \cup {None}]
      /\ \A n \in Name : dir'[n] = IF n \in Lost THEN None ELSE dir[n]
  BY <1>2 DEF IInv, TypeOK
<1>4. Written' = Written \ Lost
  BY <1>3 DEF Written
<1>5. Len(unsynced) \in Nat /\ k \in Nat
  BY <1>2 DEF IInv, TypeOK
<1>6. ASSUME NEW a \in Attempt, NEW q \in Slot, NEW s \in Slot, q < s,
             <<a, q>> \in Written, <<a, s>> \in Written'
      PROVE  <<a, q>> \in Written'
  <2>1. SUFFICES ASSUME <<a, q>> \in Lost PROVE FALSE
    BY <1>4, <1>6
  <2>2. PICK i \in (k + 1)..Len(unsynced) : unsynced[i] = <<a, q>>
    BY <2>1
  <2>3. i \in 1..Len(unsynced) /\ i \in Nat
    BY <1>5
  <2>4. PICK m \in (i + 1)..Len(unsynced) : unsynced[m] = <<a, s>>
    BY <1>4, <1>6, <2>2, <2>3 DEF IInv, InOrder, Ordered
  <2>5. m \in (k + 1)..Len(unsynced) /\ <<a, s>> \in Name
    BY <1>5, <1>6, <2>3 DEF Name
  <2>6. <<a, s>> \in Lost
    BY <2>4, <2>5
  <2> QED BY <1>4, <1>6, <2>6
<1>7. \A n : Safely(n) => n \in Written'
  BY <1>4, <1>5 DEF Safely
<1> HIDE DEF Lost
<1>8. /\ Written' \subseteq Written
      /\ \A n \in Written' : n \in Name /\ dir'[n] = dir[n]
      /\ \A n \in Name : dir[n] = None => dir'[n] = None
  BY <1>3, <1>4 DEF Written
<1> QED BY <1>3, <1>6, <1>7, <1>8

\* What a power loss leaves of an attempt is its first records.
LEMMA PowerLossInv == ASSUME IInv, PowerLoss PROVE IInv'
<1>1. /\ faults < MaxFaults /\ faults' = faults + 1 /\ unsynced' = <<>> /\ temps' \in 0..temps
      /\ lock' = None /\ stage' = [p \in Process |-> "idle"] /\ job' = [p \in Process |-> None]
      /\ base' = [p \in Process |-> {}] /\ answer' = None
      /\ dispatches' = dispatches /\ ran' = ran /\ calls' = calls
  BY DEF PowerLoss, history
<1>3. dir' \in [Name -> Record \cup {None}]
  BY Remains
<1>6. ASSUME NEW a \in Attempt, NEW q \in Slot, NEW s \in Slot, q < s,
             <<a, q>> \in Written, <<a, s>> \in Written'
      PROVE  <<a, q>> \in Written'
  BY <1>6, Remains
<1>7. \A n : Safely(n) => n \in Written'
  BY Remains
<1>8. /\ Written' \subseteq Written
      /\ \A n \in Written' : n \in Name /\ dir'[n] = dir[n]
      /\ \A n \in Name : dir[n] = None => dir'[n] = None
  BY Remains
<1>9. TypeOK'
  <2>1. temps' \in 0..1 /\ faults' \in 0..MaxFaults
    BY <1>1, BoundAssumption DEF IInv, TypeOK
  <2>2. unsynced' \in Seq(Name) /\ stage' \in [Process -> Stage] /\ base' \in [Process -> SUBSET Name]
    BY <1>1 DEF Stage
  <2> QED BY <1>1, <1>3, <2>1, <2>2 DEF IInv, TypeOK
<1>10. Typed'
  BY <1>8 DEF IInv, Typed, Fitting, Written
<1>11. \A b : Slots(Written, b)' \subseteq Slots(Written, b) /\ Slots(Written, b)' \subseteq Slot
  BY <1>8 DEF Slots
<1>12. \A b : b \in Begun(Written)' => b \in Begun(Written)
  BY <1>11 DEF Begun
<1>13. Sound(Written)'
  <2> SUFFICES ASSUME NEW b \in Attempt, b \in Begun(Written)' PROVE Whole(Written, b)'
    BY DEF Sound, Begun
  <2>1. Whole(Written, b)
    BY <1>12 DEF IInv, Sound
  <2>2. ASSUME NEW s \in Slots(Written, b)', NEW q \in Slots(Written, b), q < s
        PROVE  q \in Slots(Written, b)'
    BY <1>6, <2>2 DEF Slots
  <2>3. StartSlot \in Slots(Written, b)'
    <3>1. PICK s \in Slots(Written, b)' : TRUE
      BY DEF Begun
    <3>2. StartSlot \in Slots(Written, b) /\ s \in Slot
      BY <1>11, <2>1 DEF Whole
    <3>3. s = StartSlot \/ StartSlot < s
      BY <3>2, SlotFacts
    <3> QED BY <2>2, <3>1, <3>2, <3>3
  <2>4. ASSUME NEW s \in Slots(Written, b)' \ {StartSlot} PROVE Follows(Written, b, s)'
    <3>1. PICK q : q = dir[<<b, s>>].prev
      OBVIOUS
    <3>2. Follows(Written, b, s)
      BY <1>11, <2>1, <2>4 DEF Whole
    <3>3. /\ q \in Slots(Written, b) /\ q < s
          /\ \A t \in Slots(Written, b) : ~(q < t /\ t < s)
          /\ s # EndSlot => q + 1 = s
          /\ dir[<<b, s>>].manifest = dir[<<b, StartSlot>>].manifest
          /\ dir[<<b, s>>].at >= dir[<<b, q>>].at
      BY <3>1, <3>2 DEF Follows
    <3>4. q \in Slots(Written, b)'
      BY <2>2, <2>4, <3>3
    <3>5. /\ dir'[<<b, s>>] = dir[<<b, s>>] /\ dir'[<<b, q>>] = dir[<<b, q>>]
          /\ dir'[<<b, StartSlot>>] = dir[<<b, StartSlot>>]
      BY <1>8, <2>3, <2>4, <3>4 DEF Slots
    <3>6. \A t \in Slots(Written, b)' : ~(q < t /\ t < s)
      BY <1>11, <3>3
    <3> QED BY <3>1, <3>3, <3>4, <3>5, <3>6 DEF Follows
  <2> QED BY <2>3, <2>4 DEF Whole
<1>14. Ready' /\ InOrder' /\ Spare'
  <2>1. Ready'
    BY <1>1 DEF Ready
  <2>2. InOrder'
    BY <1>1, EmptyOrder DEF InOrder
  <2>3. temps' = 1 => temps = 1
    BY <1>1 DEF IInv, TypeOK
  <2> QED BY <1>8, <2>1, <2>2, <2>3 DEF IInv, Spare
<1>15. \A n : n \in Written' => Safely(n)'
  <2>1. Len(<<>>) = 0
    OBVIOUS
  <2> QED BY <1>1, <2>1 DEF Safely
<1>16. \A b \in Attempt : b \in Begun(Written)' =>
         <<b, StartSlot>> \in Written' /\ dir'[<<b, StartSlot>>] = dir[<<b, StartSlot>>]
  <2>1. \A b \in Attempt : b \in Begun(Written)' => StartSlot \in Slots(Written, b)'
    BY <1>13 DEF Sound, Whole
  <2> QED BY <1>8, <2>1 DEF Slots
<1>17. Spent'
  <2>1. ASSUME NEW b \in Attempt, NEW c \in Attempt, b \in Begun(Written)', c \in Begun(Written)',
               dir'[<<b, StartSlot>>].says = dir'[<<c, StartSlot>>].says
        PROVE  b = c
    BY <1>12, <1>16, <2>1 DEF IInv, Spent
  <2>2. ASSUME NEW r \in Reservation, dispatches[r] > 0
        PROVE  /\ dispatches[r] = 1
               /\ \E b \in Attempt : Safely(<<b, StartSlot>>)' /\ dir'[<<b, StartSlot>>].says = r
               /\ \A b \in Attempt : b \in Begun(Written)' /\ dir'[<<b, StartSlot>>].says = r =>
                    Safely(<<b, StartSlot>>)'
    <3>1. dispatches[r] = 1
      BY <2>2 DEF IInv, Spent
    <3>2. PICK b \in Attempt : Safely(<<b, StartSlot>>) /\ dir[<<b, StartSlot>>].says = r
      BY <2>2 DEF IInv, Spent
    <3>3. <<b, StartSlot>> \in Written'
      BY <1>7, <3>2
    <3>4. Safely(<<b, StartSlot>>)' /\ dir'[<<b, StartSlot>>].says = r
      BY <1>8, <1>15, <3>2, <3>3
    <3>5. \A c \in Attempt : c \in Begun(Written)' => Safely(<<c, StartSlot>>)'
      BY <1>15, <1>16
    <3> QED BY <3>1, <3>4, <3>5
  <2> QED BY <1>1, <2>1, <2>2 DEF Spent
<1>18. \A p \in Process : Employed(p)' /\ Owned(p)'
  BY <1>1, NoneAssumption DEF Employed, Owned, Owns, Locking
<1>19. NeverUpgraded'
  <2>1. \A b \in Attempt : Ended(Written, b)' =>
          Ended(Written, b) /\ dir'[<<b, EndSlot>>] = dir[<<b, EndSlot>>]
    BY <1>8, <1>11 DEF Ended, Slots
  <2> QED BY <1>1, <2>1 DEF IInv, NeverUpgraded
<1>20. HonestStatus'
  BY <1>1, HonestNone
<1> QED BY <1>9, <1>10, <1>13, <1>14, <1>17, <1>18, <1>19, <1>20 DEF IInv

\* Stutter preserves the inductive invariant.
LEMMA StutterInv == ASSUME IInv, UNCHANGED vars PROVE IInv'
<1>1. /\ dir' = dir /\ unsynced' = unsynced /\ temps' = temps /\ lock' = lock /\ stage' = stage
      /\ job' = job /\ base' = base /\ answer' = answer /\ dispatches' = dispatches /\ ran' = ran
      /\ calls' = calls /\ faults' = faults
  BY DEF vars, files, history, bounds
<1>2. Written' = Written
  BY <1>1 DEF Written
<1>3. TypeOK' /\ Typed' /\ Sound(Written)' /\ InOrder' /\ Spare'
  BY <1>1, FilesQuiet DEF IInv, TypeOK
<1>4. Ready'
  <2>1. Progress
    BY <1>1 DEF IInv, TypeOK, Progress
  <2> QED BY <1>1, <2>1, ReadyQuiet DEF IInv, Employed, Job
<1>5. Spent' /\ NeverUpgraded'
  BY <1>1, SpentQuiet, NeverUpgradedQuiet DEF IInv, TypeOK, Progress
<1>6. \A p \in Process : Employed(p)'
  BY <1>1, <1>2 DEF IInv, Employed
<1>7. \A p \in Process : Owned(p)'
  BY <1>1, OwnedQuiet DEF IInv, Owns, Fresh
<1>8. HonestStatus'
  BY <1>1, <1>2 DEF IInv, HonestStatus, StatusOf, Ended, Slots
<1> QED BY <1>3, <1>4, <1>5, <1>6, <1>7, <1>8 DEF IInv

\* Next preserves the inductive invariant.
LEMMA NextInv == ASSUME IInv, Next PROVE IInv'
<1>1. ASSUME NEW p \in Process,
             \E a \in Attempt, m \in Manifest, now \in 0..MaxTime :
               \/ \E r \in Reservation : RunJournaled(p, a, r, m, now)
               \/ Checkpoint(p, a, m, now) \/ Reconcile(p, a, m, now) \/ Inspect(p, a, m, now)
      PROVE  IInv'
  BY <1>1, CallsInv
<1>2. ASSUME NEW p \in Process, Enter(p) \/ Decide(p) \/ Publish(p) \/ Sync(p) PROVE IInv'
  BY <1>2, EnterInv, DecideInv, PublishInv, SyncInv
<1>3. ASSUME NEW p \in Process,
             Dispatch(p) \/ (\E o \in Outcome : FixtureEnds(p, o)) \/ Scan(p) \/ Stop(p)
      PROVE  IInv'
  BY <1>3, DispatchInv, FixtureEndsInv, ScanInv, StopInv
<1> QED BY <1>1, <1>2, <1>3, PowerLossInv DEF Next

-----------------------------------------------------------------------------
(* What holds of every behaviour.                                          *)

\* The invariant that the others follow from: every attempt is a chain, names are
\* published in its order, and a run owns its attempt.
THEOREM Invariance == Spec => []IInv
<1>1. Init => IInv
  BY InitInv
<1>2. IInv /\ [Next]_vars => IInv'
  BY NextInv, StutterInv
<1> QED BY <1>1, <1>2, PTL DEF Spec

\* The variables keep their types.
THEOREM Typing == Spec => []TypeOK
<1>1. IInv => TypeOK
  BY DEF IInv
<1> QED BY <1>1, Invariance, PTL

\* run_fixture is called at most once under a reservation, and the start that
\* spent it survives every crash.
THEOREM DispatchedOnce == Spec => []OneDispatch
<1>1. IInv => OneDispatch
  <2> SUFFICES ASSUME IInv, NEW r \in Reservation, dispatches[r] > 0
               PROVE  dispatches[r] = 1 /\ \E a \in Begun(Written) : dir[<<a, StartSlot>>].says = r
    BY DEF OneDispatch
  <2>1. PICK a \in Attempt : Safely(<<a, StartSlot>>) /\ dir[<<a, StartSlot>>].says = r
    BY DEF IInv, Spent
  <2>2. a \in Begun(Written)
    BY <2>1, BegunOf DEF IInv, Safely
  <2> QED BY <2>1, <2>2 DEF IInv, Spent
<1> QED BY <1>1, Invariance, PTL

\* A recorded outcome is one that the fixture of the attempt had.
THEOREM OutcomesAreReal == Spec => []NeverUpgraded
<1>1. IInv => NeverUpgraded
  BY DEF IInv
<1> QED BY <1>1, Invariance, PTL

\* A status was true of the attempt at a moment of the call that returned it.
THEOREM StatusesAreTrue == Spec => []HonestStatus
<1>1. IInv => HonestStatus
  BY DEF IInv
<1> QED BY <1>1, Invariance, PTL

-----------------------------------------------------------------------------
(* The limits, where there is room.                                        *)

\* No more attempts than the journal takes, and budgets for all their records.
Roomy ==
  /\ IsFiniteSet(Attempt) /\ Cardinality(Attempt) <= MaxAttempts
  /\ \A r \in Reservation : Budget[r] > Cardinality(Name)

\* Multiplication is monotonic.
LEMMA Times == ASSUME NEW c \in Nat, NEW m \in Nat, NEW n \in Nat, m <= n PROVE m * c <= n * c
<1>1. PICK d \in Nat : n = m + d
  <2>1. n - m \in Nat /\ n = m + (n - m)
    OBVIOUS
  <2> QED BY <2>1
<1>2. d * c \in Nat /\ m * c \in Nat
  OBVIOUS
<1>3. n * c = m * c + d * c
  BY <1>1
<1> QED BY <1>2, <1>3

\* The names of all attempts fit the directory.
LEMMA NamesFit ==
  ASSUME Roomy
  PROVE  /\ IsFiniteSet(Name) /\ Cardinality(Name) \in Nat
         /\ 1 + Cardinality(Name) <= MaxEntries /\ MaxEntries \in Nat
<1>1. IsFiniteSet(Slot) /\ Cardinality(Slot) = MaxCheckpoints + 2
  BY BoundAssumption, FS_Interval DEF Slot, StartSlot, EndSlot
<1>2. IsFiniteSet(Name) /\ Cardinality(Name) = Cardinality(Attempt) * (MaxCheckpoints + 2)
  BY <1>1, FS_Product DEF Roomy, Name
<1>3. Cardinality(Attempt) \in Nat /\ Cardinality(Name) \in Nat
  BY <1>2, FS_CardinalityType DEF Roomy
<1>4. Cardinality(Attempt) * (MaxCheckpoints + 2) <= MaxAttempts * (MaxCheckpoints + 2)
  BY <1>3, BoundAssumption, Times DEF Roomy
<1>5. MaxAttempts * (MaxCheckpoints + 2) \in Nat
  BY BoundAssumption
<1> QED BY <1>2, <1>3, <1>4, <1>5 DEF MaxEntries

\* With room, the lock holder reads the journal without objection.
LEMMA InvLoads == ASSUME IInv, Roomy PROVE Loads(Written, temps)
<1>1. Written \subseteq Name /\ Begun(Written) \subseteq Attempt
  BY DEF Written, Begun
<1>2. IsFiniteSet(Written) /\ Cardinality(Written) \in Nat /\ Cardinality(Written) <= Cardinality(Name)
  BY <1>1, NamesFit, FS_Subset, FS_CardinalityType
<1>3. Cardinality(Begun(Written)) <= MaxAttempts
  <2>1. Cardinality(Begun(Written)) <= Cardinality(Attempt) /\ IsFiniteSet(Begun(Written))
    BY <1>1, FS_Subset DEF Roomy
  <2>2. Cardinality(Begun(Written)) \in Nat /\ Cardinality(Attempt) \in Nat
    BY <2>1, FS_CardinalityType DEF Roomy
  <2> QED BY <2>1, <2>2, BoundAssumption DEF Roomy
<1>4. temps = 1 => Cardinality(Written) < Cardinality(Name)
  <2> SUFFICES ASSUME temps = 1 PROVE Cardinality(Written) < Cardinality(Name)
    OBVIOUS
  <2>1. PICK n \in Name : dir[n] = None
    BY DEF IInv, Spare
  <2>2. Written # Name
    BY <2>1 DEF Written
  <2>3. Cardinality(Written) # Cardinality(Name)
    BY <1>1, <2>2, NamesFit, FS_Subset
  <2> QED BY <1>2, <2>3, NamesFit
<1>5. 1 + Cardinality(Written) + temps <= MaxEntries
  BY <1>2, <1>4, NamesFit DEF IInv, TypeOK
<1> QED BY <1>3, <1>5 DEF IInv, Loads, InBudget

\* With room, no budget is exceeded.
LEMMA InvFits ==
  ASSUME IInv, Roomy, NEW p \in Process, stage[p] = "decide", Drafts(job[p]) # {}
  PROVE  Fits(job[p])
<1> DEFINE j == job[p]
           r == IF j.op = "begin" THEN j.reservation ELSE dir[<<j.attempt, StartSlot>>].says
<1>1. j \in Job /\ (j.op = "begin" => j.reservation \in Reservation) /\ j.attempt \in Attempt
  BY DEF IInv, Employed, Job
<1>2. r \in Reservation
  <2>1. CASE j.op = "begin"
    BY <1>1, <2>1
  <2>2. CASE j.op # "begin"
    <3>1. StartSlot \in Slots(Written, j.attempt)
      BY <2>2 DEF Drafts, BoundTo
    <3>2. <<j.attempt, StartSlot>> \in Written /\ <<j.attempt, StartSlot>>[2] = StartSlot
      BY <3>1 DEF Slots
    <3>3. dir[<<j.attempt, StartSlot>>].says \in Reservation
      BY <3>2 DEF IInv, Typed, Fitting, Written
    <3> QED BY <2>2, <3>3
  <2> QED BY <2>1, <2>2
<1>3. Written \subseteq Name /\ Cardinality(Written) \in Nat /\ Cardinality(Written) <= Cardinality(Name)
  <2>1. Written \subseteq Name
    BY DEF Written
  <2> QED BY <2>1, NamesFit, FS_Subset, FS_CardinalityType
<1>4. Budget[r] \in Nat /\ Budget[r] > Cardinality(Name)
  BY <1>2, ReservationAssumption DEF Roomy
<1>5. Cardinality(Written) + 1 <= Budget[r]
  BY <1>3, <1>4, NamesFit
<1> QED BY <1>5 DEF Fits

\* Whoever takes the lock can read the journal, after any kills and power losses.
THEOREM StaysReadable == ASSUME Roomy PROVE Spec => []Readable
<1>1. IInv => Readable
  BY InvLoads DEF Readable
<1> QED BY <1>1, Invariance, PTL

\* With room, no step raises a false alarm.
LEMMA AlarmStep ==
  ASSUME IInv, Roomy, NoFalseAlarm, [Next]_vars PROVE NoFalseAlarm'
<1>1. ASSUME answer' = None PROVE NoFalseAlarm'
  BY <1>1 DEF NoFalseAlarm
<1>2. ASSUME NEW p \in Process, NEW says \in Status \cup {"busy", "refused"}, NEW from, NEW S,
             Return(p, says, from, S)
      PROVE  NoFalseAlarm'
  <2>1. answer'.says = says
    BY <1>2 DEF Return, Tell
  <2>2. says \notin {"corrupt", "exhausted"}
    BY OutcomeAssumption DEF Status, Refusal
  <2> QED BY <2>1, <2>2 DEF NoFalseAlarm
<1>3. ASSUME NEW p \in Process, Enter(p) PROVE NoFalseAlarm'
  BY <1>1, <1>2, <1>3 DEF Enter, Refuse
<1>4. ASSUME NEW p \in Process, Decide(p) PROVE NoFalseAlarm'
  <2> DEFINE j == job[p]
  <2>1. Loads(Written, temps) /\ stage[p] = "decide" /\ j.attempt \in Attempt
    BY <1>4, InvLoads DEF Decide, IInv, Employed, Job
  <2>2. CASE Known(j) /\ Return(p, StatusOf(Written, j.attempt), Written, Written)
    <3>1. StatusOf(Written, j.attempt) \in Status
      BY <2>1, <2>2, StatusType DEF Known, BoundTo, IInv, Slots
    <3> QED BY <1>2, <2>2, <3>1
  <2>3. CASE Objection(j) # "none" /\ Refuse(p, Objection(j))
    <3>1. Objection(j) = "refused"
      BY <2>1, <2>3, InvFits DEF Objection
    <3> QED BY <1>2, <2>3, <3>1 DEF Refuse
  <2> QED BY <1>1, <1>4, <2>1, <2>2, <2>3 DEF Decide
<1>5. ASSUME NEW p \in Process, Sync(p) PROVE NoFalseAlarm'
  <2> DEFINE j == job[p]
  <2>1. CASE Return(p, StatusOf(Written, j.attempt), Written, Written)
    <3>1. j.attempt \in Attempt
      BY <1>5 DEF Sync, IInv, Employed, Job
    <3>2. StatusOf(Written, j.attempt) \in Status
      BY <3>1, StatusType DEF IInv
    <3> QED BY <1>2, <2>1, <3>2
  <2> QED BY <1>1, <1>5, <2>1 DEF Sync
<1>6. ASSUME NEW p \in Process, Scan(p) PROVE NoFalseAlarm'
  <2> DEFINE j == job[p]
             ToldOf(S, t) == IF ~Loads(S, t) THEN LoadRefusal(S, t)
                             ELSE IF ~BoundTo(S, j) THEN "refused" ELSE StatusOf(S, j.attempt)
  <2>1. PICK S \in SUBSET Written, t \in {temps} \cup (IF Written = base[p] THEN {} ELSE {1}) :
          base[p] \subseteq S /\ Return(p, ToldOf(S, t), base[p], S)
    BY <1>6 DEF Scan
  <2>2. j.attempt \in Attempt /\ j.op = "inspect"
    BY <1>6 DEF Scan, IInv, Employed, Job
  <2>3. CASE Written = base[p]
    <3>1. S = Written /\ t = temps /\ Loads(S, t)
      <4> HIDE DEF ToldOf
      <4>1. S \subseteq Written /\ Written \subseteq S /\ t = temps
        BY <2>1, <2>3
      <4>2. S = Written
        BY <4>1
      <4>3. Loads(Written, temps)
        BY InvLoads
      <4> QED BY <4>1, <4>2, <4>3
    <3>2. StatusOf(S, j.attempt) \in Status
      BY <2>2, StatusType DEF IInv
    <3>3. ToldOf(S, t) \in Status \cup {"refused"}
      BY <3>1, <3>2
    <3> HIDE DEF ToldOf
    <3> QED BY <1>2, <2>1, <3>3
  <2>4. CASE Written # base[p]
    <3>1. answer'.op = "inspect" /\ answer'.raced
      BY <2>1, <2>2, <2>4 DEF Return, Tell
    <3> QED BY <3>1 DEF NoFalseAlarm
  <2> QED BY <2>3, <2>4
<1>7. CASE UNCHANGED vars
  BY <1>7 DEF vars, NoFalseAlarm
<1>8. CASE Next
  <2>1. ASSUME NEW p \in Process,
               \E a \in Attempt, m \in Manifest, now \in 0..MaxTime :
                 \/ \E r \in Reservation : RunJournaled(p, a, r, m, now)
                 \/ Checkpoint(p, a, m, now) \/ Reconcile(p, a, m, now) \/ Inspect(p, a, m, now)
        PROVE  answer' = None
    BY <2>1 DEF RunJournaled, Checkpoint, Reconcile, Inspect, Call
  <2>2. ASSUME NEW p \in Process,
               \/ Publish(p) \/ Dispatch(p) \/ (\E o \in Outcome : FixtureEnds(p, o)) \/ Stop(p)
        PROVE  answer' = None
    BY <2>2 DEF Publish, Dispatch, FixtureEnds, Stop
  <2>3. PowerLoss => answer' = None
    BY DEF PowerLoss
  <2> QED BY <1>1, <1>3, <1>4, <1>5, <1>6, <1>8, <2>1, <2>2, <2>3 DEF Next
<1> QED BY <1>7, <1>8

\* Where there is room, only an inspection that raced with a publication calls the
\* journal corrupt or full.
THEOREM AlarmsAreRaces == ASSUME Roomy PROVE Spec => []NoFalseAlarm
<1>1. Init => NoFalseAlarm
  BY DEF Init, NoFalseAlarm
<1>2. IInv /\ NoFalseAlarm /\ [Next]_vars => NoFalseAlarm'
  BY AlarmStep
<1> QED BY <1>1, <1>2, Invariance, PTL DEF Spec

-----------------------------------------------------------------------------
(* The journal keeps the promise of AttemptLog.                            *)

\* The entry that the slots X of an attempt make under the contents f.
EntryIn(f, a, X) ==
  [start |-> IF StartSlot \in X THEN f[<<a, StartSlot>>].says ELSE None,
   marks |-> Cardinality(X \ {StartSlot, EndSlot}),
   end |-> IF EndSlot \in X THEN f[<<a, EndSlot>>].says ELSE None]

\* The entry of an attempt, over the contents of the directory.
LEMMA EntryAs == ASSUME NEW S, NEW a PROVE EntryOf(S, a) = EntryIn(dir, a, Slots(S, a))
BY DEF EntryOf, EntryIn

\* An entry depends on the records of its slots only.
LEMMA EntrySame ==
  ASSUME NEW f, NEW g, NEW a, NEW X, \A s \in X : f[<<a, s>>] = g[<<a, s>>]
  PROVE  EntryIn(f, a, X) = EntryIn(g, a, X)
BY DEF EntryIn

\* An attempt has finitely many checkpoints, at most MaxCheckpoints.
LEMMA MarksType ==
  ASSUME NEW X \in SUBSET Slot
  PROVE  IsFiniteSet(X) /\ Cardinality(X \ {StartSlot, EndSlot}) \in 0..MaxCheckpoints
<1> DEFINE M == X \ {StartSlot, EndSlot}
<1>1. IsFiniteSet(Slot)
  BY BoundAssumption, FS_Interval DEF Slot, StartSlot, EndSlot
<1>2. IsFiniteSet(X)
  BY <1>1, FS_Subset
<1>3. IsFiniteSet(1..MaxCheckpoints) /\ Cardinality(1..MaxCheckpoints) = MaxCheckpoints
  BY BoundAssumption, FS_Interval
<1>4. M \subseteq 1..MaxCheckpoints
  BY BoundAssumption DEF Slot, StartSlot, EndSlot
<1> HIDE DEF M
<1>5. Cardinality(M) <= MaxCheckpoints /\ IsFiniteSet(M)
  BY <1>3, <1>4, FS_Subset
<1>6. Cardinality(M) \in Nat
  BY <1>5, FS_CardinalityType
<1> QED BY <1>2, <1>5, <1>6, BoundAssumption DEF M

\* The first slots of an attempt make an entry that a crash may leave.
LEMMA Shorter ==
  ASSUME NEW f, NEW a, NEW Y \in SUBSET Slot, NEW X \in SUBSET Y,
         Y # {} => StartSlot \in Y, \A s \in X, q \in Y : q < s => q \in X
  PROVE  Abstract!Shortens(EntryIn(f, a, X), EntryIn(f, a, Y))
<1>1. CASE X = {}
  <2>1. X \ {StartSlot, EndSlot} = {} /\ Cardinality({}) = 0
    BY <1>1, FS_EmptySet
  <2>2. EntryIn(f, a, X) = [start |-> None, marks |-> 0, end |-> None]
    BY <1>1, <2>1 DEF EntryIn
  <2> QED BY <2>2 DEF Abstract!Shortens, Abstract!Absent
<1>2. CASE EndSlot \in X
  <2>1. ASSUME NEW q \in Y PROVE q \in X
    <3>1. q \in Slot /\ (q = EndSlot \/ q < EndSlot)
      BY SlotFacts
    <3> QED BY <1>2, <2>1, <3>1
  <2>2. X = Y
    BY <2>1
  <2> QED BY <2>2 DEF Abstract!Shortens
<1>3. CASE X # {} /\ EndSlot \notin X
  <2>1. StartSlot \in X /\ StartSlot \in Y
    <3>1. PICK s \in X : TRUE
      BY <1>3
    <3>2. s \in Slot /\ (s = StartSlot \/ StartSlot < s)
      BY SlotFacts
    <3> QED BY <3>1, <3>2
  <2>2. X \ {StartSlot, EndSlot} \subseteq Y \ {StartSlot, EndSlot} /\ IsFiniteSet(Y \ {StartSlot, EndSlot})
    BY MarksType, FS_Subset
  <2>3. Cardinality(X \ {StartSlot, EndSlot}) <= Cardinality(Y \ {StartSlot, EndSlot})
    BY <2>2, FS_Subset
  <2> QED BY <1>3, <2>1, <2>3 DEF EntryIn, Abstract!Shortens
<1> QED BY <1>1, <1>2, <1>3

\* Fitting records make an entry of AttemptLog.
LEMMA EntryType ==
  ASSUME NEW f, NEW a, NEW X \in SUBSET Slot, \A s \in X : Fitting(s, f[<<a, s>>])
  PROVE  EntryIn(f, a, X) \in Abstract!Entry
<1>1. Cardinality(X \ {StartSlot, EndSlot}) \in 0..MaxCheckpoints
  BY MarksType
<1> QED BY <1>1 DEF Fitting, EntryIn, Abstract!Entry

Log == [a \in Attempt |-> EntryOf(Written, a)]
Sure == [a \in Attempt |-> EntryOf(Safe, a)]

\* A step that publishes nothing, or makes everything durable.
LEMMA QuietPromise ==
  ASSUME dir' = dir, unsynced' \in {unsynced, <<>>}
  PROVE  Abstract!Next \/ UNCHANGED Abstract!vars
<1>1. Written' = Written
  BY DEF Written
<1>2. Log' = Log
  BY <1>1 DEF Log, EntryOf, Slots
<1>3. CASE unsynced' = unsynced
  <2>1. Safe' = Safe
    BY <1>1, <1>3 DEF Safe
  <2>2. Sure' = Sure
    BY <2>1 DEF Sure, EntryOf, Slots
  <2> QED BY <1>2, <2>2 DEF Log, Sure, Abstract!vars
<1>4. CASE unsynced' = <<>>
  <2>1. Len(<<>>) = 0
    OBVIOUS
  <2>2. Safe' = Written
    BY <1>1, <1>4, <2>1 DEF Safe
  <2>3. Sure' = Log
    BY <2>2 DEF Sure, Log, EntryOf, Slots
  <2> QED BY <1>2, <2>3 DEF Log, Sure, Abstract!Next, Abstract!Secure
<1> QED BY <1>3, <1>4

\* A power loss is a crash: it leaves of each attempt something between what was
\* safe and what was there.
LEMMA LossPromise == ASSUME IInv, PowerLoss PROVE Abstract!Next
<1>1. Typed' /\ TypeOK' /\ unsynced' = <<>>
  BY PowerLossInv DEF IInv, PowerLoss
<1>2. Sure' = Log'
  <2>1. Len(<<>>) = 0
    OBVIOUS
  <2>2. Safe' = Written'
    BY <1>1, <2>1 DEF Safe
  <2> QED BY <2>2 DEF Sure, Log
<1>3. Log' \in [Attempt -> Abstract!Entry]
  <2>1. ASSUME NEW a \in Attempt PROVE EntryOf(Written, a)' \in Abstract!Entry
    <3>1. \A s \in Slots(Written, a)' : <<a, s>> \in Name /\ dir'[<<a, s>>] # None /\ <<a, s>>[2] = s
      BY DEF Slots, Written
    <3>2. \A s \in Slots(Written, a)' : Fitting(s, dir'[<<a, s>>])
      BY <1>1, <3>1 DEF Typed, Fitting
    <3>3. Slots(Written, a)' \subseteq Slot
      BY DEF Slots
    <3>4. EntryIn(dir', a, Slots(Written, a)') \in Abstract!Entry
      BY <3>2, <3>3, EntryType
    <3> QED BY <3>4 DEF EntryOf, EntryIn
  <2> QED BY <2>1 DEF Log
<1>4. ASSUME NEW a \in Attempt
      PROVE  Abstract!Shortens(Sure[a], Log'[a]) /\ Abstract!Shortens(Log'[a], Log[a])
  <2>1. PICK X : X = Slots(Safe, a)
    OBVIOUS
  <2>2. PICK Y : Y = Slots(Written, a)'
    OBVIOUS
  <2>3. PICK Z : Z = Slots(Written, a)
    OBVIOUS
  <2>4. X \subseteq Y /\ Y \subseteq Z /\ Z \subseteq Slot
    <3>1. \A n \in Safe : Safely(n)
      BY DEF Safe, Safely
    <3> QED BY <2>1, <2>2, <2>3, <3>1, Remains DEF Slots
  <2>5. \A s \in Y : dir'[<<a, s>>] = dir[<<a, s>>]
    BY <2>2, Remains DEF Slots
  <2>6. /\ Sure[a] = EntryIn(dir, a, X) /\ Log[a] = EntryIn(dir, a, Z)
        /\ Log'[a] = EntryIn(dir, a, Y)
    <3>1. Log'[a] = EntryIn(dir', a, Y)
      BY <2>2 DEF Log, EntryOf, EntryIn
    <3>2. EntryIn(dir', a, Y) = EntryIn(dir, a, Y)
      BY <2>5, EntrySame
    <3> QED BY <2>1, <2>3, <3>1, <3>2, EntryAs DEF Sure, Log
  <2>7. \A s \in Y, q \in Z : q < s => q \in Y
    BY <2>2, <2>3, Remains DEF Slots
  <2>8. ASSUME NEW s \in X, NEW q \in Y, q < s PROVE q \in X
    <3>1. /\ <<a, s>> \in Written /\ <<a, q>> \in Written /\ q \in Slot /\ s \in Slot
          /\ \A i \in 1..Len(unsynced) : unsynced[i] # <<a, s>>
      BY <2>1, <2>3, <2>4, <2>8 DEF Slots, Safe
    <3>2. Len(unsynced) \in Nat
      BY DEF IInv, TypeOK
    <3>3. ASSUME NEW i \in 1..Len(unsynced), unsynced[i] = <<a, q>> PROVE FALSE
      <4>1. PICK k \in (i + 1)..Len(unsynced) : unsynced[k] = <<a, s>>
        BY <2>8, <3>1, <3>3 DEF IInv, InOrder, Ordered
      <4>2. k \in 1..Len(unsynced)
        BY <3>2
      <4> QED BY <3>1, <4>1, <4>2
    <3> QED BY <2>1, <3>1, <3>3 DEF Slots, Safe
  <2>9. (Y # {} => StartSlot \in Y) /\ (Z # {} => StartSlot \in Z)
    <3>1. Z # {} => StartSlot \in Z
      BY <2>3 DEF IInv, Sound, Begun, Whole
    <3>2. ASSUME NEW s \in Y PROVE StartSlot \in Y
      <4>1. StartSlot \in Z /\ s \in Slot /\ (s = StartSlot \/ StartSlot < s)
        BY <2>4, <3>1, SlotFacts
      <4> QED BY <2>7, <4>1
    <3> QED BY <3>1, <3>2
  <2> QED BY <2>4, <2>6, <2>7, <2>8, <2>9, Shorter
<1> QED BY <1>2, <1>3, <1>4 DEF Log, Sure, Abstract!Next, Abstract!Crash

\* A publication starts an attempt when no other is open, or goes on with an open
\* one.
LEMMA PublishPromise == ASSUME IInv, NEW p \in Process, Publish(p) PROVE Abstract!Next
<1>0. PICK j : j = job[p]
  OBVIOUS
<1> DEFINE a == j.attempt
           name == <<a, j.slot>>
           rec == j.record
           X == Slots(Written, a)
<1>1. /\ stage[p] = "publish" /\ dir' = [dir EXCEPT ![name] = rec]
      /\ unsynced' = Append(unsynced, name) /\ j = job[p]
  BY <1>0 DEF Publish
<1>2. /\ j \in Job /\ Appends(j) /\ a \in Attempt /\ j.slot \in Slot
      /\ j.op = "begin" => j.reservation \in Reservation
  BY <1>1 DEF IInv, Employed, Ready, Job
<1>3. /\ name \in Name /\ dir[name] = None /\ rec \in Record /\ Fitting(j.slot, rec) /\ rec # None
      /\ name \notin Written
  BY <1>2, NoneAssumption DEF Appends, Name, Written
<1>4. /\ dir'[name] = rec /\ \A n \in Name : n # name => dir'[n] = dir[n]
      /\ Written' = Written \cup {name}
  BY <1>1, <1>3 DEF IInv, TypeOK, Written
<1>5. /\ \A b \in Attempt, s \in Slot : <<b, s>> \in Name
      /\ \A b \in Attempt, s \in Slot : <<b, s>> = name <=> b = a /\ s = j.slot
  BY <1>2 DEF Name
<1> HIDE DEF name, rec
<1>6. Sure' = Sure
  <2>1. /\ Len(unsynced') = Len(unsynced) + 1 /\ Len(unsynced) \in Nat
        /\ \A i \in 1..Len(unsynced) : unsynced'[i] = unsynced[i]
        /\ unsynced'[Len(unsynced) + 1] = name
    BY <1>1, <1>3 DEF IInv, TypeOK
  <2>2. Safe' = Safe
    BY <1>3, <1>4, <2>1 DEF Safe
  <2>3. ASSUME NEW b \in Attempt PROVE EntryOf(Safe, b)' = EntryOf(Safe, b)
    <3>1. Slots(Safe, b)' = Slots(Safe, b)
      BY <2>2 DEF Slots
    <3>2. \A s \in Slots(Safe, b) : dir'[<<b, s>>] = dir[<<b, s>>]
      BY <1>3, <1>4 DEF Slots, Safe, Written
    <3> QED BY <3>1, <3>2 DEF EntryOf
  <2> QED BY <2>3 DEF Sure
<1>7. \A b \in Attempt : b # a => Log'[b] = Log[b]
  <2>1. ASSUME NEW b \in Attempt, b # a PROVE Log'[b] = Log[b]
    <3>1. Slots(Written, b)' = Slots(Written, b)
      BY <1>4, <1>5, <2>1 DEF Slots
    <3>2. \A s \in Slots(Written, b) : dir'[<<b, s>>] = dir[<<b, s>>]
      BY <1>4, <1>5, <2>1 DEF Slots
    <3> QED BY <3>1, <3>2 DEF Log, EntryOf
  <2> QED BY <2>1
<1>8. Slots(Written, a)' = X \cup {j.slot} /\ j.slot \notin X /\ X \subseteq Slot
  BY <1>2, <1>3, <1>4, <1>5 DEF Slots
<1>9. /\ \A s \in X : dir'[<<a, s>>] = dir[<<a, s>>]
      /\ dir'[<<a, j.slot>>] = rec
  BY <1>2, <1>4, <1>5, <1>8
<1>10. Log[a] = EntryIn(dir, a, X) /\ Log'[a] = EntryIn(dir', a, X \cup {j.slot})
  BY <1>2, <1>8, EntryAs DEF Log, EntryOf, EntryIn
<1>11. \A e : (Log'[a] = e) => Log' = [Log EXCEPT ![a] = e]
  BY <1>2, <1>7 DEF Log
<1>12. \A b \in Attempt : b \in Begun(Written) =>
         /\ StartSlot \in Slots(Written, b) /\ dir[<<b, StartSlot>>].says \in Reservation
         /\ Log[b].start = dir[<<b, StartSlot>>].says
  <2>1. ASSUME NEW b \in Attempt, b \in Begun(Written)
        PROVE  StartSlot \in Slots(Written, b) /\ dir[<<b, StartSlot>>].says \in Reservation
    <3>1. StartSlot \in Slots(Written, b)
      BY <2>1 DEF IInv, Sound, Whole
    <3>2. <<b, StartSlot>> \in Written /\ <<b, StartSlot>>[2] = StartSlot
      BY <3>1 DEF Slots
    <3> QED BY <3>1, <3>2 DEF IInv, Typed, Fitting, Written
  <2> QED BY <2>1 DEF Log, EntryOf
<1>13. \A b \in Attempt : b \notin Begun(Written) => Slots(Written, b) = {} /\ Log[b].start = None
  BY SlotFacts DEF Begun, Log, EntryOf
<1>14. CASE j.op = "begin"
  <2>1. /\ j.slot = StartSlot /\ rec.says = j.reservation /\ X = {} /\ Unused(j.reservation)
        /\ \A b \in Begun(Written) : Ended(Written, b)
    BY <1>2, <1>14 DEF Appends, rec
  <2>2. a \notin Begun(Written) /\ Log[a].start = None
    BY <1>2, <1>13, <2>1 DEF Begun
  <2>3. Log' = [Log EXCEPT ![a].start = j.reservation]
    <3>1. StartSlot # EndSlot /\ {StartSlot} \ {StartSlot, EndSlot} = {} /\ {} \ {StartSlot, EndSlot} = {}
      BY SlotFacts
    <3>2. Log'[a] = [Log[a] EXCEPT !.start = j.reservation]
      BY <1>9, <1>10, <2>1, <3>1 DEF EntryIn
    <3> QED BY <1>11, <3>2
  <2>4. ASSUME NEW b \in Attempt
        PROVE  ~(Log[b].start # None /\ Log[b].end = None) /\ Log[b].start # j.reservation
    <3>1. CASE b \in Begun(Written)
      <4>1. EndSlot \in Slots(Written, b)
        BY <2>1, <3>1 DEF Ended
      <4>2. <<b, EndSlot>> \in Written /\ <<b, EndSlot>>[2] = EndSlot
        BY <4>1 DEF Slots
      <4>3. dir[<<b, EndSlot>>].says \in Outcome \cup {"reconciled"}
        BY <4>2 DEF IInv, Typed, Fitting, Written
      <4>4. Log[b].end # None
        BY <4>1, <4>3, NoneAssumption DEF Log, EntryOf
      <4>5. Log[b].start # j.reservation
        BY <1>12, <2>1, <3>1 DEF Unused
      <4> QED BY <4>4, <4>5
    <3>2. CASE b \notin Begun(Written)
      BY <1>2, <1>13, <1>14, <3>2, NoneAssumption
    <3> QED BY <3>1, <3>2
  <2>5. j.reservation \in Reservation /\ j.reservation # None
    BY <1>2, <1>14, NoneAssumption
  <2>6. Abstract!Start(a, j.reservation)
    BY <2>2, <2>3, <2>4, <2>5 DEF Abstract!Start, Abstract!Open, Log
  <2> QED BY <1>2, <1>6, <2>5, <2>6 DEF Abstract!Next, Sure
<1>15. CASE j.op # "begin"
  <2>1. j.slot # StartSlot /\ ~Ended(Written, a) /\ X # {}
    BY <1>2, <1>15 DEF Appends
  <2>2. a \in Begun(Written) /\ StartSlot \in X /\ EndSlot \notin X
    BY <1>2, <1>12, <2>1 DEF Begun, Ended
  <2>3. Log[a].start # None /\ Log[a].end = None
    BY <1>2, <1>10, <1>12, <2>2, NoneAssumption DEF EntryIn
  <2>4. Abstract!Open(a)
    BY <2>3 DEF Abstract!Open, Log
  <2>5. CASE j.slot = EndSlot
    <3>1. rec.says \in Outcome \cup {"reconciled"} /\ rec.says # None
      BY <1>3, <2>5, NoneAssumption DEF Fitting
    <3>2. (X \cup {EndSlot}) \ {StartSlot, EndSlot} = X \ {StartSlot, EndSlot}
      OBVIOUS
    <3>3. Log'[a] = [Log[a] EXCEPT !.end = rec.says]
      BY <1>9, <1>10, <2>2, <2>5, <3>2 DEF EntryIn
    <3>4. Log' = [Log EXCEPT ![a].end = rec.says]
      BY <1>11, <3>3
    <3>5. Abstract!End(a, rec.says)
      BY <2>4, <3>1, <3>4 DEF Abstract!End, Log
    <3> QED BY <1>2, <1>6, <3>1, <3>5 DEF Abstract!Next, Sure
  <2>6. CASE j.slot # EndSlot
    <3> DEFINE M == X \ {StartSlot, EndSlot}
    <3>1. (X \cup {j.slot}) \ {StartSlot, EndSlot} = M \cup {j.slot} /\ j.slot \notin M
      BY <1>8, <2>1, <2>6
    <3>2. IsFiniteSet(M)
      BY <1>8, MarksType, FS_Subset
    <3> HIDE DEF M
    <3>3. Cardinality(M \cup {j.slot}) = Cardinality(M) + 1
      BY <3>1, <3>2, FS_AddElement
    <3>4. Log[a].marks = Cardinality(M) /\ Log'[a].marks = Cardinality(M) + 1
      BY <1>10, <3>1, <3>3 DEF EntryIn, M
    <3>5. Log'[a] = [Log[a] EXCEPT !.marks = @ + 1]
      BY <1>9, <1>10, <2>2, <2>6, <3>1, <3>3, <3>4 DEF EntryIn, M
    <3>6. Log' = [Log EXCEPT ![a].marks = @ + 1]
      BY <1>11, <3>5
    <3>7. Abstract!Mark(a)
      BY <2>4, <3>6 DEF Abstract!Mark, Log
    <3> QED BY <1>2, <1>6, <3>7 DEF Abstract!Next, Sure
  <2> QED BY <2>5, <2>6
<1> QED BY <1>14, <1>15

\* Every step is one of AttemptLog or changes nothing there.
LEMMA StepPromise == IInv /\ [Next]_vars => [Abstract!Next]_(Abstract!vars)
<1> SUFFICES ASSUME IInv, [Next]_vars PROVE Abstract!Next \/ UNCHANGED Abstract!vars
  OBVIOUS
<1>1. ASSUME NEW p \in Process, Publish(p) PROVE Abstract!Next
  BY <1>1, PublishPromise
<1>2. CASE PowerLoss
  BY <1>2, LossPromise
<1>3. ASSUME dir' = dir, unsynced' \in {unsynced, <<>>} PROVE Abstract!Next \/ UNCHANGED Abstract!vars
  BY <1>3, QuietPromise
<1>4. ASSUME NEW p \in Process,
             \E a \in Attempt, m \in Manifest, now \in 0..MaxTime :
               \/ \E r \in Reservation : RunJournaled(p, a, r, m, now)
               \/ Checkpoint(p, a, m, now) \/ Reconcile(p, a, m, now) \/ Inspect(p, a, m, now)
      PROVE  dir' = dir /\ unsynced' \in {unsynced, <<>>}
  BY <1>4 DEF RunJournaled, Checkpoint, Reconcile, Inspect, Call, files
<1>5. ASSUME NEW p \in Process,
             \/ Enter(p) \/ Decide(p) \/ Sync(p) \/ Dispatch(p)
             \/ (\E o \in Outcome : FixtureEnds(p, o)) \/ Scan(p) \/ Stop(p)
      PROVE  dir' = dir /\ unsynced' \in {unsynced, <<>>}
  BY <1>5 DEF Enter, Decide, Sync, Dispatch, FixtureEnds, Scan, Stop, files
<1>6. CASE UNCHANGED vars
  BY <1>3, <1>6 DEF vars, files
<1> QED BY <1>1, <1>2, <1>3, <1>4, <1>5, <1>6 DEF Next

\* The empty directory is the empty log.
LEMMA InitPromise == Init => Abstract!Init
<1> SUFFICES ASSUME Init PROVE Abstract!Init
  OBVIOUS
<1>1. Written = {} /\ Safe = {}
  BY DEF Init, Written, Safe
<1>2. {} \ {StartSlot, EndSlot} = {} /\ Cardinality({}) = 0
  BY FS_EmptySet
<1>3. ASSUME NEW a \in Attempt PROVE EntryOf({}, a) = Abstract!Absent
  <2>1. Slots({}, a) = {}
    BY DEF Slots
  <2> QED BY <1>2, <2>1 DEF EntryOf, Abstract!Absent
<1> QED BY <1>1, <1>3 DEF Abstract!Init

\* The files, locks and crashes of the journal implement AttemptLog: one attempt
\* after the other, ends that never change, and nothing lost that was synced.
THEOREM KeepsPromise == Spec => Promise
BY Invariance, InitPromise, StepPromise, PTL DEF Spec, Promise, Abstract!Spec
=============================================================================
