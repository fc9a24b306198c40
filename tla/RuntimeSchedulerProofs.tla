------------------------ MODULE RuntimeSchedulerProofs ------------------------
(***************************************************************************)
(* Theorems about RuntimeScheduler, for every number of operations, every  *)
(* admitted plan and every number of faults.                               *)
(***************************************************************************)
EXTENDS RuntimeScheduler, FiniteSetTheorems, TLAPS

\* Initially the invariant holds.
LEMMA InitInv == Init => IInv
<1> SUFFICES ASSUME Init PROVE IInv
  OBVIOUS
<1> USE SizeAssumption, PlanAssumption DEF Init
<1>1. TypeOK
  <2>1. plan \in PlanType /\ InOrder(plan)
    OBVIOUS
  <2>2. placed \in 0..N /\ start \in [Op -> 0..N] /\ wave \in 1..(N + 1) /\ faults \in 0..MaxFaults
    OBVIOUS
  <2>3. \A k \in Op : start[k] \in IF k <= placed THEN 1..k ELSE {0}
    BY DEF Op
  <2> QED
    BY <2>1, <2>2, <2>3 DEF TypeOK, Ended, Active
<1>2. Waves
  BY DEF Waves, Independent
<1>3. Progress
  BY DEF Progress, Op, Ended
<1> QED
  BY <1>1, <1>2, <1>3 DEF IInv

\* What is claimed of the waves is about the geometry only.
LEMMA SameWaves == Waves /\ UNCHANGED geometry => Waves'
BY DEF Waves, Independent, Clash, geometry

\* Putting an operation into a wave: into the one that is being filled, where
\* it needs and disturbs none, or into one of its own.
LEMMA PlaceInv ==
  ASSUME IInv, NEW k \in Op, Place(k)
  PROVE  IInv'
<1> USE SizeAssumption
<1>a. TypeOK /\ Waves /\ Progress
  BY DEF IInv
<1> DEFINE s == IF Cut(k) THEN k ELSE Pending
<1> HIDE DEF s
<1>b. k = placed + 1 /\ k \in 1..N /\ placed \in 0..N
  BY <1>a DEF Place, Op, TypeOK
<1>c. CASE ~(plan.deps[k] \subseteq 1..(s - 1))
  <2>1. main' = "refused" /\ UNCHANGED geometry /\ main = "placing"
    BY <1>c DEF Place, geometry, s
  <2>2. TypeOK'
    BY <1>a, <2>1 DEF TypeOK, Place, InOrder, geometry, flags, Ended
  <2>3. Progress'
    BY <1>a, <2>1 DEF Progress, Place, geometry, Settled, Ended
  <2> QED
    BY <1>a, <2>1, <2>2, <2>3, SameWaves DEF IInv
<1>d. CASE plan.deps[k] \subseteq 1..(s - 1)
  <2>1. /\ placed' = k /\ start' = [start EXCEPT ![k] = s] /\ UNCHANGED <<plan, main>>
        /\ main = "placing"
    BY <1>d DEF Place, s
  <2>2. Pending \in 1..k
    BY <1>a, <1>b DEF TypeOK, Pending, Op
  <2>3. s \in 1..k /\ (placed > 0 => start[placed] <= s) /\ (s # k => placed > 0 /\ s = start[placed])
    BY <1>a, <1>b, <2>2 DEF TypeOK, Pending, Op, Cut, s
  <2>4. start'[k] = s /\ \A j \in 1..placed : start'[j] = start[j] /\ start[j] \in 1..j
    BY <1>a, <1>b, <2>1 DEF TypeOK, Op
  <2>5. TypeOK'
    <3>1. \A j \in Op : start'[j] \in IF j <= placed' THEN 1..j ELSE {0}
      BY <1>a, <1>b, <2>1, <2>3 DEF TypeOK, Op
    <3>2. start' \in [Op -> 0..N] /\ placed' \in 0..N
      BY <1>a, <1>b, <2>1, <2>3 DEF TypeOK, Op
    <3> QED
      BY <1>a, <2>1, <3>1, <3>2 DEF TypeOK, Place, InOrder, flags
  <2>6. \A j \in 1..placed' : start'[start'[j]] = start'[j] /\ plan'.deps[j] \subseteq 1..(start'[j] - 1)
    <3> SUFFICES ASSUME NEW j \in 1..placed'
                 PROVE  start'[start'[j]] = start'[j] /\ plan'.deps[j] \subseteq 1..(start'[j] - 1)
      OBVIOUS
    <3>1. CASE j = k
      BY <1>a, <1>b, <1>d, <2>1, <2>3, <2>4, <3>1 DEF Waves
    <3>2. CASE j # k
      <4>1. j \in 1..placed /\ start[j] \in 1..placed
        BY <1>b, <2>1, <2>4, <3>2
      <4> QED
        BY <1>a, <2>1, <2>4, <4>1 DEF Waves
    <3> QED
      BY <3>1, <3>2
  <2>7. \A i, j \in 1..placed' : i < j => start'[i] <= start'[j]
    <3> SUFFICES ASSUME NEW i \in 1..placed', NEW j \in 1..placed', i < j
                 PROVE  start'[i] <= start'[j]
      OBVIOUS
    <3>1. i \in 1..placed
      BY <1>b, <2>1
    <3>2. CASE j = k
      <4>1. start[i] <= start[placed]
        BY <1>a, <1>b, <3>1 DEF Waves, TypeOK, Op
      <4> QED
        BY <1>a, <1>b, <2>3, <2>4, <3>1, <3>2, <4>1 DEF TypeOK, Op
    <3>3. CASE j # k
      BY <1>a, <1>b, <2>1, <2>4, <3>1, <3>3 DEF Waves
    <3> QED
      BY <3>2, <3>3
  <2>8. Independent'
    <3> SUFFICES ASSUME NEW i \in 1..placed', NEW j \in 1..placed', i < j, start'[i] = start'[j]
                 PROVE  ~Clash(i, j)' /\ i \notin plan'.deps[j]
      BY DEF Independent
    <3>1. i \in 1..placed
      BY <1>b, <2>1
    <3>2. Clash(i, j)' <=> Clash(i, j)
      BY <2>1 DEF Clash
    <3>3. CASE j = k
      <4>1. start[i] = s /\ s # k /\ i \in s..placed
        <5>1. start[i] = s
          BY <2>4, <3>1, <3>3
        <5>2. s # k
          BY <1>b, <2>4, <3>1, <5>1
        <5> QED
          BY <1>b, <2>3, <2>4, <3>1, <5>1, <5>2
      <4>2. ~Cut(k) /\ s = Pending /\ placed > 0
        BY <1>b, <4>1 DEF s
      <4>3. ~Clash(i, k)
        BY <4>1, <4>2 DEF Cut
      <4>4. i \notin plan.deps[k]
        BY <1>b, <1>d, <2>3, <4>1
      <4> QED
        BY <2>1, <3>2, <3>3, <4>3, <4>4
    <3>4. CASE j # k
      BY <1>a, <1>b, <2>1, <2>4, <3>1, <3>2, <3>4 DEF Waves, Independent
    <3> QED
      BY <3>3, <3>4
  <2>9. Progress'
    BY <1>a, <1>b, <2>1, <2>3, <2>4 DEF Progress, Place, TypeOK, Op, Settled
  <2> QED
    BY <2>5, <2>6, <2>7, <2>8, <2>9 DEF IInv, Waves
<1> QED
  BY <1>c, <1>d

-----------------------------------------------------------------------------
(* The other actions leave the geometry alone.                             *)

\* The geometry is complete.
LEMMA PlacedInv ==
  ASSUME IInv, Placed
  PROVE  IInv'
<1> USE SizeAssumption
<1>a. TypeOK /\ Waves /\ Progress
  BY DEF IInv
<1>b. UNCHANGED geometry
  BY DEF Placed, geometry
<1>1. TypeOK'
  BY <1>a, <1>b DEF TypeOK, Op, InOrder, geometry, flags, Ended, Active, Placed
<1>2. Progress'
  BY <1>a, <1>b DEF TypeOK, Progress, Op, geometry, flags, Ended, Active, Members, Settled, Placed
<1> QED
  BY <1>a, <1>b, <1>1, <1>2, SameWaves DEF IInv

\* A wave of one starts.
LEMMA AloneInv ==
  ASSUME IInv, NEW k \in Op, Alone(k)
  PROVE  IInv'
<1> USE SizeAssumption
<1>a. TypeOK /\ Waves /\ Progress
  BY DEF IInv
<1>b. UNCHANGED geometry
  BY DEF Alone, geometry
<1>1. TypeOK'
  BY <1>a, <1>b DEF TypeOK, Op, InOrder, geometry, flags, Ended, Active, Alone
<1>2. Progress'
  BY <1>a, <1>b DEF TypeOK, Progress, Op, geometry, flags, Ended, Active, Members, Settled, Alone
<1> QED
  BY <1>a, <1>b, <1>1, <1>2, SameWaves DEF IInv

\* A larger wave gets its barrier.
LEMMA PoolInv ==
  ASSUME IInv, Pool
  PROVE  IInv'
<1> USE SizeAssumption
<1>a. TypeOK /\ Waves /\ Progress
  BY DEF IInv
<1>b. UNCHANGED geometry
  BY DEF Pool, geometry
<1>1. TypeOK'
  BY <1>a, <1>b DEF TypeOK, Op, InOrder, geometry, flags, Ended, Active, Pool
<1>2. Progress'
  BY <1>a, <1>b DEF TypeOK, Progress, Op, geometry, flags, Ended, Active, Members, Settled, Pool
<1> QED
  BY <1>a, <1>b, <1>1, <1>2, SameWaves DEF IInv

\* One of its workers is submitted.
LEMMA SubmitInv ==
  ASSUME IInv, NEW k \in Op, Submit(k)
  PROVE  IInv'
<1> USE SizeAssumption
<1>a. TypeOK /\ Waves /\ Progress
  BY DEF IInv
<1>b. UNCHANGED geometry
  BY DEF Submit, geometry
<1>1. TypeOK'
  BY <1>a, <1>b DEF TypeOK, Op, InOrder, geometry, flags, Ended, Active, Submit
<1>2. Progress'
  BY <1>a, <1>b DEF TypeOK, Progress, Op, geometry, flags, Ended, Active, Members, Settled, Submit
<1> QED
  BY <1>a, <1>b, <1>1, <1>2, SameWaves DEF IInv

\* A result is collected.
LEMMA CollectInv ==
  ASSUME IInv, NEW k \in Op, Collect(k)
  PROVE  IInv'
<1> USE SizeAssumption
<1>a. TypeOK /\ Waves /\ Progress
  BY DEF IInv
<1>b. UNCHANGED geometry
  BY DEF Collect, geometry
<1>1. TypeOK'
  BY <1>a, <1>b DEF TypeOK, Op, InOrder, geometry, flags, Ended, Active, Collect
<1>2. Progress'
  BY <1>a, <1>b DEF TypeOK, Progress, Op, geometry, flags, Ended, Active, Members, Settled, Collect
<1> QED
  BY <1>a, <1>b, <1>1, <1>2, SameWaves DEF IInv

\* A failure is collected.
LEMMA CollectFailureInv ==
  ASSUME IInv, NEW k \in Op, CollectFailure(k)
  PROVE  IInv'
<1> USE SizeAssumption
<1>a. TypeOK /\ Waves /\ Progress
  BY DEF IInv
<1>b. UNCHANGED geometry
  BY DEF CollectFailure, geometry
<1>1. TypeOK'
  BY <1>a, <1>b DEF TypeOK, Op, InOrder, geometry, flags, Ended, Active, CollectFailure
<1>2. Progress'
  BY <1>a, <1>b DEF TypeOK, Progress, Op, geometry, flags, Ended, Active, Members, Settled,
     CollectFailure
<1> QED
  BY <1>a, <1>b, <1>1, <1>2, SameWaves DEF IInv

\* The next wave.
LEMMA NextWaveInv ==
  ASSUME IInv, NEW s \in 1..(N + 1), NextWave(s)
  PROVE  IInv'
<1> USE SizeAssumption
<1>a. TypeOK /\ Waves /\ Progress
  BY DEF IInv
<1>b. UNCHANGED geometry
  BY DEF NextWave, geometry
<1>1. TypeOK'
  BY <1>a, <1>b DEF TypeOK, Op, InOrder, geometry, flags, Ended, Active, NextWave, Behind,
     WaveDone
<1>2. /\ s > wave /\ wave' = s /\ main' = "waves" /\ wave \in 1..(N + 1) /\ placed = N
      /\ \A k \in Op : k >= s <=> start[k] > wave
      /\ \A k \in Op : start[k] = wave => k \in observed
      /\ UNCHANGED <<start, placed, worker, observed>>
  BY <1>a DEF NextWave, Behind, WaveDone, Members, Progress, TypeOK, geometry
<1>3. \A k \in Op : k < s => k \in observed
  BY <1>a, <1>2 DEF Progress, TypeOK, Op
<1>4. \A k \in Op : k >= s => start[k] >= s /\ worker[k] = "none"
  <2> SUFFICES ASSUME NEW k \in Op, k >= s PROVE start[k] >= s /\ worker[k] = "none"
    OBVIOUS
  <2>1. start[k] > wave /\ start[k] \in Op /\ start[start[k]] = start[k]
    BY <1>a, <1>2 DEF Waves, TypeOK, Op
  <2> QED
    BY <1>a, <1>2, <2>1 DEF Progress, TypeOK, Op
<1>5. Progress'
  BY <1>a, <1>2, <1>3, <1>4 DEF Progress, TypeOK
<1> QED
  BY <1>a, <1>b, <1>1, <1>5, SameWaves DEF IInv

\* The preparation returns.
LEMMA ReturnInv ==
  ASSUME IInv, Return
  PROVE  IInv'
<1> USE SizeAssumption
<1>a. TypeOK /\ Waves /\ Progress
  BY DEF IInv
<1>b. UNCHANGED geometry
  BY DEF Return, geometry
<1>1. TypeOK'
  BY <1>a, <1>b DEF TypeOK, Op, InOrder, geometry, flags, Ended, Active, Return, Settled
<1>2. Progress'
  BY <1>a, <1>b DEF TypeOK, Progress, Op, geometry, flags, Ended, Active, Members, Settled, Return,
     Settled
<1> QED
  BY <1>a, <1>b, <1>1, <1>2, SameWaves DEF IInv

\* It raises.
LEMMA RaiseInv ==
  ASSUME IInv, Raise
  PROVE  IInv'
<1> USE SizeAssumption
<1>a. TypeOK /\ Waves /\ Progress
  BY DEF IInv
<1>b. UNCHANGED geometry
  BY DEF Raise, geometry
<1>1. TypeOK'
  BY <1>a, <1>b DEF TypeOK, Op, InOrder, geometry, flags, Ended, Active, Raise, Settled
<1>2. Progress'
  BY <1>a, <1>b DEF TypeOK, Progress, Op, geometry, flags, Ended, Active, Members, Settled, Raise,
     Settled
<1> QED
  BY <1>a, <1>b, <1>1, <1>2, SameWaves DEF IInv

\* It is interrupted.
LEMMA InterruptInv ==
  ASSUME IInv, Interrupt
  PROVE  IInv'
<1> USE SizeAssumption
<1>a. TypeOK /\ Waves /\ Progress
  BY DEF IInv
<1>b. UNCHANGED geometry
  BY DEF Interrupt, geometry
<1>1. TypeOK'
  BY <1>a, <1>b DEF TypeOK, Op, InOrder, geometry, flags, Ended, Active, Interrupt, Fault
<1>2. Progress'
  BY <1>a, <1>b DEF TypeOK, Progress, Op, geometry, flags, Ended, Active, Members, Settled,
     Interrupt, Fault
<1> QED
  BY <1>a, <1>b, <1>1, <1>2, SameWaves DEF IInv

\* It is interrupted again.
LEMMA AbandonInv ==
  ASSUME IInv, Abandon
  PROVE  IInv'
<1> USE SizeAssumption
<1>a. TypeOK /\ Waves /\ Progress
  BY DEF IInv
<1>b. UNCHANGED geometry
  BY DEF Abandon, geometry
<1>1. TypeOK'
  BY <1>a, <1>b DEF TypeOK, Op, InOrder, geometry, flags, Ended, Active, Abandon, Fault
<1>2. Progress'
  BY <1>a, <1>b DEF TypeOK, Progress, Op, geometry, flags, Ended, Active, Members, Abandon, Fault
<1> QED
  BY <1>a, <1>b, <1>1, <1>2, SameWaves DEF IInv

\* A worker comes to the barrier.
LEMMA ArriveInv ==
  ASSUME IInv, NEW k \in Op, Arrive(k)
  PROVE  IInv'
<1> USE SizeAssumption
<1>a. TypeOK /\ Waves /\ Progress
  BY DEF IInv
<1>b. UNCHANGED geometry
  BY DEF Arrive, geometry
<1>1. TypeOK'
  BY <1>a, <1>b DEF TypeOK, Op, InOrder, geometry, flags, Ended, Active, Arrive
<1>2. /\ UNCHANGED <<placed, start, main, wave, observed, internal>> /\ worker[k] = "queued"
      /\ \A j \in Op : j # k => worker'[j] = worker[j]
  <2>1. worker \in [Op -> {"none", "ok", "failed"} \cup Active]
    BY <1>a DEF TypeOK
  <2> QED
    BY <2>1 DEF Arrive, geometry, flags
<1>3. Progress'
  <2>1. main \notin {"placing", "refused", "waves", "returned", "raised"}
    <3>1. k >= wave
      BY <1>a, <1>2 DEF TypeOK, Progress, Op
    <3> QED
      BY <1>a, <1>2, <3>1 DEF Progress, Active
  <2>2. \A j \in observed : worker'[j] = "ok"
    BY <1>a, <1>2 DEF TypeOK, Progress
  <2>3. \A j \in Op : j >= wave /\ start[j] # wave => worker'[j] = "none"
    BY <1>a, <1>2 DEF Progress
  <2> QED
    BY <1>a, <1>2, <2>1, <2>2, <2>3 DEF Progress
<1> QED
  BY <1>a, <1>b, <1>1, <1>3, SameWaves DEF IInv

\* The barrier opens.
LEMMA OpenInv ==
  ASSUME IInv, Open
  PROVE  IInv'
<1> USE SizeAssumption
<1>a. TypeOK /\ Waves /\ Progress
  BY DEF IInv
<1>b. UNCHANGED geometry
  BY DEF Open, geometry
<1>1. TypeOK'
  BY <1>a, <1>b DEF TypeOK, Op, InOrder, geometry, flags, Ended, Active, Open
<1>2. Progress'
  BY <1>a, <1>b DEF TypeOK, Progress, Op, geometry, flags, Ended, Active, Members, Settled, Open
<1> QED
  BY <1>a, <1>b, <1>1, <1>2, SameWaves DEF IInv

\* The barrier breaks.
LEMMA BarrierTimesOutInv ==
  ASSUME IInv, BarrierTimesOut
  PROVE  IInv'
<1> USE SizeAssumption
<1>a. TypeOK /\ Waves /\ Progress
  BY DEF IInv
<1>b. UNCHANGED geometry
  BY DEF BarrierTimesOut, geometry
<1>1. TypeOK'
  BY <1>a, <1>b DEF TypeOK, Op, InOrder, geometry, flags, Ended, Active, BarrierTimesOut, Fault
<1>2. Progress'
  BY <1>a, <1>b DEF TypeOK, Progress, Op, geometry, flags, Ended, Active, Members, Settled,
     BarrierTimesOut, Fault
<1> QED
  BY <1>a, <1>b, <1>1, <1>2, SameWaves DEF IInv

\* A worker finishes.
LEMMA FinishInv ==
  ASSUME IInv, NEW k \in Op, Finish(k)
  PROVE  IInv'
<1> USE SizeAssumption
<1>a. TypeOK /\ Waves /\ Progress
  BY DEF IInv
<1>b. UNCHANGED geometry
  BY DEF Finish, geometry
<1>1. TypeOK'
  BY <1>a, <1>b DEF TypeOK, Op, InOrder, geometry, flags, Ended, Active, Finish
<1>2. Progress'
  BY <1>a, <1>b DEF TypeOK, Progress, Op, geometry, flags, Ended, Active, Members, Settled, Finish
<1> QED
  BY <1>a, <1>b, <1>1, <1>2, SameWaves DEF IInv

\* A worker fails.
LEMMA StopInv ==
  ASSUME IInv, NEW k \in Op, Stop(k)
  PROVE  IInv'
<1> USE SizeAssumption
<1>a. TypeOK /\ Waves /\ Progress
  BY DEF IInv
<1>b. UNCHANGED geometry
  BY DEF Stop, geometry
<1>1. TypeOK'
  BY <1>a, <1>b DEF TypeOK, Op, InOrder, geometry, flags, Ended, Active, Stop, Fault
<1>2. Progress'
  BY <1>a, <1>b DEF TypeOK, Progress, Op, geometry, flags, Ended, Active, Members, Settled,
     Stop, Fault
<1> QED
  BY <1>a, <1>b, <1>1, <1>2, SameWaves DEF IInv

\* The caller cancels.
LEMMA CancelInv ==
  ASSUME IInv, Cancel
  PROVE  IInv'
<1> USE SizeAssumption
<1>a. TypeOK /\ Waves /\ Progress
  BY DEF IInv
<1>b. UNCHANGED geometry
  BY DEF Cancel, geometry
<1>1. TypeOK'
  BY <1>a, <1>b DEF TypeOK, Op, InOrder, geometry, flags, Ended, Active, Cancel, Fault
<1>2. Progress'
  BY <1>a, <1>b DEF TypeOK, Progress, Op, geometry, flags, Ended, Active, Members, Settled, Cancel,
     Fault
<1> QED
  BY <1>a, <1>b, <1>1, <1>2, SameWaves DEF IInv

-----------------------------------------------------------------------------
(* The theorems.                                                           *)

\* Every step preserves the invariant.
LEMMA NextInv == IInv /\ [Next]_vars => IInv'
<1> SUFFICES ASSUME IInv, [Next]_vars PROVE IInv'
  OBVIOUS
<1>1. ASSUME MainStep PROVE IInv'
  BY <1>1, PlacedInv, PoolInv, ReturnInv, RaiseInv, PlaceInv, AloneInv, SubmitInv, CollectInv,
    CollectFailureInv, NextWaveInv DEF MainStep
<1>2. ASSUME NEW k \in Op, WorkerStep(k) \/ Stop(k) PROVE IInv'
  BY <1>2, ArriveInv, FinishInv, StopInv DEF WorkerStep
<1>3. ASSUME Open \/ BarrierTimesOut \/ Interrupt \/ Abandon \/ Cancel PROVE IInv'
  BY <1>3, OpenInv, BarrierTimesOutInv, InterruptInv, AbandonInv, CancelInv
<1>4. ASSUME UNCHANGED vars PROVE IInv'
  <2> USE <1>4 DEF vars, geometry, flags
  <2>1. TypeOK' <=> TypeOK
    BY DEF TypeOK, InOrder
  <2>2. Progress' <=> Progress
    BY DEF Progress, Settled
  <2> QED
    BY <2>1, <2>2, SameWaves DEF IInv
<1> QED
  BY <1>1, <1>2, <1>3, <1>4 DEF Next

\* The inductive invariant holds throughout a preparation.
THEOREM Invariance == Spec => []IInv
<1>1. IInv /\ [Next]_vars => IInv'
  BY NextInv
<1> QED
  BY InitInv, <1>1, PTL DEF Spec

\* Every variable stays in its type.
THEOREM Typing == Spec => []TypeOK
<1>1. IInv => TypeOK
  BY DEF IInv
<1> QED
  BY Invariance, <1>1, PTL

\* Whatever the plan, no two operations of a wave need or disturb each other.
THEOREM WavesAreIndependent == Spec => []Independent
<1>1. IInv => Independent
  BY DEF IInv, Waves
<1> QED
  BY Invariance, <1>1, PTL

\* No operation between the start of a wave and one of its members writes
\* where that one does.
LEMMA StaleNever == IInv => \A k \in Op : k <= placed => ~Stale(k)
<1>1. ASSUME IInv, NEW k \in 1..placed, NEW p \in plan.writes[k]
      PROVE  Writers(p, start[k]) = Writers(p, k)
  <2>1. placed \in 0..N /\ k \in Op /\ start[k] \in 1..k /\ p \in Path
    BY <1>1, SizeAssumption DEF IInv, TypeOK, Op, PlanType
  <2>2. SUFFICES ASSUME NEW j \in start[k]..(k - 1), p \in plan.writes[j] PROVE FALSE
    BY <2>1 DEF Writers
  <2>3. j \in 1..placed /\ j < k
    BY <2>1
  <2>4. start[j] = start[k]
    <3>1. start[j] <= start[k]
      BY <1>1, <2>3 DEF IInv, Waves
    <3>2. start[start[k]] = start[k] /\ start[k] \in 1..placed
      BY <1>1, <2>1 DEF IInv, Waves
    <3>3. start[start[k]] <= start[j]
      BY <1>1, <2>1, <2>3, <3>2 DEF IInv, Waves, TypeOK, Op
    <3>4. start \in [Op -> 0..N] /\ N \in Nat /\ j \in Op
      BY <1>1, <2>1, <2>3, SizeAssumption DEF IInv, TypeOK, Op
    <3> QED
      BY <2>1, <3>1, <3>2, <3>3, <3>4
  <2>5. Clash(j, k)
    BY <2>1, <2>2, OverlapAssumption DEF Clash
  <2> QED
    BY <1>1, <2>3, <2>4, <2>5 DEF IInv, Waves, Independent
<1> QED
  BY <1>1 DEF Stale, Op

\* Every worker starts from the content its serial rehearsal saw: running a
\* wave at once cannot change what its operations do.
THEOREM WorkersAgreeWithSerial == Spec => []SerialAgreement
<1>1. IInv => SerialAgreement
  <2> SUFFICES ASSUME IInv, NEW k \in 1..placed PROVE ~Stale(k)
    BY DEF SerialAgreement
  <2>1. k \in Op /\ k <= placed
    BY SizeAssumption DEF IInv, TypeOK, Op
  <2> QED
    BY <2>1, StaleNever
<1> QED
  BY Invariance, <1>1, PTL

\* A worker starts after everything its operation depends on was observed.
THEOREM DependenciesComeFirst == Spec => []DependenciesFirst
<1>1. ASSUME IInv, NEW k \in Op, worker[k] # "none", NEW d \in plan.deps[k]
      PROVE  d \in observed
  <2>1. placed = N /\ k \in 1..placed
    BY <1>1 DEF IInv, Progress, Op
  <2>2. start[k] \in 1..k /\ plan.deps[k] \subseteq 1..(start[k] - 1)
    BY <1>1, <2>1 DEF IInv, Waves, TypeOK, Op
  <2>3. k < wave \/ start[k] = wave
    BY <1>1 DEF IInv, Progress, TypeOK, Op
  <2>4. d \in Op /\ d < wave
    <3>1. d \in 1..(start[k] - 1)
      BY <1>1, <2>2
    <3>2. k \in 1..N /\ start[k] \in 1..k /\ wave \in 1..(N + 1) /\ N \in Nat
      BY <1>1, <2>1, <2>2, SizeAssumption DEF IInv, TypeOK, Op
    <3> QED
      BY <2>3, <3>1, <3>2 DEF Op
  <2> QED
    BY <1>1, <2>4 DEF IInv, Progress
<1>2. IInv => DependenciesFirst
  BY <1>1 DEF DependenciesFirst
<1> QED
  BY Invariance, <1>2, PTL

\* After the failure of a worker no later wave begins.
THEOREM FailuresStop == Spec => []FailureStops
<1>1. ASSUME IInv, NEW j \in Op, NEW k \in Op, worker[j] = "failed", start[j] < start[k]
      PROVE  worker[k] = "none"
  <2>1. wave \in 1..(N + 1) /\ placed = N /\ start[j] \in 1..j /\ start[k] \in 1..k
    BY <1>1 DEF IInv, Progress, TypeOK, Op
  <2>2. j >= wave /\ start[j] = wave
    BY <1>1, <2>1 DEF IInv, Progress, Op
  <2> QED
    BY <1>1, <2>1, <2>2 DEF IInv, Progress, Op
<1>2. IInv => FailureStops
  BY <1>1 DEF FailureStops
<1> QED
  BY Invariance, <1>2, PTL

-----------------------------------------------------------------------------
(* Nothing fails of itself.                                                *)

\* Nobody waits in a wave of which all have a thread and one is missing: the
\* pool has as many threads as its largest wave has members.
LEMMA MissingFindsThread ==
  ASSUME IInv, NEW m \in Members(wave), worker[m] \notin {"waiting", "working"}
  PROVE  ThreadFree
<1>1. Running \subseteq Members(wave) \ {m}
  BY DEF IInv, TypeOK, Progress, Running, Members, Op
<1>2. IsFiniteSet(Members(wave))
  <2>1. IsFiniteSet(Op)
    BY FS_Interval, SizeAssumption DEF Op
  <2> QED
    BY <2>1, FS_Subset DEF Members
<1>3. /\ IsFiniteSet(Members(wave) \ {m})
      /\ Cardinality(Members(wave) \ {m}) = Cardinality(Members(wave)) - 1
  BY <1>2, FS_RemoveElement
<1>4. Cardinality(Running) <= Cardinality(Members(wave)) - 1
  BY <1>1, <1>3, FS_Subset
<1>5. Cardinality(Running) < Cardinality(Members(wave))
  <2>1. Cardinality(Running) \in Nat /\ Cardinality(Members(wave)) \in Nat
    BY <1>1, <1>2, <1>3, FS_Subset, FS_CardinalityType
  <2> QED
    BY <1>4, <2>1
<1>6. wave \in Op
  BY SizeAssumption DEF IInv, TypeOK, Members, Op
<1> QED
  BY <1>5, <1>6 DEF ThreadFree

\* Work goes on only in the wave that runs.
LEMMA ActiveInWave ==
  ASSUME IInv, NEW k \in Op, worker[k] \in Active \cup {"failed"}
  PROVE  k \in Members(wave) /\ main \notin {"placing", "refused", "waves"} /\ k \notin observed
BY DEF IInv, TypeOK, Progress, Members, Active, Op

LEMMA WorksFresh ==
  ASSUME IInv, NEW k \in Op, worker[k] \in Active
  PROVE  ~Stale(k)
<1>1. main \notin {"placing", "refused"}
  BY ActiveInWave
<1>2. k <= placed
  BY <1>1, SizeAssumption DEF IInv, Progress, Op
<1> QED
  BY <1>2, StaleNever

\* So the barrier of an untroubled preparation never breaks.
LEMMA BarrierHolds ==
  ASSUME IInv, Calm, BarrierTimesOut
  PROVE  faults' > 0
<1>1. PICK k \in Op : worker[k] = "waiting"
  BY DEF BarrierTimesOut
<1>2. PICK m \in Members(wave) : worker[m] # "waiting"
  BY DEF BarrierTimesOut
<1>3. faults \in Nat /\ MaxFaults \in Nat
  BY SizeAssumption DEF IInv, TypeOK
<1>4. CASE Fault
  BY <1>3, <1>4 DEF Fault
<1>5. CASE ~Fault
  <2>1. /\ main # "submitting" /\ ~(ThreadFree /\ \E j \in Op : worker[j] = "queued")
        /\ faults' = faults
    BY <1>5 DEF BarrierTimesOut
  <2>2. k \in Members(wave) /\ main \notin {"placing", "refused", "waves", "returned", "raised", "alone"}
    BY <1>1, ActiveInWave DEF IInv, Progress, Calm, Active
  <2>3. m \in Op /\ start[m] = start[k] /\ worker[m] \notin {"working", "ok"}
    BY <1>1, <1>2, <2>2 DEF Calm, Members
  <2>4. SUFFICES ASSUME faults = 0 PROVE FALSE
    BY <1>3, <2>1
  <2>5. main = "collecting" /\ worker[m] \notin {"none", "failed"}
    BY <2>1, <2>2, <2>3, <2>4 DEF IInv, TypeOK, Calm, Ended
  <2>6. worker[m] = "queued"
    BY <1>2, <2>3, <2>5 DEF IInv, TypeOK, Active
  <2> QED
    BY <1>2, <2>1, <2>3, <2>6, MissingFindsThread
<1> QED
  BY <1>4, <1>5

LEMMA InitCalm == Init => Calm
BY DEF Init, Calm, Cancelled

\* Every admitted plan can be cut into waves.
LEMMA PlaceCalm ==
  ASSUME IInv, Calm, NEW k \in Op, Place(k)
  PROVE  Calm'
<1>1. plan.deps[k] \subseteq 1..(k - 1)
  BY DEF IInv, TypeOK, InOrder
<1>2. plan.deps[k] \subseteq 1..((IF Cut(k) THEN k ELSE Pending) - 1)
  <2>1. CASE Cut(k)
    BY <1>1, <2>1
  <2>2. CASE ~Cut(k) /\ placed > 0
    BY <2>2 DEF Cut
  <2>3. CASE ~Cut(k) /\ ~(placed > 0)
    BY <1>1, <2>3 DEF Place, Pending, IInv, TypeOK
  <2> QED
    BY <2>1, <2>2, <2>3
<1>3. main' = main /\ UNCHANGED <<wave, worker, observed, flags>>
  BY <1>2 DEF Place
<1>4. main = "placing" /\ \A j \in Op : worker[j] = "none"
  BY DEF Place, IInv, Progress
<1> QED
  BY <1>3, <1>4 DEF Calm, flags, Cancelled

\* Behind the last wave every result is in.
LEMMA AllObserved ==
  ASSUME IInv, wave = N + 1
  PROVE  observed = Op
<1>1. observed \subseteq Op /\ \A j \in Op : j < wave => j \in observed
  BY DEF IInv, Progress, TypeOK
<1>2. \A j \in Op : j < wave
  BY SizeAssumption DEF Op
<1> QED
  BY <1>1, <1>2

\* The calling thread.
LEMMA MainCalm ==
  ASSUME IInv, Calm, NEW k \in Op, NEW s \in 1..(N + 1),
         \/ Placed \/ Pool \/ Return \/ Raise \/ Interrupt \/ Abandon \/ Cancel
         \/ Alone(k) \/ Submit(k) \/ Collect(k) \/ CollectFailure(k) \/ NextWave(s)
  PROVE  Calm'
<1> USE DEF geometry, flags, Members, Cancelled
<1>1. UNCHANGED start /\ faults \in Nat /\ wave \in Nat
  BY DEF IInv, TypeOK, Placed, Pool, Return, Raise, Interrupt, Abandon, Cancel, Alone, Submit,
     Collect, CollectFailure, NextWave
<1>2. CASE Placed \/ Pool \/ Collect(k) \/ NextWave(s)
  BY <1>1, <1>2 DEF Calm, Placed, Pool, Collect, NextWave
<1>3. CASE Return
  <2>1. observed = Op
    BY <1>3, AllObserved DEF Return
  <2> QED
    BY <1>1, <1>3, <2>1 DEF Calm, Return
<1>4. CASE Raise \/ CollectFailure(k)
  BY <1>1, <1>4 DEF Calm, Raise, CollectFailure
<1>5. CASE Interrupt \/ Abandon \/ Cancel
  BY <1>1, <1>5 DEF Calm, Interrupt, Abandon, Cancel, Fault
<1>6. CASE Alone(k)
  <2>1. /\ worker' = [worker EXCEPT ![k] = "working"] /\ main' = "alone" /\ worker \in [Op -> {"none", "ok", "failed"} \cup Active]
        /\ \A j \in Op : start[j] = wave <=> j = k
        /\ UNCHANGED <<wave, external, internal, faults>>
    BY <1>6 DEF Alone, IInv, TypeOK
  <2> QED
    BY <1>1, <2>1 DEF Calm
<1>7. CASE Submit(k)
  <2>1. /\ worker' = [worker EXCEPT ![k] = "queued"] /\ worker \in [Op -> {"none", "ok", "failed"} \cup Active]
        /\ worker[k] = "none" /\ start[k] = wave
        /\ UNCHANGED <<wave, external, internal, faults>>
        /\ main' \in {"submitting", "collecting"}
    BY <1>7 DEF Submit, IInv, TypeOK
  <2>2. main' = "collecting" => \A j \in Members(wave) : worker'[j] # "none"
    <3> SUFFICES ASSUME main' = "collecting", NEW j \in Members(wave) PROVE worker'[j] # "none"
      OBVIOUS
    <3>1. j <= k /\ j \in Op
      BY <1>7 DEF Submit
    <3>2. j = k \/ j < k
      BY <3>1 DEF Op
    <3> QED
      BY <1>7, <2>1, <3>1, <3>2 DEF Submit
  <2> QED
    BY <1>1, <2>1, <2>2 DEF Calm
<1> QED
  BY <1>2, <1>3, <1>4, <1>5, <1>6, <1>7

\* The workers.
LEMMA WorkerCalm ==
  ASSUME IInv, Calm, NEW k \in Op, Arrive(k) \/ Finish(k) \/ Stop(k) \/ Open \/ BarrierTimesOut
  PROVE  Calm'
<1> USE DEF geometry, flags, Members, Cancelled
<1>1. /\ UNCHANGED <<start, main, wave, external, internal>>
      /\ faults \in Nat /\ faults' \in {faults, faults + 1}
      /\ worker \in [Op -> {"none", "ok", "failed"} \cup Active]
  BY DEF IInv, TypeOK, Arrive, Finish, Stop, Open, BarrierTimesOut, Fault
<1>2. CASE Arrive(k)
  <2>1. worker[k] = "queued" /\ faults' = faults
    BY <1>2 DEF Arrive
  <2>2. main # "alone"
    BY <2>1, ActiveInWave DEF Calm, Active
  <2>3. worker' = [worker EXCEPT ![k] = "waiting"] \/ (worker' = [worker EXCEPT ![k] = "failed"] /\ Broken)
    BY <1>2 DEF Arrive
  <2> QED
    BY <1>1, <2>1, <2>2, <2>3 DEF Calm, Broken
<1>3. CASE Finish(k)
  <2>1. ~Stale(k)
    BY <1>3, WorksFresh DEF Finish, Active
  <2>2. worker[k] = "working" /\ worker' = [worker EXCEPT ![k] = "ok"] /\ faults' = faults
    BY <1>3, <2>1 DEF Finish
  <2> QED
    BY <1>1, <2>2 DEF Calm
<1>4. CASE Stop(k)
  <2>1. worker[k] = "working" /\ worker' = [worker EXCEPT ![k] = "failed"] /\ faults' > 0
    BY <1>1, <1>4 DEF Stop, Calm, Fault
  <2> QED
    BY <1>1, <2>1 DEF Calm
<1>5. CASE Open
  <2>1. /\ worker' = [j \in Op |-> IF start[j] = wave THEN "working" ELSE worker[j]]
        /\ faults' = faults
        /\ \A j \in Op : start[j] = wave => worker[j] = "waiting"
    BY <1>5 DEF Open
  <2> QED
    BY <1>1, <2>1 DEF Calm
<1>6. CASE BarrierTimesOut
  <2>1. /\ worker' = [j \in Op |-> IF worker[j] = "waiting" THEN "failed" ELSE worker[j]]
        /\ faults' > 0
    BY <1>6, BarrierHolds DEF BarrierTimesOut
  <2> QED
    BY <1>1, <2>1 DEF Calm
<1> QED
  BY <1>2, <1>3, <1>4, <1>5, <1>6

\* A preparation that fails, or a worker that does, had trouble: a fault, an
\* interruption or a cancellation.
THEOREM NothingFailsOfItself == Spec => []Calm
<1>1. IInv /\ Calm /\ [Next]_vars => Calm'
  <2> SUFFICES ASSUME IInv, Calm, [Next]_vars PROVE Calm'
    OBVIOUS
  <2>1. 1 \in Op /\ 1 \in 1..(N + 1)
    BY SizeAssumption DEF Op
  <2>2. ASSUME MainStep PROVE Calm'
    BY <2>1, <2>2, MainCalm, PlaceCalm DEF MainStep
  <2>3. ASSUME NEW k \in Op, WorkerStep(k) \/ Stop(k) PROVE Calm'
    BY <2>3, WorkerCalm DEF WorkerStep
  <2>4. ASSUME Open \/ BarrierTimesOut \/ Interrupt \/ Abandon \/ Cancel PROVE Calm'
    BY <2>1, <2>4, WorkerCalm, MainCalm
  <2>5. ASSUME UNCHANGED vars PROVE Calm'
    BY <2>5 DEF vars, geometry, flags, Calm, Members, Cancelled
  <2> QED
    BY <2>2, <2>3, <2>4, <2>5 DEF Next
<1> QED
  BY InitCalm, Invariance, <1>1, PTL DEF Spec

\* What is returned is complete; workers outlive the preparation only when it
\* was in trouble already and was interrupted while it waited for them, and
\* then they were told to stop.
THEOREM NobodyStrays == Spec => []NoStrays
<1>1. IInv /\ Calm => NoStrays
  BY DEF IInv, TypeOK, Progress, Calm, NoStrays, Ended, Active
<1> QED
  BY Invariance, NothingFailsOfItself, <1>1, PTL

-----------------------------------------------------------------------------
(* The preparation implements SerialOrder.                                 *)

Keeps == [Order!Next]_(Order!vars)

\* What the wave needs was observed: what it depends on lies in front of it,
\* and what an operation of it clashes with is not in it.
LEMMA NeedsObserved ==
  ASSUME IInv, NEW k \in Members(wave), main \notin {"placing", "refused"}
  PROVE  Needs[k] \subseteq observed
<1> USE SizeAssumption
<1>1. /\ placed = N /\ k \in Op /\ start[k] = wave /\ wave \in 1..(N + 1) /\ start[k] \in 1..k
      /\ start \in [Op -> 0..N]
  BY DEF IInv, TypeOK, Progress, Members, Op
<1>2. ASSUME NEW j \in 1..(k - 1), j \in plan.deps[k] \/ Clash(j, k) PROVE j \in observed
  <2>1. j \in 1..placed /\ k \in 1..placed /\ j \in Op /\ j < k
    BY <1>1 DEF Op
  <2>2. start[j] # start[k] /\ start[j] <= start[k]
    BY <1>2, <2>1 DEF IInv, Waves, Independent
  <2>3. start[j] < wave
    BY <1>1, <2>1, <2>2
  <2>4. j < wave
    BY <1>1, <2>1, <2>3 DEF IInv, Progress
  <2> QED
    BY <2>1, <2>4 DEF IInv, Progress
<1> QED
  BY <1>1, <1>2 DEF Needs

\* Steps that the promise does not see, or sees as trouble.
LEMMA UnseenKeeps ==
  ASSUME IInv, UNCHANGED <<plan, worker, observed>>, main \notin Ended, main' \notin Ended,
         faults \in Nat, faults' \in {faults, faults + 1}
  PROVE  Keeps
<1>1. UNCHANGED <<Needs, Work, observed, Outcome>> /\ Outcome = "open"
  BY DEF Needs, Work, Outcome, Clash
<1>2. CASE faults' = faults
  BY <1>1, <1>2 DEF Keeps, Order!vars
<1>3. CASE faults' = faults + 1
  BY <1>1, <1>3 DEF Keeps, Order!Next, Order!Disturb
<1> QED
  BY <1>2, <1>3

\* Work begins in the wave that runs.
LEMMA BeginKeeps ==
  ASSUME IInv, NEW k \in Op, Alone(k) \/ Submit(k)
  PROVE  Order!Begin(k)
<1>1. /\ k \in Members(wave) /\ main \notin {"placing", "refused"} \cup Ended /\ main' \notin Ended
      /\ UNCHANGED <<plan, observed, faults>> /\ worker \in [Op -> {"none", "ok", "failed"} \cup Active]
  BY DEF Alone, Submit, IInv, TypeOK, Ended, Members, geometry, flags
<1>2. worker[k] = "none"
  BY <1>1 DEF Alone, Submit, IInv, Progress, Members, TypeOK, Op
<1>3. worker' \in {[worker EXCEPT ![k] = "working"], [worker EXCEPT ![k] = "queued"]}
  BY DEF Alone, Submit
<1>4. Work[k] = "none" /\ Work' = [Work EXCEPT ![k] = "running"]
  BY <1>1, <1>2, <1>3 DEF Work, Active
<1>5. Needs[k] \subseteq observed /\ Needs' = Needs
  BY <1>1, NeedsObserved DEF Needs, Clash
<1>6. UNCHANGED <<observed, Outcome, faults>> /\ Outcome = "open"
  BY <1>1 DEF Outcome
<1> QED
  BY <1>4, <1>5, <1>6 DEF Order!Begin

\* Work ends, alone or, when the barrier breaks, with all that wait.
LEMMA EndKeeps ==
  ASSUME IInv, NEW K \in SUBSET Op, NEW how \in {"ok", "failed"},
         \A k \in K : worker[k] \in Active,
         worker' = [k \in Op |-> IF k \in K THEN how ELSE worker[k]],
         UNCHANGED <<plan, observed, main>>, Outcome \in {"open", "abandoned"},
         faults \in Nat, faults' \in {faults, faults + 1}, how = "failed" => faults' > 0
  PROVE  Order!End(K)
<1>1. \A k \in K : Work[k] = "running"
  BY DEF Work
<1>2. Work' = [k \in Op |-> IF k \in K THEN how ELSE Work[k]]
  BY DEF Work, Active
<1>3. UNCHANGED <<Needs, observed, Outcome>>
  BY DEF Needs, Clash, Outcome
<1> QED
  BY <1>1, <1>2, <1>3 DEF Order!End

\* The steps of the workers.
LEMMA WorkerKeeps ==
  ASSUME IInv, Calm, NEW k \in Op,
         Arrive(k) \/ Finish(k) \/ Stop(k) \/ Open \/ BarrierTimesOut
  PROVE  Keeps
<1>1. /\ UNCHANGED <<plan, main, observed>> /\ faults \in Nat /\ faults' \in {faults, faults + 1}
      /\ worker \in [Op -> {"none", "ok", "failed"} \cup Active]
  BY DEF IInv, TypeOK, Arrive, Finish, Stop, Open, BarrierTimesOut, Fault, geometry, flags
<1>2. \A j \in Op : worker[j] \in Active => Outcome \in {"open", "abandoned"}
  BY DEF IInv, Progress, Ended, Active, Outcome
<1>3. ASSUME NEW how \in {"ok", "failed"}, worker[k] \in Active, worker' = [worker EXCEPT ![k] = how],
             how = "failed" => faults' > 0
      PROVE  Keeps
  <2>1. worker' = [j \in Op |-> IF j \in {k} THEN how ELSE worker[j]]
    BY <1>1, <1>3
  <2>2. Order!End({k})
    BY <1>1, <1>2, <1>3, <2>1, EndKeeps
  <2> QED
    BY <2>2 DEF Keeps, Order!Next
<1>4. ASSUME Work' = Work, \E j \in Op : worker[j] \in Active, faults' = faults PROVE Keeps
  BY <1>1, <1>4 DEF Keeps, Order!vars, Needs, Outcome, Clash
<1>5. CASE Arrive(k) /\ Broken
  <2>1. worker[k] \in Active /\ worker' = [worker EXCEPT ![k] = "failed"] /\ faults' = faults
    BY <1>5 DEF Arrive, Active, flags
  <2>2. faults > 0
    BY <1>1, <1>5 DEF Broken, Calm, Members
  <2> QED
    BY <1>3, <2>1, <2>2
<1>6. CASE Arrive(k) /\ ~Broken
  <2>1. worker[k] \in Active /\ worker' = [worker EXCEPT ![k] = "waiting"] /\ faults' = faults
    BY <1>6 DEF Arrive, Active, flags
  <2>2. Work' = Work
    BY <1>1, <2>1 DEF Work, Active
  <2> QED
    BY <1>4, <2>1, <2>2
<1>7. CASE Open
  <2>1. /\ worker' = [j \in Op |-> IF j \in Members(wave) THEN "working" ELSE worker[j]]
        /\ faults' = faults /\ Members(wave) # {}
        /\ \A j \in Members(wave) : j \in Op /\ worker[j] = "waiting"
    BY <1>7 DEF Open, flags, Members
  <2>2. Work' = Work
    BY <1>1, <2>1 DEF Work, Active
  <2> QED
    BY <1>4, <2>1, <2>2 DEF Active
<1>8. CASE BarrierTimesOut
  <2>0. PICK K \in SUBSET Op : K = {j \in Op : worker[j] = "waiting"}
    OBVIOUS
  <2>1. worker' = [j \in Op |-> IF j \in K THEN "failed" ELSE worker[j]] /\ K # {}
    BY <1>8, <2>0 DEF BarrierTimesOut
  <2>2. faults' > 0
    BY <1>8, BarrierHolds
  <2>3. \A j \in K : worker[j] \in Active
    BY <2>0 DEF Active
  <2>4. Order!End(K)
    BY <1>1, <1>2, <2>1, <2>2, <2>3, EndKeeps
  <2> QED
    BY <2>4 DEF Keeps, Order!Next
<1>9. CASE Finish(k)
  <2>1. worker[k] \in Active /\ ~Stale(k)
    BY <1>9, WorksFresh DEF Finish, Active
  <2>2. worker' = [worker EXCEPT ![k] = "ok"]
    BY <1>9, <2>1 DEF Finish
  <2> QED
    BY <1>3, <2>1, <2>2
<1>10. CASE Stop(k)
  <2>1. faults' > 0
    BY <1>1, <1>10 DEF Stop, Calm, Fault
  <2> QED
    BY <1>3, <1>10, <2>1 DEF Stop, Active
<1> QED
  BY <1>5, <1>6, <1>7, <1>8, <1>9, <1>10

\* The preparation ends with everything, or in trouble.
LEMMA ConcludeKeeps ==
  ASSUME IInv, Calm, Return \/ Raise
  PROVE  Order!Conclude
<1>1. UNCHANGED <<Needs, Work, observed, faults>>
  BY DEF Return, Raise, Needs, Work, Clash, geometry
<1>2. Outcome = "open" /\ \A k \in Op : Work[k] # "running"
  BY DEF Return, Raise, Outcome, Ended, Settled, Work, IInv, TypeOK
<1>3. CASE Return
  <2>1. observed = Op
    BY <1>3, AllObserved DEF Return
  <2>2. Outcome' = "returned"
    BY <1>3, <2>1 DEF Return, Outcome, Ended
  <2> QED
    BY <1>1, <1>2, <2>1, <2>2 DEF Order!Conclude
<1>4. CASE Raise
  <2>1. Outcome' = "raised"
    BY <1>4 DEF Raise, Outcome, Ended
  <2>2. faults > 0
    BY <1>4 DEF Raise, Calm, IInv, TypeOK
  <2> QED
    BY <1>1, <1>2, <2>1, <2>2 DEF Order!Conclude
<1> QED
  BY <1>3, <1>4

\* An interruption of the wait for the pool is trouble on top of trouble.
LEMMA AbandonKeeps ==
  ASSUME IInv, Calm, Abandon
  PROVE  Order!Abandon
<1>1. UNCHANGED <<Needs, Work, observed>> /\ faults' = faults + 1
  BY DEF Abandon, Needs, Work, Clash, geometry, Fault
<1>2. Outcome = "open" /\ Outcome' = "abandoned" /\ \E k \in Op : Work[k] = "running"
  BY DEF Abandon, Outcome, Ended, Settled, Work
<1>3. faults > 0
  BY DEF Abandon, Calm, IInv, TypeOK
<1> QED
  BY <1>1, <1>2, <1>3 DEF Order!Abandon

\* Whatever the plan, the pool and the faults, the preparation is one that
\* works on each operation after what it needs in the plan's order, fails only
\* in trouble, and ends when nobody works any more unless it is disturbed once
\* more while it ends.
THEOREM Refinement == Spec => Promise
<1>1. Init => Order!Init
  <2> SUFFICES ASSUME Init PROVE Order!Init
    OBVIOUS
  <2>1. Needs \in [Op -> SUBSET Op]
    BY SizeAssumption DEF Needs, Op
  <2>2. Work = [k \in Op |-> "none"] /\ Outcome = "open" /\ faults = 0
    BY DEF Init, Work, Outcome, Active, Ended
  <2> QED
    BY <2>1, <2>2 DEF Init, Order!Init
<1>2. IInv /\ Calm /\ [Next]_vars => [Order!Next]_(Order!vars)
  <2> SUFFICES ASSUME IInv, Calm, [Next]_vars PROVE Keeps
    BY DEF Keeps
  <2>a. 1 \in Op /\ faults \in Nat
    BY SizeAssumption DEF Op, IInv, TypeOK
  <2>1. CASE Return \/ Raise \/ Abandon
    BY <2>1, ConcludeKeeps, AbandonKeeps DEF Keeps, Order!Next
  <2>2. CASE Placed \/ Pool \/ Interrupt \/ Cancel
    BY <2>a, <2>2, UnseenKeeps DEF Placed, Pool, Interrupt, Cancel, Ended, Fault, geometry, flags
  <2>3. ASSUME NEW k \in Op, Place(k) PROVE Keeps
    <3>1. main' = main \/ main' = "refused"
      BY <2>3 DEF Place
    <3>2. main' # "refused"
      BY <2>3, PlaceCalm DEF Calm
    <3> QED
      BY <2>a, <2>3, <3>1, <3>2, UnseenKeeps DEF Place, Ended, flags
  <2>4. ASSUME NEW k \in Op, Alone(k) \/ Submit(k) PROVE Keeps
    BY <2>4, BeginKeeps DEF Keeps, Order!Next
  <2>5. ASSUME NEW k \in Op, Collect(k) PROVE Keeps
    <3>1. UNCHANGED <<Needs, Work, Outcome, faults>> /\ observed' = observed \cup {k}
      BY <2>5 DEF Collect, Needs, Work, Outcome, Clash, geometry, flags
    <3>2. Outcome = "open" /\ Work[k] = "ok"
      BY <2>5 DEF Collect, Outcome, Work, Ended, Active
    <3>3. Order!Collect(k)
      BY <3>1, <3>2 DEF Order!Collect
    <3> QED
      BY <3>3 DEF Keeps, Order!Next
  <2>6. ASSUME NEW k \in Op, CollectFailure(k) PROVE Keeps
    BY <2>a, <2>6, UnseenKeeps DEF CollectFailure, Ended, geometry
  <2>7. ASSUME NEW s \in 1..(N + 1), NextWave(s) PROVE Keeps
    BY <2>a, <2>7, UnseenKeeps DEF NextWave, Ended, geometry, flags
  <2>8. ASSUME NEW k \in Op, WorkerStep(k) \/ Stop(k) PROVE Keeps
    BY <2>8, WorkerKeeps DEF WorkerStep
  <2>9. CASE Open \/ BarrierTimesOut
    BY <2>a, <2>9, WorkerKeeps
  <2>10. CASE UNCHANGED vars
    BY <2>10 DEF Keeps, Order!vars, Needs, Work, Outcome, vars, geometry, flags, Clash
  <2> QED
    BY <2>1, <2>2, <2>3, <2>4, <2>5, <2>6, <2>7, <2>8, <2>9, <2>10 DEF Next, MainStep
<1> QED
  BY <1>1, <1>2, Invariance, NothingFailsOfItself, PTL DEF Spec, Promise, Order!Spec
=============================================================================
