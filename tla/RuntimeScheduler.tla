-------------------------- MODULE RuntimeScheduler --------------------------
(***************************************************************************)
(* The preparation of a parallel plan, agent_braid/runtime_scheduler.py:   *)
(* the operations, in the plan's serial order, are cut into waves; the     *)
(* waves run one after the other, a single operation on the calling        *)
(* thread, several in a pool behind a barrier, each on the tree the wave   *)
(* starts from; what each does must be what the serial rehearsal saw; and  *)
(* the first failure cancels the rest.  The calling thread, which waits    *)
(* for the pool, can be interrupted, and again while it leaves the pool.   *)
(* An operation is its position in the order.  A tree is, for each path,   *)
(* the operation that wrote it last.                                       *)
(***************************************************************************)
EXTENDS Integers, FiniteSets

CONSTANTS N,          \* number of operations
          Path,       \* paths they write
          Overlap,    \* pairs of paths of which one contains the other
          Plans,      \* the admitted plans: what each operation needs and writes
          MaxFaults   \* bound on failures, interruptions and cancellations

Op == 1..N

ASSUME SizeAssumption == N \in Nat \ {0} /\ MaxFaults \in Nat
ASSUME OverlapAssumption == \A p \in Path : <<p, p>> \in Overlap
\* _request admits an order only when it respects the dependencies.
PlanType == [deps : [Op -> SUBSET Op], writes : [Op -> SUBSET Path]]
InOrder(p) == \A k \in Op : p.deps[k] \subseteq 1..(k - 1)
ASSUME PlanAssumption == \A p \in Plans : p \in PlanType /\ InOrder(p)

VARIABLES
  plan,      \* the plan that is prepared
  placed,    \* operations put into a wave so far
  start,     \* the first operation of the wave each one is in
  main,      \* where the calling thread stands
  wave,      \* the first operation of the wave that runs
  worker,    \* where each operation's worker stands
  observed,  \* operations whose results were collected
  external,  \* the caller's cancel event
  internal,  \* the cancellation of the preparation itself
  faults     \* faults so far

geometry == <<plan, placed, start>>
flags == <<external, internal, faults>>
vars == <<geometry, main, wave, worker, observed, flags>>

Ended == {"returned", "raised", "refused", "abandoned"}
Active == {"queued", "waiting", "working"}

TypeOK ==
  /\ plan \in PlanType /\ InOrder(plan)
  /\ placed \in 0..N /\ start \in [Op -> 0..N]
  /\ \A k \in Op : start[k] \in IF k <= placed THEN 1..k ELSE {0}
  /\ main \in {"placing", "waves", "alone", "submitting", "collecting", "closing"} \cup Ended
  /\ wave \in 1..(N + 1)
  /\ worker \in [Op -> {"none", "ok", "failed"} \cup Active]
  /\ observed \subseteq Op
  /\ external \in BOOLEAN /\ internal \in BOOLEAN /\ faults \in 0..MaxFaults

Init ==
  /\ plan \in Plans
  /\ placed = 0 /\ start = [k \in Op |-> 0]
  /\ main = "placing" /\ wave = 1
  /\ worker = [k \in Op |-> "none"] /\ observed = {}
  /\ external = FALSE /\ internal = FALSE /\ faults = 0

Members(s) == {k \in Op : start[k] = s}
Cancelled == external \/ internal
Fault == faults < MaxFaults /\ faults' = faults + 1

-----------------------------------------------------------------------------
(* _geometry.                                                              *)

Clash(j, k) == \E p \in plan.writes[j], q \in plan.writes[k] : <<p, q>> \in Overlap

\* Mutant: waves are numbered from zero.
FromZero == IF placed = 0 THEN 0 ELSE start[placed]
\* The first operation of the wave that is being filled.
Pending == IF placed = 0 THEN 1 ELSE start[placed]

\* Mutant: operations that write the same paths share a wave.
NeedsEarlier(k) == placed > 0 /\ ~(plan.deps[k] \subseteq 1..(Pending - 1))
\* The wave ends before an operation that needs one of it, or clashes with one.
Cut(k) ==
  /\ placed > 0
  /\ ~(plan.deps[k] \subseteq 1..(Pending - 1)) \/ \E j \in Pending..placed : Clash(j, k)

Place(k) ==
  /\ main = "placing" /\ k = placed + 1
  /\ LET s == IF Cut(k) THEN k ELSE Pending
     IN  IF plan.deps[k] \subseteq 1..(s - 1)
         THEN placed' = k /\ start' = [start EXCEPT ![k] = s] /\ UNCHANGED main
         ELSE main' = "refused" /\ UNCHANGED <<placed, start>>
  /\ UNCHANGED <<plan, wave, worker, observed, flags>>

Placed ==
  /\ main = "placing" /\ placed = N
  /\ main' = "waves"
  /\ UNCHANGED <<geometry, wave, worker, observed, flags>>

-----------------------------------------------------------------------------
(* run_preparations, the calling thread.                                   *)

\* A wave of one runs where it is.
Alone(k) ==
  /\ main = "waves" /\ Members(wave) = {k}
  /\ worker' = [worker EXCEPT ![k] = "working"]
  /\ main' = "alone"
  /\ UNCHANGED <<geometry, wave, observed, flags>>

\* A larger one gets a barrier and is submitted to the pool, in order.
Pool ==
  /\ main = "waves" /\ Cardinality(Members(wave)) > 1
  /\ main' = "submitting"
  /\ UNCHANGED <<geometry, wave, worker, observed, flags>>

Submit(k) ==
  /\ main = "submitting" /\ k \in Members(wave) /\ worker[k] = "none"
  /\ \A j \in Members(wave) : j < k => worker[j] # "none"
  /\ worker' = [worker EXCEPT ![k] = "queued"]
  /\ main' = IF \A j \in Members(wave) : j <= k THEN "collecting" ELSE main
  /\ UNCHANGED <<geometry, wave, observed, flags>>

\* as_completed: the result of a worker that is done.
Collect(k) ==
  /\ main \in {"alone", "collecting"} /\ k \in Members(wave) \ observed /\ worker[k] = "ok"
  /\ observed' = observed \cup {k}
  /\ UNCHANGED <<geometry, main, wave, worker, flags>>

\* The first failure cancels the siblings.
CollectFailure(k) ==
  /\ main \in {"alone", "collecting"} /\ k \in Members(wave) /\ worker[k] = "failed"
  /\ internal' = TRUE
  /\ main' = "closing"
  /\ UNCHANGED <<geometry, wave, worker, observed, external, faults>>

WaveDone == Members(wave) \subseteq observed

\* s is the first operation behind the wave.
Behind(s) == s > wave /\ \A j \in Op : j >= s <=> start[j] > wave

NextWave(s) ==
  /\ main \in {"alone", "collecting"} /\ WaveDone /\ Behind(s)
  /\ wave' = s /\ main' = "waves"
  /\ UNCHANGED <<geometry, worker, observed, flags>>

\* Mutant: the pool is left without waiting for its workers.
NoWait == TRUE
\* Leaving the pool waits for every worker that was submitted.
Settled == \A k \in Op : worker[k] \notin Active

Return ==
  /\ main = "waves" /\ wave = N + 1 /\ Settled
  /\ main' = IF observed = Op THEN "returned" ELSE "raised"
  /\ internal' = (internal \/ observed # Op)
  /\ UNCHANGED <<geometry, wave, worker, observed, external, faults>>

Raise ==
  /\ main = "closing" /\ Settled
  /\ internal' = TRUE
  /\ main' = "raised"
  /\ UNCHANGED <<geometry, wave, worker, observed, external, faults>>

\* The calling thread is interrupted, or the pool cannot start a thread: it
\* leaves the pool before it cancels anything.
Interrupt ==
  /\ main \in {"waves", "submitting", "collecting"} /\ Fault
  /\ main' = "closing"
  /\ UNCHANGED <<geometry, wave, worker, observed, external, internal>>

\* It is interrupted again while it waits for the workers it leaves behind:
\* nothing waits for them any more, and the cancellation is all they hear.
Abandon ==
  /\ main = "closing" /\ ~Settled /\ Fault
  /\ internal' = TRUE
  /\ main' = "abandoned"
  /\ UNCHANGED <<geometry, wave, worker, observed, external>>

-----------------------------------------------------------------------------
(* _worker, in a thread of the pool or on the calling thread.              *)

Running == {k \in Op : worker[k] \in {"waiting", "working"}}
ThreadFree == \E s \in Op : Cardinality(Running) < Cardinality(Members(s))

Broken == \E k \in Members(wave) : worker[k] = "failed"

\* It waits at the barrier of its wave, unless that is broken.
Arrive(k) ==
  /\ worker[k] = "queued" /\ ThreadFree
  /\ worker' = [worker EXCEPT ![k] = IF Broken THEN "failed" ELSE "waiting"]
  /\ UNCHANGED <<geometry, main, wave, observed, flags>>

\* The barrier opens when the whole wave has come.
Open ==
  /\ Members(wave) # {} /\ \A k \in Members(wave) : worker[k] = "waiting"
  /\ worker' = [k \in Op |-> IF k \in Members(wave) THEN "working" ELSE worker[k]]
  /\ UNCHANGED <<geometry, main, wave, observed, flags>>

\* Mutant: a worker waits for its siblings for ever.
NoTimeOut == FALSE /\ UNCHANGED vars
\* After ten seconds it breaks for all who wait; that is a fault of timing
\* as long as another one may still come.
BarrierTimesOut ==
  /\ \E k \in Op : worker[k] = "waiting"
  /\ \E k \in Members(wave) : worker[k] # "waiting"
  /\ IF main = "submitting" \/ (ThreadFree /\ \E k \in Op : worker[k] = "queued")
     THEN Fault ELSE UNCHANGED faults
  /\ worker' = [k \in Op |-> IF worker[k] = "waiting" THEN "failed" ELSE worker[k]]
  /\ UNCHANGED <<geometry, main, wave, observed, external, internal>>

\* Who wrote p last among the operations before k.
Writers(p, k) == {j \in 1..(k - 1) : p \in plan.writes[j]}
\* Its wave starts from another content of its paths than the serial
\* rehearsal of the operation did.
Stale(k) == \E p \in plan.writes[k] : Writers(p, start[k]) # Writers(p, k)

\* The worker has read its tree, applied its patch and compared the effects.
Finish(k) ==
  /\ worker[k] = "working"
  /\ worker' = [worker EXCEPT ![k] = IF Stale(k) THEN "failed" ELSE "ok"]
  /\ UNCHANGED <<geometry, main, wave, observed, flags>>

\* A Git command of the worker fails: it was cancelled, or out of budget, ...
Stop(k) ==
  /\ worker[k] = "working"
  /\ IF Cancelled THEN UNCHANGED faults ELSE Fault
  /\ worker' = [worker EXCEPT ![k] = "failed"]
  /\ UNCHANGED <<geometry, main, wave, observed, external, internal>>

\* The caller's event is set: by a client, a timeout or a disconnect.
Cancel ==
  /\ ~external /\ main \notin Ended /\ Fault
  /\ external' = TRUE
  /\ UNCHANGED <<geometry, main, wave, worker, observed, internal>>

-----------------------------------------------------------------------------
MainStep ==
  \/ Placed \/ Pool \/ Return \/ Raise
  \/ \E k \in Op : Place(k) \/ Alone(k) \/ Submit(k) \/ Collect(k) \/ CollectFailure(k)
  \/ \E s \in 1..(N + 1) : NextWave(s)

WorkerStep(k) == Arrive(k) \/ Finish(k)

Next ==
  \/ MainStep \/ \E k \in Op : WorkerStep(k) \/ Stop(k)
  \/ Open \/ BarrierTimesOut \/ Interrupt \/ Abandon \/ Cancel

Spec == Init /\ [][Next]_vars

\* The threads run, a Git command ends within its limits, and the barrier
\* keeps its time.
FairSpec ==
  /\ Spec /\ WF_vars(MainStep) /\ WF_vars(Open) /\ WF_vars(BarrierTimesOut)
  /\ \A k \in Op : WF_vars(WorkerStep(k))

-----------------------------------------------------------------------------
(* Properties.                                                             *)

\* Two operations of a wave neither need nor disturb each other (_geometry).
Independent ==
  \A j, k \in 1..placed :
    j < k /\ start[j] = start[k] => ~Clash(j, k) /\ j \notin plan.deps[k]

\* The content a worker starts from is the one the serial rehearsal of its
\* operation saw: no admitted plan is refused for effects it did declare.
SerialAgreement == \A k \in 1..placed : ~Stale(k)

\* A worker starts when the results of all it depends on were collected, in
\* whatever order they came (run_preparations).
DependenciesFirst == \A k \in Op : worker[k] # "none" => plan.deps[k] \subseteq observed

\* Once a worker has failed no later wave begins.
FailureStops ==
  \A j, k \in Op : worker[j] = "failed" /\ start[j] < start[k] => worker[k] = "none"

\* A preparation that returns has what every worker has done; one that ends
\* under workers that go on, with the scratch directory they use, was in
\* trouble before, was interrupted again while it waited for them, and has
\* told them to stop (ExitStack, observations).
NoStrays ==
  /\ main = "returned" => \A k \in Op : worker[k] = "ok"
  /\ main \in Ended /\ (\E k \in Op : worker[k] \in Active) =>
       main = "abandoned" /\ internal /\ faults > 1

\* The inductive invariant: the waves are intervals of the order, everything
\* before the wave that runs was observed, and nothing after it has begun.
Waves ==
  /\ \A k \in 1..placed :
       start[start[k]] = start[k] /\ plan.deps[k] \subseteq 1..(start[k] - 1)
  /\ \A j, k \in 1..placed : j < k => start[j] <= start[k]
  /\ Independent

Progress ==
  /\ main \notin {"placing", "refused"} => placed = N
  /\ main \in {"placing", "refused"} =>
       wave = 1 /\ observed = {} /\ \A k \in Op : worker[k] = "none"
  /\ \A k \in Op : (k < wave => k \in observed) /\ (k >= wave /\ placed = N => start[k] >= wave)
  /\ \A k \in observed : worker[k] = "ok"
  /\ \A k \in Op : k >= wave /\ start[k] # wave => worker[k] = "none"
  /\ main = "waves" => \A k \in Op : k >= wave => worker[k] = "none"
  /\ main \in {"returned", "raised"} => \A k \in Op : worker[k] \notin Active
  /\ main = "abandoned" => internal
  /\ main = "returned" => observed = Op

IInv == TypeOK /\ Waves /\ Progress

\* Nothing fails of itself: the barrier opens for a whole wave or breaks, and
\* it breaks only after a fault, because the pool has a thread for each.
Calm ==
  /\ main # "refused"
  /\ main = "alone" => \A k \in Members(wave) : worker[k] \notin {"none", "queued", "waiting"}
  /\ main = "collecting" => \A k \in Members(wave) : worker[k] # "none"
  /\ \A j, k \in Op :
       start[j] = start[k] /\ worker[j] \in {"working", "ok"} =>
         worker[k] \notin {"none", "queued", "waiting"}
  /\ faults = 0 =>
       ~Cancelled /\ main \notin {"closing", "raised"} /\ \A k \in Op : worker[k] # "failed"
  /\ main = "abandoned" => faults > 1

\* The preparation keeps the promise of SerialOrder: an operation needs what
\* it depends on and every earlier operation that writes where it does.
Needs == [k \in Op |-> {j \in 1..(k - 1) : j \in plan.deps[k] \/ Clash(j, k)}]
Work == [k \in Op |-> IF worker[k] \in Active THEN "running" ELSE worker[k]]
Outcome == IF main \in Ended THEN main ELSE "open"
Order == INSTANCE SerialOrder WITH
  needs <- Needs, work <- Work, done <- observed, outcome <- Outcome, trouble <- faults
Promise == Order!Spec

\* The preparation ends: no worker waits for ever for a sibling that will not
\* come, and the pool is not waited for in vain.  If nothing fails it succeeds:
\* the pool is large enough for every wave, and no check refuses the results.
Ends == <>(main = "returned" \/ (main \in Ended /\ faults > 0))
=============================================================================
