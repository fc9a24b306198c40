---------------------------- MODULE RuntimePolicy ----------------------------
(***************************************************************************)
(* Operator grants, agent_braid/runtime_policy.py: one grant store, the    *)
(* local operator who issues purpose-bound grants into it, and the callers *)
(* (MCP tools or the CLI) that dispatch a verified plan with one of them   *)
(* or only inspect the run.  The store lock is held for the whole of a     *)
(* dispatch and no Git command inherits it: after a death the store is     *)
(* free while an orphaned Git command still owns the run.  All plans are   *)
(* for one manifest, hence one run directory, which is PrivateRun: the     *)
(* promise GitRuntime is shown to keep.                                    *)
(***************************************************************************)
EXTENDS Naturals, FiniteSets

CONSTANTS Caller,     \* processes that issue, dispatch or inspect
          Grant,      \* grant identifiers that may be drawn
          Plan,       \* verified plans, all for one run directory
          Parallel,   \* the plans whose policy revision is PARALLEL_POLICY
          Granted,    \* the actions operators grant
          N,          \* operations of the run
          MaxGrants,  \* MAX_GRANTS
          MaxTime,    \* bound on the clock
          Ttl,        \* the lifetimes operators ask for
          MaxFaults   \* bound on deaths, failures and cancellations

ASSUME SizeAssumption == N \in Nat \ {0} /\ MaxGrants \in Nat /\ MaxTime \in Nat
ASSUME PlanAssumption == Parallel \subseteq Plan
ASSUME GrantedAssumption == Granted \subseteq {"execute", "resume", "abort"}
ASSUME TtlAssumption == Ttl \subseteq Nat \ {0}
ASSUME FiniteAssumption == IsFiniteSet(Grant) /\ IsFiniteSet(Plan)
ASSUME FaultsAssumption == MaxFaults \in Nat

VARIABLES
  clock,          \* int(time.time()), which an administrator may set back
  grant,          \* the record of each grant identifier in the store
  journal,        \* the plans whose preparation journal is in the store
  life, result,   \* the private run, as PrivateRun describes it
  orphan,         \* a Git command of a dead process that still owns the run
  pc,             \* where each caller stands
  job,            \* the grant, plan and action of its call
  cancelled,      \* its cancel event
  answer,         \* what the last call to end returned, until another begins
  faults,         \* deaths, failures and cancellations so far
  started         \* history: how many dispatches each grant has started

run == <<life, result>>
call == <<pc, job, cancelled, answer>>
vars == <<clock, grant, journal, run, orphan, call, faults, started>>

Run == INSTANCE PrivateRun

NoGrant == [state |-> "none"]
Record(state, plan, action, from, to) ==
  [state |-> state, plan |-> plan, action |-> action, issued |-> from, expires |-> to]
GrantRecord == [state : {"partial", "issued", "consumed"}, plan : Plan, action : Granted,
                issued : Nat, expires : Nat]

NoJob == [plan |-> "none"]
JobType == [grant : Grant, plan : Plan, action : {"execute", "resume", "abort"}]

Labels == {"idle", "write", "locked", "prepare", "start", "drive", "undo", "report", "look"}
Answers == {"none", "issued", "error", "performed", "not-repeated", "inspected"}

TypeOK ==
  /\ clock \in 0..MaxTime
  /\ grant \in [Grant -> GrantRecord \cup {NoGrant}]
  /\ journal \subseteq Parallel
  /\ Run!TypeOK
  /\ orphan \in {"none", "reader", "writer"}
  /\ pc \in [Caller -> Labels]
  /\ job \in [Caller -> JobType \cup {NoJob}]
  /\ cancelled \in [Caller -> BOOLEAN]
  /\ answer \in Answers
  /\ faults \in 0..MaxFaults
  /\ started \in [Grant -> Nat]

Init ==
  /\ clock = 0
  /\ grant = [g \in Grant |-> NoGrant]
  /\ journal = {}
  /\ Run!Init
  /\ orphan = "none"
  /\ pc = [c \in Caller |-> "idle"]
  /\ job = [c \in Caller |-> NoJob]
  /\ cancelled = [c \in Caller |-> FALSE]
  /\ answer = "none"
  /\ faults = 0
  /\ started = [g \in Grant |-> 0]

-----------------------------------------------------------------------------
(* The two locks.                                                          *)

\* _store_lock: held from the first look at a record to the report.
OwnsStore(c) == pc[c] \notin {"idle", "look"}
StoreFree == \A c \in Caller : ~OwnsStore(c)

\* The run's coordinator lock, which an orphaned Git command still holds.
OwnsRun(c) == pc[c] \in {"drive", "undo", "look"}
RunFree == orphan = "none" /\ \A c \in Caller : ~OwnsRun(c)

Records == {g \in Grant : grant[g] # NoGrant}
\* Every record and every journal is a *.json file of the store.
Files == Cardinality(Records) + Cardinality(journal)

Goto(c, label) == pc' = [pc EXCEPT ![c] = label]
Leave(c, what) ==
  /\ Goto(c, "idle")
  /\ job' = [job EXCEPT ![c] = NoJob]
  /\ cancelled' = [cancelled EXCEPT ![c] = FALSE]
  /\ answer' = what
\* A call takes its lock, with the arguments j; a busy lock refuses the call.
Enter(c, label, j) ==
  /\ pc[c] = "idle"
  /\ Goto(c, label)
  /\ job' = [job EXCEPT ![c] = j]
  /\ answer' = "none"
  /\ UNCHANGED cancelled

\* issue_operator_grant: an exclusively created file, still without its bytes.
Issue(c, g, plan, action, ttl) ==
  /\ StoreFree /\ Files < MaxGrants /\ grant[g] = NoGrant
  /\ Enter(c, "write", [grant |-> g, plan |-> plan, action |-> action])
  /\ grant' = [grant EXCEPT ![g] = Record("partial", plan, action, clock, clock + ttl)]
  /\ UNCHANGED <<clock, journal, run, orphan, faults, started>>

\* The record is durable.
Issued(c) ==
  /\ pc[c] = "write"
  /\ grant' = [grant EXCEPT ![job[c].grant].state = "issued"]
  /\ Leave(c, "issued")
  /\ UNCHANGED <<clock, journal, run, orphan, faults, started>>

\* _dispatch, its plan reconstructed and verified, takes the store lock.
Dispatch(c, g, plan, action) ==
  /\ StoreFree
  /\ Enter(c, "locked", [grant |-> g, plan |-> plan, action |-> action])
  /\ UNCHANGED <<clock, grant, journal, run, orphan, faults, started>>

\* Mutant: a grant serves any action.
MatchesPlan(c) ==
  LET r == grant[job[c].grant] IN
  /\ r.state \in {"issued", "consumed"}
  /\ r.plan = job[c].plan
  /\ r.issued <= clock /\ clock < r.expires
\* A complete record for this plan and action, in its lifetime.
Matches(c) ==
  LET r == grant[job[c].grant] IN
  /\ r.state \in {"issued", "consumed"}
  /\ r.plan = job[c].plan /\ r.action = job[c].action
  /\ r.issued <= clock /\ clock < r.expires
Spent(c) == Matches(c) /\ grant[job[c].grant].state = "consumed"

\* Mutant: the grant is left as it was while its dispatch runs.
NotConsumed(r) == r
Consumed(r) == [r EXCEPT !.state = "consumed"]

\* Mutant: every execution is prepared.
PrepareAll(c) == IF job[c].action = "execute" THEN "prepare" ELSE "start"
\* Only a parallel execution is prepared.
AfterConsume(c) ==
  IF job[c].action = "execute" /\ job[c].plan \in Parallel THEN "prepare" ELSE "start"

\* The grant is consumed durably before the dispatch has any effect.
Consume(c) ==
  /\ pc[c] = "locked" /\ Matches(c) /\ ~Spent(c) /\ ~cancelled[c]
  /\ grant' = [grant EXCEPT ![job[c].grant] = Consumed(grant[job[c].grant])]
  /\ started' = [started EXCEPT ![job[c].grant] = @ + 1]
  /\ Goto(c, AfterConsume(c))
  /\ UNCHANGED <<clock, journal, run, orphan, job, cancelled, answer, faults>>

\* run_preparations in its own scratch, then the preparation journal.
Prepare(c) ==
  /\ pc[c] = "prepare" /\ life = "absent" /\ ~cancelled[c]
  /\ journal' = journal \cup {job[c].plan}
  /\ Goto(c, "start")
  /\ UNCHANGED <<clock, grant, run, orphan, job, cancelled, answer, faults, started>>

\* Mutant: recovery does not ask who owns the run.
PresentOnly == life # "absent"
Startable == life # "absent" /\ RunFree

\* execute_run publishes a new run; recover_run takes the lock of the old one.
Start(c) ==
  /\ pc[c] = "start"
  /\ IF job[c].action = "execute" THEN Run!Publish ELSE Startable /\ UNCHANGED run
  /\ Goto(c, "drive")
  /\ UNCHANGED <<clock, grant, journal, orphan, job, cancelled, answer, faults, started>>

Advance(c) ==
  /\ pc[c] = "drive" /\ job[c].action # "abort"
  /\ Run!Advance
  /\ UNCHANGED <<clock, grant, journal, orphan, call, faults, started>>

\* The run is declared complete, or was found so.
Completed == Run!Complete \/ (life = "completed" /\ UNCHANGED run)

Complete(c) ==
  /\ pc[c] = "drive" /\ job[c].action # "abort"
  /\ Completed
  /\ Goto(c, "report")
  /\ UNCHANGED <<clock, grant, journal, orphan, job, cancelled, answer, faults, started>>

GiveUp(c) ==
  /\ pc[c] = "drive" /\ job[c].action = "abort"
  /\ Run!GiveUp
  /\ Goto(c, "undo")
  /\ UNCHANGED <<clock, grant, journal, orphan, job, cancelled, answer, faults, started>>

Restore(c) ==
  /\ pc[c] = "undo" /\ result # 0
  /\ Run!Restore
  /\ UNCHANGED <<clock, grant, journal, orphan, call, faults, started>>

Seal(c) ==
  /\ pc[c] = "undo"
  /\ Run!Seal
  /\ Goto(c, "report")
  /\ UNCHANGED <<clock, grant, journal, orphan, job, cancelled, answer, faults, started>>

\* _report of a parallel plan reads its journal and verifies the run again.
Reportable(c) == job[c].plan \in Parallel => job[c].plan \in journal /\ ~cancelled[c] /\ RunFree

\* Mutant: a grant seen consumed is reported like one this call dispatched.
AsPerformed == "performed"
NotRepeated == "not-repeated"

Report(c) ==
  /\ pc[c] = "report" /\ Reportable(c)
  /\ Leave(c, "performed")
  /\ UNCHANGED <<clock, grant, journal, run, orphan, faults, started>>

\* A retry with a consumed grant only inspects the run; verify_run reports one
\* whose initialisation was cut short, too.
Retry(c) ==
  /\ pc[c] = "locked" /\ Spent(c) /\ life # "absent" /\ RunFree /\ Reportable(c)
  /\ Leave(c, NotRepeated)
  /\ UNCHANGED <<clock, grant, journal, run, orphan, faults, started>>

\* The conditions under which a _require of the call raises.  A cancellation
\* during the run's Git commands may be noticed or come too late.
Refused(c) ==
  \/ pc[c] = "locked" /\ ~Matches(c)
  \/ pc[c] = "locked" /\ Spent(c) /\ (life = "absent" \/ ~RunFree \/ ~Reportable(c))
  \/ pc[c] = "locked" /\ Matches(c) /\ ~Spent(c) /\ cancelled[c]
  \/ pc[c] = "prepare" /\ (life # "absent" \/ cancelled[c])
  \/ pc[c] = "start" /\ job[c].action = "execute" /\ life # "absent"
  \/ pc[c] = "start" /\ job[c].action # "execute" /\ ~Startable
  \/ pc[c] = "drive" /\ job[c].action # "abort" /\ life \in {"aborting", "aborted"}
  \/ pc[c] \in {"start", "drive", "undo"} /\ cancelled[c]
  \/ pc[c] = "report" /\ ~Reportable(c)

Refuse(c) ==
  /\ Refused(c)
  /\ Leave(c, "error")
  /\ UNCHANGED <<clock, grant, journal, run, orphan, faults, started>>

\* inspect_policy_run: no grant, no store lock, but the run's lock.
Look(c, plan) ==
  /\ life # "absent" /\ RunFree
  /\ plan \in Parallel => plan \in journal
  /\ Enter(c, "look", NoJob)
  /\ UNCHANGED <<clock, grant, journal, run, orphan, faults, started>>

Looked(c) ==
  /\ pc[c] = "look"
  /\ Leave(c, "inspected")
  /\ UNCHANGED <<clock, grant, journal, run, orphan, faults, started>>

-----------------------------------------------------------------------------
(* Time, cancellation and failure.                                         *)

Tick == /\ clock' \in 0..MaxTime
        /\ UNCHANGED <<grant, journal, run, orphan, call, faults, started>>

\* The client cancels, or the tool's timer expires.
Cancel(c) ==
  /\ OwnsStore(c) /\ ~cancelled[c] /\ faults < MaxFaults
  /\ faults' = faults + 1
  /\ cancelled' = [cancelled EXCEPT ![c] = TRUE]
  /\ UNCHANGED <<clock, grant, journal, run, orphan, pc, job, answer, started>>

\* A Git command or a write fails: the call raises, its command is killed.
Fail(c) ==
  /\ pc[c] # "idle" /\ faults < MaxFaults
  /\ faults' = faults + 1
  /\ Leave(c, "error")
  /\ UNCHANGED <<clock, grant, journal, run, orphan, started>>

\* What a process that dies now may leave behind it in the run.
Leavings(c) ==
  CASE OwnsRun(c) /\ pc[c] # "look" -> {"none", "writer"}
    [] pc[c] = "look"               -> {"none", "reader"}
    [] pc[c] = "report" /\ Reportable(c) /\ RunFree -> {"none", "reader"}
    [] pc[c] = "locked" /\ Spent(c) /\ life # "absent" /\ RunFree -> {"none", "reader"}
    [] OTHER                        -> {orphan}

Die(c) ==
  /\ pc[c] # "idle" /\ faults < MaxFaults
  /\ faults' = faults + 1
  /\ orphan' \in Leavings(c)
  /\ Leave(c, "error")
  /\ UNCHANGED <<clock, grant, journal, run, started>>

\* The orphan ends; the last thing a writer does may be a ref update.
OrphanEnds ==
  /\ orphan # "none"
  /\ orphan' = "none"
  /\ \/ UNCHANGED run
     \/ orphan = "writer" /\ (Run!Advance \/ Run!Restore)
  /\ UNCHANGED <<clock, grant, journal, call, faults, started>>

Step(c) ==
  \/ Issued(c) \/ Consume(c) \/ Prepare(c) \/ Start(c) \/ Advance(c) \/ Complete(c)
  \/ GiveUp(c) \/ Restore(c) \/ Seal(c) \/ Report(c) \/ Retry(c) \/ Refuse(c) \/ Looked(c)

Begin(c) ==
  \/ \E g \in Grant, plan \in Plan, action \in Granted, ttl \in Ttl : Issue(c, g, plan, action, ttl)
  \/ \E g \in Grant, plan \in Plan, action \in Granted : Dispatch(c, g, plan, action)
  \/ \E plan \in Plan : Look(c, plan)

Fault(c) == Cancel(c) \/ Fail(c) \/ Die(c)

Next == Tick \/ OrphanEnds \/ \E c \in Caller : Begin(c) \/ Step(c) \/ Fault(c)

Spec == Init /\ [][Next]_vars

-----------------------------------------------------------------------------
(* Properties.                                                             *)

\* No grant starts two dispatches, whatever dies, fails or is retried
\* (_dispatch consumes the record before any effect).
OneDispatch == \A g \in Grant : started[g] <= 1

\* The dispatch that c runs now was granted, for its plan and its action.
Authorised(c, action) ==
  /\ job[c] # NoJob /\ job[c].action = action
  /\ LET r == grant[job[c].grant] IN
       r.state = "consumed" /\ r.plan = job[c].plan /\ r.action = action

EffectGranted ==
  run' # run =>
    \/ orphan = "writer" /\ orphan' = "none"
    \/ \E c \in Caller :
         \/ pc[c] = "start" /\ Authorised(c, "execute") /\ Run!Publish
         \/ /\ pc[c] = "drive"
            /\ Authorised(c, "execute") \/ Authorised(c, "resume")
            /\ Run!Advance \/ Run!Complete
         \/ pc[c] = "drive" /\ Authorised(c, "abort") /\ Run!GiveUp
         \/ pc[c] = "undo" /\ Authorised(c, "abort") /\ (Run!Restore \/ Run!Seal)

\* The run changes only under a consumed grant for that plan and action, but
\* for the last command of a dispatch that died (purpose-bound grants).
EffectsGranted == [][EffectGranted]_vars

\* Nobody reads or drives the run beside its driver, and no orphan is left
\* beside either (the store lock alone would not give this: it dies with its
\* process, and inspections do not take it).
RunExclusive ==
  /\ \A c, d \in Caller : OwnsRun(c) /\ OwnsRun(d) => c = d
  /\ orphan # "none" => \A c \in Caller : ~OwnsRun(c)

\* The store never holds more than MAX_GRANTS records.
Capacity == Cardinality(Records) <= MaxGrants

\* A parallel plan publishes a run only after its journal is durable.
JournalFirst == \A c \in Caller :
  pc[c] \in {"start", "drive"} /\ job[c].action = "execute" /\ job[c].plan \in Parallel
    => job[c].plan \in journal

AnswerTrue(c) ==
  pc[c] # "idle" /\ pc'[c] = "idle" /\ answer' = "performed" =>
    life = IF job[c].action = "abort" THEN "aborted" ELSE "completed"
AllAnswersTrue == \A c \in Caller : AnswerTrue(c)

\* A dispatch answers "performed" only of a run that has reached what was
\* asked; whatever else happened in the meantime.
HonestAnswers == [][AllAnswersTrue]_vars

\* To the operator the store is GrantBook: what a grant is for never changes,
\* its dispatch is the only one in effect and the only thing that moves the
\* run, whatever locks, retries, deaths and orphaned commands do.
InEffect(c) == pc[c] \in {"prepare", "start", "drive", "undo", "report"}
TermsOf(r) ==
  CASE r.state = "issued" -> [plan |-> r.plan, action |-> r.action, spent |-> FALSE]
    [] r.state = "consumed" -> [plan |-> r.plan, action |-> r.action, spent |-> TRUE]
    [] OTHER -> [spent |-> FALSE]
Pages == [g \in Grant |-> TermsOf(grant[g])]
Active == {job[c] : c \in {d \in Caller : InEffect(d)}}
Stray == orphan = "writer"
Told == answer = "performed"
Book == INSTANCE GrantBook WITH
  Action <- Granted, book <- Pages, active <- Active, stray <- Stray, told <- Told
Promise == Book!Spec

-----------------------------------------------------------------------------
(* The inductive invariant behind the properties above.                    *)

StoreExclusive == \A c, d \in Caller : OwnsStore(c) /\ OwnsStore(d) => c = d

\* A grant has started a dispatch exactly when its record says consumed.
Ledger == \A g \in Grant : started[g] = IF grant[g].state = "consumed" THEN 1 ELSE 0

\* What a caller may rely on at each label.
CallInv(c) ==
  /\ OwnsStore(c) => job[c] \in JobType
  /\ pc[c] = "write" => grant[job[c].grant].state = "partial"
  /\ pc[c] \in {"prepare", "start", "drive", "undo", "report"} => Authorised(c, job[c].action)
  /\ pc[c] = "prepare" => job[c].action = "execute" /\ job[c].plan \in Parallel
  /\ OwnsRun(c) => life # "absent"
  /\ pc[c] = "undo" => job[c].action = "abort" /\ life = "aborting"
  /\ pc[c] = "report" =>
       /\ orphan # "writer"
       /\ life = IF job[c].action = "abort" THEN "aborted" ELSE "completed"

IInv ==
  /\ TypeOK
  /\ StoreExclusive
  /\ Ledger
  /\ RunExclusive
  /\ life = "absent" => orphan = "none"
  /\ JournalFirst
  /\ Capacity
  /\ \A c \in Caller : CallInv(c)
=============================================================================
