# A formal model of Agent Braid's runtime

Agent Braid lets coding agents work on one repository in parallel and then
*braids* their patches: it checks which of them commute, prepares them in
isolation, and applies them to a private Git result under an explicit grant of
a local operator. The code that carries this out is small next to the rest of
the repository (`src/agent_braid`, 67 000 lines) and is the part where
processes die, threads race and clients hang up. This directory models that
part in TLA+, and the two places beside it where the same happens (the journal
of the harness and the worker of the forecasts), checks it with TLC on small
instances and proves the safety properties with TLAPS for every size.

## 1. Inventory

| part of the system | state it keeps | operations | what must be true of it |
|---|---|---|---|
| **Private Git runtime** `git_runtime.py` | a run directory: `state.json`, `manifest.json`, `coordinator.lock`, `initializing.git`, `result.git` | `execute_run`, `recover_run` (resume, abort), `verify_run` | one writer; no death strands a run; reports are true; the result is always a prefix of the admitted operations |
| **Owned Git commands** `git_runtime_process.py` | a child process that inherits the ownership descriptor | `run_owned_git` | it is counted as an owner, also as an orphan |
| **Operator grants** `runtime_policy.py` | a store of grant records and preparation journals, `operator.lock` | issue, execute, recover, inspect | a grant is spent once, for its plan and action; the store is bounded; answers are true |
| **MCP server** `mcp_runtime.py` | the session, the registered calls with their cancel events, the output | `receive`, `invoke`, `_finish`, `cancel_all`, `serve` | every request is answered once; a cancelled call is not a success; nothing stays registered; the server ends |
| **Preparation scheduler** `runtime_scheduler.py` | waves, a thread pool, a barrier, observations | `_geometry`, `run_preparations`, `_worker` | waves are independent and agree with the serial rehearsal; failures stop the rest; no worker is left behind, whatever one interruption or failure does |
| **Task coordination register** `tooling_coordination.py` | one snapshot `registry.json`: a record for each task, the history; `registry.lock`; the claims its callers hold | `initialize`, `inspect`, `claim`, `start`, `release`, `interrupt`, `finish`, `block`, `unblock` | work begins once, behind complete dependencies, native work one task at a time, whatever crashes; an admitted operation never fails its own validation; work that began can be settled |
| **Bounded Git process runner** `git_process.py`, and its copy in `git_runtime_process.py` | a budget shared by commands; per command a child, two reader threads with their buffers, a deadline | `begin_command`, `run_git`, `record_output`, `_kill` | budgets are kept whoever reads at once; a result is whole; a call returns |
| **Harness attempt journal** `harness_journal.py` | a directory with one file per record, chained within an attempt; `.lock`; temporary files | `begin_attempt`, `checkpoint`, `finish_attempt`, `reconcile_attempt`, `inspect_attempt`, `run_journaled` | a reservation is dispatched once; outcomes are never invented; the journal stays readable; statuses are true, also of readers without the lock |
| **Forecast leases and workers** `forecast_lease.py`, `forecast_worker.py` | `cpu-worker.lease`, written in place; descriptors of a process; a container of a Docker engine | `acquire`, `release`, `forecast`, `close` | one container at a time; none is left behind by a worker that was closed or a lease that is free |
| Analysis and replay `analysis.py`, `git_replay.py`, `git_partial_order.py` | none (pure) | commutation check, partial order | agrees with the definition |
| everything else | records and reports | | (`PROJECT.json` lists it with the reasons for leaving it out) |

How they interact:

    client --frames--> MCP server --invoke(worker thread)--> runtime_policy
                                                              |  operator.lock
                       operator --issue grant---------------->|
                                                              +--> runtime_scheduler (pool of workers, scratch)
                                                              +--> git_runtime  -- coordinator.lock
                                                                      +--> git_runtime_process: a Git child that
                                                                           inherits the lock and may survive

A tool call carries a cancel event, set by a timer, a cancellation or
`cancel_all`; the policy and every Git command look at it. The grant store has
its own lock, taken for the whole dispatch and *not* inherited by Git commands;
the run directory's lock is. Every Git command, owned or not, runs under a
shared budget with two threads that read its output. The task register stands
apart: processes of different sessions meet in it, and nothing else does; so do
the journal of the harness, in which the runs of fixtures are recorded, and the
lease of the forecast worker. Everything durable but that lease is written by
an atomic replacement followed by an fsync of the directory, so a death falls
between two writes and never inside one; the lease file is overwritten in place.

The hard behaviours, listed line by line in `PROJECT.json` under `hazards`:

- a coordinator dies between any two durable writes, and its Git command goes
  on without it;
- lock files and half-built indexes left by killed commands;
- a ref update and its record that are two writes;
- grants consumed by a dispatch that then dies, retried by its client;
- two locks with different lifetimes, an inspection that takes only one;
- a clock that is set back;
- a callback on whichever of two threads comes last, a signal handler on top
  of the main thread, a pipe that breaks in the middle;
- workers that wait for each other at a barrier while one of them fails, and a
  caller that is interrupted while it waits for them;
- a register that was replaced but not yet synced when the power failed, and a
  write that raised although it had taken effect;
- readers of a command's output that share budgets, are given up after a second
  and have their streams closed, and descendants that keep the pipes open;
- a journal read without its lock while records appear, and renames that a power
  loss takes back;
- a lease whose descriptor number is used again, and an engine that creates a
  container after its client was killed.

## 2. Modules

| module | models | state and actions |
|---|---|---|
| `PrivateRun` | the promise of a run directory, as its user sees it | `life`, `result`; `Publish`, `Advance`, `Complete`, `GiveUp`, `Restore`, `Seal` |
| `GitRuntime` | `git_runtime.py`, `git_runtime_process.py` | the files of the run directory; for each coordinator its place in `_drive`, its locals and its Git child |
| `GrantBook` | the promise of the grant store, for one run | `book`, `active`, `stray`, `told`, with `PrivateRun`; `Issue`, `Spend`, `Effect`, `Perform`, `Lapse`, `StrayEnds` |
| `RuntimePolicy` | `runtime_policy.py`, with `PrivateRun` as the run it governs | grant records, journals, clock; for each caller its place in `_dispatch` and its cancel event |
| `CallService` | the promise of the server to its client | `debt`, `call`, `reply`, `over`; `Ask`, `AnswerAtOnce`, `Admit`, `Withdraw`, `Tell`, `Decide`, `Release`, `Answer`, `Close`, `Wind` |
| `McpRuntime` | `mcp_runtime.py` | session, registered calls, `active_lock`; where the main thread and the worker stand |
| `SerialOrder` | the promise of a parallel preparation | `needs`, `work`, `done`, `outcome`, `trouble`; `Begin`, `End`, `Collect`, `Conclude`, `Disturb`, `Abandon` |
| `RuntimeScheduler` | `runtime_scheduler.py` | the waves; where the calling thread and every worker stand |
| `WorkOrder` | the promise of the task register | `begun`, `running`, `complete`; `Begin`, `Settle`, `End`, `PowerLoss` |
| `ToolingCoordination` | `tooling_coordination.py` | the snapshot a reader finds and those a power loss may leave; for each caller the snapshot it is writing and the claims it knows; the work going on |
| `OutputAccount` | the promise of commands on one budget about their output | `started`, `written`, `kept`, `charged`, `spoiled`, `unjoined`, `answer`; `Start`, `Write`, `Keep`, `Spoil`, `GiveUp`, `Answer` |
| `GitCommand` | `git_process.py`, `run_owned_git` | the budget; per command the child, what it left, the pipes, both readers and the caller |
| `AttemptLog` | the promise of the journal | `log`, `safe`; `Start`, `Mark`, `End`, `Secure`, `Crash` |
| `HarnessJournal` | `harness_journal.py` | the record under each name, the names not yet synced, the lock; for each process its call |
| `LeaseDebt` | the promise of the lease about containers | `tenant`, `says`, `owed`, `retired`; `Take`, `Declare`, `Incur`, `Settle`, `Leave`, `Clear`, `Retire` |
| `ForecastLease` | `forecast_lease.py`, `forecast_worker.py` | the lease file, the descriptor tables, the lock; for each worker its fields and its call; the engine's containers and those it has yet to create |
| `MC...` | small instances for TLC | values of constants, symmetry |
| `...Proofs` | theorems | |

Every component has an abstract specification that they implement, in each the
property `Promise` of a run and a theorem of its proof module:

| component | implements | the mapping |
|---|---|---|
| `GitRuntime` | `PrivateRun` | `life`: the recorded phase of a published run; the ref |
| `RuntimePolicy` | `GrantBook` | `Pages`: what each grant record says; `Active`: the jobs of the calls in effect; `Stray`: the orphan |
| `McpRuntime` | `CallService` | the answers owed, the registered calls, `Reply`: the answer the worker has in hand |
| `RuntimeScheduler` | `SerialOrder` | `Needs`: what an operation depends on or clashes with; `Work`, `Outcome`, and `faults` as its trouble |
| `ToolingCoordination` | `WorkOrder` | `begun`: tasks of which `start` has returned; `complete`: tasks complete in every snapshot that may be left |
| `GitCommand` | `OutputAccount` | `StartedSet`, `Spoiled` (stopped, or too much written), `Unjoined`, `Told`: what kind of answer was given |
| `HarnessJournal` | `AttemptLog` | the records of each attempt in their order, and those a power loss leaves |
| `ForecastLease` | `LeaseDebt` | the holder of the lock, `SaysNow`, `Owed`, `Retired` |

`RuntimePolicy` and `GrantBook` are built on `PrivateRun`: what a dispatch may
rely on is exactly what the runtime was shown to keep. What an orphaned Git
command may still do to the run is part of both: `OrphanEnds` and `StrayEnds`.

### GitRuntime

`N` operations; a commit is named by its checkpoint number and `TreeOf` gives
its tree, so that an empty patch (two checkpoints, one tree) is possible.
`record` is `state.json` (phase and `nextIndex`), `head` the private ref,
`objects` the commits in the object store, `index` the tree in the private
index, `locks` the Git lock files. A coordinator's `pc` names the durable step
it is about to take: `drive` .. `inspected` are the entry of `_drive`,
`_bootstrap` and `_inspect`; `restore`, `reset`, `aborted` the abort; `loop`,
`read`, `mark`, `apply`, `check`, `commit`, `advance`, `note` the body of the
loop. A Git command is started by one action (`Spawn`), takes its lock file
(`TakeLock`), and takes effect and exits in another (`...Exits`); the
coordinator waits at its label. `Die` kills a coordinator and not its child;
`CommandFails` is a failure, a limit, or a kill, which leaves the lock file.
`Owns` counts a surviving child, because it inherits the descriptor
(`pass_fds`). `Refuse` is every `_require` that can fail here; what `_require`s
against tampering check (foreign owners, symbolic links, altered objects) is
left out, since nothing in the model alters files behind the runtime's back.

### RuntimePolicy

A call goes through `locked` (record read), `prepare` (parallel plans),
`start`, `drive`, `undo` (aborts) and `report`, or `write` for an issue and
`look` for an inspection. `Consume` is the durable `consumed` record before any
effect. `Refused` lists the failing `_require`s. `orphan` is the Git command of
a dead process. `started` is a history variable: how many dispatches a grant
has started. All plans are for one run directory: plans for others share only
the store with it.

### McpRuntime

`main` and `worker` say where the two threads stand; `worker` also stands for
the callback, which runs on the worker, or on the main thread if the call ended
before `add_done_callback` (`Attach`). `active` is the registration and the
cancel event of each id. `active_lock` is a variable only where a thread can
be seen holding it: the main thread inside `with self.active_lock` may be
interrupted by a signal there. `output_lock` is in the guards of `Respond` and
`Answer`: it is held over `cancel_all` when a write fails. `owed` and `hungUp`
are history variables. Ids may be used again at any time.

### RuntimeScheduler

An operation is its position in the serial order. `Place` is one turn of the
loop of `_geometry`; `start[k]` is the first operation of k's wave. A tree is
described by who wrote each path last (`Writers`), which makes "the worker
starts from the input the rehearsal saw" a statement about the plan (`Stale`).
`Overlap` relates a directory to the files below it. `Submit`, `Arrive`,
`Open`, `BarrierTimesOut`, `Finish` and `Stop` are the pool, the barrier and
the workers; `Interrupt` is an exception on the calling thread, which leaves
the pool *before* it sets the internal cancel event, as the code does. In
`closing` the thread waits in the pool's `shutdown`, which `ExitStack` calls on
its way out; `Abandon` is an interruption of that wait: the event is set, and
the preparation is over (`abandoned`) with workers that still run and end later.
A first interruption that comes in `closing` when no worker is left has the
effect of one that came just before.

### ToolingCoordination

A call is two or three steps: `Call` takes the lock, reads, checks and computes
the snapshot to write; `Reject` is a validation that fails (`Valid` is
`_validate_snapshot`); `Replace` is the rename and `Sync` the fsync of the
directory, behind which the call returns. A call that is refused by its own
checks, or finds the lock taken, changes nothing and is no action. `disk` holds
every snapshot a power loss may leave: the rename adds one, the sync leaves one.
`WriteFails` raises on either side of the rename. A token is named by the number
of the event that drew it; `claims` are those a caller was given by `claim` or
found by `inspect`, and `Owns` compares them with the record (`_claimed`).
`told` is a history variable: how often `start` has returned for a task. A
caller dies with its claims and not with the work. What the callers owe is in
two guards: work begins behind a `start` that has returned, and a native task
is finished with the receipt that it stopped, as the docstrings demand. Owner
names, the candidate's hash and the texts are left out: with one candidate and
one owner a mismatch is only another refusal. The limit on the snapshot's bytes
is one of the reasons for `WriteFails`: there it is a bounded fault, while in the
code a snapshot that has reached 1 MB is refused until something in it shrinks,
which nothing but the limit on events keeps from happening.

### GitCommand

Bytes are counted in units. A command's caller goes through `poll`, `wait`,
`join`, `close` and `settle`; a reader is `between` two reads, `reading` (it
holds the stream's lock, and has `hand` units), with a `chunk` to account for,
or about to `kill`. `Take`, `Deliver`, `Accept` and `Reject` are one turn of
`drain`; `Accept` is one step because it happens under both locks. `Join` may
give up at any time: a second has passed. `Close` waits for a reader that is
`reading`, as `BufferedReader.close` does. `heir` is some descendant that holds
the pipes: the child may leave one (`Fork`), `Kill` may miss it, and it ends by
itself (`HeirEnds`) or not. `Begin` counts the command in the budget before it
can be refused for the scratch space or fail to start. `late` is the deadline.
`use` is what is asked of the budget: which commands, what they would write, what
may go wrong with them, and what earlier commands have taken of the budget; it is
chosen in `Init`, so that one run checks several uses and a theorem covers all.
`written` and `gaveUp` are history variables. The thread that writes the input,
child usage and the resource limits of `git_exec.py` are left out.

### HarnessJournal

A name is an attempt and a slot: `StartSlot`, the checkpoints, `EndSlot`. `dir`
holds the record published under each name and `unsynced` the names published
since the last fsync, oldest first: a power loss takes back a suffix of them
(`PowerLoss`), which is what journalling file systems do and the weakest the
code could live with. A call goes from `enter` (the lock, without waiting) to
`decide` (`_load`, the call's checks, the budget, the sweep and the temporary
file), `publish` (the rename) and `sync`; a run goes on to its checkpoint, to
`dispatch` and `running` without the lock, and to its end. `Follows` and
`Whole` are the chain that `_load` follows: the hash of the previous record is
its place. `Scan` is `inspect_attempt` without the lock: it finds what was there
when it began and any of what was published since. `Stop` is a kill, a failed
system call or a refusal of `run_fixture`, anywhere. `dispatches` and `ran` are
history variables. Sizes are counted in records, so that `MAX_RECORD_BYTES` is
left out, and so are the bytes of fixtures and artifacts.

### ForecastLease

`record` is what the file says, `torn` when a write was cut in half, by a death
or by a full disk (`_write` does not look at how much `os.write` took); `table` is
the open descriptors of each process, the lowest free number being opened next;
`holder` has the flock. `fd` is the worker's idea of its descriptor: `Mark`
leaves it set when the first write fails, although the descriptor is closed
(`Shut`), as the code does. `Create` is `container create`, whose client may
fail with the container made, refused, or still under way (`pending`,
`EngineCreates`). `Remove`, `Wait` and `ReleaseLease` are `_close_owned` with
its exceptions: one in `Wait` skips the release. `Kill` is the death of a
process, which closes its descriptors and may tear the write it was at.
`Trouble` says which failures an instance has.

## 3. Runs

| run | instance | what it shows |
|---|---|---|
| `git_private` | 2 coordinators, 2 operations, the second with an empty patch, 3 faults, all actions, fairness | `OneWriter`, `Recoverable`, `NeverBlocked`, `HonestReport`, `Promise`: every behaviour is one of `PrivateRun`; `Completes` |
| `policy_dispatch` | 2 callers, 2 grants, a serial and a parallel plan, 2 faults, two clock values, forward and back | `RunExclusive`, `OneDispatch`, `HonestAnswers`, `Promise`: every behaviour is one of `GrantBook` |
| `mcp_calls` | 3 ids, 7 frames, 1 signal, fairness | `NoLeakedCall`, `AllAnswered`, `Promise`: every behaviour is one of `CallService`; `Exits` |
| `mcp_latestart` | 2 ids, 4 frames | `NoLateStart` is **violated** (section 6) |
| `scheduler_waves` | all 512 plans of 3 operations with at most one of 3 paths each, 2 faults (an interruption on top of another included), fairness | `SerialAgreement`, `Promise`: every behaviour is one of `SerialOrder`; `Ends` |
| `tasks_work` | 2 callers, 3 tasks (2 native, the third behind one of these), 6 events, 1 fault, fairness | `Promise`, `NoSelfRefusal`, `StartsLast`, `Settles` |
| `command_limits` | three uses of a budget of 2 commands and 3 units, 2 per command, reads of 2: one command that would write 3 units on two streams, with all troubles; two whose readers race for the last unit; two of which one is refused; fairness | `BudgetsKept`, `Promise`: every behaviour is one of `OutputAccount`; `Returns` |
| `command_lingers` | 1 command, descendants need not end | `Returns` is **violated** (section 6) |
| `journal_records` | 2 processes, 2 attempts, 2 reservations of which one expires, 1 checkpoint each, 3 calls, 2 faults | `OneDispatch`, `NeverUpgraded`, `HonestStatus`, `NoFalseAlarm`, `Promise`: every behaviour is one of `AttemptLog` |
| `journal_seventeenth` | 1 process, 2 attempts where 1 is allowed | `Reconcilable` is **violated** (section 6) |
| `lease_apart` | 3 workers in 3 processes, 4 calls, 1 death, all troubles | `OneContainer`, `ClosedForGood`, `Promise`: every behaviour is one of `LeaseDebt` |
| `lease_together` | 3 workers, two of them in one process, full disks and failing clients, no deaths | `OneContainer` is **violated** (section 6) |

Each passing run checks its module's `TypeOK` too.

Why the bounds suffice. Two coordinators and three faults: one that died with a
child, one that recovers, the failure of the orphan and another death in the
recovery. Two operations: a first and a last step. Two grants: one spent, for a
parallel plan, and one that resumes or aborts what it left. Two clock values:
before and after the expiry. Seven frames: two for the session, a call, its
cancellation, a call with the same id, another call and a ping. Three operations
with three paths, of which two nest: every way to depend and to clash before and
behind a wave's end. Six events: the first; a claim, a start and a finish for a task;
and a claim and a start for the one behind it or for the other native task. The
seventh is refused, which is the full history. Three uses of a budget: what one
command writes is one unit more than a read asks for, than it may keep and than a
pipe holds; two commands have one unit each for a budget that has one left, and
both may have read it before either accounts for it; and two are started where
one may be. Everything that may go wrong with a command goes wrong with one
alone, because commands share nothing but the budget. Two attempts, three calls and
two faults: a run that is killed, its reconciliation by another process or an
inspection of it, and the run that comes next, with a power loss in any of them.
Four calls of three workers: one that fails, one that takes what it left, one
that comes beside it, and a close. What the bounds cannot give, the theorems do:
they hold for every value of the constants.

`MaxEvents` is 4096 in the code, `MAX_CHECKPOINTS` 8, `MAX_ATTEMPTS` 16.
`MaxFaults`, `MaxKills`, `MaxFrames`, `MaxSignals`, `MaxCalls` and `MaxTime`
bound only what the environment does. `CHECK_DEADLOCK FALSE` is said where the
system stops by itself: a server that has ended, a preparation that is over,
calls that have all returned.

Every property of a passing run has a mutant in its module, a definition
commented `Mutant:`, that changes one definition the way a plausible slip in
the code would: `PROJECT.json` pairs them, and TLC finds the property violated
under each.

## 4. Fairness

- `GitRuntime`: weak fairness of each coordinator and each Git command (the
  operating system runs them, and every command has a time limit); strong
  fairness of `Recover` with `resume`, and with `abort` once an abort is
  recorded, because the lock is taken without waiting and a caller that finds
  it busy has to ask again. That somebody asks is an assumption about the
  operator: nothing in the code retries by itself, and nobody has to ask for an
  abort. Faults are not fair, and bounded.
- `RuntimePolicy`: weak fairness of the steps of each call; no fairness of
  whoever begins calls, or of the orphan.
- `McpRuntime`: weak fairness of both threads and of an end of input after the
  pipe broke (a client that is gone closes both ends). That a tool returns is
  justified by the limits of every Git command and loop it runs.
- `RuntimeScheduler`: weak fairness of the calling thread, of each worker, of
  the barrier's opening and its time-out.
- `ToolingCoordination`: weak fairness of the writes of whoever has the lock and
  of the end of each work; strong fairness of somebody's `Inspect` and, for each
  task, of somebody's `Finish`, because the lock is not waited for: a coordinator that keeps looking at the register and reconciles
  what it finds, as the class's docstring says somebody must ("there is no
  automatic reclaim"). Events and faults are bounded, and `Settles` excepts a
  full history, which nothing can be added to: at 4096 events work that is
  going on can no longer be reported, and a native reservation stays for ever.
- `GitCommand`: weak fairness of the caller and of each reader (threads are
  scheduled) and of the deadline (time passes); none of the child, which may
  write, stop or hang. `FairSpec` adds that what a child left behind ends;
  `LingeringSpec` does not, and `Returns` fails there.
- `HarnessJournal` and `ForecastLease` state safety only: nothing in that code
  waits or retries, and who calls next is the operator's affair.

## 5. Proofs

Each proof module shows `Init => IInv`, `IInv /\ [Next]_vars => IInv'` (one
lemma per action or group of actions, cited by name) and derives the
properties. The temporal part of each theorem is its last step, by `PTL`.

| module | theorems | the inductive invariant, and why it is needed |
|---|---|---|
| `GitRuntimeProofs` | `OneWriter`, `TerminalState`, `NeverBlocked`, `Recoverable`, `HonestReport`, the refinement `Promise`, typing | what the files say of each other (`DiskInv`), what a coordinator may rely on at each label (`Holder`), and what a running Git command will find, waited for or not (`ChildInv`). Without the last the orphan's `update-ref` would falsify everything else. |
| `RuntimePolicyProofs` | `OneDispatch`, `RunExclusive`, `Capacity`, `JournalFirst`, `EffectsGranted`, `HonestAnswers`, the refinement `Promise`, typing | the store has one owner, a grant has started a dispatch exactly when its record says so (`Ledger`), and what a call knows at each label (`CallInv`). For the refinement: the store's one owner makes `Active` a set of at most one, and `CallInv` makes its job the one its grant was issued for. |
| `McpRuntimeProofs` | `OneInFlight`, `NoLeakedCall`, `AllAnswered`, the refinement `Promise`, typing | a call in the pool is registered and there is no other (`Pool`), and the answers owed are those of the request the main thread works on, the queued call and the worker's (`Ledger`). For the refinement: `Ledger` says that whoever is answered without a call is owed more than the calls account for (`Spare`); once the server is closed nothing is answered, and every step is `Wind`. |
| `RuntimeSchedulerProofs` | `Independent`, `SerialAgreement`, `DependenciesFirst`, `FailureStops`, `NoStrays`, `Calm`, the refinement `Promise`, typing | the waves are intervals of the order (`Waves`); everything before the running wave was observed, nothing behind it has begun (`Progress`). `Calm` says that nothing fails unless something from outside did, and is inductive beside them: the pool has a thread for each member of a wave, so the barrier is not left waiting for one that cannot start (by cardinality), and no worker finds a stale tree. `NoStrays` needs both: `Progress` lets no preparation return or raise over a worker, and `Calm` counts the faults of one that is abandoned. |
| `GitCommandProofs` | `BudgetsKept`, `HonestResult`, that no child outlives its call (`NoChildLeft`), the refinement `Promise`, typing | where the caller, the child and the streams stand together (`Staged`), what was written is in the pipe, in hand or stored until something is thrown away (`Flow`), and a reader that ended by itself left nothing (`Drained`). The last needs that a stream is closed under a reader only behind the join. For the refinement: an answered call has closed its streams, so nothing more is written to them, and only a call that was started has heirs, readers to give up or a reason to stop (`AllAnswered`, inductive beside the others). |
| `HarnessJournalProofs` | `OneDispatch`, `NeverUpgraded`, `HonestStatus`, `NoFalseAlarm`, that the journal stays readable (`StaysReadable`), the refinement `Promise`, typing | every attempt is a chain (`Sound`), what is about to be published goes on with one (`Ready`), names are lost in the reverse order of their attempt (`InOrder`), and a run owns an attempt that no power loss takes back (`Owned`, `Spent`) |
| `ForecastLeaseProofs` | `OneContainer`, `ClosedForGood`, the refinement `Promise`, typing | an open descriptor is open under its worker's number (`Descriptors`), a container that may exist makes its worker the only one with a claim, and the file says so (`Claimed`), and what a worker believes of its container is true (`Known`). For the refinement: `Claimed` makes the owner of a container the tenant, or leaves none; `Finished` keeps a closed worker from either. |
| `ToolingCoordinationProofs` | `NoSelfRefusal`, `StartsLast`, `StartsOnce`, the refinement `Promise`, typing | every snapshot that may be left is valid and knows of the work that began and of the native work that goes on (`Files`), and so does the one that is being written (`Writes`). `StartsOnce` alone is not inductive: it needs that no older snapshot can say `claimed` again. |

The assumptions are the named `ASSUME`s of the modules: positive or natural
sizes; in `RuntimePolicy` finite sets of grants and plans; in
`RuntimeScheduler` that plans respect their order (`_request` admits no other)
and that a path overlaps itself; in `ToolingCoordination` that dependencies and
native tasks are tasks (`InventoryAssumption`); in `HarnessJournal` that an
outcome is no refusal (`OutcomeAssumption`). TLC evaluates them in every run.

Some theorems have a hypothesis, stated in their `ASSUME`. `StaysReadable` and
`AlarmsAreRaces` need `Roomy`: no more attempts than `MAX_ATTEMPTS` and budgets
for all their records; without it they are false, as `journal_seventeenth`
shows. In `ForecastLeaseProofs` all but `Typing` need `Sheltered`: no two workers
share a process, or no write of the lease fails; `lease_together` shows
`OneContainer` false without it. That the checkpoints of a chain are the first ones is an
induction over its slots; it is done by the least slot that is missing
(`Filled`), with the library's theorem on well-founded orders.

Proved and not in a run: `TerminalState`, `Capacity`, `JournalFirst`,
`EffectsGranted`, `OneInFlight`, `Independent`, `DependenciesFirst`,
`FailureStops`, `NoStrays`, `Calm`, `HonestResult`, `StartsOnce`, `Readable`, `Reaped`.

Only model-checked: the liveness properties (`Completes`, `Exits`, `Ends`,
`Settles`, `Returns`), which need fairness and `ENABLED`, beyond the prover; and
the four properties that fail, of which TLC shows a behaviour.

## 6. What the model found

`NoLateStart` states `specs/021-m4-alpha-runtime/g1-contract.md`, line 42: "No
post-disconnect durable phase starts." It is violated. The worker's answer
breaks the pipe and its `cancel_all` sets the events of the calls registered at
that moment; the main thread, which had already read a `tools/call` frame,
registers it afterwards (`receive` does not look at `self.closed` there), with
a fresh event, and the pool runs its tool. The `cancel_all` of the `finally`
clause stops it, but a tool that has passed its look at the event by then has
started a phase.

`Reconcilable` states what `harness_journal.py`, lines 11 and 12, says of an
attempt without a terminal record: it is reconciled. `begin_attempt` does not
count the attempts before it publishes a start, and `_load` refuses a journal
with more than `MAX_ATTEMPTS`. The call that begins one more succeeds; after it
nothing can be read, reconciled or begun, and nothing removes a record. The
code, called with sixteen ended attempts and a seventeenth, does the same.

`Returns` without `HeirEnds` states the "end-to-end limits" of `run_git`'s
docstring (`git_process.py`, line 190). The limits end with the child: behind
the joins of one second `stream.close()` waits for the lock that a reader holds
inside `read`, and that read ends when the last process that holds the pipe
closes it. `_kill` reaches the child's process group, and nothing when the child
has ended. A descendant that sleeps six seconds makes a command with a limit of
two return after six.

`OneContainer` with two workers in one process states the first line of
`forecast_lease.py`. `acquire` sets `self.fd` before its first write; when that
fails, the descriptor is closed and the number stays. The release of the failed
worker then acts on whatever the process has opened under that number: the lease
of another worker is marked clean, unlocked and closed while its container runs.

Not a finding, since no document speaks of it, but worth knowing: `active_lock`
is not reentrant and the signal handler takes it on the main thread. With a
signal inside `with self.active_lock` the handler waits for the lock its own
thread holds; `Exits` is therefore checked without signals.

Likewise `Abandon`: a `KeyboardInterrupt` that reaches the calling thread inside
the pool's `shutdown`, when a failure or another one has brought it there, ends
the wait, and the temporary directory is removed while workers run Git in it.
They have been told to stop and nothing they make is used, so `SerialOrder` and
`NoStrays` allow exactly this end and no other over running work.

## 7. Not modelled

- Tampering: files altered, replaced or linked by someone else, and the checks
  against it. The model's processes are the program's own.
- The insides of admission (`prepare_run`, `prepare_policy_run`, the rehearsal):
  pure computations whose results are constants of the modules.
- In `GitCommand` the thread that feeds the input, the sampling of child usage,
  and what limits the child itself (`git_exec.py`).
- In `HarnessJournal` the sizes in bytes, the checks of arguments and bindings,
  file systems that lose renames out of order, reservations that are not yet
  valid (`reservedAt`), and `begin_attempt` and `finish_attempt` as calls of
  their own: they are the first and the last steps of `run_journaled`.
- In `ForecastLease` the protocol with the model inside the container
  (`forecast_worker_entry.py`), the checks of the container's limits, power
  losses, the temporary Docker configuration, and descriptors of the process
  that are no lease.
- The phases of a tool behind its first look at the cancel event: the worker looks
  at it several times, `McpRuntime` once.
- A write that blocks because the client does not read, and which id an error
  answer carries: a duplicate's names none, and counts in `McpRuntime` as the
  answer to the frame it was given for.
- `verify_preparations` and `select_ready_rank_hint`.
- The components that `PROJECT.json` lists as not modelled, with the reasons.

## 8. What remains

The mapped definitions cover a small share of the repository's lines, because
most of these are not state machines: validation of records, reports, probes of
hosts, numerical experiments. What would be modelled next:

1. `verify_preparations` and the rank hint; the commutation analysis and the
   partial order: pure operators against a reference definition.
2. A composition of `McpRuntime` with `RuntimePolicy`: a tool call as a
   dispatch, so that a retry after a disconnect meets the grant it consumed.
3. The supervisor and the sessions of the tooling, and the quota of the harness:
   stores with a lock and an atomic replacement, as the register is.
4. Proofs of liveness, when a prover of `ENABLED` and fairness is at hand.
