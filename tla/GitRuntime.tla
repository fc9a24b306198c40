----------------------------- MODULE GitRuntime -----------------------------
(***************************************************************************)
(* The authorised serial Git runtime, agent_braid/git_runtime.py: the      *)
(* files of one run directory, the coordinators that execute, recover and  *)
(* verify it (one call of execute_run, recover_run or verify_run each),    *)
(* and the Git command each of them has started.  A coordinator may die    *)
(* between any two durable writes and its Git command may outlive it.      *)
(*                                                                         *)
(* Commits are named by their checkpoint number: 0 is the base revision,   *)
(* i the commit of manifest step i, and TreeOf[i] is the tree it holds.    *)
(***************************************************************************)
EXTENDS Naturals, FiniteSets

CONSTANTS Coordinator,   \* processes that may call the runtime
          N,             \* operations in the manifest
          TreeOf,        \* checkpoint number -> its tree
          Actions,       \* recovery actions that callers ask for
          MaxFaults      \* bound on deaths and failed commands

ASSUME NAssumption == N \in Nat \ {0}
ASSUME TreeAssumption == TreeOf \in [0..N -> Nat]
ASSUME ActionsAssumption == Actions \subseteq {"resume", "abort", "verify"}
ASSUME FaultsAssumption == MaxFaults \in Nat

VARIABLES
  published,  \* the run directory exists under its destination name
  record,     \* state.json: the phase and the next index
  stage,      \* initializing.git: "none", "scratch" or "sealed"
  repo,       \* result.git exists
  head,       \* the checkpoint refs/heads/result names
  objects,    \* the step commits the private object store holds
  index,      \* the tree in the private index
  locks,      \* Git lock files present in result.git
  pc,         \* where each coordinator stands
  act,        \* what its caller asked for
  pos,        \* its loop variable i
  at,         \* its local head
  child,      \* the Git command it started, which may survive it
  reply,      \* the last report it returned
  faults      \* deaths and failures so far

disk == <<published, record, stage, repo, head, objects, index>>
local == <<act, pos, at, reply>>
vars == <<disk, locks, local, pc, child, faults>>

Phases == {"initializing", "ready", "applying", "completed", "aborting", "aborted"}
State(phase, i) == [phase |-> phase, next |-> i]

Commands == {"init", "fsck", "read-tree", "apply", "commit-tree", "update-ref"}
Cmd(name, to, from) == [name |-> name, to |-> to, from |-> from, locked |-> FALSE]
NoCmd == Cmd("none", 0, 0)
CommandType == [name : Commands \cup {"none"}, to : 0..N, from : 0..N, locked : BOOLEAN]

Report(status, commit, ops) == [status |-> status, commit |-> commit, ops |-> ops]
NoReport == Report("none", 0, 0)
ReportType == [status : {"none", "completed", "aborted", "interrupted"},
               commit : 0..N, ops : 0..N]

\* The lock file a command creates and renames over what it rewrites.
LockOf(name) == CASE name \in {"read-tree", "apply"} -> {"index"}
                  [] name = "update-ref"             -> {"ref"}
                  [] OTHER                           -> {}

Labels == {"idle", "publish", "drive", "bootstrap", "init", "rename", "seal", "inspect",
           "fsck", "inspected", "restore", "reset", "aborted", "loop", "read", "mark",
           "apply", "check", "commit", "advance", "note"}

TypeOK ==
  /\ published \in BOOLEAN
  /\ record \in [phase : Phases, next : 0..N]
  /\ stage \in {"none", "scratch", "sealed"}
  /\ repo \in BOOLEAN
  /\ head \in 0..N
  /\ objects \subseteq 1..N
  /\ index \in Nat
  /\ locks \subseteq {"index", "ref"}
  /\ pc \in [Coordinator -> Labels]
  /\ act \in [Coordinator -> {"execute", "resume", "abort", "verify"}]
  /\ pos \in [Coordinator -> 0..N]
  /\ at \in [Coordinator -> 0..N]
  /\ child \in [Coordinator -> CommandType]
  /\ reply \in [Coordinator -> ReportType]
  /\ faults \in 0..MaxFaults

Init ==
  /\ published = FALSE
  /\ record = State("initializing", 0)
  /\ stage = "none"
  /\ repo = FALSE
  /\ head = 0
  /\ objects = {}
  /\ index = TreeOf[0]
  /\ locks = {}
  /\ pc = [c \in Coordinator |-> "idle"]
  /\ act = [c \in Coordinator |-> "execute"]
  /\ pos = [c \in Coordinator |-> 0]
  /\ at = [c \in Coordinator |-> 0]
  /\ child = [c \in Coordinator |-> NoCmd]
  /\ reply = [c \in Coordinator |-> NoReport]
  /\ faults = 0

-----------------------------------------------------------------------------
(* The coordinator lock.  The descriptor that holds the flock is open in   *)
(* the coordinator and, through pass_fds, in the Git command it started.   *)

HasChild(c) == child[c] # NoCmd
Owns(c) == pc[c] \notin {"idle", "publish"} \/ HasChild(c)
\* Mutant: the descriptor is not passed to the Git command.
NobodyAlive == \A c \in Coordinator : pc[c] \in {"idle", "publish"}
LockFree == \A c \in Coordinator : ~Owns(c)

(* What _inspect requires of state.json and of the private ref.            *)

WellFormed(r) ==
  /\ r.phase = "initializing" => r.next = 0
  /\ r.phase \in {"applying", "ready"} => r.next < N
  /\ r.phase = "completed" => r.next = N
  /\ r.phase = "aborted" => r.next = 0

\* Mutant: only the predecessor of a pending transition is accepted.
AdmittedBeforeOnly(r, h) == WellFormed(r) /\ h = r.next
Admitted(r, h) ==
  /\ WellFormed(r)
  /\ \/ h = r.next
     \/ r.phase = "applying" /\ h = r.next + 1
     \/ r.phase = "aborting" /\ h = 0

\* Mutant: the pending transition is not reconciled with the ref.
PositionFromRecord(r, h) == r.next
\* The pending transition of the record is reconciled with the ref.
Position(r, h) == IF r.phase = "applying" /\ h = r.next + 1 THEN h ELSE r.next

\* How many steps _inspect recomputes, and _report lists as completed.
Committed(r, h) == IF r.phase \in {"aborting", "aborted"} /\ h = 0 THEN 0 ELSE Position(r, h)

ChainHolds(r, h) == 1..Committed(r, h) \subseteq objects

Status(r) == IF r.phase \in {"completed", "aborted"} THEN r.phase ELSE "interrupted"

-----------------------------------------------------------------------------
(* Steps of a coordinator.                                                 *)

Goto(c, label) == pc' = [pc EXCEPT ![c] = label]
Start(c, name, to, from) == child' = [child EXCEPT ![c] = Cmd(name, to, from)]
At(c, label) == pc[c] = label /\ ~HasChild(c)

Leave(c) == Goto(c, "idle")
Save(phase, i) == record' = State(phase, i)
Answer(c, report) == reply' = [reply EXCEPT ![c] = report]

\* _git: start a Git command and wait for it at `label'.
Spawn(c, label, name, to, from) ==
  /\ At(c, label)
  /\ child' = [child EXCEPT ![c] = Cmd(name, to, from)]

\* execute_run: the manifest is admitted and a sealed directory is staged,
\* under its own lock, beside the destination.
Execute(c) ==
  /\ At(c, "idle")
  /\ Goto(c, "publish")
  /\ act' = [act EXCEPT ![c] = "execute"]
  /\ Answer(c, NoReport)
  /\ UNCHANGED <<disk, locks, pos, at, child, faults>>

\* _publish_directory: an exclusive rename, already locked by its publisher.
Publish(c) ==
  /\ At(c, "publish") /\ ~published
  /\ published' = TRUE
  /\ Save("initializing", 0)
  /\ Goto(c, "drive")
  /\ UNCHANGED <<stage, repo, head, objects, index, locks, local, child, faults>>

\* recover_run and verify_run: the lock is taken at once or the call refuses.
Recover(c, action) ==
  /\ At(c, "idle") /\ published /\ LockFree
  /\ Goto(c, "drive")
  /\ act' = [act EXCEPT ![c] = action]
  /\ Answer(c, NoReport)
  /\ UNCHANGED <<disk, locks, pos, at, child, faults>>

\* The entry of _drive, and of verify_run once it holds the lock.
Drive(c) ==
  /\ At(c, "drive")
  /\ IF act[c] # "verify" \/ record.phase # "initializing" \/ repo
       THEN /\ Goto(c, IF act[c] # "verify" /\ record.phase = "initializing"
                         THEN "bootstrap" ELSE "inspect")
            /\ UNCHANGED reply
       ELSE /\ Leave(c)
            /\ Answer(c, Report("interrupted", 0, 0))
  /\ UNCHANGED <<disk, locks, act, pos, at, child, faults>>

\* _bootstrap: unpublished initialisation scratch is discarded.
Discard(c) ==
  /\ At(c, "bootstrap")
  /\ IF repo THEN /\ Goto(c, "seal") /\ UNCHANGED stage
             ELSE /\ Goto(c, "init") /\ stage' = "none"
  /\ UNCHANGED <<published, record, repo, head, objects, index, locks, local, child, faults>>

\* _init and the first update-ref, in the unpublished copy.
Initialize(c) ==
  /\ Spawn(c, "init", "init", 0, 0)
  /\ stage' = "scratch"
  /\ UNCHANGED <<published, record, repo, head, objects, index, locks, local, pc, faults>>

Rename(c) ==
  /\ At(c, "rename")
  /\ repo' = TRUE
  /\ stage' = "none"
  /\ head' = 0
  /\ index' = TreeOf[0]
  /\ Goto(c, "seal")
  /\ UNCHANGED <<published, record, objects, locks, local, child, faults>>

Seal(c) ==
  /\ At(c, "seal") /\ head = 0
  /\ Save("ready", 0)
  /\ Goto(c, "inspect")
  /\ UNCHANGED <<published, stage, repo, head, objects, index, locks, local, child, faults>>

\* Mutant: abandoned lock files stay.
LocksKept(c) == locks
\* A recovering coordinator removes the lock files a killed Git command left.
LocksAfterInspect(c) == IF act[c] = "verify" THEN locks ELSE {}

\* _inspect up to fsck: record and ref must agree before anything is removed.
Inspect(c) ==
  /\ Spawn(c, "inspect", "fsck", 0, 0)
  /\ repo /\ Admitted(record, head)
  /\ at' = [at EXCEPT ![c] = head]
  /\ pos' = [pos EXCEPT ![c] = Position(record, head)]
  /\ locks' = LocksAfterInspect(c)
  /\ Goto(c, "fsck")
  /\ UNCHANGED <<disk, act, reply, faults>>

\* verify_run returns what it has recomputed.
VerifyReport(c) ==
  /\ At(c, "inspected") /\ ChainHolds(record, at[c]) /\ act[c] = "verify"
  /\ Answer(c, Report(Status(record), at[c], Committed(record, at[c])))
  /\ Leave(c)
  /\ UNCHANGED <<disk, locks, act, pos, at, child, faults>>

\* Mutant: the phase is not looked at before resuming.
ResumeAnything(c) ==
  /\ At(c, "inspected") /\ ChainHolds(record, at[c])
  /\ act[c] \in {"execute", "resume"}
  /\ Goto(c, "loop")
  /\ UNCHANGED <<disk, locks, local, child, faults>>

Resume(c) ==
  /\ At(c, "inspected") /\ ChainHolds(record, at[c])
  /\ act[c] \in {"execute", "resume"}
  /\ record.phase \notin {"aborting", "aborted"}
  /\ Goto(c, "loop")
  /\ UNCHANGED <<disk, locks, local, child, faults>>

\* The write-ahead record of an abort.
Abort(c) ==
  /\ At(c, "inspected") /\ ChainHolds(record, at[c]) /\ act[c] = "abort"
  /\ Save("aborting", pos[c])
  /\ Goto(c, "restore")
  /\ UNCHANGED <<published, stage, repo, head, objects, index, locks, local, child, faults>>

RestoreRef(c) ==
  /\ Spawn(c, "restore", "update-ref", 0, at[c])
  /\ UNCHANGED <<disk, locks, local, pc, faults>>

ResetIndex(c) ==
  /\ Spawn(c, "reset", "read-tree", 0, 0)
  /\ UNCHANGED <<disk, locks, local, pc, faults>>

Aborted(c) ==
  /\ At(c, "aborted")
  /\ Save("aborted", 0)
  /\ Answer(c, Report("aborted", 0, 0))
  /\ Leave(c)
  /\ UNCHANGED <<published, stage, repo, head, objects, index, locks, act, pos, at, child, faults>>

\* The head of the loop over the remaining steps.
ReadTree(c) ==
  /\ Spawn(c, "loop", "read-tree", at[c], 0) /\ pos[c] < N
  /\ Goto(c, "read")
  /\ UNCHANGED <<disk, locks, local, faults>>

\* The write-ahead record of step i; an empty patch is not applied.
Mark(c) ==
  /\ At(c, "mark")
  /\ Save("applying", pos[c])
  /\ Goto(c, IF TreeOf[pos[c] + 1] = TreeOf[pos[c]] THEN "check" ELSE "apply")
  /\ UNCHANGED <<published, stage, repo, head, objects, index, locks, local, child, faults>>

Apply(c) ==
  /\ Spawn(c, "apply", "apply", pos[c] + 1, 0)
  /\ UNCHANGED <<disk, locks, local, pc, faults>>

\* write-tree, the effects check and commit-tree, which must give step i's IDs.
Matches(c) == index = TreeOf[pos[c] + 1] /\ at[c] = pos[c]
CommitTree(c) ==
  /\ Spawn(c, "check", "commit-tree", pos[c] + 1, 0) /\ Matches(c)
  /\ Goto(c, "commit")
  /\ UNCHANGED <<disk, locks, local, faults>>

Advance(c) ==
  /\ Spawn(c, "advance", "update-ref", pos[c] + 1, at[c])
  /\ UNCHANGED <<disk, locks, local, pc, faults>>

\* Mutant: the index is advanced twice.
TwiceNext(c) == pos[c] + 2
NextIndex(c) == pos[c] + 1

Note(c) ==
  /\ At(c, "note")
  /\ Save(IF NextIndex(c) = N THEN "completed" ELSE "ready", NextIndex(c))
  /\ at' = [at EXCEPT ![c] = pos[c] + 1]
  /\ pos' = [pos EXCEPT ![c] = NextIndex(c)]
  /\ Goto(c, "loop")
  /\ UNCHANGED <<published, stage, repo, head, objects, index, locks, act, reply, child, faults>>

\* Past the loop: a death after the last ref update is reconciled here too.
Finish(c) ==
  /\ At(c, "loop") /\ pos[c] = N
  /\ Save("completed", N)
  /\ Answer(c, Report("completed", at[c], N))
  /\ Leave(c)
  /\ UNCHANGED <<published, stage, repo, head, objects, index, locks, act, pos, at, child, faults>>

\* The conditions under which a _require of the code raises.
Refused(c) ==
  \/ pc[c] = "publish" /\ published
  \/ pc[c] = "seal" /\ head # 0
  \/ pc[c] = "inspect" /\ ~(repo /\ Admitted(record, head))
  \/ pc[c] = "inspected" /\ ~ChainHolds(record, at[c])
  \/ /\ pc[c] = "inspected" /\ act[c] \in {"execute", "resume"}
     /\ record.phase \in {"aborting", "aborted"}
  \/ pc[c] = "check" /\ ~Matches(c)

Refuse(c) ==
  /\ ~HasChild(c) /\ Refused(c)
  /\ Leave(c)
  /\ UNCHANGED <<disk, locks, local, child, faults>>

-----------------------------------------------------------------------------
(* Steps of the Git command a coordinator started.                         *)

\* It takes its lock file.
TakeLock(c) ==
  /\ LockOf(child[c].name) # {} /\ ~child[c].locked
  /\ LockOf(child[c].name) \cap locks = {}
  /\ locks' = locks \cup LockOf(child[c].name)
  /\ child' = [child EXCEPT ![c].locked = TRUE]
  /\ UNCHANGED <<disk, local, pc, faults>>

After(label) ==
  CASE label = "init"    -> "rename"
    [] label = "fsck"    -> "inspected"
    [] label = "restore" -> "reset"
    [] label = "reset"   -> "aborted"
    [] label = "read"    -> "mark"
    [] label = "apply"   -> "check"
    [] label = "commit"  -> "advance"
    [] label = "advance" -> "note"

\* The command `name' does its work and exits; a living coordinator goes on.
Exits(c, name) ==
  /\ child[c].name = name
  /\ LockOf(name) # {} => child[c].locked
  /\ child' = [child EXCEPT ![c] = NoCmd]
  /\ locks' = locks \ LockOf(name)
  /\ pc' = IF pc[c] = "idle" THEN pc ELSE [pc EXCEPT ![c] = After(pc[c])]
  /\ UNCHANGED <<published, record, repo, local, faults>>

InitExits(c) == Exits(c, "init") /\ stage' = "sealed" /\ UNCHANGED <<head, objects, index>>

FsckExits(c) == Exits(c, "fsck") /\ UNCHANGED <<stage, head, objects, index>>

ReadTreeExits(c) ==
  /\ Exits(c, "read-tree")
  /\ index' = TreeOf[child[c].to]
  /\ UNCHANGED <<stage, head, objects>>

\* A patch applies to the tree it was made for, and to no other.
ApplyExits(c) ==
  /\ Exits(c, "apply") /\ index = TreeOf[child[c].to - 1]
  /\ index' = TreeOf[child[c].to]
  /\ UNCHANGED <<stage, head, objects>>

CommitTreeExits(c) ==
  /\ Exits(c, "commit-tree")
  /\ objects' = objects \cup {child[c].to}
  /\ UNCHANGED <<stage, head, index>>

\* A compare-and-swap of refs/heads/result.
UpdateRefExits(c) ==
  /\ Exits(c, "update-ref") /\ head = child[c].from
  /\ head' = child[c].to
  /\ UNCHANGED <<stage, objects, index>>

\* A command that cannot succeed: its lock file is there already, its patch
\* does not apply, or the ref is not the value it expects.
Blocked(c) ==
  \/ ~child[c].locked /\ LockOf(child[c].name) \cap locks # {}
  \/ child[c].name = "apply" /\ index # TreeOf[child[c].to - 1]
  \/ child[c].name = "update-ref" /\ head # child[c].from

\* A command fails by itself, or is killed: on a timeout, a cancellation or
\* an exceeded limit by its coordinator, which then raises, or as an orphan.
\* A killed command leaves its lock file; one that fails removes it.
CommandFails(c) ==
  /\ HasChild(c)
  /\ ~Blocked(c) => faults < MaxFaults
  /\ faults' = IF Blocked(c) THEN faults ELSE faults + 1
  /\ child' = [child EXCEPT ![c] = NoCmd]
  /\ locks' = IF Blocked(c) /\ child[c].locked THEN locks \ LockOf(child[c].name) ELSE locks
  /\ Leave(c)
  /\ UNCHANGED <<disk, local>>

\* A coordinator dies, is interrupted, or raises; its command goes on.
Die(c) ==
  /\ pc[c] # "idle" /\ faults < MaxFaults
  /\ faults' = faults + 1
  /\ Leave(c)
  /\ UNCHANGED <<disk, locks, local, child>>

-----------------------------------------------------------------------------
Coordinate(c) ==
  \/ Publish(c) \/ Drive(c) \/ Discard(c) \/ Initialize(c) \/ Rename(c) \/ Seal(c)
  \/ Inspect(c) \/ VerifyReport(c) \/ Resume(c) \/ Abort(c) \/ RestoreRef(c)
  \/ ResetIndex(c) \/ Aborted(c) \/ ReadTree(c) \/ Mark(c) \/ Apply(c)
  \/ CommitTree(c) \/ Advance(c) \/ Note(c) \/ Finish(c) \/ Refuse(c)

Git(c) ==
  \/ TakeLock(c) \/ InitExits(c) \/ FsckExits(c) \/ ReadTreeExits(c)
  \/ ApplyExits(c) \/ CommitTreeExits(c) \/ UpdateRefExits(c)

Fault(c) == CommandFails(c) \/ Die(c)

Next == \E c \in Coordinator :
  \/ Execute(c)
  \/ \E action \in Actions : Recover(c, action)
  \/ Coordinate(c) \/ Git(c) \/ Fault(c)

Spec == Init /\ [][Next]_vars

\* The operating system runs every process, a Git command ends, and whoever
\* authorised the run, or its abort, asks again until a recovery is accepted.
Fairness == \A c \in Coordinator :
  /\ WF_vars(Coordinate(c)) /\ WF_vars(Git(c))
  /\ SF_vars(Recover(c, "resume"))
  /\ SF_vars(record.phase = "aborting" /\ Recover(c, "abort"))

FairSpec == Spec /\ Fairness

-----------------------------------------------------------------------------
(* Properties.                                                             *)

\* One process at a time may touch the run directory, counting the Git
\* command that outlives a dead coordinator (_lock, pass_fds).
OneWriter == \A c, d \in Coordinator : Owns(c) /\ Owns(d) => c = d

\* Wherever earlier coordinators died, whoever holds the lock is refused only
\* because the run was given up, or because the destination is taken: no
\* crash strands a run (_inspect, _bootstrap, _drive).
Recoverable == \A c \in Coordinator :
  ~HasChild(c) /\ Refused(c) =>
    \/ pc[c] = "publish"
    \/ pc[c] = "inspected" /\ record.phase \in {"aborting", "aborted"}

\* No Git command trips over what an earlier death left: a lock file, a
\* half-built index, a ref already moved (_clear_owned_git_locks, read-tree).
NeverBlocked == \A c \in Coordinator : ~Blocked(c)

\* A terminal record is the truth about the ref and the index, and leaves no
\* lock file behind.
TerminalState ==
  /\ record.phase = "completed" => head = N /\ index = TreeOf[N] /\ locks = {}
  /\ record.phase = "aborted" => head = 0 /\ index = TreeOf[0] /\ locks = {}

ReportsTruly(c) == reply'[c] \notin {reply[c], NoReport} =>
  /\ reply'[c].commit = head' /\ reply'[c].ops = head'
  /\ reply'[c].status = Status(record')
AllReportTruly == \A c \in Coordinator : ReportsTruly(c)

\* A report names the commit the ref holds when it is returned, lists exactly
\* the operations that commit contains, and says "completed" or "aborted"
\* only of a run whose record says so (_report).
HonestReport == [][AllReportTruly]_vars

\* The run directory keeps the promise of PrivateRun.
life == CASE ~published -> "absent"
          [] published /\ record.phase \in {"completed", "aborting", "aborted"} -> record.phase
          [] OTHER -> "open"
Run == INSTANCE PrivateRun WITH life <- life, result <- head
Promise == Run!Spec

\* Whatever dies, a published run completes, unless its abort is recorded: then
\* whoever recovers the run finishes that.
Completes == published ~> record.phase \in {"completed", "aborted"}

-----------------------------------------------------------------------------
(* The inductive invariant behind the properties above.                    *)

\* What the files of the run directory say of each other, whoever died when.
DiskInv ==
  /\ Admitted(record, head)
  /\ record.phase = "initializing" => head = 0
  /\ record.phase # "initializing" => repo
  /\ ~published => record.phase = "initializing" /\ ~repo /\ LockFree
  /\ ~repo => locks = {}
  /\ 1..head \subseteq objects
  /\ record.phase = "applying" /\ head = record.next + 1 => index = TreeOf[head]
  /\ TerminalState

\* What a living coordinator that holds the lock may rely on at each label.
InBootstrap(c) ==
  /\ pc[c] \in {"bootstrap", "init", "rename", "seal"} =>
        record.phase = "initializing" /\ act[c] # "verify"
  /\ pc[c] \in {"init", "rename"} => ~repo
  /\ pc[c] \in {"seal", "inspect", "fsck", "inspected"} => repo
  /\ pc[c] \in {"inspect", "fsck", "inspected"} /\ act[c] # "verify" =>
        record.phase # "initializing"

InInspect(c) ==
  pc[c] \in {"fsck", "inspected"} =>
    /\ at[c] = head /\ pos[c] = Position(record, head)
    /\ act[c] # "verify" => locks = {}

InAbort(c) ==
  /\ pc[c] \in {"restore", "reset", "aborted"} => record.phase = "aborting"
  /\ pc[c] = "restore" => at[c] = head
  /\ pc[c] \in {"reset", "aborted"} => head = 0
  /\ pc[c] = "aborted" => index = TreeOf[0]

InLoop(c) ==
  /\ pc[c] \in {"loop", "read", "mark"} =>
       /\ record.phase \in {"ready", "applying", "completed"}
       /\ at[c] = head /\ pos[c] = head
  /\ pc[c] \in {"read", "mark"} => pos[c] < N
  /\ pc[c] = "mark" => index = TreeOf[head]
  /\ pc[c] \in {"apply", "check", "commit", "advance"} =>
       /\ record = State("applying", head) /\ at[c] = head /\ pos[c] = head
       /\ index = TreeOf[IF pc[c] = "apply" THEN head ELSE head + 1]
  /\ pc[c] = "advance" => head + 1 \in objects
  /\ pc[c] = "note" => record = State("applying", pos[c]) /\ head = pos[c] + 1

Writing == {"restore", "reset", "aborted", "loop", "read", "mark", "apply", "check",
            "commit", "advance", "note"}

HoldsLocks(c) ==
  pc[c] \in Writing => locks = IF child[c].locked THEN LockOf(child[c].name) ELSE {}

Holder(c) ==
  pc[c] \notin {"idle", "publish"} =>
    published /\ InBootstrap(c) /\ InInspect(c) /\ InAbort(c) /\ InLoop(c) /\ HoldsLocks(c)

\* Which command a coordinator waits for at a label.
WaitsFor(label) ==
  CASE label = "init"                 -> "init"
    [] label = "fsck"                 -> "fsck"
    [] label \in {"restore", "advance"} -> "update-ref"
    [] label \in {"reset", "read"}    -> "read-tree"
    [] label = "apply"                -> "apply"
    [] label = "commit"               -> "commit-tree"
    [] OTHER                          -> "nothing"

\* What a running Git command will find, also when nobody waits for it.
ChildInv(c) ==
  HasChild(c) =>
    /\ child[c].name # "none" /\ published
    /\ pc[c] # "idle" => child[c].name = WaitsFor(pc[c])
    /\ child[c].locked => LockOf(child[c].name) # {}
    /\ child[c].name = "init" => ~repo /\ record.phase = "initializing"
    /\ child[c].name # "init" => repo
    /\ child[c].name \in {"read-tree", "apply", "update-ref"} =>
         /\ locks = IF child[c].locked THEN LockOf(child[c].name) ELSE {}
         /\ record.phase \in {"ready", "applying", "aborting"}
    /\ child[c].name = "read-tree" => child[c].to = head
    /\ child[c].name \in {"apply", "commit-tree"} =>
         record = State("applying", head) /\ child[c].to = head + 1
    /\ child[c].name = "apply" => index = TreeOf[head]
    /\ child[c].name = "commit-tree" => index = TreeOf[head + 1]
    /\ child[c].name = "update-ref" =>
         /\ child[c].from = head
         /\ \/ /\ record = State("applying", head) /\ child[c].to = head + 1
               /\ index = TreeOf[head + 1] /\ head + 1 \in objects
               /\ pc[c] \in {"idle", "advance"}
            \/ /\ record.phase = "aborting" /\ child[c].to = 0
               /\ pc[c] \in {"idle", "restore"}

IInv ==
  /\ TypeOK
  /\ OneWriter
  /\ DiskInv
  /\ \A c \in Coordinator : Holder(c)
  /\ \A c \in Coordinator : ChildInv(c)
=============================================================================
