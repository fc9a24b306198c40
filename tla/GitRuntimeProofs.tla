-------------------------- MODULE GitRuntimeProofs --------------------------
(***************************************************************************)
(* Theorems about GitRuntime, for every number of coordinators, of         *)
(* operations, of faults, and every assignment of trees.                   *)
(***************************************************************************)
EXTENDS GitRuntime, TLAPS

\* The commands by the lock file they take, one case at a time for SMT.
LEMMA LockTable ==
  /\ LockOf("none") = {} /\ LockOf("init") = {} /\ LockOf("fsck") = {}
  /\ LockOf("commit-tree") = {}
  /\ LockOf("read-tree") = {"index"} /\ LockOf("apply") = {"index"}
  /\ LockOf("update-ref") = {"ref"}
  /\ \A name : LockOf(name) \subseteq {"index", "ref"}
BY DEF LockOf

\* The fields of no command.
LEMMA NoCmdFields ==
  /\ NoCmd.name = "none" /\ NoCmd.to = 0 /\ NoCmd.from = 0 /\ NoCmd.locked = FALSE
BY DEF NoCmd, Cmd

\* Where a coordinator goes on, one label at a time for SMT.
LEMMA AfterTable ==
  /\ After("init") = "rename" /\ After("fsck") = "inspected"
  /\ After("restore") = "reset" /\ After("reset") = "aborted"
  /\ After("read") = "mark" /\ After("apply") = "check"
  /\ After("commit") = "advance" /\ After("advance") = "note"
BY DEF After

\* Which command a label waits for, one label at a time for SMT.
LEMMA WaitsTable ==
  /\ WaitsFor("init") = "init" /\ WaitsFor("fsck") = "fsck"
  /\ WaitsFor("restore") = "update-ref" /\ WaitsFor("advance") = "update-ref"
  /\ WaitsFor("reset") = "read-tree" /\ WaitsFor("read") = "read-tree"
  /\ WaitsFor("apply") = "apply" /\ WaitsFor("commit") = "commit-tree"
  /\ \A l : l \notin {"init", "fsck", "restore", "advance", "reset", "read", "apply", "commit"}
         => WaitsFor(l) = "nothing"
BY DEF WaitsFor

\* A command with typed fields is typed.
LEMMA CmdTyped ==
  ASSUME NEW name \in Commands, NEW to \in 0..N, NEW from \in 0..N
  PROVE  Cmd(name, to, from) \in CommandType
BY DEF Cmd, CommandType

\* A report with typed fields is typed.
LEMMA ReportTyped ==
  ASSUME NEW status \in {"none", "completed", "aborted", "interrupted"},
         NEW commit \in 0..N, NEW ops \in 0..N
  PROVE  Report(status, commit, ops) \in ReportType
BY DEF Report, ReportType

\* The initial state satisfies the inductive invariant.
LEMMA InitInv == Init => IInv
<1> SUFFICES ASSUME Init PROVE IInv
  OBVIOUS
<1> USE NAssumption, TreeAssumption, FaultsAssumption
<1>1. TypeOK
  <2>1. TreeOf[0] \in Nat /\ 0 \in 0..N /\ 0 \in 0..MaxFaults
    OBVIOUS
  <2>2. /\ record \in [phase : Phases, next : 0..N]
        /\ NoCmd \in CommandType
    BY <2>1 DEF Init, State, Phases, NoCmd, Cmd, CommandType
  <2>3. NoReport \in ReportType
    BY <2>1 DEF NoReport, Report, ReportType
  <2>. QED
    BY <2>1, <2>2, <2>3 DEF Init, TypeOK, Labels
<1>2. \A c \in Coordinator : ~Owns(c)
  BY DEF Init, Owns, HasChild
<1>3. OneWriter
  BY <1>2 DEF OneWriter
<1>4. DiskInv
  BY <1>2 DEF Init, DiskInv, Admitted, WellFormed, State, TerminalState, LockFree
<1>5. \A c \in Coordinator : Holder(c) /\ ChildInv(c)
  BY <1>2 DEF Holder, ChildInv, Owns
<1> QED
  BY <1>1, <1>3, <1>4, <1>5 DEF IInv

-----------------------------------------------------------------------------
(* While c acts alone, nothing is claimed of the others.                   *)

\* Beside an owner of the lock nobody else owns it.
LEMMA Alone ==
  ASSUME IInv, NEW c \in Coordinator, Owns(c), NEW d \in Coordinator, d # c
  PROVE  ~Owns(d)
BY DEF IInv, OneWriter

\* A step of the owner c preserves the invariant when it does so for the files,
\* for c and its Git command, and touches no other coordinator.
LEMMA Assemble ==
  ASSUME IInv, NEW c \in Coordinator,
         \A d \in Coordinator \ {c} : ~Owns(d) /\ pc'[d] = pc[d] /\ child'[d] = child[d],
         TypeOK', DiskInv', Holder(c)', ChildInv(c)'
  PROVE  IInv'
<1>1. \A d \in Coordinator \ {c} : ~Owns(d)' /\ Holder(d)' /\ ChildInv(d)'
  BY DEF Owns, HasChild, Holder, ChildInv
<1>2. OneWriter'
  BY <1>1 DEF OneWriter
<1> QED
  BY <1>1, <1>2 DEF IInv

\* Note preserves the inductive invariant.
LEMMA NoteInv == ASSUME IInv, NEW c \in Coordinator, Note(c) PROVE IInv'
<1> USE NAssumption, TreeAssumption
<1>1. pc[c] = "note" /\ ~HasChild(c) /\ Owns(c) /\ TypeOK /\ Holder(c) /\ DiskInv
  BY DEF IInv, Note, At, Owns
<1>2. /\ published /\ record.phase = "applying" /\ record.next = pos[c] /\ head = pos[c] + 1
      /\ locks = {} /\ repo
  BY <1>1, NoCmdFields, LockTable DEF Holder, InLoop, State, HoldsLocks, Writing, HasChild,
     DiskInv
<1>3. TypeOK'
  BY <1>1, <1>2 DEF TypeOK, Note, Save, State, NextIndex, Phases, Goto, Labels
<1>4. DiskInv'
  <2>1. /\ record'.next = head' /\ UNCHANGED <<published, repo, head, objects, index, locks>>
        /\ record'.phase = IF head = N THEN "completed" ELSE "ready"
    BY <1>2 DEF Note, Save, State, NextIndex
  <2>2. head \in 0..N /\ index = TreeOf[head]
    BY <1>1, <1>2 DEF TypeOK, DiskInv
  <2>3. Admitted(record, head)' /\ TerminalState'
    BY <2>1, <2>2, <1>2 DEF Admitted, WellFormed, TerminalState
  <2> QED
    BY <2>1, <2>2, <2>3, <1>1, <1>2 DEF DiskInv
<1>5. Holder(c)' /\ ChildInv(c)'
  BY <1>1, <1>2 DEF TypeOK, Holder, InBootstrap, InInspect, InAbort, InLoop, HoldsLocks,
     Writing, ChildInv, HasChild, Note, Save, State, NextIndex, Goto
<1>6. \A d \in Coordinator \ {c} : ~Owns(d) /\ pc'[d] = pc[d] /\ child'[d] = child[d]
  BY <1>1, Alone DEF TypeOK, Note, Goto
<1> QED
  BY <1>3, <1>4, <1>5, <1>6, Assemble

\* A step that leaves the files alone leaves what they say of each other.
LEMMA DiskFrame ==
  ASSUME DiskInv, published,
         UNCHANGED <<published, record, repo, head, objects, index, locks>>
  PROVE  DiskInv'
BY DEF DiskInv, Admitted, WellFormed, TerminalState

\* Drive preserves the inductive invariant.
LEMMA DriveInv == ASSUME IInv, NEW c \in Coordinator, Drive(c) PROVE IInv'
<1> USE NAssumption, TreeAssumption
<1>1. pc[c] = "drive" /\ ~HasChild(c) /\ Owns(c) /\ TypeOK /\ Holder(c) /\ DiskInv /\ published
  BY DEF IInv, Drive, At, Owns, Holder
<1>2. TypeOK'
  <2>1. Report("interrupted", 0, 0) \in ReportType
    BY ReportTyped
  <2>2. \E l \in {"bootstrap", "inspect", "idle"} : pc' = [pc EXCEPT ![c] = l]
    BY DEF Drive, Goto, Leave
  <2>3. \E r \in ReportType : reply' = [reply EXCEPT ![c] = r]
    BY <1>1, <2>1 DEF Drive, Answer, TypeOK
  <2> QED
    BY <1>1, <2>2, <2>3 DEF TypeOK, disk, Drive, Labels
<1>3. DiskInv'
  BY <1>1, DiskFrame DEF Drive, disk
<1>4. Holder(c)'
  BY <1>1, NoCmdFields, LockTable DEF TypeOK, DiskInv, Holder, InBootstrap, InInspect, InAbort,
     InLoop, HoldsLocks, Writing, HasChild, Drive, Goto, Leave, Admitted, WellFormed, Position,
     TerminalState, disk, local
<1>5. ChildInv(c)'
  BY <1>1, NoCmdFields, LockTable, WaitsTable DEF TypeOK, DiskInv, Holder, InBootstrap,
     InInspect, InAbort, InLoop, HoldsLocks, Writing, ChildInv, HasChild, Drive, Goto, Leave,
     Admitted, WellFormed, disk, local
<1>6. \A d \in Coordinator \ {c} : ~Owns(d) /\ pc'[d] = pc[d] /\ child'[d] = child[d]
  BY <1>1, Alone DEF TypeOK, Drive, Goto, Leave
<1> QED
  BY <1>2, <1>3, <1>4, <1>5, <1>6, Assemble

\* Discard preserves the inductive invariant.
LEMMA DiscardInv == ASSUME IInv, NEW c \in Coordinator, Discard(c) PROVE IInv'
<1> USE NAssumption, TreeAssumption
<1>1. pc[c] = "bootstrap" /\ ~HasChild(c) /\ Owns(c) /\ TypeOK /\ Holder(c) /\ DiskInv /\ published
  BY DEF IInv, Discard, At, Owns, Holder
<1>2. TypeOK'
  BY <1>1 DEF TypeOK, disk, local, Discard, Phases, Labels, Goto
<1>3. DiskInv'
  BY <1>1, NoCmdFields, LockTable DEF TypeOK, DiskInv, Admitted, WellFormed, TerminalState,
     Discard, Holder, InBootstrap, InInspect, InAbort, InLoop, HoldsLocks, Writing, HasChild,
     Position
<1>4. Holder(c)'
  BY <1>1, NoCmdFields, LockTable DEF TypeOK, DiskInv, Holder, InBootstrap, InInspect, InAbort,
     InLoop, HoldsLocks, Writing, HasChild, Discard, Goto, Admitted, WellFormed, Position,
     TerminalState, disk, local
<1>5. ChildInv(c)'
  BY <1>1, NoCmdFields, LockTable, WaitsTable DEF TypeOK, DiskInv, Holder, InBootstrap,
     InInspect, InAbort, InLoop, HoldsLocks, Writing, ChildInv, HasChild, Discard, Goto,
     Admitted, WellFormed, disk, local
<1>6. \A d \in Coordinator \ {c} : ~Owns(d) /\ pc'[d] = pc[d] /\ child'[d] = child[d]
  BY <1>1, Alone DEF TypeOK, Discard, Goto
<1> QED
  BY <1>2, <1>3, <1>4, <1>5, <1>6, Assemble

\* Initialize preserves the inductive invariant.
LEMMA InitializeInv == ASSUME IInv, NEW c \in Coordinator, Initialize(c) PROVE IInv'
<1> USE NAssumption, TreeAssumption
<1>1. pc[c] = "init" /\ ~HasChild(c) /\ Owns(c) /\ TypeOK /\ Holder(c) /\ DiskInv /\ published
  BY DEF IInv, Initialize, Spawn, At, Owns, Holder
<1>2. TypeOK'
  <2>1. 0 \in 0..N /\ at[c] \in 0..N
    BY <1>1 DEF TypeOK
  <2>2. Cmd("init", 0, 0) \in CommandType
    BY <2>1, CmdTyped DEF Commands
  <2> QED
    BY <1>1, <2>1, <2>2 DEF TypeOK, disk, local, Initialize, Spawn, Goto, Labels
<1>3. DiskInv'
  BY <1>1, DiskFrame DEF Initialize, Spawn, disk
<1>4. Holder(c)'
  BY <1>1, NoCmdFields, LockTable DEF TypeOK, DiskInv, Holder, InBootstrap, InInspect, InAbort,
     InLoop, HoldsLocks, Writing, HasChild, Initialize, Spawn, Cmd, Goto, Admitted, WellFormed,
     Position, TerminalState, disk, local
<1>5. ChildInv(c)'
  BY <1>1, NoCmdFields, LockTable, WaitsTable DEF TypeOK, DiskInv, Holder, InBootstrap,
     InInspect, InAbort, InLoop, HoldsLocks, Writing, ChildInv, HasChild, Initialize, Spawn,
     Cmd, Goto, Admitted, WellFormed, disk, local
<1>6. \A d \in Coordinator \ {c} : ~Owns(d) /\ pc'[d] = pc[d] /\ child'[d] = child[d]
  BY <1>1, Alone DEF TypeOK, Initialize, Spawn, Goto
<1> QED
  BY <1>2, <1>3, <1>4, <1>5, <1>6, Assemble

\* Rename preserves the inductive invariant.
LEMMA RenameInv == ASSUME IInv, NEW c \in Coordinator, Rename(c) PROVE IInv'
<1> USE NAssumption, TreeAssumption
<1>1. pc[c] = "rename" /\ ~HasChild(c) /\ Owns(c) /\ TypeOK /\ Holder(c) /\ DiskInv /\ published
  BY DEF IInv, Rename, At, Owns, Holder
<1>2. TypeOK'
  <2>1. 0 \in 0..N /\ TreeOf[0] \in Nat
    OBVIOUS
  <2> QED
    BY <1>1, <2>1 DEF TypeOK, local, Rename, Labels, Goto
<1>3. DiskInv'
  BY <1>1, NoCmdFields, LockTable DEF TypeOK, DiskInv, Admitted, WellFormed, TerminalState,
     Rename, Holder, InBootstrap, InInspect, InAbort, InLoop, HoldsLocks, Writing, HasChild,
     Position
<1>4. Holder(c)'
  BY <1>1, NoCmdFields, LockTable DEF TypeOK, DiskInv, Holder, InBootstrap, InInspect, InAbort,
     InLoop, HoldsLocks, Writing, HasChild, Rename, Goto, Admitted, WellFormed, Position,
     TerminalState, disk, local
<1>5. ChildInv(c)'
  BY <1>1, NoCmdFields, LockTable, WaitsTable DEF TypeOK, DiskInv, Holder, InBootstrap,
     InInspect, InAbort, InLoop, HoldsLocks, Writing, ChildInv, HasChild, Rename, Goto,
     Admitted, WellFormed, disk, local
<1>6. \A d \in Coordinator \ {c} : ~Owns(d) /\ pc'[d] = pc[d] /\ child'[d] = child[d]
  BY <1>1, Alone DEF TypeOK, Rename, Goto
<1> QED
  BY <1>2, <1>3, <1>4, <1>5, <1>6, Assemble

\* Seal preserves the inductive invariant.
LEMMA SealInv == ASSUME IInv, NEW c \in Coordinator, Seal(c) PROVE IInv'
<1> USE NAssumption, TreeAssumption
<1>1. pc[c] = "seal" /\ ~HasChild(c) /\ Owns(c) /\ TypeOK /\ Holder(c) /\ DiskInv /\ published
  BY DEF IInv, Seal, At, Owns, Holder
<1>2. TypeOK'
  BY <1>1 DEF TypeOK, disk, local, Seal, Save, State, Phases, Labels, Goto
<1>3. DiskInv'
  BY <1>1, NoCmdFields, LockTable DEF TypeOK, DiskInv, Admitted, WellFormed, TerminalState,
     Seal, Save, State, Holder, InBootstrap, InInspect, InAbort, InLoop, HoldsLocks, Writing,
     HasChild, Position
<1>4. Holder(c)'
  BY <1>1, NoCmdFields, LockTable DEF TypeOK, DiskInv, Holder, InBootstrap, InInspect, InAbort,
     InLoop, HoldsLocks, Writing, HasChild, Seal, Save, State, Goto, Admitted, WellFormed,
     Position, TerminalState, disk, local
<1>5. ChildInv(c)'
  BY <1>1, NoCmdFields, LockTable, WaitsTable DEF TypeOK, DiskInv, Holder, InBootstrap,
     InInspect, InAbort, InLoop, HoldsLocks, Writing, ChildInv, HasChild, Seal, Save, State,
     Goto, Admitted, WellFormed, disk, local
<1>6. \A d \in Coordinator \ {c} : ~Owns(d) /\ pc'[d] = pc[d] /\ child'[d] = child[d]
  BY <1>1, Alone DEF TypeOK, Seal, Goto
<1> QED
  BY <1>2, <1>3, <1>4, <1>5, <1>6, Assemble

\* Inspect preserves the inductive invariant.
LEMMA InspectInv == ASSUME IInv, NEW c \in Coordinator, Inspect(c) PROVE IInv'
<1> USE NAssumption, TreeAssumption
<1>1. pc[c] = "inspect" /\ ~HasChild(c) /\ Owns(c) /\ TypeOK /\ Holder(c) /\ DiskInv /\ published
  BY DEF IInv, Inspect, Spawn, At, Owns, Holder
<1>2. TypeOK'
  <2>1. 0 \in 0..N /\ at[c] \in 0..N
    BY <1>1 DEF TypeOK
  <2>2. Cmd("fsck", 0, 0) \in CommandType
    BY <2>1, CmdTyped DEF Commands
  <2> QED
    BY <1>1, <2>1, <2>2 DEF TypeOK, disk, local, Inspect, Spawn, Goto, Labels, Position,
       LocksAfterInspect
<1>3. DiskInv'
  BY <1>1, NoCmdFields, LockTable DEF TypeOK, DiskInv, Admitted, WellFormed, TerminalState,
     Inspect, Spawn, Cmd, Holder, InBootstrap, InInspect, InAbort, InLoop, HoldsLocks, Writing,
     HasChild, Position, LocksAfterInspect, disk
<1>4. Holder(c)'
  BY <1>1, NoCmdFields, LockTable DEF TypeOK, DiskInv, Holder, InBootstrap, InInspect, InAbort,
     InLoop, HoldsLocks, Writing, HasChild, Inspect, Spawn, Cmd, Goto, Admitted, WellFormed,
     Position, TerminalState, disk, local, LocksAfterInspect
<1>5. ChildInv(c)'
  BY <1>1, NoCmdFields, LockTable, WaitsTable DEF TypeOK, DiskInv, Holder, InBootstrap,
     InInspect, InAbort, InLoop, HoldsLocks, Writing, ChildInv, HasChild, Inspect, Spawn, Cmd,
     Goto, Admitted, WellFormed, disk, local
<1>6. \A d \in Coordinator \ {c} : ~Owns(d) /\ pc'[d] = pc[d] /\ child'[d] = child[d]
  BY <1>1, Alone DEF TypeOK, Inspect, Spawn, Goto
<1> QED
  BY <1>2, <1>3, <1>4, <1>5, <1>6, Assemble

\* VerifyReport preserves the inductive invariant.
LEMMA VerifyReportInv == ASSUME IInv, NEW c \in Coordinator, VerifyReport(c) PROVE IInv'
<1> USE NAssumption, TreeAssumption
<1>1. pc[c] = "inspected" /\ ~HasChild(c) /\ Owns(c) /\ TypeOK /\ Holder(c) /\ DiskInv /\ published
  BY DEF IInv, VerifyReport, At, Owns, Holder
<1>2. TypeOK'
  <2>1. at[c] \in 0..N /\ Committed(record, at[c]) \in 0..N /\ Status(record) \in {"completed", "aborted", "interrupted"}
    BY <1>1 DEF TypeOK, Committed, Position, Status
  <2>2. Report(Status(record), at[c], Committed(record, at[c])) \in ReportType
    BY <2>1, ReportTyped
  <2> QED
    BY <1>1, <2>2 DEF TypeOK, disk, VerifyReport, Labels, Goto, Leave, Answer
<1>3. DiskInv'
  BY <1>1, DiskFrame DEF VerifyReport, disk
<1>4. Holder(c)'
  BY <1>1, NoCmdFields, LockTable DEF TypeOK, DiskInv, Holder, InBootstrap, InInspect, InAbort,
     InLoop, HoldsLocks, Writing, HasChild, VerifyReport, Goto, Leave, Admitted, WellFormed,
     Position, TerminalState, disk, local
<1>5. ChildInv(c)'
  BY <1>1, NoCmdFields, LockTable, WaitsTable DEF TypeOK, DiskInv, Holder, InBootstrap,
     InInspect, InAbort, InLoop, HoldsLocks, Writing, ChildInv, HasChild, VerifyReport, Goto,
     Leave, Admitted, WellFormed, disk, local
<1>6. \A d \in Coordinator \ {c} : ~Owns(d) /\ pc'[d] = pc[d] /\ child'[d] = child[d]
  BY <1>1, Alone DEF TypeOK, VerifyReport, Goto, Leave
<1> QED
  BY <1>2, <1>3, <1>4, <1>5, <1>6, Assemble

\* Resume preserves the inductive invariant.
LEMMA ResumeInv == ASSUME IInv, NEW c \in Coordinator, Resume(c) PROVE IInv'
<1> USE NAssumption, TreeAssumption
<1>1. pc[c] = "inspected" /\ ~HasChild(c) /\ Owns(c) /\ TypeOK /\ Holder(c) /\ DiskInv /\ published
  BY DEF IInv, Resume, At, Owns, Holder
<1>2. TypeOK'
  BY <1>1 DEF TypeOK, disk, local, Resume, Phases, Labels, Goto
<1>3. DiskInv'
  BY <1>1, DiskFrame DEF Resume, disk
<1>4. Holder(c)'
  <2>1. locks = {} /\ LockOf(child[c].name) = {} /\ at[c] = head /\ pos[c] = Position(record, head)
    BY <1>1, NoCmdFields, LockTable DEF Resume, Holder, InInspect, HasChild
  <2>2. record.phase \in {"ready", "applying", "completed"} /\ pos[c] = head
    BY <1>1, <2>1 DEF TypeOK, Phases, Resume, Holder, InBootstrap, DiskInv, Admitted, Position
  <2>3. pc'[c] = "loop" /\ UNCHANGED <<disk, locks, local, child>>
    BY <1>1 DEF Resume, Goto, TypeOK
  <2> QED
    BY <1>1, <2>1, <2>2, <2>3 DEF Holder, InBootstrap, InInspect, InAbort, InLoop, HoldsLocks,
       disk, local
<1>5. ChildInv(c)'
  BY <1>1, NoCmdFields, LockTable, WaitsTable DEF TypeOK, DiskInv, Holder, InBootstrap,
     InInspect, InAbort, InLoop, HoldsLocks, Writing, ChildInv, HasChild, Resume, Goto,
     Admitted, WellFormed, disk, local
<1>6. \A d \in Coordinator \ {c} : ~Owns(d) /\ pc'[d] = pc[d] /\ child'[d] = child[d]
  BY <1>1, Alone DEF TypeOK, Resume, Goto
<1> QED
  BY <1>2, <1>3, <1>4, <1>5, <1>6, Assemble

\* Abort preserves the inductive invariant.
LEMMA AbortInv == ASSUME IInv, NEW c \in Coordinator, Abort(c) PROVE IInv'
<1> USE NAssumption, TreeAssumption
<1>1. pc[c] = "inspected" /\ ~HasChild(c) /\ Owns(c) /\ TypeOK /\ Holder(c) /\ DiskInv /\ published
  BY DEF IInv, Abort, At, Owns, Holder
<1>2. TypeOK'
  BY <1>1 DEF TypeOK, disk, local, Abort, Save, State, Phases, Labels, Goto
<1>3. DiskInv'
  BY <1>1, NoCmdFields, LockTable DEF TypeOK, DiskInv, Admitted, WellFormed, TerminalState,
     Abort, Save, State, Holder, InBootstrap, InInspect, InAbort, InLoop, HoldsLocks, Writing,
     HasChild, Position
<1>4. Holder(c)'
  BY <1>1, NoCmdFields, LockTable DEF TypeOK, DiskInv, Holder, InBootstrap, InInspect, InAbort,
     InLoop, HoldsLocks, Writing, HasChild, Abort, Save, State, Goto, Admitted, WellFormed,
     Position, TerminalState, disk, local
<1>5. ChildInv(c)'
  BY <1>1, NoCmdFields, LockTable, WaitsTable DEF TypeOK, DiskInv, Holder, InBootstrap,
     InInspect, InAbort, InLoop, HoldsLocks, Writing, ChildInv, HasChild, Abort, Save, State,
     Goto, Admitted, WellFormed, disk, local
<1>6. \A d \in Coordinator \ {c} : ~Owns(d) /\ pc'[d] = pc[d] /\ child'[d] = child[d]
  BY <1>1, Alone DEF TypeOK, Abort, Goto
<1> QED
  BY <1>2, <1>3, <1>4, <1>5, <1>6, Assemble

\* RestoreRef preserves the inductive invariant.
LEMMA RestoreRefInv == ASSUME IInv, NEW c \in Coordinator, RestoreRef(c) PROVE IInv'
<1> USE NAssumption, TreeAssumption
<1>1. pc[c] = "restore" /\ ~HasChild(c) /\ Owns(c) /\ TypeOK /\ Holder(c) /\ DiskInv /\ published
  BY DEF IInv, RestoreRef, Spawn, At, Owns, Holder
<1>2. TypeOK'
  <2>1. 0 \in 0..N /\ at[c] \in 0..N
    BY <1>1 DEF TypeOK
  <2>2. Cmd("update-ref", 0, at[c]) \in CommandType
    BY <2>1, CmdTyped DEF Commands
  <2> QED
    BY <1>1, <2>1, <2>2 DEF TypeOK, disk, local, RestoreRef, Spawn, Goto, Labels
<1>3. DiskInv'
  BY <1>1, DiskFrame DEF RestoreRef, Spawn, disk
<1>4. Holder(c)'
  BY <1>1, NoCmdFields, LockTable DEF TypeOK, DiskInv, Holder, InBootstrap, InInspect, InAbort,
     InLoop, HoldsLocks, Writing, HasChild, RestoreRef, Spawn, Cmd, Goto, Admitted, WellFormed,
     Position, TerminalState, disk, local
<1>5. ChildInv(c)'
  BY <1>1, NoCmdFields, LockTable, WaitsTable DEF TypeOK, DiskInv, Holder, InBootstrap,
     InInspect, InAbort, InLoop, HoldsLocks, Writing, ChildInv, HasChild, RestoreRef, Spawn,
     Cmd, Goto, Admitted, WellFormed, disk, local
<1>6. \A d \in Coordinator \ {c} : ~Owns(d) /\ pc'[d] = pc[d] /\ child'[d] = child[d]
  BY <1>1, Alone DEF TypeOK, RestoreRef, Spawn, Goto
<1> QED
  BY <1>2, <1>3, <1>4, <1>5, <1>6, Assemble

\* ResetIndex preserves the inductive invariant.
LEMMA ResetIndexInv == ASSUME IInv, NEW c \in Coordinator, ResetIndex(c) PROVE IInv'
<1> USE NAssumption, TreeAssumption
<1>1. pc[c] = "reset" /\ ~HasChild(c) /\ Owns(c) /\ TypeOK /\ Holder(c) /\ DiskInv /\ published
  BY DEF IInv, ResetIndex, Spawn, At, Owns, Holder
<1>2. TypeOK'
  <2>1. 0 \in 0..N /\ at[c] \in 0..N
    BY <1>1 DEF TypeOK
  <2>2. Cmd("read-tree", 0, 0) \in CommandType
    BY <2>1, CmdTyped DEF Commands
  <2> QED
    BY <1>1, <2>1, <2>2 DEF TypeOK, disk, local, ResetIndex, Spawn, Goto, Labels
<1>3. DiskInv'
  BY <1>1, DiskFrame DEF ResetIndex, Spawn, disk
<1>4. Holder(c)'
  BY <1>1, NoCmdFields, LockTable DEF TypeOK, DiskInv, Holder, InBootstrap, InInspect, InAbort,
     InLoop, HoldsLocks, Writing, HasChild, ResetIndex, Spawn, Cmd, Goto, Admitted, WellFormed,
     Position, TerminalState, disk, local
<1>5. ChildInv(c)'
  BY <1>1, NoCmdFields, LockTable, WaitsTable DEF TypeOK, DiskInv, Holder, InBootstrap,
     InInspect, InAbort, InLoop, HoldsLocks, Writing, ChildInv, HasChild, ResetIndex, Spawn,
     Cmd, Goto, Admitted, WellFormed, disk, local
<1>6. \A d \in Coordinator \ {c} : ~Owns(d) /\ pc'[d] = pc[d] /\ child'[d] = child[d]
  BY <1>1, Alone DEF TypeOK, ResetIndex, Spawn, Goto
<1> QED
  BY <1>2, <1>3, <1>4, <1>5, <1>6, Assemble

\* Aborted preserves the inductive invariant.
LEMMA AbortedInv == ASSUME IInv, NEW c \in Coordinator, Aborted(c) PROVE IInv'
<1> USE NAssumption, TreeAssumption
<1>1. pc[c] = "aborted" /\ ~HasChild(c) /\ Owns(c) /\ TypeOK /\ Holder(c) /\ DiskInv /\ published
  BY DEF IInv, Aborted, At, Owns, Holder
<1>2. TypeOK'
  <2>1. Report("aborted", 0, 0) \in ReportType /\ 0 \in 0..N
    BY ReportTyped
  <2> QED
    BY <1>1, <2>1 DEF TypeOK, Aborted, Save, State, Phases, Labels, Goto, Leave, Answer
<1>3. DiskInv'
  BY <1>1, NoCmdFields, LockTable DEF TypeOK, DiskInv, Admitted, WellFormed, TerminalState,
     Aborted, Save, State, Holder, InBootstrap, InInspect, InAbort, InLoop, HoldsLocks, Writing,
     HasChild, Position
<1>4. Holder(c)'
  BY <1>1, NoCmdFields, LockTable DEF TypeOK, DiskInv, Holder, InBootstrap, InInspect, InAbort,
     InLoop, HoldsLocks, Writing, HasChild, Aborted, Save, State, Goto, Leave, Admitted,
     WellFormed, Position, TerminalState, disk, local
<1>5. ChildInv(c)'
  BY <1>1, NoCmdFields, LockTable, WaitsTable DEF TypeOK, DiskInv, Holder, InBootstrap,
     InInspect, InAbort, InLoop, HoldsLocks, Writing, ChildInv, HasChild, Aborted, Save, State,
     Goto, Leave, Admitted, WellFormed, disk, local
<1>6. \A d \in Coordinator \ {c} : ~Owns(d) /\ pc'[d] = pc[d] /\ child'[d] = child[d]
  BY <1>1, Alone DEF TypeOK, Aborted, Goto, Leave
<1> QED
  BY <1>2, <1>3, <1>4, <1>5, <1>6, Assemble

\* ReadTree preserves the inductive invariant.
LEMMA ReadTreeInv == ASSUME IInv, NEW c \in Coordinator, ReadTree(c) PROVE IInv'
<1> USE NAssumption, TreeAssumption
<1>1. pc[c] = "loop" /\ ~HasChild(c) /\ Owns(c) /\ TypeOK /\ Holder(c) /\ DiskInv /\ published
  BY DEF IInv, ReadTree, Spawn, At, Owns, Holder
<1>2. TypeOK'
  <2>1. 0 \in 0..N /\ at[c] \in 0..N
    BY <1>1 DEF TypeOK
  <2>2. Cmd("read-tree", at[c], 0) \in CommandType
    BY <2>1, CmdTyped DEF Commands
  <2> QED
    BY <1>1, <2>1, <2>2 DEF TypeOK, disk, local, ReadTree, Spawn, Goto, Labels
<1>3. DiskInv'
  BY <1>1, DiskFrame DEF ReadTree, Spawn, disk
<1>4. Holder(c)'
  BY <1>1, NoCmdFields, LockTable DEF TypeOK, DiskInv, Holder, InBootstrap, InInspect, InAbort,
     InLoop, HoldsLocks, Writing, HasChild, ReadTree, Spawn, Cmd, Goto, Admitted, WellFormed,
     Position, TerminalState, disk, local
<1>5. ChildInv(c)'
  BY <1>1, NoCmdFields, LockTable, WaitsTable DEF TypeOK, DiskInv, Holder, InBootstrap,
     InInspect, InAbort, InLoop, HoldsLocks, Writing, ChildInv, HasChild, ReadTree, Spawn, Cmd,
     Goto, Admitted, WellFormed, disk, local
<1>6. \A d \in Coordinator \ {c} : ~Owns(d) /\ pc'[d] = pc[d] /\ child'[d] = child[d]
  BY <1>1, Alone DEF TypeOK, ReadTree, Spawn, Goto
<1> QED
  BY <1>2, <1>3, <1>4, <1>5, <1>6, Assemble

\* Mark preserves the inductive invariant.
LEMMA MarkInv == ASSUME IInv, NEW c \in Coordinator, Mark(c) PROVE IInv'
<1> USE NAssumption, TreeAssumption
<1>1. pc[c] = "mark" /\ ~HasChild(c) /\ Owns(c) /\ TypeOK /\ Holder(c) /\ DiskInv /\ published
  BY DEF IInv, Mark, At, Owns, Holder
<1>2. TypeOK'
  BY <1>1 DEF TypeOK, disk, local, Mark, Save, State, Phases, Labels, Goto
<1>3. DiskInv'
  BY <1>1, NoCmdFields, LockTable DEF TypeOK, DiskInv, Admitted, WellFormed, TerminalState,
     Mark, Save, State, Holder, InBootstrap, InInspect, InAbort, InLoop, HoldsLocks, Writing,
     HasChild, Position
<1>4. Holder(c)'
  BY <1>1, NoCmdFields, LockTable DEF TypeOK, DiskInv, Holder, InBootstrap, InInspect, InAbort,
     InLoop, HoldsLocks, Writing, HasChild, Mark, Save, State, Goto, Admitted, WellFormed,
     Position, TerminalState, disk, local
<1>5. ChildInv(c)'
  BY <1>1, NoCmdFields, LockTable, WaitsTable DEF TypeOK, DiskInv, Holder, InBootstrap,
     InInspect, InAbort, InLoop, HoldsLocks, Writing, ChildInv, HasChild, Mark, Save, State,
     Goto, Admitted, WellFormed, disk, local
<1>6. \A d \in Coordinator \ {c} : ~Owns(d) /\ pc'[d] = pc[d] /\ child'[d] = child[d]
  BY <1>1, Alone DEF TypeOK, Mark, Goto
<1> QED
  BY <1>2, <1>3, <1>4, <1>5, <1>6, Assemble

\* Apply preserves the inductive invariant.
LEMMA ApplyInv == ASSUME IInv, NEW c \in Coordinator, Apply(c) PROVE IInv'
<1> USE NAssumption, TreeAssumption
<1>1. pc[c] = "apply" /\ ~HasChild(c) /\ Owns(c) /\ TypeOK /\ Holder(c) /\ DiskInv /\ published
  BY DEF IInv, Apply, Spawn, At, Owns, Holder
<1>2. TypeOK'
  <2>1. pos[c] + 1 \in 0..N /\ at[c] \in 0..N
    BY <1>1 DEF TypeOK, Holder, InLoop, DiskInv, Admitted, WellFormed, State
  <2>2. Cmd("apply", pos[c] + 1, 0) \in CommandType
    BY <2>1, CmdTyped DEF Commands
  <2> QED
    BY <1>1, <2>1, <2>2 DEF TypeOK, disk, local, Apply, Spawn, Goto, Labels
<1>3. DiskInv'
  BY <1>1, DiskFrame DEF Apply, Spawn, disk
<1>4. Holder(c)'
  BY <1>1, NoCmdFields, LockTable DEF TypeOK, DiskInv, Holder, InBootstrap, InInspect, InAbort,
     InLoop, HoldsLocks, Writing, HasChild, Apply, Spawn, Cmd, Goto, Admitted, WellFormed,
     Position, TerminalState, disk, local
<1>5. ChildInv(c)'
  <2>1. /\ record = State("applying", head) /\ pos[c] = head /\ at[c] = head /\ repo
        /\ index = TreeOf[IF pc[c] = "apply" THEN head ELSE head + 1]
    BY <1>1 DEF Holder, InLoop, DiskInv, State
  <2>2. locks = {}
    BY <1>1, NoCmdFields, LockTable DEF Holder, HoldsLocks, Writing, HasChild
  <2>3. /\ child'[c] = Cmd("apply", head + 1, 0)
        /\ pc'[c] = "apply" /\ UNCHANGED <<disk, locks>>
    BY <1>1, <2>1 DEF Apply, Spawn, TypeOK, Goto
  <2> QED
    BY <1>1, <2>1, <2>2, <2>3, LockTable, WaitsTable DEF ChildInv, HasChild, NoCmd, Cmd, State,
       disk
<1>6. \A d \in Coordinator \ {c} : ~Owns(d) /\ pc'[d] = pc[d] /\ child'[d] = child[d]
  BY <1>1, Alone DEF TypeOK, Apply, Spawn, Goto
<1> QED
  BY <1>2, <1>3, <1>4, <1>5, <1>6, Assemble

\* CommitTree preserves the inductive invariant.
LEMMA CommitTreeInv == ASSUME IInv, NEW c \in Coordinator, CommitTree(c) PROVE IInv'
<1> USE NAssumption, TreeAssumption
<1>1. pc[c] = "check" /\ ~HasChild(c) /\ Owns(c) /\ TypeOK /\ Holder(c) /\ DiskInv /\ published
  BY DEF IInv, CommitTree, Spawn, At, Owns, Holder
<1>2. TypeOK'
  <2>1. pos[c] + 1 \in 0..N /\ at[c] \in 0..N
    BY <1>1 DEF TypeOK, Holder, InLoop, DiskInv, Admitted, WellFormed, State
  <2>2. Cmd("commit-tree", pos[c] + 1, 0) \in CommandType
    BY <2>1, CmdTyped DEF Commands
  <2> QED
    BY <1>1, <2>1, <2>2 DEF TypeOK, disk, local, CommitTree, Spawn, Goto, Labels
<1>3. DiskInv'
  BY <1>1, DiskFrame DEF CommitTree, Spawn, disk
<1>4. Holder(c)'
  BY <1>1, NoCmdFields, LockTable DEF TypeOK, DiskInv, Holder, InBootstrap, InInspect, InAbort,
     InLoop, HoldsLocks, Writing, HasChild, CommitTree, Spawn, Cmd, Goto, Admitted, WellFormed,
     Position, TerminalState, disk, local
<1>5. ChildInv(c)'
  <2>1. /\ record = State("applying", head) /\ pos[c] = head /\ at[c] = head /\ repo
        /\ index = TreeOf[IF pc[c] = "apply" THEN head ELSE head + 1]
    BY <1>1 DEF Holder, InLoop, DiskInv, State
  <2>2. locks = {}
    BY <1>1, NoCmdFields, LockTable DEF Holder, HoldsLocks, Writing, HasChild
  <2>3. /\ child'[c] = Cmd("commit-tree", head + 1, 0)
        /\ pc'[c] = "commit" /\ UNCHANGED <<disk, locks>>
    BY <1>1, <2>1 DEF CommitTree, Spawn, TypeOK, Goto
  <2> QED
    BY <1>1, <2>1, <2>2, <2>3, LockTable, WaitsTable DEF ChildInv, HasChild, NoCmd, Cmd, State,
       disk
<1>6. \A d \in Coordinator \ {c} : ~Owns(d) /\ pc'[d] = pc[d] /\ child'[d] = child[d]
  BY <1>1, Alone DEF TypeOK, CommitTree, Spawn, Goto
<1> QED
  BY <1>2, <1>3, <1>4, <1>5, <1>6, Assemble

\* Advance preserves the inductive invariant.
LEMMA AdvanceInv == ASSUME IInv, NEW c \in Coordinator, Advance(c) PROVE IInv'
<1> USE NAssumption, TreeAssumption
<1>1. pc[c] = "advance" /\ ~HasChild(c) /\ Owns(c) /\ TypeOK /\ Holder(c) /\ DiskInv /\ published
  BY DEF IInv, Advance, Spawn, At, Owns, Holder
<1>2. TypeOK'
  <2>1. pos[c] + 1 \in 0..N /\ at[c] \in 0..N
    BY <1>1 DEF TypeOK, Holder, InLoop, DiskInv, Admitted, WellFormed, State
  <2>2. Cmd("update-ref", pos[c] + 1, at[c]) \in CommandType
    BY <2>1, CmdTyped DEF Commands
  <2> QED
    BY <1>1, <2>1, <2>2 DEF TypeOK, disk, local, Advance, Spawn, Goto, Labels
<1>3. DiskInv'
  BY <1>1, DiskFrame DEF Advance, Spawn, disk
<1>4. Holder(c)'
  BY <1>1, NoCmdFields, LockTable DEF TypeOK, DiskInv, Holder, InBootstrap, InInspect, InAbort,
     InLoop, HoldsLocks, Writing, HasChild, Advance, Spawn, Cmd, Goto, Admitted, WellFormed,
     Position, TerminalState, disk, local
<1>5. ChildInv(c)'
  <2>1. /\ record = State("applying", head) /\ pos[c] = head /\ at[c] = head /\ repo
        /\ index = TreeOf[IF pc[c] = "apply" THEN head ELSE head + 1] /\ head + 1 \in objects
    BY <1>1 DEF Holder, InLoop, DiskInv, State
  <2>2. locks = {}
    BY <1>1, NoCmdFields, LockTable DEF Holder, HoldsLocks, Writing, HasChild
  <2>3. /\ child'[c] = Cmd("update-ref", head + 1, head)
        /\ pc'[c] = "advance" /\ UNCHANGED <<disk, locks>>
    BY <1>1, <2>1 DEF Advance, Spawn, TypeOK, Goto
  <2> QED
    BY <1>1, <2>1, <2>2, <2>3, LockTable, WaitsTable DEF ChildInv, HasChild, NoCmd, Cmd, State,
       disk
<1>6. \A d \in Coordinator \ {c} : ~Owns(d) /\ pc'[d] = pc[d] /\ child'[d] = child[d]
  BY <1>1, Alone DEF TypeOK, Advance, Spawn, Goto
<1> QED
  BY <1>2, <1>3, <1>4, <1>5, <1>6, Assemble

\* Finish preserves the inductive invariant.
LEMMA FinishInv == ASSUME IInv, NEW c \in Coordinator, Finish(c) PROVE IInv'
<1> USE NAssumption, TreeAssumption
<1>1. pc[c] = "loop" /\ ~HasChild(c) /\ Owns(c) /\ TypeOK /\ Holder(c) /\ DiskInv /\ published
  BY DEF IInv, Finish, At, Owns, Holder
<1>2. TypeOK'
  <2>1. Report("completed", at[c], N) \in ReportType /\ N \in 0..N
    BY <1>1, ReportTyped DEF TypeOK
  <2> QED
    BY <1>1, <2>1 DEF TypeOK, Finish, Save, State, Phases, Labels, Goto, Leave, Answer
<1>3. DiskInv'
  BY <1>1, NoCmdFields, LockTable DEF TypeOK, DiskInv, Admitted, WellFormed, TerminalState,
     Finish, Save, State, Holder, InBootstrap, InInspect, InAbort, InLoop, HoldsLocks, Writing,
     HasChild, Position
<1>4. Holder(c)'
  BY <1>1, NoCmdFields, LockTable DEF TypeOK, DiskInv, Holder, InBootstrap, InInspect, InAbort,
     InLoop, HoldsLocks, Writing, HasChild, Finish, Save, State, Goto, Leave, Admitted,
     WellFormed, Position, TerminalState, disk, local
<1>5. ChildInv(c)'
  BY <1>1, NoCmdFields, LockTable, WaitsTable DEF TypeOK, DiskInv, Holder, InBootstrap,
     InInspect, InAbort, InLoop, HoldsLocks, Writing, ChildInv, HasChild, Finish, Save, State,
     Goto, Leave, Admitted, WellFormed, disk, local
<1>6. \A d \in Coordinator \ {c} : ~Owns(d) /\ pc'[d] = pc[d] /\ child'[d] = child[d]
  BY <1>1, Alone DEF TypeOK, Finish, Goto, Leave
<1> QED
  BY <1>2, <1>3, <1>4, <1>5, <1>6, Assemble

\* Publish preserves the inductive invariant.
LEMMA PublishInv == ASSUME IInv, NEW c \in Coordinator, Publish(c) PROVE IInv'
<1> USE NAssumption, TreeAssumption
<1>1. pc[c] = "publish" /\ ~HasChild(c) /\ ~published /\ LockFree /\ TypeOK /\ DiskInv
  BY DEF IInv, Publish, At, DiskInv
<1>2. TypeOK'
  BY <1>1 DEF TypeOK, local, Publish, Save, State, Phases, Labels, Goto
<1>3. DiskInv'
  BY <1>1 DEF DiskInv, Admitted, WellFormed, TerminalState, Publish, Save, State
<1>4. Holder(c)' /\ ChildInv(c)'
  BY <1>1 DEF TypeOK, Holder, InBootstrap, InInspect, InAbort, InLoop, HoldsLocks, Writing,
     ChildInv, HasChild, Publish, Goto
<1>5. \A d \in Coordinator \ {c} : ~Owns(d) /\ pc'[d] = pc[d] /\ child'[d] = child[d]
  BY <1>1 DEF LockFree, TypeOK, Publish, Goto
<1> QED
  BY <1>2, <1>3, <1>4, <1>5, Assemble

\* Recover preserves the inductive invariant.
LEMMA RecoverInv ==
  ASSUME IInv, NEW c \in Coordinator, NEW action \in Actions, Recover(c, action)
  PROVE  IInv'
<1> USE ActionsAssumption
<1>1. pc[c] = "idle" /\ ~HasChild(c) /\ published /\ LockFree /\ TypeOK /\ DiskInv
  BY DEF IInv, Recover, At
<1>2. TypeOK'
  <2>1. NoReport \in ReportType
    BY NAssumption, ReportTyped DEF NoReport
  <2> QED
    BY <1>1, <2>1 DEF TypeOK, disk, Recover, Labels, Goto, Answer
<1>3. DiskInv'
  BY <1>1, DiskFrame DEF Recover, disk
<1>4. Holder(c)' /\ ChildInv(c)'
  BY <1>1 DEF TypeOK, Holder, InBootstrap, InInspect, InAbort, InLoop, HoldsLocks, Writing,
     ChildInv, HasChild, Recover, Goto, disk
<1>5. \A d \in Coordinator \ {c} : ~Owns(d) /\ pc'[d] = pc[d] /\ child'[d] = child[d]
  BY <1>1 DEF LockFree, TypeOK, Recover, Goto
<1> QED
  BY <1>2, <1>3, <1>4, <1>5, Assemble

\* A call that has not reached the run directory is nobody's business.
LEMMA Bystander ==
  ASSUME IInv, NEW c \in Coordinator, TypeOK',
         pc[c] \in {"idle", "publish"}, pc'[c] \in {"idle", "publish"}, ~HasChild(c),
         UNCHANGED <<disk, locks, child>>,
         \A d \in Coordinator \ {c} :
            pc'[d] = pc[d] /\ act'[d] = act[d] /\ pos'[d] = pos[d] /\ at'[d] = at[d]
  PROVE  IInv'
<1>1. \A d \in Coordinator : Owns(d)' <=> Owns(d)
  BY DEF Owns, HasChild
<1>2. OneWriter'
  BY <1>1 DEF IInv, OneWriter
<1>3. DiskInv'
  BY <1>1 DEF IInv, DiskInv, Admitted, WellFormed, TerminalState, LockFree, disk
<1>4. Holder(c)' /\ ChildInv(c)'
  BY DEF Holder, ChildInv, HasChild
<1>5. ASSUME NEW d \in Coordinator \ {c} PROVE Holder(d)' /\ ChildInv(d)'
  <2>1. Holder(d) /\ ChildInv(d)
    BY DEF IInv
  <2> QED
    BY <2>1 DEF Holder, ChildInv, HasChild, InBootstrap, InInspect, InAbort, InLoop, HoldsLocks,
       disk
<1> QED
  BY <1>2, <1>3, <1>4, <1>5 DEF IInv

\* Execute preserves the inductive invariant.
LEMMA ExecuteInv == ASSUME IInv, NEW c \in Coordinator, Execute(c) PROVE IInv'
<1>1. pc[c] = "idle" /\ ~HasChild(c) /\ TypeOK /\ NoReport \in ReportType
  BY NAssumption, ReportTyped DEF IInv, Execute, At, NoReport
<1>2. TypeOK'
  BY <1>1 DEF TypeOK, disk, Execute, Labels, Goto, Answer
<1> QED
  BY <1>1, <1>2, Bystander DEF Execute, Goto, TypeOK

\* A coordinator that leaves lets go of the lock unless its command runs on.
LEMMA LeaveInv ==
  ASSUME IInv, NEW c \in Coordinator, Owns(c), TypeOK', Leave(c),
         UNCHANGED <<disk, locks>>,
         child' = child \/ child' = [child EXCEPT ![c] = NoCmd]
  PROVE  IInv'
<1>1. TypeOK /\ DiskInv /\ ChildInv(c) /\ published
  BY DEF IInv, Owns, Holder, ChildInv
<1>2. DiskInv'
  BY <1>1, DiskFrame DEF disk
<1>3. pc'[c] = "idle" /\ child'[c] \in {child[c], NoCmd}
  BY <1>1 DEF Leave, Goto, TypeOK
<1>4. Holder(c)' /\ ChildInv(c)'
  BY <1>1, <1>3 DEF Holder, ChildInv, HasChild, disk
<1>5. \A d \in Coordinator \ {c} : ~Owns(d) /\ pc'[d] = pc[d] /\ child'[d] = child[d]
  BY <1>1, Alone DEF TypeOK, Leave, Goto
<1> QED
  BY <1>2, <1>4, <1>5, Assemble

\* Refuse preserves the inductive invariant.
LEMMA RefuseInv == ASSUME IInv, NEW c \in Coordinator, Refuse(c) PROVE IInv'
<1>1. TypeOK /\ pc[c] \notin {"idle"} /\ ~HasChild(c)
  BY DEF IInv, Refuse, Refused
<1>2. TypeOK'
  BY <1>1 DEF TypeOK, disk, local, Refuse, Leave, Labels, Goto
<1>3. CASE pc[c] = "publish"
  BY <1>1, <1>2, <1>3, Bystander DEF Refuse, Leave, Goto, TypeOK, local
<1>4. CASE pc[c] # "publish"
  BY <1>1, <1>2, <1>4, LeaveInv DEF Refuse, Owns
<1> QED
  BY <1>3, <1>4

\* Die preserves the inductive invariant.
LEMMA DieInv == ASSUME IInv, NEW c \in Coordinator, Die(c) PROVE IInv'
<1>1. TypeOK /\ pc[c] # "idle" /\ (pc[c] = "publish" => ~HasChild(c))
  BY WaitsTable DEF IInv, Die, ChildInv, HasChild, TypeOK, CommandType, Commands
<1>2. TypeOK'
  BY <1>1, FaultsAssumption DEF TypeOK, disk, local, Die, Leave, Labels, Goto
<1>3. CASE pc[c] = "publish"
  BY <1>1, <1>2, <1>3, Bystander DEF Die, Leave, Goto, TypeOK, local
<1>4. CASE pc[c] # "publish"
  BY <1>1, <1>2, <1>4, LeaveInv DEF Die, Owns
<1> QED
  BY <1>3, <1>4

\* No Git command is blocked where the invariant holds.
LEMMA NotBlocked == ASSUME IInv, NEW c \in Coordinator PROVE ~Blocked(c)
<1>1. CASE ~HasChild(c)
  BY <1>1, NoCmdFields, LockTable DEF HasChild, Blocked
<1>2. CASE HasChild(c)
  <2>1. ChildInv(c) /\ TypeOK /\ child[c].name \in Commands
    BY <1>2 DEF IInv, ChildInv, TypeOK, CommandType
  <2> QED
    BY <1>2, <2>1, NAssumption, LockTable DEF ChildInv, Blocked, Commands, TypeOK
<1> QED
  BY <1>1, <1>2

\* CommandFails preserves the inductive invariant.
LEMMA CommandFailsInv == ASSUME IInv, NEW c \in Coordinator, CommandFails(c) PROVE IInv'
<1>1. TypeOK /\ HasChild(c) /\ Owns(c) /\ ~Blocked(c) /\ NoCmd \in CommandType
  BY NAssumption, NotBlocked DEF IInv, CommandFails, Owns, NoCmd, Cmd, CommandType
<1>2. TypeOK'
  BY <1>1, FaultsAssumption DEF TypeOK, disk, local, CommandFails, Leave, Labels, Goto
<1> QED
  BY <1>1, <1>2, LeaveInv DEF CommandFails

\* TakeLock preserves the inductive invariant.
LEMMA TakeLockInv == ASSUME IInv, NEW c \in Coordinator, TakeLock(c) PROVE IInv'
<1>1. TypeOK /\ HasChild(c) /\ Owns(c) /\ ChildInv(c) /\ Holder(c) /\ DiskInv /\ published
  BY LockTable, NoCmdFields DEF IInv, TakeLock, HasChild, Owns, ChildInv
<1>2. child[c].name \in {"read-tree", "apply", "update-ref"} /\ ~child[c].locked
  BY <1>1, LockTable DEF TakeLock, TypeOK, CommandType, Commands
<1>3. /\ locks = {} /\ locks' = LockOf(child[c].name) /\ repo
      /\ record.phase \in {"ready", "applying", "aborting"}
  BY <1>1, <1>2 DEF ChildInv, TakeLock
<1>4. /\ child'[c].locked /\ child'[c].name = child[c].name /\ child'[c].to = child[c].to
      /\ child'[c].from = child[c].from /\ child'[c] \in CommandType
      /\ UNCHANGED <<disk, local, pc, faults>>
  BY <1>1 DEF TakeLock, TypeOK, CommandType
<1>5. TypeOK'
  BY <1>1, <1>3, <1>4, LockTable DEF TypeOK, disk, local, TakeLock
<1>6. DiskInv'
  BY <1>1, <1>3, <1>4 DEF DiskInv, Admitted, WellFormed, TerminalState, disk
<1>7. ChildInv(c)'
  BY <1>1, <1>2, <1>3, <1>4, LockTable DEF ChildInv, HasChild, disk
<1>8. Holder(c)'
  BY <1>1, <1>2, <1>3, <1>4, WaitsTable DEF Holder, ChildInv, InBootstrap, InInspect, InAbort,
     InLoop,
     HoldsLocks, disk, local
<1>9. \A d \in Coordinator \ {c} : ~Owns(d) /\ pc'[d] = pc[d] /\ child'[d] = child[d]
  BY <1>1, <1>4, Alone DEF TypeOK, TakeLock
<1> QED
  BY <1>5, <1>6, <1>7, <1>8, <1>9, Assemble

-----------------------------------------------------------------------------
(* A Git command that exits, awaited or not.                               *)

\* What is known of the command, the lock and everybody else at an exit.
Exited(c, name) ==
  /\ HasChild(c) /\ Owns(c) /\ TypeOK /\ ChildInv(c) /\ Holder(c) /\ DiskInv /\ published
  /\ child[c].name = name /\ child[c].to \in 0..N
  /\ child'[c] = NoCmd /\ ~HasChild(c)' /\ child' \in [Coordinator -> CommandType]
  /\ pc[c] = "idle" => pc'[c] = "idle"
  /\ pc[c] # "idle" => WaitsFor(pc[c]) = name /\ pc'[c] = After(pc[c])
  /\ pc[c] \in {"idle", "init", "fsck", "restore", "reset", "read", "apply", "commit", "advance"}
  /\ pc' \in [Coordinator -> Labels]
  /\ UNCHANGED <<published, record, repo, local, faults>>
  /\ locks' \subseteq {"index", "ref"}
  /\ \A d \in Coordinator \ {c} : ~Owns(d) /\ pc'[d] = pc[d] /\ child'[d] = child[d]

\* What the exit of any Git command leaves true of everybody else.
LEMMA ExitFacts ==
  ASSUME IInv, NEW c \in Coordinator, NEW name \in Commands, Exits(c, name)
  PROVE  Exited(c, name)
<1>1. /\ HasChild(c) /\ Owns(c) /\ TypeOK /\ ChildInv(c) /\ Holder(c) /\ DiskInv /\ published
      /\ child[c].name = name /\ child[c] \in CommandType
  BY NoCmdFields DEF IInv, Exits, HasChild, Owns, ChildInv, Commands, TypeOK
<1>2. NoCmd \in CommandType
  BY NAssumption DEF NoCmd, Cmd, CommandType
<1>3. pc[c] # "idle" => WaitsFor(pc[c]) = name
  BY <1>1 DEF ChildInv
<1>4. pc[c] \in {"idle", "init", "fsck", "restore", "reset", "read", "apply", "commit", "advance"}
  BY <1>3, WaitsTable DEF Commands
<1>5. pc[c] # "idle" => After(pc[c]) \in Labels
  BY <1>4, AfterTable DEF Labels
<1>6. /\ pc[c] = "idle" => pc'[c] = "idle"
      /\ pc[c] # "idle" => pc'[c] = After(pc[c])
      /\ pc' \in [Coordinator -> Labels]
  BY <1>1, <1>5 DEF Exits, TypeOK
<1>7. \A d \in Coordinator \ {c} : ~Owns(d) /\ pc'[d] = pc[d] /\ child'[d] = child[d]
  BY <1>1, Alone DEF Exits, TypeOK
<1> QED
  BY <1>1, <1>2, <1>3, <1>4, <1>6, <1>7 DEF Exited, Exits, CommandType, HasChild, TypeOK

\* InitExits preserves the inductive invariant.
LEMMA InitExitsInv == ASSUME IInv, NEW c \in Coordinator, InitExits(c) PROVE IInv'
<1>1. Exits(c, "init") /\ UNCHANGED <<head, objects, index>> /\ stage' = "sealed"
  BY DEF InitExits
<1>2. Exited(c, "init")
  BY <1>1, ExitFacts DEF Commands
<1>3. locks' = {} /\ ~repo /\ record.phase = "initializing"
  BY <1>1, <1>2, LockTable DEF Exited, Exits, ChildInv, DiskInv
<1>4. TypeOK'
  BY <1>1, <1>2 DEF Exited, TypeOK, local
<1>5. DiskInv'
  BY <1>1, <1>2, <1>3 DEF Exited, DiskInv, Admitted, WellFormed, TerminalState
<1>6. pc[c] # "idle" => pc[c] = "init" /\ pc'[c] = "rename"
  BY <1>1, <1>2, WaitsTable, AfterTable DEF Exited
<1>7. Holder(c)' /\ ChildInv(c)'
  BY <1>1, <1>2, <1>3, <1>6 DEF Exited, Holder, InBootstrap, InInspect, InAbort, InLoop,
     HoldsLocks, Writing, ChildInv, local
<1> QED
  BY <1>1, <1>2, <1>4, <1>5, <1>7, Assemble DEF Exited

\* FsckExits preserves the inductive invariant.
LEMMA FsckExitsInv == ASSUME IInv, NEW c \in Coordinator, FsckExits(c) PROVE IInv'
<1>1. Exits(c, "fsck") /\ UNCHANGED <<stage, head, objects, index>>
  BY DEF FsckExits
<1>2. Exited(c, "fsck")
  BY <1>1, ExitFacts DEF Commands
<1>3. locks' = locks /\ repo
  BY <1>1, <1>2, LockTable DEF Exited, Exits, ChildInv
<1>4. TypeOK'
  BY <1>1, <1>2 DEF Exited, TypeOK, local
<1>5. DiskInv'
  BY <1>1, <1>2, <1>3, DiskFrame DEF Exited
<1>6. pc[c] # "idle" => pc[c] = "fsck" /\ pc'[c] = "inspected"
  BY <1>1, <1>2, WaitsTable, AfterTable DEF Exited
<1>7. Holder(c)' /\ ChildInv(c)'
  BY <1>1, <1>2, <1>3, <1>6 DEF Exited, Holder, InBootstrap, InInspect, InAbort, InLoop,
     HoldsLocks, Writing, ChildInv, Position, local
<1> QED
  BY <1>1, <1>2, <1>4, <1>5, <1>7, Assemble DEF Exited

\* ReadTreeExits preserves the inductive invariant.
LEMMA ReadTreeExitsInv == ASSUME IInv, NEW c \in Coordinator, ReadTreeExits(c) PROVE IInv'
<1>1. Exits(c, "read-tree") /\ index' = TreeOf[child[c].to] /\ UNCHANGED <<stage, head, objects>>
  BY DEF ReadTreeExits
<1>2. Exited(c, "read-tree")
  BY <1>1, ExitFacts DEF Commands
<1>3. /\ locks' = {} /\ repo /\ index' = TreeOf[head]
      /\ record.phase \in {"ready", "applying", "aborting"}
  BY <1>1, <1>2, LockTable DEF Exited, Exits, ChildInv
<1>4. TypeOK'
  BY <1>1, <1>2, TreeAssumption DEF Exited, TypeOK, local
<1>5. DiskInv'
  BY <1>1, <1>2, <1>3 DEF Exited, DiskInv, Admitted, WellFormed, TerminalState
<1>6. pc[c] # "idle" => \/ pc[c] = "reset" /\ pc'[c] = "aborted"
                        \/ pc[c] = "read" /\ pc'[c] = "mark"
  BY <1>1, <1>2, WaitsTable, AfterTable DEF Exited
<1>7. ChildInv(c)'
  BY <1>1, <1>2 DEF Exited, ChildInv
<1>8. Holder(c)'
  BY <1>1, <1>2, <1>3, <1>6, NoCmdFields, LockTable DEF Exited, Holder, InBootstrap, InInspect,
     InAbort, InLoop, HoldsLocks, Writing, local
<1> QED
  BY <1>1, <1>2, <1>4, <1>5, <1>7, <1>8, Assemble DEF Exited

\* ApplyExits preserves the inductive invariant.
LEMMA ApplyExitsInv == ASSUME IInv, NEW c \in Coordinator, ApplyExits(c) PROVE IInv'
<1>1. Exits(c, "apply") /\ index' = TreeOf[child[c].to] /\ UNCHANGED <<stage, head, objects>>
  BY DEF ApplyExits
<1>2. Exited(c, "apply")
  BY <1>1, ExitFacts DEF Commands
<1>3. /\ locks' = {} /\ repo /\ index' = TreeOf[head + 1]
      /\ record.phase = "applying" /\ record.next = head
  BY <1>1, <1>2, LockTable DEF Exited, Exits, ChildInv, State
<1>4. TypeOK'
  BY <1>1, <1>2, TreeAssumption DEF Exited, TypeOK, local
<1>5. DiskInv'
  BY <1>1, <1>2, <1>3 DEF Exited, DiskInv, Admitted, WellFormed, TerminalState, TypeOK
<1>6. pc[c] # "idle" => pc[c] = "apply" /\ pc'[c] = "check"
  BY <1>1, <1>2, WaitsTable, AfterTable DEF Exited
<1>7. ChildInv(c)'
  BY <1>1, <1>2 DEF Exited, ChildInv
<1>8. Holder(c)'
  BY <1>1, <1>2, <1>3, <1>6, NoCmdFields, LockTable DEF Exited, Holder, InBootstrap, InInspect,
     InAbort, InLoop, HoldsLocks, Writing, local, State
<1> QED
  BY <1>1, <1>2, <1>4, <1>5, <1>7, <1>8, Assemble DEF Exited

\* CommitTreeExits preserves the inductive invariant.
LEMMA CommitTreeExitsInv == ASSUME IInv, NEW c \in Coordinator, CommitTreeExits(c) PROVE IInv'
<1>1. /\ Exits(c, "commit-tree") /\ objects' = objects \cup {child[c].to}
      /\ UNCHANGED <<stage, head, index>>
  BY DEF CommitTreeExits
<1>2. Exited(c, "commit-tree")
  BY <1>1, ExitFacts DEF Commands
<1>3. /\ locks' = locks /\ repo /\ child[c].to = head + 1 /\ index = TreeOf[head + 1]
      /\ head + 1 \in objects' /\ objects' \subseteq 1..N
  <2>1. locks' = locks /\ repo /\ child[c].to = head + 1 /\ index = TreeOf[head + 1]
    BY <1>1, <1>2, LockTable DEF Exited, Exits, ChildInv
  <2>2. child[c].to \in 1..N /\ objects \subseteq 1..N
    BY <1>2, <2>1, NAssumption DEF Exited, TypeOK
  <2> QED
    BY <1>1, <2>1, <2>2
<1>4. TypeOK'
  BY <1>1, <1>2, <1>3 DEF Exited, TypeOK, local
<1>5. DiskInv'
  BY <1>1, <1>2, <1>3 DEF Exited, DiskInv, Admitted, WellFormed, TerminalState
<1>6. pc[c] # "idle" => pc[c] = "commit" /\ pc'[c] = "advance"
  BY <1>1, <1>2, WaitsTable, AfterTable DEF Exited
<1>7. ChildInv(c)'
  BY <1>1, <1>2 DEF Exited, ChildInv
<1>8. Holder(c)'
  BY <1>1, <1>2, <1>3, <1>6, NoCmdFields, LockTable DEF Exited, Holder, InBootstrap, InInspect,
     InAbort, InLoop, HoldsLocks, Writing, local, State
<1> QED
  BY <1>1, <1>2, <1>4, <1>5, <1>7, <1>8, Assemble DEF Exited

\* UpdateRefExits preserves the inductive invariant.
LEMMA UpdateRefExitsInv == ASSUME IInv, NEW c \in Coordinator, UpdateRefExits(c) PROVE IInv'
<1>1. Exits(c, "update-ref") /\ head' = child[c].to /\ UNCHANGED <<stage, objects, index>>
  BY DEF UpdateRefExits
<1>2. Exited(c, "update-ref")
  BY <1>1, ExitFacts DEF Commands
<1>3. locks' = {} /\ repo /\ record.phase \in {"applying", "aborting"}
  BY <1>1, <1>2, LockTable DEF Exited, Exits, ChildInv, State
<1>4. \/ /\ record.phase = "applying" /\ record.next = head /\ head' = head + 1
         /\ index = TreeOf[head + 1] /\ head + 1 \in objects /\ pc[c] \in {"idle", "advance"}
      \/ record.phase = "aborting" /\ head' = 0 /\ pc[c] \in {"idle", "restore"}
  BY <1>1, <1>2 DEF Exited, ChildInv, State
<1>5. TypeOK'
  BY <1>1, <1>2 DEF Exited, TypeOK, local
<1>6. DiskInv'
  <2>1. Admitted(record, head)' /\ 1..head' \subseteq objects'
    BY <1>1, <1>2, <1>4 DEF Exited, DiskInv, Admitted, WellFormed, TypeOK
  <2> QED
    BY <1>1, <1>2, <1>3, <1>4, <2>1 DEF Exited, DiskInv, TerminalState, TypeOK
<1>7. ChildInv(c)'
  BY <1>1, <1>2 DEF Exited, ChildInv
<1>8. CASE pc[c] = "idle"
  BY <1>1, <1>2, <1>5, <1>6, <1>7, <1>8, Assemble DEF Exited, Holder
<1>9. CASE pc[c] = "advance"
  <2>1. Holder(c)'
    BY <1>1, <1>2, <1>3, <1>4, <1>9, AfterTable, NoCmdFields, LockTable DEF Exited, Holder,
       InBootstrap, InInspect, InAbort, InLoop, HoldsLocks, Writing, local, State
  <2> QED
    BY <1>1, <1>2, <1>5, <1>6, <1>7, <2>1, Assemble DEF Exited
<1>10. CASE pc[c] = "restore"
  <2>1. Holder(c)'
    BY <1>1, <1>2, <1>3, <1>4, <1>10, AfterTable, NoCmdFields, LockTable DEF Exited, Holder,
       InBootstrap, InInspect, InAbort, InLoop, HoldsLocks, Writing, local
  <2> QED
    BY <1>1, <1>2, <1>5, <1>6, <1>7, <2>1, Assemble DEF Exited
<1> QED
  BY <1>4, <1>8, <1>9, <1>10

-----------------------------------------------------------------------------
\* Step preserves the inductive invariant.
LEMMA StepInv == IInv /\ [Next]_vars => IInv'
<1> SUFFICES ASSUME IInv, [Next]_vars PROVE IInv'
  OBVIOUS
<1>1. CASE UNCHANGED vars
  BY <1>1 DEF vars, disk, local, IInv, TypeOK, OneWriter, Owns, HasChild, DiskInv, Admitted,
     WellFormed, TerminalState, LockFree, Holder, InBootstrap, InInspect, InAbort, InLoop,
     HoldsLocks, ChildInv, Position
<1>2. CASE Next
  <2>1. PICK c \in Coordinator :
          \/ Execute(c)
          \/ \E action \in Actions : Recover(c, action)
          \/ Coordinate(c) \/ Git(c) \/ Fault(c)
    BY <1>2 DEF Next
  <2>2. CASE Execute(c) \/ \E action \in Actions : Recover(c, action)
    BY <2>2, ExecuteInv, RecoverInv
  <2>3. CASE Coordinate(c)
    BY <2>3, PublishInv, DriveInv, DiscardInv, InitializeInv, RenameInv, SealInv, InspectInv,
       VerifyReportInv, ResumeInv, AbortInv, RestoreRefInv, ResetIndexInv, AbortedInv, ReadTreeInv,
       MarkInv, ApplyInv, CommitTreeInv, AdvanceInv, NoteInv, FinishInv, RefuseInv DEF Coordinate
  <2>4. CASE Git(c)
    BY <2>4, TakeLockInv, InitExitsInv, FsckExitsInv, ReadTreeExitsInv, ApplyExitsInv,
       CommitTreeExitsInv, UpdateRefExitsInv DEF Git
  <2>5. CASE Fault(c)
    BY <2>5, CommandFailsInv, DieInv DEF Fault
  <2> QED
    BY <2>1, <2>2, <2>3, <2>4, <2>5
<1> QED
  BY <1>1, <1>2

\* The inductive invariant holds in every reachable state.
THEOREM Invariance == Spec => []IInv
BY InitInv, StepInv, PTL DEF Spec

\* Every variable keeps its type.
THEOREM Typing == Spec => []TypeOK
BY Invariance, PTL DEF IInv

\* The coordinator lock, inherited by Git commands, excludes every second
\* process from the run directory, however many coordinators die.
THEOREM MutualExclusion == Spec => []OneWriter
BY Invariance, PTL DEF IInv

\* A terminal record tells the truth about the ref, the index and the locks.
THEOREM TerminalTruth == Spec => []TerminalState
<1>1. IInv => TerminalState
  BY DEF IInv, DiskInv
<1> QED
  BY <1>1, Invariance, PTL

\* No Git command ever trips over what an earlier death left behind.
THEOREM Unblocked == Spec => []NeverBlocked
<1>1. IInv => NeverBlocked
  BY NotBlocked DEF NeverBlocked
<1> QED
  BY <1>1, Invariance, PTL

\* What _inspect recomputes and _report lists is exactly what the ref holds.
LEMMA CommittedIsHead ==
  ASSUME TypeOK, Admitted(record, head)
  PROVE  Committed(record, head) = head
BY NAssumption DEF TypeOK, Admitted, WellFormed, Committed, Position, Phases

\* No crash strands a run: a holder of the lock is only refused a resumption
\* of a run that was given up.
THEOREM NoStranding == Spec => []Recoverable
<1>1. ASSUME IInv, NEW c \in Coordinator, ~HasChild(c), Refused(c), pc[c] # "publish"
      PROVE  pc[c] = "inspected" /\ record.phase \in {"aborting", "aborted"}
  <2>1. TypeOK /\ DiskInv /\ Admitted(record, head) /\ 1..head \subseteq objects
    BY <1>1 DEF IInv, DiskInv
  <2>2. pc[c] \in {"seal", "inspect", "inspected", "check"}
    BY <1>1 DEF Refused
  <2>3. Holder(c) /\ InBootstrap(c) /\ InInspect(c) /\ InLoop(c)
    BY <1>1, <2>2 DEF IInv, Holder
  <2>4. pc[c] = "inspected" => ChainHolds(record, at[c])
    BY <2>1, <2>3, CommittedIsHead DEF InInspect, ChainHolds
  <2>5. ~(pc[c] = "seal" /\ head # 0)
    BY <2>1, <2>3 DEF InBootstrap, DiskInv
  <2>6. ~(pc[c] = "inspect" /\ ~(repo /\ Admitted(record, head)))
    BY <2>1, <2>3 DEF InBootstrap
  <2>7. ~(pc[c] = "check" /\ ~Matches(c))
    BY <2>3 DEF InLoop, Matches
  <2> QED
    BY <1>1, <2>4, <2>5, <2>6, <2>7 DEF Refused
<1>2. IInv => Recoverable
  BY <1>1 DEF Recoverable
<1> QED
  BY <1>2, Invariance, PTL

\* Steps that return no report.
LEMMA NoReplySteps ==
  ASSUME NEW c \in Coordinator,
         \/ Publish(c) \/ Discard(c) \/ Initialize(c) \/ Rename(c) \/ Seal(c) \/ Inspect(c)
         \/ Resume(c) \/ Abort(c) \/ RestoreRef(c) \/ ResetIndex(c) \/ ReadTree(c) \/ Mark(c)
         \/ Apply(c) \/ CommitTree(c) \/ Advance(c) \/ Note(c) \/ Refuse(c) \/ Git(c) \/ Fault(c)
  PROVE  reply' = reply
BY DEF Publish, Discard, Initialize, Rename, Seal, Inspect, Resume, Abort, RestoreRef,
   ResetIndex,
   ReadTree, Mark, Apply, CommitTree, Advance, Note, Refuse, Git, Fault, CommandFails, Die, TakeLock,
   InitExits, FsckExits, ReadTreeExits, ApplyExits, CommitTreeExits, UpdateRefExits, Exits,
      local

\* Every report names what the ref holds, and never overstates the run.
THEOREM ReportsAreHonest == Spec => HonestReport
<1>1. ASSUME IInv, NEW c \in Coordinator, NEW r, Answer(c, r), NEW d \in Coordinator,
             \/ r = NoReport
             \/ r.commit = head' /\ r.ops = head' /\ r.status = Status(record')
      PROVE  ReportsTruly(d)
  BY <1>1 DEF Answer, IInv, TypeOK, ReportsTruly
<1>2. ASSUME IInv, NEW c \in Coordinator, Drive(c), NEW d \in Coordinator PROVE ReportsTruly(d)
  <2>1. CASE reply' = reply
    BY <2>1 DEF ReportsTruly
  <2>2. CASE Answer(c, Report("interrupted", 0, 0)) /\ record.phase = "initializing"
    <3>1. head' = 0 /\ Status(record') = "interrupted"
      BY <1>2, <2>2 DEF Drive, disk, IInv, DiskInv, Status
    <3> QED
      BY <1>1, <1>2, <2>2, <3>1 DEF Report
  <2> QED
    BY <1>2, <2>1, <2>2 DEF Drive
<1>3. ASSUME IInv, NEW c \in Coordinator, VerifyReport(c), NEW d \in Coordinator PROVE ReportsTruly(d)
  <2>1. TypeOK /\ Admitted(record, head) /\ at[c] = head
    BY <1>3 DEF IInv, DiskInv, Holder, InInspect, VerifyReport, At
  <2>2. Committed(record, at[c]) = head /\ UNCHANGED <<head, record>>
    BY <1>3, <2>1, CommittedIsHead DEF VerifyReport, disk
  <2>3. Answer(c, Report(Status(record), at[c], Committed(record, at[c])))
    BY <1>3 DEF VerifyReport
  <2> QED
    BY <1>1, <1>3, <2>1, <2>2, <2>3 DEF Report
<1>4. ASSUME IInv, NEW c \in Coordinator, Aborted(c), NEW d \in Coordinator PROVE ReportsTruly(d)
  <2>1. head' = 0 /\ Status(record') = "aborted"
    BY <1>4 DEF IInv, Holder, InAbort, Aborted, At, Save, State, Status
  <2> QED
    BY <1>1, <1>4, <2>1 DEF Aborted, Report
<1>5. ASSUME IInv, NEW c \in Coordinator, Finish(c), NEW d \in Coordinator PROVE ReportsTruly(d)
  <2>1. head' = N /\ at[c] = N /\ Status(record') = "completed"
    BY <1>5 DEF IInv, Holder, InLoop, Finish, At, Save, State, Status
  <2> QED
    BY <1>1, <1>5, <2>1 DEF Finish, Report
<1>6. ASSUME IInv, NEW c \in Coordinator, NEW d \in Coordinator,
             Execute(c) \/ \E action \in Actions : Recover(c, action)
      PROVE  ReportsTruly(d)
  BY <1>1, <1>6 DEF Execute, Recover
<1>7. ASSUME IInv, [Next]_vars, NEW d \in Coordinator PROVE ReportsTruly(d)
  <2>1. CASE UNCHANGED vars
    BY <2>1 DEF vars, local, ReportsTruly
  <2>2. CASE Next
    BY <1>7, <2>2, <1>2, <1>3, <1>4, <1>5, <1>6, NoReplySteps
    DEF Next, Coordinate, ReportsTruly
  <2> QED
    BY <1>7, <2>1, <2>2
<1>8. IInv /\ [Next]_vars => [AllReportTruly]_vars
  BY <1>7 DEF AllReportTruly
<1> QED
  BY <1>8, Invariance, PTL DEF Spec, HonestReport

-----------------------------------------------------------------------------
(* The runtime implements PrivateRun.                                      *)

\* Steps the promise does not see.
LEMMA Unseen ==
  ASSUME NEW c \in Coordinator,
         \/ Execute(c) \/ (\E action \in Actions : Recover(c, action))
         \/ Drive(c) \/ Discard(c) \/ Initialize(c) \/ Inspect(c) \/ VerifyReport(c) \/ Resume(c)
         \/ RestoreRef(c) \/ ResetIndex(c) \/ ReadTree(c) \/ Apply(c) \/ CommitTree(c)
         \/ Advance(c) \/ Refuse(c) \/ Fault(c) \/ TakeLock(c) \/ InitExits(c) \/ FsckExits(c)
         \/ ReadTreeExits(c) \/ ApplyExits(c) \/ CommitTreeExits(c)
  PROVE  UNCHANGED Run!vars
<1>1. UNCHANGED <<published, record, head>>
  BY DEF Execute, Recover, Drive, Discard, Initialize, Inspect, VerifyReport, Resume,
     RestoreRef,
     ResetIndex, ReadTree, Apply, CommitTree, Advance, Refuse, Fault, CommandFails, Die, TakeLock,
     InitExits, FsckExits, ReadTreeExits, ApplyExits, CommitTreeExits, Exits, disk
<1> QED
  BY <1>1 DEF Run!vars, life

\* The initial state maps to the initial state of PrivateRun.
LEMMA PromiseInit == Init => Run!Init
BY DEF Init, Run!Init, life

\* Every step maps to a step of PrivateRun or leaves its variables alone.
LEMMA PromiseStep == IInv /\ IInv' /\ [Next]_vars => [Run!Next]_(Run!vars)
<1> SUFFICES ASSUME IInv, IInv', [Next]_vars PROVE Run!Next \/ UNCHANGED Run!vars
  OBVIOUS
<1> USE NAssumption
<1>1. CASE UNCHANGED vars
  BY <1>1 DEF vars, disk, Run!vars, life
<1>2. ASSUME NEW c \in Coordinator, Publish(c) PROVE Run!Next \/ UNCHANGED Run!vars
  BY <1>2 DEF IInv, DiskInv, Publish, Save, State, life, Run!Next, Run!Publish
<1>3. ASSUME NEW c \in Coordinator, Rename(c) \/ Seal(c) \/ Mark(c)
      PROVE  UNCHANGED Run!vars
  <2>1. Holder(c) /\ DiskInv /\ published /\ UNCHANGED <<published, head>>
    BY <1>3 DEF IInv, Holder, Rename, Seal, Mark, At, InBootstrap, DiskInv
  <2>2. /\ record.phase \notin {"completed", "aborting", "aborted"}
        /\ record'.phase \notin {"completed", "aborting", "aborted"}
    BY <1>3, <2>1 DEF Rename, Seal, Mark, At, Save, State, Holder, InBootstrap, InLoop, DiskInv,
       TerminalState
  <2> QED
    BY <2>1, <2>2 DEF Run!vars, life
<1>4. ASSUME NEW c \in Coordinator, Abort(c) PROVE Run!Next
  <2>1. published /\ published' /\ record'.phase = "aborting" /\ head' = head
    BY <1>4 DEF IInv, Holder, Abort, At, Save, State
  <2>2. life # "absent" /\ life' = "aborting"
    BY <2>1 DEF life
  <2> QED
    BY <2>1, <2>2 DEF Run!Next, Run!GiveUp
<1>5. ASSUME NEW c \in Coordinator, Aborted(c) PROVE Run!Next
  <2>1. /\ published /\ published' /\ record.phase = "aborting" /\ record'.phase = "aborted"
        /\ head = 0 /\ head' = head
    BY <1>5 DEF IInv, Holder, InAbort, Aborted, At, Save, State
  <2>2. life = "aborting" /\ life' = "aborted"
    BY <2>1 DEF life
  <2> QED
    BY <2>1, <2>2 DEF Run!Next, Run!Seal
<1>6. ASSUME NEW c \in Coordinator, Note(c) \/ Finish(c) PROVE Run!Next \/ UNCHANGED Run!vars
  <2>1. /\ published /\ published' /\ head' = head /\ record'.phase \in {"ready", "completed"}
        /\ record.phase \in {"ready", "applying", "completed"}
        /\ record'.phase = "completed" => head = N
        /\ record'.phase = "ready" => record.phase = "applying"
    BY <1>6 DEF IInv, TypeOK, Holder, InLoop, Note, NextIndex, Finish, At, Save, State
  <2>2. CASE record'.phase = "completed" /\ record.phase # "completed"
    BY <2>1, <2>2 DEF life, Run!Next, Run!Complete
  <2>3. CASE record'.phase = "completed" /\ record.phase = "completed"
    BY <2>1, <2>3 DEF life, Run!vars
  <2>4. CASE record'.phase = "ready"
    BY <2>1, <2>4 DEF life, Run!vars
  <2> QED
    BY <2>1, <2>2, <2>3, <2>4
<1>7. ASSUME NEW c \in Coordinator, UpdateRefExits(c) PROVE Run!Next
  <2>1. ChildInv(c) /\ child[c].name = "update-ref" /\ HasChild(c) /\ head' = child[c].to
        /\ UNCHANGED <<published, record>>
    BY <1>7, NoCmdFields DEF IInv, UpdateRefExits, Exits, HasChild
  <2>2. published /\ head \in 0..N /\ head' \in 0..N
    BY <2>1 DEF ChildInv, IInv, TypeOK
  <2>3. CASE record.phase = "applying" /\ head' = head + 1
    BY <2>1, <2>2, <2>3 DEF life, Run!Next, Run!Advance
  <2>4. CASE record.phase = "aborting" /\ head' = 0
    BY <2>1, <2>2, <2>4 DEF life, Run!Next, Run!Restore
  <2> QED
    BY <2>1, <2>3, <2>4 DEF ChildInv, State
<1>8. CASE Next
  BY <1>8, <1>2, <1>3, <1>4, <1>5, <1>6, <1>7, Unseen DEF Next, Coordinate, Git
<1> QED
  BY <1>1, <1>8

\* However coordinators and Git commands interleave and die, the directory
\* behaves as PrivateRun says: one admitted operation at a time, complete only
\* at the last, and given up for good.
THEOREM Refinement == Spec => Promise
BY Invariance, PromiseInit, PromiseStep, PTL DEF Spec, Promise, Run!Spec
=============================================================================
