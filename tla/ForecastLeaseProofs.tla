------------------------- MODULE ForecastLeaseProofs -------------------------
(***************************************************************************)
(* What ForecastLease keeps for any number of workers, processes, calls    *)
(* and deaths: its types whatever happens, and one container at a time     *)
(* where no two workers share a process or no write of the lease fails.    *)
(***************************************************************************)
EXTENDS ForecastLease, TLAPS

-----------------------------------------------------------------------------
(* Types.                                                                  *)

LEMMA TypeInit == Init => TypeOK
BY HomeAssumption, NumberAssumption, NoneAssumption, BoundAssumption
   DEF Init, TypeOK, No, Records, Steps, Answers

\* A cell of the descriptor table is replaced.
LEMMA TableType ==
  ASSUME NEW t \in [Process -> [Number -> Worker \cup {None}]],
         NEW p \in Process, NEW n \in Number, NEW x \in Worker \cup {None}
  PROVE  /\ [t EXCEPT ![p][n] = x] \in [Process -> [Number -> Worker \cup {None}]]
         /\ \A q \in Process, m \in Number :
              [t EXCEPT ![p][n] = x][q][m] = IF q = p /\ m = n THEN x ELSE t[q][m]
<1>1. t[p] \in [Number -> Worker \cup {None}]
  OBVIOUS
<1>2. [t[p] EXCEPT ![n] = x] \in [Number -> Worker \cup {None}]
  BY <1>1
<1> QED BY <1>1, <1>2

LEMMA ForecastType ==
  ASSUME TypeOK, NEW w \in Worker, Forecast(w) PROVE TypeOK'
BY HomeAssumption, NumberAssumption, NoneAssumption, BoundAssumption
   DEF TypeOK, Records, Steps, Answers, lease, self, engine, bounds, Forecast, Working, Goto, At, Fails, Cleaned

LEMMA CloseType ==
  ASSUME TypeOK, NEW w \in Worker, Close(w) PROVE TypeOK'
BY HomeAssumption, NumberAssumption, NoneAssumption, BoundAssumption
   DEF TypeOK, Records, Steps, Answers, lease, self, engine, bounds, Close, Goto, At, Cleaned

LEMMA AcquireType ==
  ASSUME TypeOK, NEW w \in Worker, Acquire(w) PROVE TypeOK'
<1>1. table' \in [Process -> [Number -> Worker \cup {None}]]
  <2>1. CASE \E n \in Number : table' = [table EXCEPT ![Home[w]][n] = w]
    BY <2>1, TableType, HomeAssumption DEF TypeOK
  <2>2. CASE table' = table
    BY <2>2 DEF TypeOK
  <2> QED BY <2>1, <2>2 DEF Acquire
<1>2. holder' \in Worker \cup {None} /\ fd' \in [Worker -> Number \cup {0}]
  <2>1. CASE \E n \in Number : holder' = w /\ fd' = [fd EXCEPT ![w] = n]
    BY <2>1 DEF TypeOK
  <2>2. CASE UNCHANGED <<holder, fd>>
    BY <2>2 DEF TypeOK
  <2> QED BY <2>1, <2>2 DEF Acquire
<1>3. pc' \in [Worker -> Steps]
  BY DEF TypeOK, Acquire, Goto, Steps
<1> QED BY <1>1, <1>2, <1>3 DEF TypeOK, Acquire, self, engine, bounds

LEMMA MarkType ==
  ASSUME TypeOK, NEW w \in Worker, Mark(w) PROVE TypeOK'
<1>1. table' \in [Process -> [Number -> Worker \cup {None}]]
  <2>1. CASE Valid(w) /\ Shut(w)
    <3>1. fd[w] \in Number /\ Home[w] \in Process
      BY <2>1, HomeAssumption DEF Valid, TypeOK
    <3> QED BY <2>1, <3>1, TableType DEF TypeOK, Shut
  <2>2. CASE UNCHANGED table
    BY <2>2 DEF TypeOK
  <2> QED BY <2>1, <2>2 DEF Mark, lease
<1>2. holder' \in Worker \cup {None} /\ fd' \in [Worker -> Number \cup {0}]
  BY DEF TypeOK, Mark, Shut, lease
<1>3. pc' \in [Worker -> Steps]
  BY DEF TypeOK, Mark, Goto, Steps
<1>4. record' \in Records
  BY DEF TypeOK, Mark, Writes, Records, lease
<1> QED BY <1>1, <1>2, <1>3, <1>4 DEF TypeOK, Mark, self, engine, bounds

LEMMA AdmitType ==
  ASSUME TypeOK, NEW w \in Worker, Admit(w) PROVE TypeOK'
BY HomeAssumption, NumberAssumption, NoneAssumption, BoundAssumption
   DEF TypeOK, Records, Steps, Answers, lease, self, engine, bounds, Admit, Goto, At, End, Fail, Fails, Cleaned

LEMMA CreateType ==
  ASSUME TypeOK, NEW w \in Worker, Create(w) PROVE TypeOK'
BY HomeAssumption, NumberAssumption, NoneAssumption, BoundAssumption
   DEF TypeOK, Records, Steps, Answers, lease, self, engine, bounds, Create, Goto, At, End, Fail, Fails, Cleaned

LEMMA EngineCreatesType ==
  ASSUME TypeOK, NEW w \in Worker, EngineCreates(w) PROVE TypeOK'
BY HomeAssumption, NumberAssumption, NoneAssumption, BoundAssumption
   DEF TypeOK, Records, Steps, Answers, lease, self, engine, bounds, EngineCreates, Cleaned

LEMMA RunType ==
  ASSUME TypeOK, NEW w \in Worker, Run(w) PROVE TypeOK'
BY HomeAssumption, NumberAssumption, NoneAssumption, BoundAssumption
   DEF TypeOK, Records, Steps, Answers, lease, self, engine, bounds, Run, Goto, At, End, Fail, Fails, Cleaned

LEMMA PredictType ==
  ASSUME TypeOK, NEW w \in Worker, Predict(w) PROVE TypeOK'
BY HomeAssumption, NumberAssumption, NoneAssumption, BoundAssumption
   DEF TypeOK, Records, Steps, Answers, lease, self, engine, bounds, Predict, Goto, At, End, Fail, Fails, Cleaned

LEMMA RemoveType ==
  ASSUME TypeOK, NEW w \in Worker, Remove(w) PROVE TypeOK'
BY HomeAssumption, NumberAssumption, NoneAssumption, BoundAssumption
   DEF TypeOK, Records, Steps, Answers, lease, self, engine, bounds, Remove, Goto, At, Fails, Cleaned

LEMMA WaitType ==
  ASSUME TypeOK, NEW w \in Worker, Wait(w) PROVE TypeOK'
BY HomeAssumption, NumberAssumption, NoneAssumption, BoundAssumption
   DEF TypeOK, Records, Steps, Answers, lease, self, engine, bounds, Wait, Goto, At, End, Concludes, Fails, Cleaned

LEMMA ReleaseLeaseType ==
  ASSUME TypeOK, NEW w \in Worker, ReleaseLease(w) PROVE TypeOK'
<1>1. table' \in [Process -> [Number -> Worker \cup {None}]]
  <2>1. CASE Valid(w) /\ Shut(w)
    <3>1. fd[w] \in Number /\ Home[w] \in Process
      BY <2>1, HomeAssumption DEF Valid, TypeOK
    <3> QED BY <2>1, <3>1, TableType DEF TypeOK, Shut
  <2>2. CASE UNCHANGED table
    BY <2>2 DEF TypeOK
  <2> QED BY <2>1, <2>2 DEF ReleaseLease, lease
<1>2. holder' \in Worker \cup {None} /\ fd' \in [Worker -> Number \cup {0}]
  BY DEF TypeOK, ReleaseLease, Shut, lease
<1>3. \E clean \in BOOLEAN : Concludes(w, clean)
  BY DEF ReleaseLease, TypeOK
<1>4. /\ pc' \in [Worker -> Steps] /\ answer' \in [Worker -> Answers]
      /\ closed' \in [Worker -> BOOLEAN]
  BY <1>3 DEF TypeOK, Concludes, End, Goto, Steps, Answers
<1>5. record' \in Records
  BY DEF TypeOK, ReleaseLease, Writes, Says, Records, lease
<1> QED BY <1>1, <1>2, <1>4, <1>5 DEF TypeOK, ReleaseLease, engine, bounds

LEMMA KillType ==
  ASSUME TypeOK, NEW p \in Process, Kill(p) PROVE TypeOK'
BY HomeAssumption, NumberAssumption, NoneAssumption, BoundAssumption
   DEF TypeOK, Records, Steps, Answers, lease, self, engine, bounds, Kill, Residents, Torn, Valid, Says, Cleaned

LEMMA StutterType == ASSUME TypeOK, UNCHANGED vars PROVE TypeOK'
BY DEF TypeOK, vars, lease, self, engine, bounds

LEMMA NextType == ASSUME TypeOK, [Next]_vars PROVE TypeOK'
<1>1. CASE UNCHANGED vars
  BY <1>1, StutterType
<1>2. CASE \E w \in Worker :
       \/ Forecast(w) \/ Close(w) \/ Acquire(w) \/ Mark(w) \/ Admit(w) \/ Create(w)
       \/ EngineCreates(w) \/ Run(w) \/ Predict(w) \/ Remove(w) \/ Wait(w) \/ ReleaseLease(w)
  BY <1>2, ForecastType, CloseType, AcquireType, MarkType, AdmitType, CreateType,
     EngineCreatesType, RunType, PredictType, RemoveType, WaitType, ReleaseLeaseType
<1>3. CASE \E p \in Process : Kill(p)
  BY <1>3, KillType
<1> QED BY <1>1, <1>2, <1>3 DEF Next

\* The state keeps its types.
THEOREM Typing == Spec => []TypeOK
<1>1. TypeOK /\ [Next]_vars => TypeOK'
  BY NextType
<1> QED BY TypeInit, <1>1, PTL DEF Spec

-----------------------------------------------------------------------------
(* The lease.                                                              *)

\* The number of a live worker stands for its own lease, or for nothing.
LEMMA OwnLease ==
  ASSUME TypeOK, Descriptors, Sheltered, NEW w \in Worker, Lives(w), Valid(w)
  PROVE  Opened(w) = w /\ holder = w
<1>1. fd[w] \in Number /\ Home[w] \in Process
  BY HomeAssumption DEF Valid, TypeOK
<1>2. /\ Opened(w) \in Worker /\ Home[Opened(w)] = Home[w]
      /\ holder = Opened(w)
  BY <1>1 DEF Valid, Opened, TypeOK, Descriptors
<1>3. Opened(w) = w
  BY <1>1, <1>2 DEF Valid, Opened, Descriptors, Sheltered
<1> QED BY <1>2, <1>3

\* When a live worker shuts its lease, nobody has one open.
LEMMA ShutLease ==
  ASSUME TypeOK, Descriptors, Sheltered, NEW w \in Worker, Lives(w), Valid(w), Shut(w)
  PROVE  holder' = None /\ \A p \in Process, n \in Number : table'[p][n] = None
<1>1. fd[w] \in Number /\ Home[w] \in Process
  BY HomeAssumption DEF Valid, TypeOK
<1>2. Opened(w) = w /\ holder = w
  BY OwnLease
<1>3. \A q \in Process, m \in Number :
        table'[q][m] = IF q = Home[w] /\ m = fd[w] THEN None ELSE table[q][m]
  BY <1>1, TableType DEF Shut, TypeOK
<1>4. ASSUME NEW p \in Process, NEW n \in Number, table[p][n] # None
      PROVE  p = Home[w] /\ n = fd[w]
  BY <1>2, <1>4 DEF Descriptors
<1> QED BY <1>2, <1>3, <1>4 DEF Shut

LEMMA AcquireDescriptors ==
  ASSUME TypeOK, Descriptors, NEW w \in Worker, Acquire(w) PROVE Descriptors'
<1>1. CASE UNCHANGED <<table, holder, fd>>
  BY <1>1 DEF Descriptors, Acquire, Lives
<1>2. CASE \E n \in Number :
        /\ holder = None /\ table' = [table EXCEPT ![Home[w]][n] = w]
        /\ holder' = w /\ fd' = [fd EXCEPT ![w] = n]
  <2>1. PICK n \in Number :
        /\ holder = None /\ table' = [table EXCEPT ![Home[w]][n] = w]
        /\ holder' = w /\ fd' = [fd EXCEPT ![w] = n]
    BY <1>2
  <2>2. Home[w] \in alive /\ alive' = alive /\ Home[w] \in Process /\ w # None /\ n # 0
    BY HomeAssumption, NoneAssumption, NumberAssumption DEF Acquire, At
  <2>3. \A p \in Process, m \in Number : table[p][m] = None
    BY <2>1 DEF Descriptors
  <2>4. \A p \in Process, m \in Number :
          table'[p][m] = IF p = Home[w] /\ m = n THEN w ELSE None
    BY <2>1, <2>2, <2>3, TableType DEF TypeOK
  <2>5. \A v \in Worker : fd'[v] = IF v = w THEN n ELSE fd[v]
    BY <2>1 DEF TypeOK
  <2>6. ASSUME "disk" \notin Trouble, NEW v \in Worker, v # w, fd[v] # 0, Lives(v) PROVE FALSE
    <3>1. fd[v] \in Number /\ Home[v] \in Process /\ v # None
      BY <2>6, HomeAssumption, NoneAssumption DEF TypeOK
    <3> QED BY <2>3, <2>6, <3>1 DEF Descriptors
  <2> QED BY <2>1, <2>2, <2>4, <2>5, <2>6 DEF Descriptors, Lives
<1> QED BY <1>1, <1>2 DEF Acquire, Available

LEMMA MarkDescriptors ==
  ASSUME TypeOK, Descriptors, Sheltered, NEW w \in Worker, Mark(w) PROVE Descriptors'
<1>1. CASE UNCHANGED <<table, holder, fd>>
  BY <1>1 DEF Descriptors, Mark, Lives
<1>2. CASE Valid(w) /\ Shut(w) /\ Writes(w, "pending", FALSE) /\ UNCHANGED fd
  <2>1. holder' = None /\ \A p \in Process, n \in Number : table'[p][n] = None
    BY <1>2, ShutLease DEF Mark, At, Lives
  <2>2. "disk" \in Trouble
    BY <1>2 DEF Writes
  <2> QED BY <2>1, <2>2 DEF Descriptors
<1> QED BY <1>1, <1>2 DEF Mark, lease

LEMMA ReleaseLeaseDescriptors ==
  ASSUME TypeOK, Descriptors, Sheltered, NEW w \in Worker, ReleaseLease(w) PROVE Descriptors'
<1>1. CASE UNCHANGED <<table, holder, fd>>
  BY <1>1 DEF Descriptors, ReleaseLease, Lives
<1>2. CASE Valid(w) /\ Shut(w) /\ fd' = [fd EXCEPT ![w] = 0]
  <2>1. holder' = None /\ \A p \in Process, n \in Number : table'[p][n] = None
    BY <1>2, ShutLease DEF ReleaseLease, At, Lives
  <2>2. holder = w /\ alive' = alive
    BY <1>2, OwnLease DEF ReleaseLease, At, Lives
  <2>3. \A v \in Worker : fd'[v] = IF v = w THEN 0 ELSE fd[v]
    BY <1>2 DEF TypeOK
  <2>4. ASSUME "disk" \notin Trouble, NEW v \in Worker, v # w, fd[v] # 0, Lives(v) PROVE FALSE
    <3>1. fd[v] \in Number /\ Home[v] \in Process /\ v # None
      BY <2>4, HomeAssumption, NoneAssumption DEF TypeOK
    <3> QED BY <2>2, <2>4, <3>1 DEF Descriptors
  <2> QED BY <2>1, <2>2, <2>3, <2>4 DEF Descriptors, Lives
<1> QED BY <1>1, <1>2 DEF ReleaseLease, lease

LEMMA KillDescriptors ==
  ASSUME TypeOK, Descriptors, NEW p \in Process, Kill(p) PROVE Descriptors'
<1>1. \A q \in Process, n \in Number : table'[q][n] = IF q = p THEN None ELSE table[q][n]
  BY DEF Kill, TypeOK
<1>2. alive' = alive \ {p} /\ fd' = fd
  BY DEF Kill
<1>3. holder' # None => holder' = holder /\ Home[holder] # p
  <2>1. SUFFICES ASSUME holder' # None PROVE holder' = holder /\ Home[holder] # p
    OBVIOUS
  <2>2. holder' = holder /\ holder \in Worker /\ \A n \in Number : table[p][n] # holder
    BY <2>1 DEF Kill, TypeOK
  <2>3. fd[holder] \in Number /\ table[Home[holder]][fd[holder]] = holder
    BY <2>1, <2>2 DEF Descriptors, TypeOK
  <2> QED BY <2>2, <2>3
<1>4. ASSUME NEW q \in Process, NEW n \in Number, q # p, table[q][n] # None
      PROVE  holder' = holder
  <2>1. table[q][n] = holder /\ Home[holder] = q /\ holder # None
    BY <1>4 DEF Descriptors
  <2>2. \A m \in Number : table[p][m] # holder
    BY <1>4, <2>1 DEF Descriptors
  <2> QED BY <2>2 DEF Kill
<1> QED BY <1>1, <1>2, <1>3, <1>4, HomeAssumption, NoneAssumption DEF Descriptors, Lives, TypeOK

-----------------------------------------------------------------------------
(* Containers.                                                             *)

LEMMA ForecastContainers ==
  ASSUME IInv, Sheltered, NEW w \in Worker, Forecast(w)
  PROVE  Claimed' /\ Known' /\ Finished'
<1> USE NoneAssumption, HomeAssumption
<1>1. Claimed'
  BY DEF IInv, TypeOK, Claimed, Claims, Owed, Lives, Cleaned, Known, Finished, lease, self, engine, bounds, Forecast, Working, Goto, At, Fails
<1>2. Known'
  BY DEF IInv, TypeOK, Claimed, Claims, Owed, Lives, Cleaned, Known, lease, self, engine, bounds, Forecast, Working, Goto, At, Fails
<1>3. Finished'
  BY DEF IInv, TypeOK, Claimed, Owed, Lives, Cleaned, Known, Finished, lease, self, engine, bounds, Forecast, Working, Goto, At, Fails
<1> QED BY <1>1, <1>2, <1>3

LEMMA CloseContainers ==
  ASSUME IInv, Sheltered, NEW w \in Worker, Close(w)
  PROVE  Claimed' /\ Known' /\ Finished'
<1> USE NoneAssumption, HomeAssumption
<1>1. Claimed'
  BY DEF IInv, TypeOK, Claimed, Claims, Owed, Lives, Cleaned, Known, Finished, lease, self, engine, bounds, Close, Goto, At
<1>2. Known'
  BY DEF IInv, TypeOK, Claimed, Claims, Owed, Lives, Cleaned, Known, lease, self, engine, bounds, Close, Goto, At
<1>3. Finished'
  BY DEF IInv, TypeOK, Claimed, Owed, Lives, Cleaned, Known, Finished, lease, self, engine, bounds, Close, Goto, At
<1> QED BY <1>1, <1>2, <1>3

LEMMA AcquireContainers ==
  ASSUME IInv, Sheltered, NEW w \in Worker, Acquire(w)
  PROVE  Claimed' /\ Known' /\ Finished'
<1> USE NoneAssumption, HomeAssumption
<1>1. Claimed'
  BY DEF IInv, TypeOK, Claimed, Claims, Owed, Lives, Cleaned, Known, Finished, lease, self, engine, bounds, Acquire, Goto, At, Available, Lowest, Free
<1>2. Known'
  BY DEF IInv, TypeOK, Claimed, Claims, Owed, Lives, Cleaned, Known, lease, self, engine, bounds, Acquire, Goto, At, Available, Lowest, Free
<1>3. Finished'
  BY DEF IInv, TypeOK, Claimed, Owed, Lives, Cleaned, Known, Finished, lease, self, engine, bounds, Acquire, Goto, At, Available, Lowest, Free
<1> QED BY <1>1, <1>2, <1>3

LEMMA MarkContainers ==
  ASSUME IInv, Sheltered, NEW w \in Worker, Mark(w)
  PROVE  Claimed' /\ Known' /\ Finished'
<1> USE NoneAssumption, HomeAssumption
<1>1. Claimed'
  BY DEF IInv, TypeOK, Claimed, Claims, Owed, Lives, Cleaned, Known, Finished, lease, self, engine, bounds, Mark, Goto, At, Valid, Writes, Shut, Opened
<1>2. Known'
  BY DEF IInv, TypeOK, Claimed, Claims, Owed, Lives, Cleaned, Known, lease, self, engine, bounds, Mark, Goto, At, Valid, Writes, Shut, Opened
<1>3. Finished'
  <2>1. /\ pc[w] = "mark" /\ \A v \in Worker : v # w => pc'[v] = pc[v]
        /\ UNCHANGED <<closed, container, unconfirmed, exists, pending>>
    BY DEF IInv, TypeOK, Mark, At, Goto, self, engine
  <2>2. ~closed[w]
    BY <2>1 DEF IInv, Finished
  <2> QED BY <2>1, <2>2 DEF IInv, Finished, Owed, Cleaned
<1> QED BY <1>1, <1>2, <1>3

LEMMA AdmitContainers ==
  ASSUME IInv, Sheltered, NEW w \in Worker, Admit(w)
  PROVE  Claimed' /\ Known' /\ Finished'
<1> USE NoneAssumption, HomeAssumption
<1>1. Claimed'
  BY DEF IInv, TypeOK, Claimed, Claims, Owed, Lives, Cleaned, Known, Finished, lease, self, engine, bounds, Admit, Goto, At, End, Fail, Fails
<1>2. Known'
  <2>1. /\ pc[w] = "admit" /\ Lives(w)
        /\ UNCHANGED <<alive, container, exists, pending, sure>>
        /\ \A v \in Worker : v # w => pc'[v] = pc[v] /\ unconfirmed'[v] = unconfirmed[v]
    BY DEF Admit, At, Lives, Fail, Goto, End, IInv, TypeOK, engine
  <2>2. w \notin Owed /\ ~container[w]
    BY <2>1 DEF IInv, Claimed
  <2>3. pc'[w] \in {"create", "remove", "idle"}
    BY DEF Admit, Fail, Goto, End, IInv, TypeOK
  <2> QED BY <2>1, <2>2, <2>3 DEF IInv, Known, Owed, Lives, Cleaned
<1>3. Finished'
  <2>1. /\ pc[w] = "admit"
        /\ \A v \in Worker : v # w => pc'[v] = pc[v] /\ unconfirmed'[v] = unconfirmed[v]
        /\ UNCHANGED <<closed, container, exists, pending>>
    BY DEF IInv, TypeOK, Admit, At, Fail, Goto, End, engine
  <2>2. ~closed[w]
    BY <2>1 DEF IInv, Finished
  <2> QED BY <2>1, <2>2 DEF IInv, Finished, Owed, Cleaned
<1> QED BY <1>1, <1>2, <1>3

LEMMA CreateContainers ==
  ASSUME IInv, Sheltered, NEW w \in Worker, Create(w)
  PROVE  Claimed' /\ Known' /\ Finished'
<1> USE NoneAssumption, HomeAssumption
<1>1. Claimed'
  <2>1. /\ pc[w] = "create" /\ Lives(w) /\ UNCHANGED <<record, holder, alive>>
        /\ pc'[w] \in {"run", "remove", "idle"}
        /\ \A v \in Worker : v # w =>
             pc'[v] = pc[v] /\ container'[v] = container[v] /\ unconfirmed'[v] = unconfirmed[v]
    BY DEF Create, At, Lives, Fail, Goto, End, IInv, TypeOK, lease
  <2>2. holder = w /\ record \in {"pending", "torn"}
    BY <2>1 DEF IInv, Claimed
  <2>3. Claims \subseteq {w} /\ holder # None
    BY <2>2 DEF IInv, Claimed
  <2>4. exists' \cup pending' \subseteq exists \cup pending \cup {w}
    BY DEF Create
  <2>5. Claims' \subseteq Claims \cup {w}
    BY <2>1, <2>4 DEF Claims, Owed, Lives, Cleaned
  <2>6. ASSUME NEW v \in Worker, Lives(v)', v # w
        PROVE  pc'[v] \notin {"mark", "admit", "create"}
    BY <2>1, <2>2, <2>6 DEF IInv, Claimed, Lives
  <2> HIDE DEF Claims
  <2>7. /\ \A u, v \in Claims' : u = v
        /\ Claims' # {} => record' \in {"pending", "torn"}
        /\ holder' # None => Claims' \subseteq {holder'}
    BY <2>1, <2>2, <2>3, <2>5
  <2> QED BY <2>1, <2>6, <2>7 DEF Claimed
<1>2. Known'
  BY DEF IInv, TypeOK, Claimed, Claims, Owed, Lives, Cleaned, Known, lease, self, engine, bounds, Create, Goto, At, End, Fail, Fails
<1>3. Finished'
  BY DEF IInv, TypeOK, Claimed, Owed, Lives, Cleaned, Known, Finished, lease, self, engine, bounds, Create, Goto, At, End, Fail, Fails
<1> QED BY <1>1, <1>2, <1>3

LEMMA EngineCreatesContainers ==
  ASSUME IInv, Sheltered, NEW w \in Worker, EngineCreates(w)
  PROVE  Claimed' /\ Known' /\ Finished'
<1> USE NoneAssumption, HomeAssumption
<1>1. Claimed'
  BY DEF IInv, TypeOK, Claimed, Claims, Owed, Lives, Cleaned, Known, Finished, lease, self, engine, bounds, EngineCreates
<1>2. Known'
  BY DEF IInv, TypeOK, Claimed, Claims, Owed, Lives, Cleaned, Known, lease, self, engine, bounds, EngineCreates
<1>3. Finished'
  BY DEF IInv, TypeOK, Claimed, Owed, Lives, Cleaned, Known, Finished, lease, self, engine, bounds, EngineCreates
<1> QED BY <1>1, <1>2, <1>3

LEMMA RunContainers ==
  ASSUME IInv, Sheltered, NEW w \in Worker, Run(w)
  PROVE  Claimed' /\ Known' /\ Finished'
<1> USE NoneAssumption, HomeAssumption
<1>1. Claimed'
  BY DEF IInv, TypeOK, Claimed, Claims, Owed, Lives, Cleaned, Known, Finished, lease, self, engine, bounds, Run, Goto, At, End, Fail, Fails
<1>2. Known'
  BY DEF IInv, TypeOK, Claimed, Claims, Owed, Lives, Cleaned, Known, lease, self, engine, bounds, Run, Goto, At, End, Fail, Fails
<1>3. Finished'
  BY DEF IInv, TypeOK, Claimed, Owed, Lives, Cleaned, Known, Finished, lease, self, engine, bounds, Run, Goto, At, End, Fail, Fails
<1> QED BY <1>1, <1>2, <1>3

LEMMA PredictContainers ==
  ASSUME IInv, Sheltered, NEW w \in Worker, Predict(w)
  PROVE  Claimed' /\ Known' /\ Finished'
<1> USE NoneAssumption, HomeAssumption
<1>1. Claimed'
  BY DEF IInv, TypeOK, Claimed, Claims, Owed, Lives, Cleaned, Known, Finished, lease, self, engine, bounds, Predict, Goto, At, End, Fail, Fails
<1>2. Known'
  BY DEF IInv, TypeOK, Claimed, Claims, Owed, Lives, Cleaned, Known, lease, self, engine, bounds, Predict, Goto, At, End, Fail, Fails
<1>3. Finished'
  BY DEF IInv, TypeOK, Claimed, Owed, Lives, Cleaned, Known, Finished, lease, self, engine, bounds, Predict, Goto, At, End, Fail, Fails
<1> QED BY <1>1, <1>2, <1>3

LEMMA RemoveContainers ==
  ASSUME IInv, Sheltered, NEW w \in Worker, Remove(w)
  PROVE  Claimed' /\ Known' /\ Finished'
<1> USE NoneAssumption, HomeAssumption
<1>1. Claimed'
  BY DEF IInv, TypeOK, Claimed, Claims, Owed, Lives, Cleaned, Known, Finished, lease, self, engine, bounds, Remove, Goto, At, Fails
<1>2. Known'
  BY DEF IInv, TypeOK, Claimed, Claims, Owed, Lives, Cleaned, Known, lease, self, engine, bounds, Remove, Goto, At, Fails
<1>3. Finished'
  BY DEF IInv, TypeOK, Claimed, Owed, Lives, Cleaned, Known, Finished, lease, self, engine, bounds, Remove, Goto, At, Fails
<1> QED BY <1>1, <1>2, <1>3

LEMMA WaitContainers ==
  ASSUME IInv, Sheltered, NEW w \in Worker, Wait(w)
  PROVE  Claimed' /\ Known' /\ Finished'
<1> USE NoneAssumption, HomeAssumption
<1>1. Claimed'
  BY DEF IInv, TypeOK, Claimed, Claims, Owed, Lives, Cleaned, Known, Finished, lease, self, engine, bounds, Wait, Goto, At, End, Concludes, Fails
<1>2. Known'
  BY DEF IInv, TypeOK, Claimed, Claims, Owed, Lives, Cleaned, Known, lease, self, engine, bounds, Wait, Goto, At, End, Concludes, Fails
<1>3. Finished'
  BY DEF IInv, TypeOK, Claimed, Owed, Lives, Cleaned, Known, Finished, lease, self, engine, bounds, Wait, Goto, At, End, Concludes, Fails
<1> QED BY <1>1, <1>2, <1>3

LEMMA ReleaseLeaseContainers ==
  ASSUME IInv, Sheltered, NEW w \in Worker, ReleaseLease(w)
  PROVE  Claimed' /\ Known' /\ Finished'
<1> USE NoneAssumption, HomeAssumption
<1>1. Claimed'
  <2>1. /\ pc[w] = "release" /\ Lives(w) /\ UNCHANGED <<alive, container, unconfirmed, exists, pending>>
        /\ pc'[w] = "idle" /\ \A v \in Worker : v # w => pc'[v] = pc[v]
    BY DEF ReleaseLease, At, Lives, Concludes, Goto, End, IInv, TypeOK, engine
  <2>2. Claims' = Claims
    BY <2>1 DEF Claims, Owed, Lives, Cleaned
  <2>3. CASE UNCHANGED <<record, holder>>
    BY <2>1, <2>2, <2>3 DEF IInv, Claimed, Owed, Lives
  <2>4. CASE Valid(w) /\ Shut(w) /\ \E done \in BOOLEAN : Writes(w, Says(w), done)
    <3>1. holder = w /\ holder' = None
      BY <2>1, <2>4, OwnLease, ShutLease DEF IInv
    <3>2. Claims \subseteq {w}
      BY <3>1 DEF IInv, Claimed
    <3>3. w \in Claims => record' \in {"pending", "torn"}
      <4>1. w \in Claims => ~Cleaned(w)
        BY <2>1 DEF Claims, IInv, Known
      <4>2. Claims # {} => record \in {"pending", "torn"}
        BY DEF IInv, Claimed
      <4> QED BY <2>4, <4>1, <4>2 DEF Writes, Says
    <3>4. ASSUME NEW v \in Worker, Lives(v) PROVE pc'[v] \notin {"mark", "admit", "create"}
      BY <2>1, <3>1, <3>4 DEF IInv, Claimed
    <3> HIDE DEF Claims
    <3> QED BY <2>1, <2>2, <3>1, <3>2, <3>3, <3>4 DEF Claimed, Lives
  <2> QED BY <2>3, <2>4 DEF ReleaseLease, lease
<1>2. Known'
  BY DEF IInv, TypeOK, Claimed, Claims, Owed, Lives, Cleaned, Known, lease, self, engine, bounds, ReleaseLease, Goto, At, End, Concludes, Valid, Shut, Opened, Writes, Says
<1>3. Finished'
  <2>1. /\ pc[w] = "release" /\ Lives(w) /\ UNCHANGED <<container, unconfirmed, exists, pending>>
        /\ \E clean \in BOOLEAN : Concludes(w, clean) /\ (clean => sure[w])
    BY DEF ReleaseLease, At, Lives, IInv, TypeOK, engine
  <2>2. /\ closed'[w] => closed[w] \/ sure[w]
        /\ pc'[w] = "idle"
        /\ \A v \in Worker : v # w => closed'[v] = closed[v] /\ pc'[v] = pc[v]
    BY <2>1 DEF Concludes, Goto, End, IInv, TypeOK
  <2>3. sure[w] => Cleaned(w) /\ w \notin Owed
    BY <2>1 DEF IInv, Known
  <2> QED BY <2>1, <2>2, <2>3 DEF IInv, Finished, Owed, Cleaned
<1> QED BY <1>1, <1>2, <1>3

LEMMA KillContainers ==
  ASSUME IInv, Sheltered, NEW p \in Process, Kill(p)
  PROVE  Claimed' /\ Known' /\ Finished'
<1> USE NoneAssumption, HomeAssumption
<1>1. Claimed'
  <2>1. /\ UNCHANGED <<pc, container, unconfirmed, exists, fd>> /\ alive' = alive \ {p}
        /\ holder' \in {holder, None}
        /\ pending' \subseteq pending \cup {v \in Residents(p) : pc[v] = "create"}
    BY DEF Kill, self
  <2>2. \A v \in Worker : Lives(v)' <=> Lives(v) /\ Home[v] # p
    BY <2>1 DEF Lives
  <2>3. Claims' \subseteq Claims
    <3>1. \A v \in Residents(p) : pc[v] = "create" => ~Cleaned(v) /\ Lives(v) /\ v \in Worker
      BY DEF IInv, Claimed, Residents, Kill, Lives, Cleaned
    <3> QED BY <2>1, <2>2, <3>1 DEF Claims, Owed, Cleaned
  <2>4. ASSUME NEW v \in Residents(p), record' \in Torn(v), record' # record
        PROVE  holder = v /\ pc[v] \in {"mark", "release"} /\ record' \in {"pending", "torn", Says(v)}
    <3>1. Lives(v) /\ v \in Worker
      BY DEF Residents, Kill, Lives
    <3>2. Valid(v) /\ pc[v] \in {"mark", "release"} /\ record' \in {"pending", "torn", Says(v)}
      BY <2>4 DEF Torn
    <3> QED BY <3>1, <3>2, OwnLease DEF IInv
  <2>5. record' # record => \E v \in Residents(p) : record' \in Torn(v)
    BY DEF Kill
  <2>6. Claims # {} => record' \in {"pending", "torn"}
    <3>1. CASE record' = record
      BY <3>1 DEF IInv, Claimed
    <3>2. CASE record' # record
      <4>1. PICK v \in Residents(p) : record' \in Torn(v)
        BY <2>5, <3>2
      <4>2. v \in Worker /\ holder = v /\ Lives(v) /\ record' \in {"pending", "torn", Says(v)}
        BY <2>4, <3>2, <4>1 DEF Residents, Kill, Lives
      <4>3. Claims \subseteq {v}
        BY <4>2 DEF IInv, Claimed
      <4>4. v \in Claims => ~Cleaned(v)
        BY <4>2 DEF Claims, IInv, Known
      <4> QED BY <4>2, <4>3, <4>4 DEF Says
    <3> QED BY <3>1, <3>2
  <2>7. ASSUME NEW v \in Worker, Lives(v), Home[v] # p, pc[v] \in {"mark", "admit", "create"}
        PROVE  holder' = v /\ v \notin Owed' /\ record' = record
    <3>1. holder = v /\ v \notin Owed /\ v # None
      BY <2>7 DEF IInv, Claimed
    <3>2. \A n \in Number : table[p][n] # holder
      BY <2>7, <3>1 DEF IInv, Descriptors
    <3>3. holder' = v
      BY <3>1, <3>2 DEF Kill
    <3>4. record' = record
      BY <2>4, <2>5, <2>7, <3>1 DEF Residents
    <3>5. v \notin Owed'
      BY <2>1, <2>7, <3>1 DEF Owed, Residents
    <3> QED BY <3>3, <3>4, <3>5
  <2>8. /\ \A u, v \in Claims' : u = v
        /\ Claims' # {} => record' \in {"pending", "torn"}
        /\ holder' # None => Claims' \subseteq {holder'}
    <3> HIDE DEF Claims
    <3> QED BY <2>1, <2>3, <2>6 DEF IInv, Claimed
  <2> QED BY <2>1, <2>2, <2>7, <2>8 DEF IInv, Claimed
<1>2. Known'
  BY DEF IInv, TypeOK, Claimed, Claims, Owed, Lives, Cleaned, Known, lease, self, engine, bounds, Kill, Residents, Torn, Valid, Says
<1>3. Finished'
  BY DEF IInv, TypeOK, Claimed, Owed, Lives, Cleaned, Known, Finished, lease, self, engine, bounds, Kill, Residents, Torn, Valid, Says
<1> QED BY <1>1, <1>2, <1>3

-----------------------------------------------------------------------------
(* The invariant.                                                          *)

LEMMA InvariantInit == Init => IInv
<1> SUFFICES ASSUME Init PROVE IInv
  OBVIOUS
<1>1. TypeOK
  BY TypeInit
<1>2. Descriptors /\ Claimed /\ Known /\ Finished
  BY HomeAssumption, NoneAssumption
     DEF Init, No, Descriptors, Claimed, Claims, Owed, Lives, Cleaned, Known, Finished
<1> QED BY <1>1, <1>2 DEF IInv

LEMMA NextDescriptors ==
  ASSUME IInv, Sheltered, Next PROVE Descriptors'
<1>1. TypeOK /\ Descriptors
  BY DEF IInv
<1>2. CASE UNCHANGED <<lease, fd, alive>>
  BY <1>1, <1>2 DEF Descriptors, lease, Lives
<1>3. CASE \E w \in Worker : Acquire(w) \/ Mark(w) \/ ReleaseLease(w)
  BY <1>1, <1>3, AcquireDescriptors, MarkDescriptors, ReleaseLeaseDescriptors
<1>4. CASE \E p \in Process : Kill(p)
  BY <1>1, <1>4, KillDescriptors
<1> QED BY <1>2, <1>3, <1>4
        DEF Next, Forecast, Close, Admit, Create, EngineCreates, Run, Predict, Remove, Wait, lease

LEMMA InvariantNext == ASSUME IInv, Sheltered, [Next]_vars PROVE IInv'
<1>1. TypeOK'
  BY NextType DEF IInv
<1>2. CASE UNCHANGED vars
  BY <1>1, <1>2 DEF IInv, vars, lease, self, engine, bounds, Descriptors, Claimed, Claims,
     Owed, Lives, Cleaned, Known, Finished
<1>3. CASE Next
  <2>1. Descriptors'
    BY <1>3, NextDescriptors
  <2>2. Claimed' /\ Known' /\ Finished'
    BY <1>3, ForecastContainers, CloseContainers, AcquireContainers, MarkContainers, AdmitContainers, CreateContainers, EngineCreatesContainers, RunContainers, PredictContainers, RemoveContainers, WaitContainers, ReleaseLeaseContainers, KillContainers DEF Next
  <2> QED BY <1>1, <2>1, <2>2 DEF IInv
<1> QED BY <1>2, <1>3

\* Descriptors and containers, where workers have processes of their own or
\* the lease can always be written.
THEOREM Invariance == ASSUME Sheltered PROVE Spec => []IInv
<1>1. IInv /\ [Next]_vars => IInv'
  BY InvariantNext
<1> QED BY InvariantInit, <1>1, PTL DEF Spec

\* One container exists, or is asked for, at a time: under the same condition,
\* for any number of workers, processes and deaths.
THEOREM OneAtATime == ASSUME Sheltered PROVE Spec => []OneContainer
<1>1. IInv => OneContainer
  BY DEF IInv, Claimed, Claims, OneContainer
<1> QED BY Invariance, <1>1, PTL

\* A closed worker and a free lease leave no container behind.
THEOREM NothingLeftBehind == ASSUME Sheltered PROVE Spec => []ClosedForGood
<1>1. IInv => ClosedForGood
  BY DEF IInv, Claimed, Claims, Finished, ClosedForGood, Available
<1> QED BY Invariance, <1>1, PTL

-----------------------------------------------------------------------------
(* The workers implement LeaseDebt.                                        *)

Keeps == [Debt!Next]_(Debt!vars)

\* What is owed is owed by one, who holds the lease if anybody does.
LEMMA OwedByOne ==
  ASSUME IInv, NEW w \in Worker, holder = w \/ w \in Owed
  PROVE  Owed \subseteq {w}
BY NoneAssumption DEF IInv, Claimed, Claims

LEMMA TenantClean ==
  ASSUME IInv, NEW w \in Worker, holder = w, Lives(w), Cleaned(w)
  PROVE  Owed = {}
<1>1. w \notin Owed
  BY DEF IInv, Known
<1> QED BY <1>1, OwedByOne

\* Steps that concern neither the lease nor containers.
LEMMA QuietKeeps ==
  ASSUME UNCHANGED <<lease, exists, pending, closed>>
  PROVE  Keeps
BY DEF Keeps, Debt!vars, lease, SaysNow, Owed, Retired

LEMMA AcquireKeeps ==
  ASSUME IInv, NEW w \in Worker, Acquire(w)
  PROVE  Keeps
<1>1. UNCHANGED <<record, exists, pending, closed>> /\ Lives(w) /\ pc[w] = "acquire"
  BY DEF Acquire, At, Lives, self, engine
<1>2. UNCHANGED <<SaysNow, Owed, Retired>>
  BY <1>1 DEF SaysNow, Owed, Retired
<1>3. CASE holder' = holder
  BY <1>2, <1>3 DEF Keeps, Debt!vars
<1>4. CASE holder' # holder
  <2>1. holder = None /\ SaysNow = "free" /\ holder' = w /\ Available
    BY <1>4 DEF Acquire, Available, SaysNow
  <2>2. Owed = {}
    BY <2>1 DEF IInv, Claimed, Claims, Available
  <2>3. w \notin Retired
    BY <1>1 DEF IInv, Finished, Retired
  <2>4. Debt!Take(w)
    BY <1>2, <2>1, <2>2, <2>3 DEF Debt!Take
  <2> QED BY <2>4 DEF Keeps, Debt!Next
<1> QED BY <1>3, <1>4

LEMMA MarkKeeps ==
  ASSUME IInv, Sheltered, NEW w \in Worker, Mark(w)
  PROVE  Keeps
<1>1. /\ UNCHANGED <<Owed, Retired>> /\ Lives(w) /\ pc[w] = "mark" /\ holder = w /\ w # None
  BY NoneAssumption DEF Mark, At, Lives, self, engine, Owed, Retired, IInv, Claimed
<1>2. CASE Valid(w) /\ Writes(w, "pending", TRUE) /\ holder' = holder
  <2>1. SaysNow' = "owing"
    BY <1>2 DEF Writes, SaysNow
  <2>2. Debt!Declare
    BY <1>1, <1>2, <2>1 DEF Debt!Declare
  <2> QED BY <2>2 DEF Keeps, Debt!Next
<1>3. CASE Valid(w) /\ Writes(w, "pending", FALSE) /\ Shut(w)
  <2>1. SaysNow' \in {SaysNow, "owing"}
    BY <1>3 DEF Writes, SaysNow
  <2>2. holder' = None
    BY <1>1, <1>3, ShutLease DEF IInv
  <2>3. Debt!Leave(w)
    BY <1>1, <2>1, <2>2 DEF Debt!Leave, Debt!MayRetire
  <2> QED BY <2>3 DEF Keeps, Debt!Next
<1>4. CASE UNCHANGED lease
  BY <1>1, <1>4 DEF Keeps, Debt!vars, lease, SaysNow
<1> QED BY <1>2, <1>3, <1>4 DEF Mark

\* The container comes, or is asked for, of a tenant whose lease says so.
LEMMA CreateKeeps ==
  ASSUME IInv, NEW w \in Worker, Create(w)
  PROVE  Keeps
<1>1. /\ UNCHANGED <<record, holder, closed>> /\ Lives(w) /\ pc[w] = "create"
      /\ Owed' \in {Owed, Owed \cup {w}}
  BY DEF Create, At, Lives, lease, Owed, Fail
<1>2. UNCHANGED <<SaysNow, Retired>>
  BY <1>1 DEF SaysNow, Retired
<1>3. CASE Owed' = Owed
  BY <1>1, <1>2, <1>3 DEF Keeps, Debt!vars
<1>4. CASE Owed' # Owed
  <2>1. holder = w /\ SaysNow = "owing" /\ w \notin Owed
    BY <1>1 DEF IInv, Claimed, SaysNow
  <2>2. Owed = {} /\ Owed' = {w}
    BY <1>1, <1>4, <2>1, OwedByOne
  <2>3. Debt!Incur(w)
    BY <1>1, <1>2, <2>1, <2>2 DEF Debt!Incur
  <2> QED BY <2>3 DEF Keeps, Debt!Next
<1> QED BY <1>3, <1>4

\* A container is gone, or the engine never makes it.
LEMMA GoneKeeps ==
  ASSUME IInv, NEW w \in Worker, Remove(w) \/ EngineCreates(w)
  PROVE  Keeps
<1>1. UNCHANGED <<lease, closed>>
  BY DEF Remove, EngineCreates, self
<1>2. UNCHANGED <<holder, SaysNow, Retired>>
  BY <1>1 DEF lease, SaysNow, Retired
<1>3. Owed' \in {Owed, Owed \ {w}}
  <2>1. CASE Remove(w)
    <3>1. pending' = pending /\ exists' \in {exists, exists \ {w}} /\ (exists' # exists => container[w] /\ Lives(w))
      BY <2>1 DEF Remove, At, Lives
    <3>2. exists' # exists => w \notin pending
      BY <3>1 DEF IInv, Known
    <3> QED BY <3>1, <3>2 DEF Owed
  <2>2. CASE EngineCreates(w)
    BY <2>2 DEF EngineCreates, Owed
  <2> QED BY <2>1, <2>2
<1>4. CASE Owed' = Owed
  BY <1>2, <1>4 DEF Keeps, Debt!vars
<1>5. CASE Owed' # Owed
  <2>1. Owed = {w} /\ Owed' = {}
    BY <1>3, <1>5, OwedByOne
  <2>2. Debt!Settle
    BY <1>2, <2>1 DEF Debt!Settle
  <2> QED BY <2>2 DEF Keeps, Debt!Next
<1> QED BY <1>4, <1>5

\* A call that ends may close its worker, if it has cleaned up.
LEMMA MayRetireNow ==
  ASSUME IInv, NEW w \in Worker, Lives(w), pc[w] \in {"wait", "release"},
         NEW clean \in BOOLEAN, clean => sure[w], Concludes(w, clean)
  PROVE  Debt!MayRetire(w)
<1>1. CASE Retired' = Retired
  BY <1>1 DEF Debt!MayRetire
<1>2. CASE Retired' # Retired
  <2>1. Retired' = Retired \cup {w} /\ clean
    BY <1>2 DEF Concludes, Retired, IInv, TypeOK
  <2>2. w \notin Owed
    BY <2>1 DEF IInv, Known
  <2> QED BY <2>1, <2>2 DEF Debt!MayRetire
<1> QED BY <1>1, <1>2

LEMMA WaitKeeps ==
  ASSUME IInv, NEW w \in Worker, Wait(w)
  PROVE  Keeps
<1>1. UNCHANGED <<lease, exists, pending>> /\ Lives(w) /\ pc[w] = "wait"
  BY DEF Wait, At, Lives, engine
<1>2. CASE Concludes(w, FALSE)
  <2>1. Debt!MayRetire(w)
    BY <1>1, <1>2, MayRetireNow
  <2>2. Debt!Retire(w)
    BY <1>1, <2>1 DEF Debt!Retire, lease, SaysNow, Owed
  <2> QED BY <2>2 DEF Keeps, Debt!Next
<1>3. CASE UNCHANGED closed
  BY <1>1, <1>3, QuietKeeps
<1> QED BY <1>2, <1>3 DEF Wait

LEMMA ReleaseLeaseKeeps ==
  ASSUME IInv, Sheltered, NEW w \in Worker, ReleaseLease(w)
  PROVE  Keeps
<1>1. UNCHANGED Owed /\ Lives(w) /\ pc[w] = "release" /\ sure[w] \in BOOLEAN
  BY DEF ReleaseLease, At, Lives, engine, Owed, IInv, TypeOK
<1>2. CASE UNCHANGED lease /\ \E clean \in {sure[w], FALSE} : Concludes(w, clean)
  <2>1. Debt!MayRetire(w)
    BY <1>1, <1>2, MayRetireNow
  <2>2. Debt!Retire(w)
    BY <1>1, <1>2, <2>1 DEF Debt!Retire, lease, SaysNow
  <2> QED BY <2>2 DEF Keeps, Debt!Next
<1>3. ASSUME Valid(w), Shut(w), NEW done \in BOOLEAN, Writes(w, Says(w), done), Concludes(w, sure[w] /\ done)
      PROVE  Keeps
  <2>1. holder = w /\ holder' = None
    BY <1>1, <1>3, OwnLease, ShutLease DEF IInv
  <2>2. Debt!MayRetire(w)
    <3>1. (sure[w] /\ done) \in BOOLEAN /\ ((sure[w] /\ done) => sure[w])
      OBVIOUS
    <3> QED BY <1>1, <1>3, <3>1, MayRetireNow
  <2>3. CASE record' = "clean" /\ Cleaned(w)
    <3>1. Owed = {}
      BY <1>1, <2>1, <2>3, TenantClean
    <3>2. Debt!Clear(w)
      BY <1>1, <2>1, <2>2, <2>3, <3>1 DEF Debt!Clear, SaysNow
    <3> QED BY <3>2 DEF Keeps, Debt!Next
  <2>4. CASE record' \in {record, "pending", "torn"}
    <3>1. Debt!Leave(w)
      BY <1>1, <2>1, <2>2, <2>4 DEF Debt!Leave, SaysNow
    <3> QED BY <3>1 DEF Keeps, Debt!Next
  <2> QED BY <1>3, <2>3, <2>4 DEF Writes, Says
<1> QED BY <1>2, <1>3 DEF ReleaseLease

\* A death concerns the lease only when its tenant dies.
LEMMA KillKeeps ==
  ASSUME IInv, Sheltered, NEW p \in Process, Kill(p)
  PROVE  Keeps
<1>1. /\ Retired' = Retired /\ exists' = exists /\ p \in alive
      /\ pending \subseteq pending'
      /\ \A v \in pending' \ pending : v \in Worker /\ Home[v] = p /\ pc[v] = "create"
      /\ record' # record => \E v \in Residents(p) : record' \in Torn(v)
  BY DEF Kill, self, Retired, Residents
<1>2. \A v \in pending' \ pending : holder = v /\ v \notin Owed /\ record \in {"pending", "torn"}
  BY <1>1 DEF IInv, Claimed, Lives
<1>3. ASSUME NEW v \in Residents(p), record' \in Torn(v), record' # record
      PROVE  holder = v /\ pc[v] # "create" /\ record' \in {"pending", "torn", Says(v)}
  <2>1. Lives(v) /\ v \in Worker
    BY <1>1 DEF Residents, Lives
  <2>2. Valid(v) /\ pc[v] \in {"mark", "release"} /\ record' \in {"pending", "torn", Says(v)}
    BY <1>3 DEF Torn
  <2> QED BY <2>1, <2>2, OwnLease DEF IInv
<1>4. CASE \E v \in Residents(p) : holder = v
  <2>1. PICK v \in Worker : Home[v] = p /\ holder = v
    BY <1>4 DEF Residents
  <2>2. Lives(v) /\ v # None /\ holder' = None
    <3>1. fd[v] \in Number /\ table[p][fd[v]] = v
      BY <2>1, NoneAssumption DEF IInv, Descriptors, TypeOK
    <3> QED BY <1>1, <2>1, <3>1, NoneAssumption DEF Kill, Lives
  <2>3. CASE pending' = pending /\ SaysNow' \in {SaysNow, "owing"}
    <3>1. Debt!Leave(v)
      BY <1>1, <2>1, <2>2, <2>3 DEF Debt!Leave, Debt!MayRetire, Owed
    <3> QED BY <3>1 DEF Keeps, Debt!Next
  <2>4. CASE pending' = pending /\ SaysNow' \notin {SaysNow, "owing"}
    <3>1. record' # record /\ record' \in {"empty", "clean"} /\ SaysNow' = "free"
      BY <2>4 DEF SaysNow
    <3>2. PICK u \in Residents(p) : holder = u /\ record' \in {"pending", "torn", Says(u)}
      BY <1>1, <1>3, <3>1
    <3>3. Cleaned(v)
      BY <2>1, <3>1, <3>2 DEF Says
    <3>4. Owed = {}
      BY <2>1, <2>2, <3>3, TenantClean
    <3>5. Debt!Clear(v)
      BY <1>1, <2>1, <2>2, <2>4, <3>1, <3>4 DEF Debt!Clear, Debt!MayRetire, Owed
    <3> QED BY <3>5 DEF Keeps, Debt!Next
  <2>5. CASE pending' # pending
    <3>1. /\ pending' = pending \cup {v} /\ v \notin Owed /\ record \in {"pending", "torn"} /\ pc[v] = "create"
      BY <1>1, <1>2, <2>1, <2>5
    <3>2. record' = record
      BY <1>1, <1>3, <2>1, <3>1
    <3>3. Owed = {} /\ Owed' = {v}
      <4>1. Owed = {}
        BY <2>1, <3>1, OwedByOne
      <4> QED BY <1>1, <3>1, <4>1 DEF Owed
    <3>4. Debt!Incur(v)
      BY <1>1, <2>1, <2>2, <3>1, <3>2, <3>3 DEF Debt!Incur, SaysNow
    <3> QED BY <3>4 DEF Keeps, Debt!Next
  <2> QED BY <2>3, <2>4, <2>5
<1>5. CASE ~\E v \in Residents(p) : holder = v
  <2>1. record' = record /\ pending' = pending
    BY <1>1, <1>2, <1>3, <1>5 DEF Residents
  <2>2. holder' = holder
    <3>1. CASE holder = None
      BY <3>1 DEF Kill
    <3>2. CASE holder # None
      <4>1. \A n \in Number : table[p][n] # holder
        BY <1>5, <3>2 DEF IInv, TypeOK, Descriptors, Residents
      <4> QED BY <4>1 DEF Kill
    <3> QED BY <3>1, <3>2
  <2> QED BY <1>1, <2>1, <2>2 DEF Keeps, Debt!vars, SaysNow, Owed
<1> QED BY <1>4, <1>5

\* Under the same condition the workers, their descriptors, their failing
\* clients and their deaths are one tenant after the other, who owes at most
\* one container and leaves a lease that says so.
THEOREM Refinement == ASSUME Sheltered PROVE Spec => Promise
<1>1. Init => Debt!Init
  BY DEF Init, Debt!Init, SaysNow, Owed, Retired, No
<1>2. IInv /\ [Next]_vars => [Debt!Next]_(Debt!vars)
  <2> SUFFICES ASSUME IInv, [Next]_vars PROVE Keeps
    BY DEF Keeps
  <2>1. ASSUME NEW w \in Worker,
               Forecast(w) \/ Close(w) \/ Admit(w) \/ Run(w) \/ Predict(w)
        PROVE  Keeps
    BY <2>1, QuietKeeps DEF Forecast, Close, Admit, Run, Predict, self, engine
  <2>2. ASSUME NEW w \in Worker,
               \/ Acquire(w) \/ Mark(w) \/ Create(w) \/ EngineCreates(w)
               \/ Remove(w) \/ Wait(w) \/ ReleaseLease(w)
        PROVE  Keeps
    BY <2>2, AcquireKeeps, MarkKeeps, CreateKeeps, GoneKeeps, WaitKeeps, ReleaseLeaseKeeps
  <2>3. ASSUME NEW p \in Process, Kill(p) PROVE Keeps
    BY <2>3, KillKeeps
  <2>4. CASE UNCHANGED vars
    BY <2>4, QuietKeeps DEF vars, self, engine
  <2> QED BY <2>1, <2>2, <2>3, <2>4 DEF Next
<1> QED BY <1>1, <1>2, Invariance, PTL DEF Spec, Promise, Debt!Spec
=============================================================================
