-------------------------- MODULE McpRuntimeProofs --------------------------
(***************************************************************************)
(* Theorems about McpRuntime, for every set of request ids and every number *)
(* of frames and signals.                                                  *)
(***************************************************************************)
EXTENDS McpRuntime, TLAPS

\* Initially the invariant holds.
LEMMA InitInv == Init => IInv
<1> SUFFICES ASSUME Init PROVE IInv
  OBVIOUS
<1> USE BoundAssumption DEF Init
<1>1. TypeOK
  <2>1. main \in MainLabels /\ worker \in WorkerLabels
    BY DEF MainLabels, WorkerLabels
  <2>2. active \in [Id -> {"none", "clear", "set"}] /\ owed \in [Id -> Nat]
    OBVIOUS
  <2>3. sent \in 0..MaxFrames /\ signals \in 0..MaxSignals
    OBVIOUS
  <2> QED
    BY <2>1, <2>2, <2>3 DEF TypeOK
<1>2. Labels /\ OneInFlight
  BY DEF Labels, OneInFlight, Registered
<1>3. Pool
  BY DEF Pool, NoLeakedCall, Outstanding, Registered, Busy
<1>4. Ledger
  <2> SUFFICES ASSUME NEW j \in Id PROVE owed[j] = Held(j)
    BY DEF Ledger
  <2>1. frame # j /\ j \notin queue /\ job # j /\ owed[j] = 0
    OBVIOUS
  <2> QED
    BY <2>1 DEF Held, One
<1> QED
  BY <1>1, <1>2, <1>3, <1>4 DEF IInv

-----------------------------------------------------------------------------
(* Each action preserves the invariant.                                    *)

\* A request answered at once.
LEMMA RequestInv ==
  ASSUME IInv, NEW i \in Id, Request(i)
  PROVE  IInv'
<1> USE BoundAssumption
<1>a. TypeOK /\ Labels /\ OneInFlight
  BY DEF IInv
<1>b. ~closed' => ~closed /\ Pool /\ Ledger
  BY <1>a DEF IInv, TypeOK, Request, Read, Owe, client, pool
<1>1. TypeOK'
  BY <1>a DEF TypeOK, MainLabels, Request, Read, Owe, client, pool
<1>2. Labels'
  BY <1>a DEF TypeOK, Labels, Request, Read, Owe, client, pool
<1>3. OneInFlight'
  BY <1>a DEF TypeOK, OneInFlight, Registered, Request, Read, Owe, client, pool
<1>4. ASSUME ~closed' PROVE Pool'
  BY <1>a, <1>b, <1>4 DEF TypeOK, Labels, Pool, NoLeakedCall, Outstanding, Registered, Busy,
     OneInFlight, Request, Read, Owe, client, pool
<1>5. ASSUME ~closed', NEW j \in Id PROVE owed'[j] = Held(j)'
  <2>1. owed[j] \in Nat /\ owed[j] = Held(j)
    BY <1>a, <1>b, <1>5 DEF TypeOK, Ledger
  <2>2. owed'[j] = IF j = i THEN owed[j] + 1 ELSE owed[j]
    BY <1>a DEF TypeOK, Request, Owe
  <2>3. /\ main = "reading" /\ frame' = i /\ queue' = queue /\ job' = job
        /\ main' \in {"responding", "calling"}
    BY DEF Request, Read, pool
  <2>4. CASE j = i
    BY <2>1, <2>2, <2>3, <2>4 DEF Held, One
  <2>5. CASE j # i
    BY <2>1, <2>2, <2>3, <2>5 DEF Held, One
  <2> QED
    BY <2>4, <2>5
<1> QED
  BY <1>1, <1>2, <1>3, <1>4, <1>5 DEF IInv, Ledger

\* initialize.
LEMMA InitializeInv ==
  ASSUME IInv, NEW i \in Id, Initialize(i)
  PROVE  IInv'
<1> USE BoundAssumption
<1>a. TypeOK /\ Labels /\ OneInFlight
  BY DEF IInv
<1>b. ~closed' => ~closed /\ Pool /\ Ledger
  BY <1>a DEF IInv, TypeOK, Initialize, Read, Owe, client, pool
<1>1. TypeOK'
  BY <1>a DEF TypeOK, MainLabels, Initialize, Read, Owe, client, pool
<1>2. Labels'
  BY <1>a DEF TypeOK, Labels, Initialize, Read, Owe, client, pool
<1>3. OneInFlight'
  BY <1>a DEF TypeOK, OneInFlight, Registered, Initialize, Read, Owe, client, pool
<1>4. ASSUME ~closed' PROVE Pool'
  BY <1>a, <1>b, <1>4 DEF TypeOK, Labels, Pool, NoLeakedCall, Outstanding, Registered, Busy,
     OneInFlight, Initialize, Read, Owe, client, pool
<1>5. ASSUME ~closed', NEW j \in Id PROVE owed'[j] = Held(j)'
  <2>1. owed[j] \in Nat /\ owed[j] = Held(j)
    BY <1>a, <1>b, <1>5 DEF TypeOK, Ledger
  <2>2. owed'[j] = IF j = i THEN owed[j] + 1 ELSE owed[j]
    BY <1>a DEF TypeOK, Initialize, Owe
  <2>3. /\ main = "reading" /\ frame' = i /\ queue' = queue /\ job' = job
        /\ main' \in {"responding", "calling"}
    BY DEF Initialize, Read, pool
  <2>4. CASE j = i
    BY <2>1, <2>2, <2>3, <2>4 DEF Held, One
  <2>5. CASE j # i
    BY <2>1, <2>2, <2>3, <2>5 DEF Held, One
  <2> QED
    BY <2>4, <2>5
<1> QED
  BY <1>1, <1>2, <1>3, <1>4, <1>5 DEF IInv, Ledger

\* notifications/initialized.
LEMMA InitializedInv ==
  ASSUME IInv, Initialized
  PROVE  IInv'
<1> USE BoundAssumption
<1>a. TypeOK /\ Labels /\ OneInFlight
  BY DEF IInv
<1>b. ~closed' => ~closed /\ Pool /\ Ledger
  BY <1>a DEF IInv, TypeOK, Initialized, Read, Loop, client, pool
<1>1. TypeOK'
  BY <1>a DEF TypeOK, MainLabels, Initialized, Read, Loop, client, pool
<1>2. Labels'
  BY <1>a DEF TypeOK, Labels, Initialized, Read, Loop, client, pool
<1>3. OneInFlight'
  BY <1>a DEF TypeOK, OneInFlight, Registered, Initialized, Read, Loop, client, pool
<1>4. ASSUME ~closed' PROVE Pool'
  BY <1>a, <1>b, <1>4 DEF TypeOK, Labels, Pool, NoLeakedCall, Outstanding, Registered, Busy,
     OneInFlight, Initialized, Read, Loop, client, pool
<1>5. ASSUME ~closed', NEW j \in Id PROVE owed'[j] = Held(j)'
  <2>1. owed[j] \in Nat /\ owed[j] = Held(j)
    BY <1>a, <1>b, <1>5 DEF TypeOK, Ledger
  <2> QED
    BY <1>a, <1>b, <1>5, <2>1 DEF TypeOK, Labels, Pool, Held, One, Registered, Busy,
       Initialized, Read, Loop, client, pool
<1> QED
  BY <1>1, <1>2, <1>3, <1>4, <1>5 DEF IInv, Ledger

\* notifications/cancelled.
LEMMA CancelFrameInv ==
  ASSUME IInv, NEW i \in Id, CancelFrame(i)
  PROVE  IInv'
<1> USE BoundAssumption
<1>a. TypeOK /\ Labels /\ OneInFlight
  BY DEF IInv
<1>b. ~closed' => ~closed /\ Pool /\ Ledger
  BY <1>a DEF IInv, TypeOK, CancelFrame, Read, client, pool
<1>1. TypeOK'
  BY <1>a DEF TypeOK, MainLabels, CancelFrame, Read, client, pool
<1>2. Labels'
  BY <1>a DEF TypeOK, Labels, CancelFrame, Read, client, pool
<1>3. OneInFlight'
  BY <1>a DEF TypeOK, OneInFlight, Registered, CancelFrame, Read, client, pool
<1>4. ASSUME ~closed' PROVE Pool'
  BY <1>a, <1>b, <1>4 DEF TypeOK, Labels, Pool, NoLeakedCall, Outstanding, Registered, Busy,
     OneInFlight, CancelFrame, Read, client, pool
<1>5. ASSUME ~closed', NEW j \in Id PROVE owed'[j] = Held(j)'
  <2>1. owed[j] \in Nat /\ owed[j] = Held(j)
    BY <1>a, <1>b, <1>5 DEF TypeOK, Ledger
  <2> QED
    BY <1>a, <1>b, <1>5, <2>1 DEF TypeOK, Labels, Pool, Held, One, Registered, Busy,
       CancelFrame, Read, client, pool
<1> QED
  BY <1>1, <1>2, <1>3, <1>4, <1>5 DEF IInv, Ledger

\* tools/call.
LEMMA CallFrameInv ==
  ASSUME IInv, NEW i \in Id, CallFrame(i)
  PROVE  IInv'
<1> USE BoundAssumption
<1>a. TypeOK /\ Labels /\ OneInFlight
  BY DEF IInv
<1>b. ~closed' => ~closed /\ Pool /\ Ledger
  BY <1>a DEF IInv, TypeOK, CallFrame, Read, Owe, client, pool
<1>1. TypeOK'
  BY <1>a DEF TypeOK, MainLabels, CallFrame, Read, Owe, client, pool
<1>2. Labels'
  BY <1>a DEF TypeOK, Labels, CallFrame, Read, Owe, client, pool
<1>3. OneInFlight'
  BY <1>a DEF TypeOK, OneInFlight, Registered, CallFrame, Read, Owe, client, pool
<1>4. ASSUME ~closed' PROVE Pool'
  BY <1>a, <1>b, <1>4 DEF TypeOK, Labels, Pool, NoLeakedCall, Outstanding, Registered, Busy,
     OneInFlight, CallFrame, Read, Owe, client, pool
<1>5. ASSUME ~closed', NEW j \in Id PROVE owed'[j] = Held(j)'
  <2>1. owed[j] \in Nat /\ owed[j] = Held(j)
    BY <1>a, <1>b, <1>5 DEF TypeOK, Ledger
  <2>2. owed'[j] = IF j = i THEN owed[j] + 1 ELSE owed[j]
    BY <1>a DEF TypeOK, CallFrame, Owe
  <2>3. /\ main = "reading" /\ frame' = i /\ queue' = queue /\ job' = job
        /\ main' \in {"responding", "calling"}
    BY DEF CallFrame, Read, pool
  <2>4. CASE j = i
    BY <2>1, <2>2, <2>3, <2>4 DEF Held, One
  <2>5. CASE j # i
    BY <2>1, <2>2, <2>3, <2>5 DEF Held, One
  <2> QED
    BY <2>4, <2>5
<1> QED
  BY <1>1, <1>2, <1>3, <1>4, <1>5 DEF IInv, Ledger

\* The main thread answers.
LEMMA RespondInv ==
  ASSUME IInv, Respond
  PROVE  IInv'
<1> USE BoundAssumption
<1>a. TypeOK /\ Labels /\ OneInFlight
  BY DEF IInv
<1>b. ~closed' => ~closed /\ Pool /\ Ledger
  BY <1>a DEF IInv, TypeOK, Respond, Pay, Loop, server, client, pool
<1>1. TypeOK'
  <2>1. CASE closed
    BY <1>a, <2>1 DEF TypeOK, MainLabels, WorkerLabels, Respond, Loop, client, server, pool
  <2>2. CASE ~closed
    <3>1. frame \in Id /\ owed[frame] \in Nat /\ owed[frame] = Held(frame)
      BY <1>a, <2>2 DEF TypeOK, Labels, IInv, Ledger, Respond
    <3>2. owed[frame] > 0
      <4>1. CASE frame \in queue
        BY <3>1, <4>1 DEF Held, One
      <4>2. CASE frame \notin queue
        <5>1. main = "responding"
          BY DEF Respond
        <5> QED
          BY <3>1, <4>2, <5>1 DEF Held, One
      <4> QED
        BY <4>1, <4>2
    <3>3. owed' = [owed EXCEPT ![frame] = @ - 1]
      BY <2>2 DEF Respond, Pay
    <3>4. owed' \in [Id -> Nat]
      BY <1>a, <3>1, <3>2, <3>3 DEF TypeOK
    <3> QED
      BY <1>a, <3>4 DEF TypeOK, MainLabels, WorkerLabels, Respond, Loop, client, server, pool
  <2> QED
    BY <2>1, <2>2
<1>2. Labels'
  BY <1>a DEF TypeOK, Labels, Respond, Pay, Loop, server, client, pool
<1>3. OneInFlight'
  BY <1>a DEF TypeOK, OneInFlight, Registered, Respond, Pay, Loop, server, client, pool
<1>4. ASSUME ~closed' PROVE Pool'
  BY <1>a, <1>b, <1>4 DEF TypeOK, Labels, Pool, NoLeakedCall, Outstanding, Registered, Busy,
     OneInFlight, Respond, Pay, Loop, server, client, pool
<1>5. ASSUME ~closed', NEW j \in Id PROVE owed'[j] = Held(j)'
  <2>1. owed[j] \in Nat /\ owed[j] = Held(j)
    BY <1>a, <1>b, <1>5 DEF TypeOK, Ledger
  <2>2. frame \in Id /\ owed'[j] = IF j = frame THEN owed[j] - 1 ELSE owed[j]
    BY <1>a, <1>b, <1>5 DEF TypeOK, Labels, Respond, Pay
  <2>3. /\ main = "responding" /\ main' = "reading" /\ queue' = queue /\ job' = job
        /\ None \notin Id
    BY <1>b, <1>5 DEF Respond, Loop, pool
  <2>4. CASE j = frame
    BY <2>1, <2>2, <2>3, <2>4 DEF Held, One
  <2>5. CASE j # frame
    BY <2>1, <2>2, <2>3, <2>5 DEF Held, One
  <2> QED
    BY <2>4, <2>5
<1> QED
  BY <1>1, <1>2, <1>3, <1>4, <1>5 DEF IInv, Ledger

\* It cannot.
LEMMA RespondFailsInv ==
  ASSUME IInv, RespondFails
  PROVE  IInv'
<1> USE BoundAssumption
<1>a. TypeOK /\ Labels /\ OneInFlight
  BY DEF IInv
<1>b. ~closed' => ~closed /\ Pool /\ Ledger
  BY <1>a DEF IInv, TypeOK, RespondFails, client, pool
<1>1. TypeOK'
  BY <1>a DEF TypeOK, MainLabels, RespondFails, client, pool
<1>2. Labels'
  BY <1>a DEF TypeOK, Labels, RespondFails, client, pool
<1>3. OneInFlight'
  BY <1>a DEF TypeOK, OneInFlight, Registered, RespondFails, client, pool
<1>4. ASSUME ~closed' PROVE Pool'
  BY <1>a, <1>b, <1>4 DEF TypeOK, Labels, Pool, NoLeakedCall, Outstanding, Registered, Busy,
     OneInFlight, RespondFails, client, pool
<1>5. ASSUME ~closed', NEW j \in Id PROVE owed'[j] = Held(j)'
  <2>1. owed[j] \in Nat /\ owed[j] = Held(j)
    BY <1>a, <1>b, <1>5 DEF TypeOK, Ledger
  <2> QED
    BY <1>a, <1>b, <1>5, <2>1 DEF TypeOK, Labels, Pool, Held, One, Registered, Busy,
       RespondFails, client, pool
<1> QED
  BY <1>1, <1>2, <1>3, <1>4, <1>5 DEF IInv, Ledger

\* The main thread hangs up.
LEMMA HangUpInv ==
  ASSUME IInv, HangUp
  PROVE  IInv'
<1> USE BoundAssumption
<1>a. TypeOK /\ Labels /\ OneInFlight
  BY DEF IInv
<1>b. ~closed' => ~closed /\ Pool /\ Ledger
  BY <1>a DEF IInv, TypeOK, HangUp, SetAll, client, pool
<1>1. TypeOK'
  BY <1>a DEF TypeOK, MainLabels, HangUp, SetAll, client, pool
<1>2. Labels'
  BY <1>a DEF TypeOK, Labels, HangUp, SetAll, client, pool
<1>3. OneInFlight'
  BY <1>a DEF TypeOK, OneInFlight, Registered, HangUp, SetAll, client, pool
<1>4. ASSUME ~closed' PROVE Pool'
  BY <1>a, <1>b, <1>4 DEF TypeOK, Labels, Pool, NoLeakedCall, Outstanding, Registered, Busy,
     OneInFlight, HangUp, SetAll, client, pool
<1>5. ASSUME ~closed', NEW j \in Id PROVE owed'[j] = Held(j)'
  <2>1. owed[j] \in Nat /\ owed[j] = Held(j)
    BY <1>a, <1>b, <1>5 DEF TypeOK, Ledger
  <2> QED
    BY <1>a, <1>b, <1>5, <2>1 DEF TypeOK, Labels, Pool, Held, One, Registered, Busy, HangUp,
       SetAll, client, pool
<1> QED
  BY <1>1, <1>2, <1>3, <1>4, <1>5 DEF IInv, Ledger

\* active_lock is taken.
LEMMA TakeLockInv ==
  ASSUME IInv, TakeLock
  PROVE  IInv'
<1> USE BoundAssumption
<1>a. TypeOK /\ Labels /\ OneInFlight
  BY DEF IInv
<1>b. ~closed' => ~closed /\ Pool /\ Ledger
  BY <1>a DEF IInv, TypeOK, TakeLock, server, client, pool
<1>1. TypeOK'
  BY <1>a DEF TypeOK, MainLabels, TakeLock, server, client, pool
<1>2. Labels'
  BY <1>a DEF TypeOK, Labels, TakeLock, server, client, pool
<1>3. OneInFlight'
  BY <1>a DEF TypeOK, OneInFlight, Registered, TakeLock, server, client, pool
<1>4. ASSUME ~closed' PROVE Pool'
  BY <1>a, <1>b, <1>4 DEF TypeOK, Labels, Pool, NoLeakedCall, Outstanding, Registered, Busy,
     OneInFlight, TakeLock, server, client, pool
<1>5. ASSUME ~closed', NEW j \in Id PROVE owed'[j] = Held(j)'
  <2>1. owed[j] \in Nat /\ owed[j] = Held(j)
    BY <1>a, <1>b, <1>5 DEF TypeOK, Ledger
  <2> QED
    BY <1>a, <1>b, <1>5, <2>1 DEF TypeOK, Labels, Pool, Held, One, Registered, Busy, TakeLock,
       server, client, pool
<1> QED
  BY <1>1, <1>2, <1>3, <1>4, <1>5 DEF IInv, Ledger

\* A cancellation.
LEMMA CancelInv ==
  ASSUME IInv, Cancel
  PROVE  IInv'
<1> USE BoundAssumption
<1>a. TypeOK /\ Labels /\ OneInFlight
  BY DEF IInv
<1>b. ~closed' => ~closed /\ Pool /\ Ledger
  BY <1>a DEF IInv, TypeOK, Cancel, Unlocked, Loop, server, client, pool
<1>1. TypeOK'
  BY <1>a DEF TypeOK, MainLabels, Cancel, Unlocked, Loop, server, client, pool
<1>2. Labels'
  BY <1>a DEF TypeOK, Labels, Cancel, Unlocked, Loop, server, client, pool
<1>3. OneInFlight'
  BY <1>a DEF TypeOK, OneInFlight, Registered, Cancel, Unlocked, Loop, server, client, pool
<1>4. ASSUME ~closed' PROVE Pool'
  <2>1. Pool /\ Registered' = Registered
    BY <1>a, <1>b, <1>4 DEF TypeOK, Registered, Cancel
  <2>2. main = "cancelling" /\ main' = "reading"
    BY <1>b, <1>4 DEF Cancel, Loop
  <2> QED
    <3>1. queue' = queue /\ worker' = worker /\ job' = job /\ ~closed
      BY <1>b, <1>4 DEF Cancel, pool
    <3> QED
      BY <2>1, <2>2, <3>1 DEF Pool, NoLeakedCall, Outstanding
<1>5. ASSUME ~closed', NEW j \in Id PROVE owed'[j] = Held(j)'
  <2>1. owed[j] \in Nat /\ owed[j] = Held(j)
    BY <1>a, <1>b, <1>5 DEF TypeOK, Ledger
  <2> QED
    BY <1>a, <1>b, <1>5, <2>1 DEF TypeOK, Labels, Pool, Held, One, Registered, Busy, Cancel,
       Unlocked, Loop, server, client, pool
<1> QED
  BY <1>1, <1>2, <1>3, <1>4, <1>5 DEF IInv, Ledger

\* A call is registered: no other one was.
LEMMA RegisterInv ==
  ASSUME IInv, Register
  PROVE  IInv'
<1> USE BoundAssumption
<1>a. TypeOK /\ Labels /\ OneInFlight
  BY DEF IInv
<1>b. ~closed' => ~closed /\ Pool /\ Ledger
  BY <1>a DEF IInv, TypeOK, Register, Admissible, server, client, pool
<1>1. TypeOK'
  BY <1>a DEF TypeOK, MainLabels, Register, Admissible, server, client, pool
<1>2. Labels'
  BY <1>a DEF TypeOK, Labels, Register, Admissible, server, client, pool
<1>3. OneInFlight'
  BY <1>a DEF TypeOK, OneInFlight, Registered, Register, Admissible, server, client, pool
<1>4. ASSUME ~closed' PROVE Pool'
  BY <1>a, <1>b, <1>4 DEF TypeOK, Labels, Pool, NoLeakedCall, Outstanding, Registered, Busy,
     OneInFlight, Register, Admissible, server, client, pool
<1>5. ASSUME ~closed', NEW j \in Id PROVE owed'[j] = Held(j)'
  <2>1. owed[j] \in Nat /\ owed[j] = Held(j)
    BY <1>a, <1>b, <1>5 DEF TypeOK, Ledger
  <2> QED
    BY <1>a, <1>b, <1>5, <2>1 DEF TypeOK, Labels, Pool, Held, One, Registered, Busy, Register,
       Admissible, server, client, pool
<1> QED
  BY <1>1, <1>2, <1>3, <1>4, <1>5 DEF IInv, Ledger

\* A call is turned away.
LEMMA RejectInv ==
  ASSUME IInv, Reject
  PROVE  IInv'
<1> USE BoundAssumption
<1>a. TypeOK /\ Labels /\ OneInFlight
  BY DEF IInv
<1>b. ~closed' => ~closed /\ Pool /\ Ledger
  BY <1>a DEF IInv, TypeOK, Reject, server, client, pool
<1>1. TypeOK'
  BY <1>a DEF TypeOK, MainLabels, Reject, server, client, pool
<1>2. Labels'
  BY <1>a DEF TypeOK, Labels, Reject, server, client, pool
<1>3. OneInFlight'
  BY <1>a DEF TypeOK, OneInFlight, Registered, Reject, server, client, pool
<1>4. ASSUME ~closed' PROVE Pool'
  BY <1>a, <1>b, <1>4 DEF TypeOK, Labels, Pool, NoLeakedCall, Outstanding, Registered, Busy,
     OneInFlight, Reject, server, client, pool
<1>5. ASSUME ~closed', NEW j \in Id PROVE owed'[j] = Held(j)'
  <2>1. owed[j] \in Nat /\ owed[j] = Held(j)
    BY <1>a, <1>b, <1>5 DEF TypeOK, Ledger
  <2> QED
    BY <1>a, <1>b, <1>5, <2>1 DEF TypeOK, Labels, Pool, Held, One, Registered, Busy, Reject,
       server, client, pool
<1> QED
  BY <1>1, <1>2, <1>3, <1>4, <1>5 DEF IInv, Ledger

\* A call is submitted.
LEMMA SubmitInv ==
  ASSUME IInv, Submit
  PROVE  IInv'
<1> USE BoundAssumption
<1>a. TypeOK /\ Labels /\ OneInFlight
  BY DEF IInv
<1>b. ~closed' => ~closed /\ Pool /\ Ledger
  BY <1>a DEF IInv, TypeOK, Submit, server, client
<1>1. TypeOK'
  <2>1. frame \in Id
    BY <1>a DEF Labels, Submit
  <2>2. queue' \subseteq Id /\ main' \in MainLabels
    BY <1>a, <2>1 DEF TypeOK, MainLabels, Submit
  <2> QED
    BY <1>a, <2>2 DEF TypeOK, Submit, server, client
<1>2. Labels'
  BY <1>a DEF TypeOK, Labels, Submit, server, client
<1>3. OneInFlight'
  BY <1>a DEF TypeOK, OneInFlight, Registered, Submit, server, client
<1>4. ASSUME ~closed' PROVE Pool'
  BY <1>a, <1>b, <1>4 DEF TypeOK, Labels, Pool, NoLeakedCall, Outstanding, Registered, Busy,
     OneInFlight, Submit, server, client
<1>5. ASSUME ~closed', NEW j \in Id PROVE owed'[j] = Held(j)'
  <2>1. owed[j] \in Nat /\ owed[j] = Held(j)
    BY <1>a, <1>b, <1>5 DEF TypeOK, Ledger
  <2>2. frame \in Id /\ queue = {} /\ queue' = {frame} /\ frame' = frame
        /\ main = "submitting" /\ main' = "attaching" /\ job' = job /\ owed' = owed
    BY <1>a, <1>b, <1>5 DEF Labels, Pool, Submit
  <2>3. CASE j = frame
    BY <2>1, <2>2, <2>3 DEF Held, One
  <2>4. CASE j # frame
    BY <2>1, <2>2, <2>4 DEF Held, One
  <2> QED
    BY <2>3, <2>4
<1> QED
  BY <1>1, <1>2, <1>3, <1>4, <1>5 DEF IInv, Ledger

\* A call cannot be submitted.
LEMMA SubmitFailsInv ==
  ASSUME IInv, SubmitFails
  PROVE  IInv'
<1> USE BoundAssumption
<1>a. TypeOK /\ Labels /\ OneInFlight
  BY DEF IInv
<1>b. ~closed' => ~closed /\ Pool /\ Ledger
  BY <1>a DEF IInv, TypeOK, SubmitFails, Unregistered, server, client, pool
<1>1. TypeOK'
  BY <1>a DEF TypeOK, MainLabels, SubmitFails, Unregistered, server, client, pool
<1>2. Labels'
  BY <1>a DEF TypeOK, Labels, SubmitFails, Unregistered, server, client, pool
<1>3. OneInFlight'
  BY <1>a DEF TypeOK, OneInFlight, Registered, SubmitFails, Unregistered, server, client, pool
<1>4. ASSUME ~closed' PROVE Pool'
  <2>1. Pool /\ main = "submitting" /\ main' = "responding" /\ queue = {} /\ queue' = {}
        /\ worker \notin Busy /\ worker' = worker /\ frame \in Registered
    BY <1>b, <1>4 DEF Pool, SubmitFails, pool
  <2>2. Registered' = {}
    BY <1>a, <2>1 DEF TypeOK, OneInFlight, Registered, SubmitFails, Unregistered
  <2>3. worker # "returned"
    BY <2>1 DEF Busy
  <2> QED
    BY <2>1, <2>2, <2>3 DEF Pool, NoLeakedCall
<1>5. ASSUME ~closed', NEW j \in Id PROVE owed'[j] = Held(j)'
  <2>1. owed[j] \in Nat /\ owed[j] = Held(j)
    BY <1>a, <1>b, <1>5 DEF TypeOK, Ledger
  <2> QED
    BY <1>a, <1>b, <1>5, <2>1 DEF TypeOK, Labels, Pool, Held, One, Registered, Busy,
       SubmitFails, Unregistered, server, client, pool
<1> QED
  BY <1>1, <1>2, <1>3, <1>4, <1>5 DEF IInv, Ledger

\* The callback is attached.
LEMMA AttachInv ==
  ASSUME IInv, Attach
  PROVE  IInv'
<1> USE BoundAssumption
<1>a. TypeOK /\ Labels /\ OneInFlight
  BY DEF IInv
<1>b. ~closed' => ~closed /\ Pool /\ Ledger
  BY <1>a DEF IInv, TypeOK, Attach, Loop, server, client
<1>1. TypeOK'
  <2>1. main' \in MainLabels /\ worker' \in WorkerLabels /\ frame' = None
    BY <1>a DEF TypeOK, MainLabels, WorkerLabels, Attach, Loop
  <2>2. UNCHANGED <<session, closed, hungUp, pipe, active, lock, queue, job, verdict, owed, sent, signals>>
    BY DEF Attach, server, client
  <2> QED
    BY <1>a, <2>1, <2>2 DEF TypeOK
<1>2. Labels'
  BY <1>a DEF TypeOK, Labels, Attach, Loop, server, client
<1>3. OneInFlight'
  BY <1>a DEF TypeOK, OneInFlight, Registered, Attach, Loop, server, client
<1>4. ASSUME ~closed' PROVE Pool'
  BY <1>a, <1>b, <1>4 DEF TypeOK, Labels, Pool, NoLeakedCall, Outstanding, Registered, Busy,
     OneInFlight, Attach, Loop, server, client
<1>5. ASSUME ~closed', NEW j \in Id PROVE owed'[j] = Held(j)'
  <2>1. owed[j] \in Nat /\ owed[j] = Held(j)
    BY <1>a, <1>b, <1>5 DEF TypeOK, Ledger
  <2> QED
    BY <1>a, <1>b, <1>5, <2>1 DEF TypeOK, Labels, Pool, Held, One, Registered, Busy, Attach,
       Loop, server, client
<1> QED
  BY <1>1, <1>2, <1>3, <1>4, <1>5 DEF IInv, Ledger

\* The input ends.
LEMMA EndOfInputInv ==
  ASSUME IInv, EndOfInput
  PROVE  IInv'
<1> USE BoundAssumption
<1>a. TypeOK /\ Labels /\ OneInFlight
  BY DEF IInv
<1>b. ~closed' => ~closed /\ Pool /\ Ledger
  BY <1>a DEF IInv, TypeOK, EndOfInput, server, client, pool
<1>1. TypeOK'
  BY <1>a DEF TypeOK, MainLabels, EndOfInput, server, client, pool
<1>2. Labels'
  BY <1>a DEF TypeOK, Labels, EndOfInput, server, client, pool
<1>3. OneInFlight'
  BY <1>a DEF TypeOK, OneInFlight, Registered, EndOfInput, server, client, pool
<1>4. ASSUME ~closed' PROVE Pool'
  BY <1>a, <1>b, <1>4 DEF TypeOK, Labels, Pool, NoLeakedCall, Outstanding, Registered, Busy,
     OneInFlight, EndOfInput, server, client, pool
<1>5. ASSUME ~closed', NEW j \in Id PROVE owed'[j] = Held(j)'
  <2>1. owed[j] \in Nat /\ owed[j] = Held(j)
    BY <1>a, <1>b, <1>5 DEF TypeOK, Ledger
  <2> QED
    BY <1>a, <1>b, <1>5, <2>1 DEF TypeOK, Labels, Pool, Held, One, Registered, Busy, EndOfInput,
       server, client, pool
<1> QED
  BY <1>1, <1>2, <1>3, <1>4, <1>5 DEF IInv, Ledger

\* The server closes.
LEMMA CloseInv ==
  ASSUME IInv, Close
  PROVE  IInv'
<1> USE BoundAssumption
<1>a. TypeOK /\ Labels /\ OneInFlight
  BY DEF IInv
<1>b. ~closed' => ~closed /\ Pool /\ Ledger
  BY <1>a DEF IInv, TypeOK, Close, client, pool
<1>1. TypeOK'
  BY <1>a DEF TypeOK, MainLabels, Close, client, pool
<1>2. Labels'
  BY <1>a DEF TypeOK, Labels, Close, client, pool
<1>3. OneInFlight'
  BY <1>a DEF TypeOK, OneInFlight, Registered, Close, client, pool
<1>4. ASSUME ~closed' PROVE Pool'
  BY <1>a, <1>b, <1>4 DEF TypeOK, Labels, Pool, NoLeakedCall, Outstanding, Registered, Busy,
     OneInFlight, Close, client, pool
<1>5. ASSUME ~closed', NEW j \in Id PROVE owed'[j] = Held(j)'
  <2>1. owed[j] \in Nat /\ owed[j] = Held(j)
    BY <1>a, <1>b, <1>5 DEF TypeOK, Ledger
  <2> QED
    BY <1>a, <1>b, <1>5, <2>1 DEF TypeOK, Labels, Pool, Held, One, Registered, Busy, Close,
       client, pool
<1> QED
  BY <1>1, <1>2, <1>3, <1>4, <1>5 DEF IInv, Ledger

\* It sets every event.
LEMMA CloseAllInv ==
  ASSUME IInv, CloseAll
  PROVE  IInv'
<1> USE BoundAssumption
<1>a. TypeOK /\ Labels /\ OneInFlight
  BY DEF IInv
<1>b. ~closed' => ~closed /\ Pool /\ Ledger
  BY <1>a DEF IInv, TypeOK, CloseAll, SetAll, client, pool
<1>1. TypeOK'
  BY <1>a DEF TypeOK, MainLabels, CloseAll, SetAll, client, pool
<1>2. Labels'
  BY <1>a DEF TypeOK, Labels, CloseAll, SetAll, client, pool
<1>3. OneInFlight'
  BY <1>a DEF TypeOK, OneInFlight, Registered, CloseAll, SetAll, client, pool
<1>4. ASSUME ~closed' PROVE Pool'
  BY <1>a, <1>b, <1>4 DEF TypeOK, Labels, Pool, NoLeakedCall, Outstanding, Registered, Busy,
     OneInFlight, CloseAll, SetAll, client, pool
<1>5. ASSUME ~closed', NEW j \in Id PROVE owed'[j] = Held(j)'
  <2>1. owed[j] \in Nat /\ owed[j] = Held(j)
    BY <1>a, <1>b, <1>5 DEF TypeOK, Ledger
  <2> QED
    BY <1>a, <1>b, <1>5, <2>1 DEF TypeOK, Labels, Pool, Held, One, Registered, Busy, CloseAll,
       SetAll, client, pool
<1> QED
  BY <1>1, <1>2, <1>3, <1>4, <1>5 DEF IInv, Ledger

\* It drains its pool.
LEMMA DrainInv ==
  ASSUME IInv, Drain
  PROVE  IInv'
<1> USE BoundAssumption
<1>a. TypeOK /\ Labels /\ OneInFlight
  BY DEF IInv
<1>b. ~closed' => ~closed /\ Pool /\ Ledger
  BY <1>a DEF IInv, TypeOK, Drain, server, client
<1>1. TypeOK'
  BY <1>a DEF TypeOK, MainLabels, Drain, server, client
<1>2. Labels'
  BY <1>a DEF TypeOK, Labels, Drain, server, client
<1>3. OneInFlight'
  BY <1>a DEF TypeOK, OneInFlight, Registered, Drain, server, client
<1>4. ASSUME ~closed' PROVE Pool'
  BY <1>a, <1>b, <1>4 DEF TypeOK, Labels, Pool, NoLeakedCall, Outstanding, Registered, Busy,
     OneInFlight, Drain, server, client
<1>5. ASSUME ~closed', NEW j \in Id PROVE owed'[j] = Held(j)'
  <2>1. owed[j] \in Nat /\ owed[j] = Held(j)
    BY <1>a, <1>b, <1>5 DEF TypeOK, Ledger
  <2> QED
    BY <1>a, <1>b, <1>5, <2>1 DEF TypeOK, Labels, Pool, Held, One, Registered, Busy, Drain,
       server, client
<1> QED
  BY <1>1, <1>2, <1>3, <1>4, <1>5 DEF IInv, Ledger

\* It ends.
LEMMA LeaveInv ==
  ASSUME IInv, Leave
  PROVE  IInv'
<1> USE BoundAssumption
<1>a. TypeOK /\ Labels /\ OneInFlight
  BY DEF IInv
<1>b. ~closed' => ~closed /\ Pool /\ Ledger
  BY <1>a DEF IInv, TypeOK, Leave, server, client, pool
<1>1. TypeOK'
  BY <1>a DEF TypeOK, MainLabels, Leave, server, client, pool
<1>2. Labels'
  BY <1>a DEF TypeOK, Labels, Leave, server, client, pool
<1>3. OneInFlight'
  BY <1>a DEF TypeOK, OneInFlight, Registered, Leave, server, client, pool
<1>4. ASSUME ~closed' PROVE Pool'
  BY <1>a, <1>b, <1>4 DEF TypeOK, Labels, Pool, NoLeakedCall, Outstanding, Registered, Busy,
     OneInFlight, Leave, server, client, pool
<1>5. ASSUME ~closed', NEW j \in Id PROVE owed'[j] = Held(j)'
  <2>1. owed[j] \in Nat /\ owed[j] = Held(j)
    BY <1>a, <1>b, <1>5 DEF TypeOK, Ledger
  <2> QED
    BY <1>a, <1>b, <1>5, <2>1 DEF TypeOK, Labels, Pool, Held, One, Registered, Busy, Leave,
       server, client, pool
<1> QED
  BY <1>1, <1>2, <1>3, <1>4, <1>5 DEF IInv, Ledger

\* A signal.
LEMMA SignalInv ==
  ASSUME IInv, Signal
  PROVE  IInv'
<1> USE BoundAssumption
<1>a. TypeOK /\ Labels /\ OneInFlight
  BY DEF IInv
<1>b. ~closed' => ~closed /\ Pool /\ Ledger
  BY <1>a DEF IInv, TypeOK, Signal
<1>1. TypeOK'
  <2>1. main' \in MainLabels /\ worker' \in WorkerLabels /\ job' \in Id \cup {None}
    BY <1>a DEF TypeOK, MainLabels, WorkerLabels, Signal
  <2>2. signals' \in 0..MaxSignals /\ frame' = None /\ closed' = TRUE
    <3>1. signals \in 0..MaxSignals /\ signals < MaxSignals /\ signals' = signals + 1
      BY <1>a DEF TypeOK, Signal
    <3>2. signals' \in 0..MaxSignals
      BY <3>1
    <3> QED
      BY <3>2 DEF Signal
  <2> QED
    BY <1>a, <2>1, <2>2 DEF TypeOK, Signal
<1>2. Labels'
  BY <1>a DEF TypeOK, Labels, Signal
<1>3. OneInFlight'
  BY <1>a DEF TypeOK, OneInFlight, Registered, Signal
<1>4. ASSUME ~closed' PROVE Pool'
  BY <1>a, <1>b, <1>4 DEF TypeOK, Labels, Pool, NoLeakedCall, Outstanding, Registered, Busy,
     OneInFlight, Signal
<1>5. ASSUME ~closed', NEW j \in Id PROVE owed'[j] = Held(j)'
  <2>1. owed[j] \in Nat /\ owed[j] = Held(j)
    BY <1>a, <1>b, <1>5 DEF TypeOK, Ledger
  <2> QED
    BY <1>a, <1>b, <1>5, <2>1 DEF TypeOK, Labels, Pool, Held, One, Registered, Busy, Signal
<1> QED
  BY <1>1, <1>2, <1>3, <1>4, <1>5 DEF IInv, Ledger

\* Its handler.
LEMMA HandleInv ==
  ASSUME IInv, Handle
  PROVE  IInv'
<1> USE BoundAssumption
<1>a. TypeOK /\ Labels /\ OneInFlight
  BY DEF IInv
<1>b. ~closed' => ~closed /\ Pool /\ Ledger
  BY <1>a DEF IInv, TypeOK, Handle, SetAll, client, pool
<1>1. TypeOK'
  BY <1>a DEF TypeOK, MainLabels, Handle, SetAll, client, pool
<1>2. Labels'
  BY <1>a DEF TypeOK, Labels, Handle, SetAll, client, pool
<1>3. OneInFlight'
  BY <1>a DEF TypeOK, OneInFlight, Registered, Handle, SetAll, client, pool
<1>4. ASSUME ~closed' PROVE Pool'
  BY <1>a, <1>b, <1>4 DEF TypeOK, Labels, Pool, NoLeakedCall, Outstanding, Registered, Busy,
     OneInFlight, Handle, SetAll, client, pool
<1>5. ASSUME ~closed', NEW j \in Id PROVE owed'[j] = Held(j)'
  <2>1. owed[j] \in Nat /\ owed[j] = Held(j)
    BY <1>a, <1>b, <1>5 DEF TypeOK, Ledger
  <2> QED
    BY <1>a, <1>b, <1>5, <2>1 DEF TypeOK, Labels, Pool, Held, One, Registered, Busy, Handle,
       SetAll, client, pool
<1> QED
  BY <1>1, <1>2, <1>3, <1>4, <1>5 DEF IInv, Ledger

\* The worker takes a call: the only one there is.
LEMMA TakeInv ==
  ASSUME IInv, NEW i \in Id, Take(i)
  PROVE  IInv'
<1> USE BoundAssumption
<1>a. TypeOK /\ Labels /\ OneInFlight
  BY DEF IInv
<1>b. ~closed' => ~closed /\ Pool /\ Ledger
  BY <1>a DEF IInv, TypeOK, Take, server, client
<1>1. TypeOK'
  BY <1>a DEF TypeOK, WorkerLabels, Take, server, client
<1>2. Labels'
  BY <1>a DEF TypeOK, Labels, Take, server, client
<1>3. OneInFlight'
  BY <1>a DEF TypeOK, OneInFlight, Registered, Take, server, client
<1>4. ASSUME ~closed' PROVE Pool'
  <2>1. Pool /\ Registered' = Registered /\ main' = main /\ frame' = frame
        /\ job' = i /\ worker' = "entered" /\ queue' = queue \ {i}
        /\ i \in queue /\ i \in Registered
    BY <1>b, <1>4 DEF Pool, Registered, Take
  <2>2. \A j \in Registered : j = i
    BY <1>a, <2>1 DEF OneInFlight
  <2>3. queue' = {}
    BY <2>1, <2>2 DEF Pool
  <2>4. main # "submitting"
    BY <2>1 DEF Pool
  <2> QED
    BY <2>1, <2>2, <2>3, <2>4 DEF Pool, NoLeakedCall, Outstanding, Busy
<1>5. ASSUME ~closed', NEW j \in Id PROVE owed'[j] = Held(j)'
  <2>1. owed[j] \in Nat /\ owed[j] = Held(j)
    BY <1>a, <1>b, <1>5 DEF TypeOK, Ledger
  <2>2. Pool /\ i \in queue /\ i \in Id /\ job' = i /\ queue' = queue \ {i} /\ main' = main
        /\ frame' = frame /\ owed' = owed
    BY <1>b, <1>5 DEF Pool, Take
  <2>3. job = None
    BY <1>a, <2>2 DEF Labels, Pool, Busy, Take
  <2>4. CASE j = i
    BY <2>1, <2>2, <2>3, <2>4 DEF Held, One
  <2>5. CASE j # i
    BY <2>1, <2>2, <2>3, <2>5 DEF Held, One
  <2> QED
    BY <2>4, <2>5
<1> QED
  BY <1>1, <1>2, <1>3, <1>4, <1>5 DEF IInv, Ledger

\* The tool starts.
LEMMA StartInv ==
  ASSUME IInv, Start
  PROVE  IInv'
<1> USE BoundAssumption
<1>a. TypeOK /\ Labels /\ OneInFlight
  BY DEF IInv
<1>b. ~closed' => ~closed /\ Pool /\ Ledger
  BY <1>a DEF IInv, TypeOK, Start, server, client
<1>1. TypeOK'
  BY <1>a DEF TypeOK, WorkerLabels, Start, server, client
<1>2. Labels'
  BY <1>a DEF TypeOK, Labels, Start, server, client
<1>3. OneInFlight'
  BY <1>a DEF TypeOK, OneInFlight, Registered, Start, server, client
<1>4. ASSUME ~closed' PROVE Pool'
  BY <1>a, <1>b, <1>4 DEF TypeOK, Labels, Pool, NoLeakedCall, Outstanding, Registered, Busy,
     OneInFlight, Start, server, client
<1>5. ASSUME ~closed', NEW j \in Id PROVE owed'[j] = Held(j)'
  <2>1. owed[j] \in Nat /\ owed[j] = Held(j)
    BY <1>a, <1>b, <1>5 DEF TypeOK, Ledger
  <2> QED
    BY <1>a, <1>b, <1>5, <2>1 DEF TypeOK, Labels, Pool, Held, One, Registered, Busy, Start,
       server, client
<1> QED
  BY <1>1, <1>2, <1>3, <1>4, <1>5 DEF IInv, Ledger

\* The call ends.
LEMMA ReturnInv ==
  ASSUME IInv, NEW v \in {"ok", "error"}, Return(v)
  PROVE  IInv'
<1> USE BoundAssumption
<1>a. TypeOK /\ Labels /\ OneInFlight
  BY DEF IInv
<1>b. ~closed' => ~closed /\ Pool /\ Ledger
  BY <1>a DEF IInv, TypeOK, Return, server, client
<1>1. TypeOK'
  BY <1>a DEF TypeOK, WorkerLabels, Return, server, client
<1>2. Labels'
  BY <1>a DEF TypeOK, Labels, Return, server, client
<1>3. OneInFlight'
  BY <1>a DEF TypeOK, OneInFlight, Registered, Return, server, client
<1>4. ASSUME ~closed' PROVE Pool'
  BY <1>a, <1>b, <1>4 DEF TypeOK, Labels, Pool, NoLeakedCall, Outstanding, Registered, Busy,
     OneInFlight, Return, server, client
<1>5. ASSUME ~closed', NEW j \in Id PROVE owed'[j] = Held(j)'
  <2>1. owed[j] \in Nat /\ owed[j] = Held(j)
    BY <1>a, <1>b, <1>5 DEF TypeOK, Ledger
  <2> QED
    BY <1>a, <1>b, <1>5, <2>1 DEF TypeOK, Labels, Pool, Held, One, Registered, Busy, Return,
       server, client
<1> QED
  BY <1>1, <1>2, <1>3, <1>4, <1>5 DEF IInv, Ledger

\* The verdict.
LEMMA DecideInv ==
  ASSUME IInv, Decide
  PROVE  IInv'
<1> USE BoundAssumption
<1>a. TypeOK /\ Labels /\ OneInFlight
  BY DEF IInv
<1>b. ~closed' => ~closed /\ Pool /\ Ledger
  BY <1>a DEF IInv, TypeOK, Decide, Verdict, server, client
<1>1. TypeOK'
  BY <1>a DEF TypeOK, WorkerLabels, Decide, Verdict, server, client
<1>2. Labels'
  BY <1>a DEF TypeOK, Labels, Decide, Verdict, server, client
<1>3. OneInFlight'
  BY <1>a DEF TypeOK, OneInFlight, Registered, Decide, Verdict, server, client
<1>4. ASSUME ~closed' PROVE Pool'
  BY <1>a, <1>b, <1>4 DEF TypeOK, Labels, Pool, NoLeakedCall, Outstanding, Registered, Busy,
     OneInFlight, Decide, Verdict, server, client
<1>5. ASSUME ~closed', NEW j \in Id PROVE owed'[j] = Held(j)'
  <2>1. owed[j] \in Nat /\ owed[j] = Held(j)
    BY <1>a, <1>b, <1>5 DEF TypeOK, Ledger
  <2> QED
    BY <1>a, <1>b, <1>5, <2>1 DEF TypeOK, Labels, Pool, Held, One, Registered, Busy, Decide,
       Verdict, server, client
<1> QED
  BY <1>1, <1>2, <1>3, <1>4, <1>5 DEF IInv, Ledger

\* The call is released.
LEMMA ReleaseInv ==
  ASSUME IInv, Release
  PROVE  IInv'
<1> USE BoundAssumption
<1>a. TypeOK /\ Labels /\ OneInFlight
  BY DEF IInv
<1>b. ~closed' => ~closed /\ Pool /\ Ledger
  BY <1>a DEF IInv, TypeOK, Release, Released, server, client
<1>1. TypeOK'
  BY <1>a DEF TypeOK, WorkerLabels, Release, Released, server, client
<1>2. Labels'
  BY <1>a DEF TypeOK, Labels, Release, Released, server, client
<1>3. OneInFlight'
  BY <1>a DEF TypeOK, OneInFlight, Registered, Release, Released, server, client
<1>4. ASSUME ~closed' PROVE Pool'
  <2>1. Pool /\ worker = "decided" /\ worker' = "answering" /\ queue' = queue
        /\ main' = main /\ frame' = frame /\ job \in Registered /\ queue = {}
    BY <1>b, <1>4 DEF Pool, Busy, Release
  <2>2. Registered' = {}
    BY <1>a, <2>1 DEF TypeOK, OneInFlight, Registered, Release, Released
  <2>3. main # "submitting"
    BY <2>1 DEF Pool, Busy
  <2>4. main # "attaching"
    BY <2>1 DEF Pool
  <2> QED
    BY <2>1, <2>2, <2>3, <2>4 DEF Pool, NoLeakedCall, Busy
<1>5. ASSUME ~closed', NEW j \in Id PROVE owed'[j] = Held(j)'
  <2>1. owed[j] \in Nat /\ owed[j] = Held(j)
    BY <1>a, <1>b, <1>5 DEF TypeOK, Ledger
  <2> QED
    BY <1>a, <1>b, <1>5, <2>1 DEF TypeOK, Labels, Pool, Held, One, Registered, Busy, Release,
       Released, server, client
<1> QED
  BY <1>1, <1>2, <1>3, <1>4, <1>5 DEF IInv, Ledger

\* The call is answered.
LEMMA AnswerInv ==
  ASSUME IInv, Answer
  PROVE  IInv'
<1> USE BoundAssumption
<1>a. TypeOK /\ Labels /\ OneInFlight
  BY DEF IInv
<1>b. ~closed' => ~closed /\ Pool /\ Ledger
  BY <1>a DEF IInv, TypeOK, Answer, Idle, Loop, Pay, server, client
<1>1. TypeOK'
  <2>1. CASE closed
    BY <1>a, <2>1 DEF TypeOK, MainLabels, WorkerLabels, Answer, Idle, Loop, client, server
  <2>2. CASE ~closed
    <3>1. job \in Id /\ owed[job] \in Nat /\ owed[job] = Held(job)
      BY <1>a, <2>2 DEF TypeOK, Labels, IInv, Ledger, Answer
    <3>2. owed[job] > 0
      <4>1. CASE job \in queue
        BY <3>1, <4>1 DEF Held, One
      <4>2. CASE job \notin queue
        BY <3>1, <4>2 DEF Held, One
      <4> QED
        BY <4>1, <4>2
    <3>3. owed' = [owed EXCEPT ![job] = @ - 1]
      BY <2>2 DEF Answer, Pay
    <3>4. owed' \in [Id -> Nat]
      BY <1>a, <3>1, <3>2, <3>3 DEF TypeOK
    <3> QED
      BY <1>a, <3>4 DEF TypeOK, MainLabels, WorkerLabels, Answer, Idle, Loop, client, server
  <2> QED
    BY <2>1, <2>2
<1>2. Labels'
  BY <1>a DEF TypeOK, Labels, Answer, Idle, Loop, Pay, server, client
<1>3. OneInFlight'
  BY <1>a DEF TypeOK, OneInFlight, Registered, Answer, Idle, Loop, Pay, server, client
<1>4. ASSUME ~closed' PROVE Pool'
  BY <1>a, <1>b, <1>4 DEF TypeOK, Labels, Pool, NoLeakedCall, Outstanding, Registered, Busy,
     OneInFlight, Answer, Idle, Loop, Pay, server, client
<1>5. ASSUME ~closed', NEW j \in Id PROVE owed'[j] = Held(j)'
  <2>1. owed[j] \in Nat /\ owed[j] = Held(j)
    BY <1>a, <1>b, <1>5 DEF TypeOK, Ledger
  <2>2. job \in Id /\ owed'[j] = IF j = job THEN owed[j] - 1 ELSE owed[j]
    BY <1>a, <1>b, <1>5 DEF TypeOK, Labels, Answer, Pay
  <2>3. /\ job' = None /\ queue' = queue /\ frame' = frame
        /\ main' = main \/ (main = "finishing" /\ main' = "reading")
        /\ None \notin Id
    <3>1. Loop = "reading"
      BY <1>b, <1>5 DEF Loop
    <3>2. main' = main \/ (main = "finishing" /\ main' = "reading")
      <4>1. main' = IF main = "finishing" THEN Loop ELSE main
        BY DEF Answer, Idle
      <4> QED
        BY <3>1, <4>1
    <3>3. job' = None /\ queue' = queue /\ frame' = frame
      BY DEF Answer, Idle
    <3> QED
      BY <3>2, <3>3
  <2>4. CASE j = job
    BY <2>1, <2>2, <2>3, <2>4 DEF Held, One
  <2>5. CASE j # job
    BY <2>1, <2>2, <2>3, <2>5 DEF Held, One
  <2> QED
    BY <2>4, <2>5
<1> QED
  BY <1>1, <1>2, <1>3, <1>4, <1>5 DEF IInv, Ledger

\* The answer cannot be written.
LEMMA AnswerFailsInv ==
  ASSUME IInv, AnswerFails
  PROVE  IInv'
<1> USE BoundAssumption
<1>a. TypeOK /\ Labels /\ OneInFlight
  BY DEF IInv
<1>b. ~closed' => ~closed /\ Pool /\ Ledger
  BY <1>a DEF IInv, TypeOK, AnswerFails, client
<1>1. TypeOK'
  BY <1>a DEF TypeOK, WorkerLabels, AnswerFails, client
<1>2. Labels'
  BY <1>a DEF TypeOK, Labels, AnswerFails, client
<1>3. OneInFlight'
  BY <1>a DEF TypeOK, OneInFlight, Registered, AnswerFails, client
<1>4. ASSUME ~closed' PROVE Pool'
  BY <1>a, <1>b, <1>4 DEF TypeOK, Labels, Pool, NoLeakedCall, Outstanding, Registered, Busy,
     OneInFlight, AnswerFails, client
<1>5. ASSUME ~closed', NEW j \in Id PROVE owed'[j] = Held(j)'
  <2>1. owed[j] \in Nat /\ owed[j] = Held(j)
    BY <1>a, <1>b, <1>5 DEF TypeOK, Ledger
  <2> QED
    BY <1>a, <1>b, <1>5, <2>1 DEF TypeOK, Labels, Pool, Held, One, Registered, Busy,
       AnswerFails, client
<1> QED
  BY <1>1, <1>2, <1>3, <1>4, <1>5 DEF IInv, Ledger

\* The callback hangs up.
LEMMA AnswerHangsUpInv ==
  ASSUME IInv, AnswerHangsUp
  PROVE  IInv'
<1> USE BoundAssumption
<1>a. TypeOK /\ Labels /\ OneInFlight
  BY DEF IInv
<1>b. ~closed' => ~closed /\ Pool /\ Ledger
  BY <1>a DEF IInv, TypeOK, AnswerHangsUp, Idle, Loop, SetAll, client
<1>1. TypeOK'
  BY <1>a DEF TypeOK, MainLabels, WorkerLabels, AnswerHangsUp, Idle, Loop, SetAll, client
<1>2. Labels'
  BY <1>a DEF TypeOK, Labels, AnswerHangsUp, Idle, Loop, SetAll, client
<1>3. OneInFlight'
  BY <1>a DEF TypeOK, OneInFlight, Registered, AnswerHangsUp, Idle, Loop, SetAll, client
<1>4. ASSUME ~closed' PROVE Pool'
  BY <1>a, <1>b, <1>4 DEF TypeOK, Labels, Pool, NoLeakedCall, Outstanding, Registered, Busy,
     OneInFlight, AnswerHangsUp, Idle, Loop, SetAll, client
<1>5. ASSUME ~closed', NEW j \in Id PROVE owed'[j] = Held(j)'
  <2>1. owed[j] \in Nat /\ owed[j] = Held(j)
    BY <1>a, <1>b, <1>5 DEF TypeOK, Ledger
  <2> QED
    BY <1>a, <1>b, <1>5, <2>1 DEF TypeOK, Labels, Pool, Held, One, Registered, Busy,
       AnswerHangsUp, Idle, Loop, SetAll, client
<1> QED
  BY <1>1, <1>2, <1>3, <1>4, <1>5 DEF IInv, Ledger

\* A timer.
LEMMA TimeOutInv ==
  ASSUME IInv, NEW i \in Id, TimeOut(i)
  PROVE  IInv'
<1> USE BoundAssumption
<1>a. TypeOK /\ Labels /\ OneInFlight
  BY DEF IInv
<1>b. ~closed' => ~closed /\ Pool /\ Ledger
  BY <1>a DEF IInv, TypeOK, TimeOut, server, client, pool
<1>1. TypeOK'
  BY <1>a DEF TypeOK, TimeOut, server, client, pool
<1>2. Labels'
  BY <1>a DEF TypeOK, Labels, TimeOut, server, client, pool
<1>3. OneInFlight'
  BY <1>a DEF TypeOK, OneInFlight, Registered, TimeOut, server, client, pool
<1>4. ASSUME ~closed' PROVE Pool'
  <2>1. Registered' = Registered
    BY <1>a DEF TypeOK, Registered, TimeOut
  <2>2. UNCHANGED <<closed, main, frame, queue, worker, job>>
    BY DEF TimeOut, server, pool
  <2> QED
    BY <1>b, <1>4, <2>1, <2>2 DEF Pool, NoLeakedCall, Outstanding
<1>5. ASSUME ~closed', NEW j \in Id PROVE owed'[j] = Held(j)'
  <2>1. owed[j] \in Nat /\ owed[j] = Held(j)
    BY <1>a, <1>b, <1>5 DEF TypeOK, Ledger
  <2> QED
    BY <1>a, <1>b, <1>5, <2>1 DEF TypeOK, Labels, Pool, Held, One, Registered, Busy, TimeOut,
       server, client, pool
<1> QED
  BY <1>1, <1>2, <1>3, <1>4, <1>5 DEF IInv, Ledger

\* The pipe breaks.
LEMMA BreakInv ==
  ASSUME IInv, Break
  PROVE  IInv'
<1> USE BoundAssumption
<1>a. TypeOK /\ Labels /\ OneInFlight
  BY DEF IInv
<1>b. ~closed' => ~closed /\ Pool /\ Ledger
  BY <1>a DEF IInv, TypeOK, Break, server, pool
<1>1. TypeOK'
  BY <1>a DEF TypeOK, Break, server, pool
<1>2. Labels'
  BY <1>a DEF TypeOK, Labels, Break, server, pool
<1>3. OneInFlight'
  BY <1>a DEF TypeOK, OneInFlight, Registered, Break, server, pool
<1>4. ASSUME ~closed' PROVE Pool'
  BY <1>a, <1>b, <1>4 DEF TypeOK, Labels, Pool, NoLeakedCall, Outstanding, Registered, Busy,
     OneInFlight, Break, server, pool
<1>5. ASSUME ~closed', NEW j \in Id PROVE owed'[j] = Held(j)'
  <2>1. owed[j] \in Nat /\ owed[j] = Held(j)
    BY <1>a, <1>b, <1>5 DEF TypeOK, Ledger
  <2> QED
    BY <1>a, <1>b, <1>5, <2>1 DEF TypeOK, Labels, Pool, Held, One, Registered, Busy, Break,
       server, pool
<1> QED
  BY <1>1, <1>2, <1>3, <1>4, <1>5 DEF IInv, Ledger

-----------------------------------------------------------------------------
(* The theorems.                                                           *)

\* Every step preserves the invariant.
LEMMA NextInv == IInv /\ [Next]_vars => IInv'
<1> SUFFICES ASSUME IInv, [Next]_vars PROVE IInv'
  OBVIOUS
<1>1. ASSUME Receive PROVE IInv'
  BY <1>1, InitializedInv, EndOfInputInv, RequestInv, InitializeInv, CancelFrameInv,
     CallFrameInv DEF Receive
<1>2. ASSUME MainStep PROVE IInv'
  BY <1>2, RespondInv, RespondFailsInv, HangUpInv, TakeLockInv, CancelInv, RegisterInv,
     RejectInv, SubmitInv, SubmitFailsInv, AttachInv, CloseInv, CloseAllInv, DrainInv, LeaveInv,
     HandleInv DEF MainStep
<1>3. ASSUME WorkerStep PROVE IInv'
  BY <1>3, TakeInv, StartInv, ReturnInv, DecideInv, ReleaseInv, AnswerInv, AnswerFailsInv,
     AnswerHangsUpInv DEF WorkerStep
<1>4. ASSUME Signal \/ Break \/ \E i \in Id : TimeOut(i) PROVE IInv'
  BY <1>4, SignalInv, BreakInv, TimeOutInv
<1>5. CASE UNCHANGED vars
  <2> USE <1>5 DEF vars, server, client, pool
  <2>1. TypeOK' <=> TypeOK
    BY DEF TypeOK
  <2>2. Labels' <=> Labels
    BY DEF Labels
  <2>3. OneInFlight' <=> OneInFlight
    BY DEF OneInFlight, Registered
  <2>4. Pool' <=> Pool
    BY DEF Pool, NoLeakedCall, Outstanding, Registered
  <2>5. Ledger' <=> Ledger
    BY DEF Ledger, Held
  <2> QED
    BY <2>1, <2>2, <2>3, <2>4, <2>5 DEF IInv
<1> QED
  BY <1>1, <1>2, <1>3, <1>4, <1>5 DEF Next

\* The inductive invariant holds of every run of the server.
THEOREM Invariance == Spec => []IInv
<1>1. IInv /\ [Next]_vars => IInv'
  BY NextInv
<1> QED
  BY InitInv, <1>1, PTL DEF Spec

\* Every variable stays in its type.
THEOREM Typing == Spec => []TypeOK
<1>1. IInv => TypeOK
  BY DEF IInv
<1> QED
  BY Invariance, <1>1, PTL

\* Between its admission and its release there is one tool call at a time
\* (receive, _finish), whatever interrupts the main thread.
THEOREM Exclusion == Spec => []OneInFlight
<1>1. IInv => OneInFlight
  BY DEF IInv
<1> QED
  BY Invariance, <1>1, PTL

\* No registration outlives its call in an open server: it can always admit
\* the next one (receive, _finish).
THEOREM NothingLeaks == Spec => []NoLeakedCall
<1>1. IInv => NoLeakedCall
  BY DEF IInv, Pool, NoLeakedCall
<1> QED
  BY Invariance, <1>1, PTL

\* A server that is open and at rest has answered every request once: on
\* whichever thread the callback ran, and however ids were used again.
THEOREM EveryRequestAnswered == Spec => []AllAnswered
<1>1. ASSUME IInv, ~closed, main = "reading", queue = {}, worker = "idle", NEW i \in Id
      PROVE  owed[i] = 0
  <2>1. owed[i] = Held(i) /\ job # i
    BY <1>1, BoundAssumption DEF IInv, Ledger, Labels
  <2> QED
    BY <1>1, <2>1 DEF Held, One
<1>2. IInv => AllAnswered
  BY <1>1 DEF AllAnswered
<1> QED
  BY Invariance, <1>2, PTL
-----------------------------------------------------------------------------
(* The server keeps the promise of CallService.                            *)

\* A closed server pays nothing and stays closed.
LEMMA ClosedWinds ==
  ASSUME IInv, closed, Next
  PROVE  Service!Wind
<1>1. \A i \in Id : owed[i] \in Nat
  BY DEF IInv, TypeOK
<1>2. CASE owed' = owed /\ closed'
  BY <1>1, <1>2 DEF Service!Wind
<1>3. CASE closed' /\ \E i \in Id : Owe(i)
  <2>1. PICK i \in Id : Owe(i)
    BY <1>3
  <2>2. \A j \in Id : owed'[j] = IF j = i THEN owed[j] + 1 ELSE owed[j]
    BY <2>1 DEF Owe, IInv, TypeOK
  <2> QED
    BY <1>1, <1>3, <2>2 DEF Service!Wind
<1>4. ASSUME Receive PROVE Service!Wind
  <2>1. closed'
    BY <1>4 DEF Receive, Initialized, EndOfInput, Request, Initialize, CancelFrame, CallFrame, Read, server
  <2>2. owed' = owed \/ \E i \in Id : Owe(i)
    BY <1>4 DEF Receive, Initialized, EndOfInput, Request, Initialize, CancelFrame, CallFrame
  <2> QED
    BY <1>2, <1>3, <2>1, <2>2
<1>5. ASSUME MainStep PROVE Service!Wind
  <2>1. owed' = owed /\ closed'
    BY <1>5 DEF MainStep, Respond, RespondFails, HangUp, TakeLock, Cancel, Register, Reject, Submit,
       SubmitFails, Attach, Close, CloseAll, Drain, Leave, Handle, server
  <2> QED
    BY <1>2, <2>1
<1>6. ASSUME WorkerStep PROVE Service!Wind
  <2>1. owed' = owed /\ closed'
    BY <1>6 DEF WorkerStep, Take, Start, Return, Decide, Release, Answer, AnswerFails, AnswerHangsUp,
       server
  <2> QED
    BY <1>2, <2>1
<1>7. ASSUME Signal \/ Break \/ \E i \in Id : TimeOut(i) PROVE Service!Wind
  <2>1. owed' = owed /\ closed'
    BY <1>7 DEF Signal, Break, TimeOut, server
  <2> QED
    BY <1>2, <2>1
<1> QED
  BY <1>4, <1>5, <1>6, <1>7 DEF Next

\* A step that leaves the worker, its call and its verdict alone leaves the
\* answer alone.
LEMMA SameReply ==
  ASSUME UNCHANGED <<worker, job, verdict>>
  PROVE  Reply' = Reply
BY DEF Reply

\* So does one that takes the worker from one stage before the decision to
\* another.
LEMMA NoReply ==
  ASSUME worker \notin {"decided", "answering"}, worker' \notin {"decided", "answering"}
  PROVE  Reply = Service!Nothing /\ Reply' = Service!Nothing
BY DEF Reply, Service!Nothing

\* An answer is there in two stages of the worker, final in the second.
LEMMA ReplyStages ==
  ASSUME IInv
  PROVE  /\ Reply # Service!Nothing <=> worker \in {"decided", "answering"}
         /\ Reply.final <=> worker = "answering"
         /\ worker \in {"decided", "answering"} => Reply.id = job /\ Reply.says = verdict
<1>1. verdict # "none"
  BY DEF IInv, TypeOK
<1>2. worker \in {"decided", "answering"} => Reply # Service!Nothing
  BY <1>1 DEF Reply, Service!Nothing
<1> QED
  BY <1>2 DEF Reply, Service!Nothing
Serves == Service!Next \/ UNCHANGED Service!vars

\* The open server reads a frame: something is asked, or nothing.
LEMMA ReceiveServes ==
  ASSUME IInv, Receive
  PROVE  Serves
<1>1. Reply' = Reply /\ active' = active /\ closed' = closed
  BY SameReply DEF Receive, Initialized, EndOfInput, Request, Initialize, CancelFrame, CallFrame,
     Read, server, pool
<1>2. owed' = owed \/ \E i \in Id : Owe(i)
  BY DEF Receive, Initialized, EndOfInput, Request, Initialize, CancelFrame, CallFrame
<1>3. CASE owed' = owed
  BY <1>1, <1>3 DEF Serves, Service!vars
<1>4. ASSUME NEW i \in Id, Owe(i) PROVE Service!Ask(i)
  BY <1>1, <1>4 DEF Owe, Service!Ask
<1> QED
  BY <1>2, <1>3, <1>4 DEF Serves, Service!Next

\* A response written by the main thread answers a request that is no call.
LEMMA RespondServes ==
  ASSUME IInv, ~closed, Respond
  PROVE  Service!AnswerAtOnce(frame)
<1>1. frame \in Id /\ Pool /\ Ledger /\ TypeOK /\ main = "responding"
  BY DEF IInv, Labels, Respond
<1>2. owed[frame] = 1 + One(frame \in queue) + One(job = frame)
  BY <1>1 DEF Ledger, Held, One
<1>3. active[frame] # "none" => frame \in queue \/ (job = frame /\ worker \in Busy)
  BY <1>1 DEF Pool, NoLeakedCall, Outstanding, Registered
<1>4. Reply.final => worker = "answering"
  BY ReplyStages
<1>5. Reply.final /\ Reply.id = frame => job = frame /\ worker \notin Busy
  BY <1>4, ReplyStages DEF Busy
<1>6. Service!Spare(frame)
  BY <1>2, <1>3, <1>5 DEF Service!Spare, Service!One, One
<1>7. UNCHANGED <<active, closed, Reply>> /\ owed' = [owed EXCEPT ![frame] = @ - 1]
  BY SameReply DEF Respond, Pay, server, pool
<1> QED
  BY <1>6, <1>7 DEF Service!AnswerAtOnce

\* A registration admits a request that is no call yet, when there is none.
LEMMA RegisterServes ==
  ASSUME IInv, ~closed, Register
  PROVE  Service!Admit(frame)
<1>1. frame \in Id /\ Ledger /\ TypeOK /\ main = "registering"
  BY DEF IInv, Labels, Register
<1>2. owed[frame] = 1 + One(frame \in queue) + One(job = frame)
  BY <1>1 DEF Ledger, Held, One
<1>3. \A j \in Id : active[j] = "none"
  BY DEF Register, Admissible, Registered
<1>4. Reply.final /\ Reply.id = frame => job = frame
  BY ReplyStages
<1>5. Service!Spare(frame)
  BY <1>1, <1>2, <1>3, <1>4 DEF Service!Spare, Service!One, One
<1>6. UNCHANGED <<owed, closed, Reply>> /\ active' = [active EXCEPT ![frame] = "clear"]
  BY SameReply DEF Register, server, pool
<1> QED
  BY <1>3, <1>5, <1>6 DEF Service!Admit

\* A call that the pool does not take is withdrawn; none has an answer yet.
LEMMA SubmitFailsServes ==
  ASSUME IInv, ~closed, SubmitFails
  PROVE  Service!Withdraw(frame)
<1>1. frame \in Registered /\ worker \notin Busy
  BY DEF IInv, Pool, SubmitFails
<1>2. Reply = Service!Nothing \/ Reply.final
  BY <1>1, ReplyStages DEF Busy
<1>3. UNCHANGED <<owed, closed, Reply>> /\ active' = [active EXCEPT ![frame] = "none"]
  BY SameReply DEF SubmitFails, Unregistered, server, pool
<1> QED
  BY <1>1, <1>2, <1>3 DEF Service!Withdraw, Registered

\* An event is set for a call that is registered, or for none.
LEMMA OneTold ==
  ASSUME IInv, NEW i \in Id, UNCHANGED <<owed, closed, Reply>>,
         active' = [active EXCEPT ![i] = IF @ = "none" THEN @ ELSE "set"]
  PROVE  Service!Tell({i})
<1>1. active = [j \in Id |-> active[j]]
  BY DEF IInv, TypeOK
<1>2. active' = [j \in Id |-> IF j \in {i} /\ active[j] # "none" THEN "set" ELSE active[j]]
  BY <1>1
<1> QED
  BY <1>2 DEF Service!Tell

\* The other steps of the main thread, while the server is open.
LEMMA MainServes ==
  ASSUME IInv, ~closed, MainStep
  PROVE  Serves
<1>1. TypeOK /\ Labels
  BY DEF IInv
<1>2. ASSUME HangUp \/ CloseAll \/ Drain \/ Leave \/ Handle PROVE FALSE
  BY <1>1, <1>2 DEF Labels, HangUp, CloseAll, Drain, Leave, Handle
<1>3. ASSUME Cancel PROVE Serves
  <2>1. frame \in Id
    BY <1>1, <1>3 DEF Labels, Cancel
  <2>2. UNCHANGED <<owed, closed, Reply>>
    BY <1>3, SameReply DEF Cancel, server, pool
  <2>3. Service!Tell({frame})
    BY <1>3, <2>1, <2>2, OneTold DEF Cancel
  <2> QED
    BY <2>1, <2>3 DEF Serves, Service!Next
<1>4. ASSUME TakeLock \/ Reject \/ Submit PROVE UNCHANGED Service!vars
  BY <1>4, SameReply DEF TakeLock, Reject, Submit, server, pool, Service!vars
<1>5. ASSUME Attach PROVE UNCHANGED Service!vars
  <2>1. UNCHANGED <<owed, active, closed, job, verdict>>
    BY <1>5 DEF Attach, server
  <2>2. Reply' = Reply
    BY <1>5, <2>1, SameReply, NoReply DEF Attach
  <2> QED
    BY <2>1, <2>2 DEF Service!vars
<1>6. ASSUME Close \/ RespondFails PROVE Service!Close
  BY <1>6, SameReply DEF Close, RespondFails, server, pool, Service!Close
<1>7. ASSUME Respond \/ Register \/ SubmitFails PROVE frame \in Id
  <2>1. main \in {"responding", "registering", "submitting"}
    BY <1>7 DEF Respond, Register, SubmitFails
  <2> QED
    BY <1>1, <2>1 DEF Labels
<1>8. ASSUME Respond \/ Register \/ SubmitFails PROVE Serves
  BY <1>7, <1>8, RespondServes, RegisterServes, SubmitFailsServes DEF Serves, Service!Next
<1> QED
  BY <1>2, <1>3, <1>4, <1>5, <1>6, <1>8 DEF MainStep, Serves, Service!Next
\* The worker's decision becomes the reply of its call: a success only if its
\* event is not set (_finish).
LEMMA DecideServes ==
  ASSUME IInv, ~closed, Decide
  PROVE  job \in Id /\ \E says \in {"ok", "error"} : Service!Decide(job, says)
<1>1. job \in Registered /\ verdict \in {"ok", "error"}
  BY DEF IInv, TypeOK, Pool, Decide, Busy
<1>2. Reply = Service!Nothing /\ Reply' = [id |-> job, says |-> Verdict, final |-> FALSE]
  BY DEF Decide, Reply, Service!Nothing
<1>3. Verdict \in {"ok", "error"} /\ (Verdict = "ok" => active[job] = "clear")
  BY <1>1 DEF Verdict
<1>4. UNCHANGED <<owed, active, closed>>
  BY DEF Decide, server
<1> QED
  BY <1>1, <1>2, <1>3, <1>4 DEF Service!Decide, Registered

\* The call is no longer registered, and its reply final.
LEMMA ReleaseServes ==
  ASSUME IInv, Release
  PROVE  Service!Release
<1>1. Reply = [id |-> job, says |-> verdict, final |-> FALSE] /\ Reply # Service!Nothing
  BY ReplyStages DEF Release, Reply
<1>2. Reply' = [id |-> job, says |-> verdict, final |-> TRUE]
  BY DEF Release, Reply
<1>3. active' = [active EXCEPT ![job] = "none"] /\ UNCHANGED <<owed, closed>>
  BY DEF Release, Released, server
<1>4. Reply.id = job /\ Reply.says = verdict /\ Reply.final = FALSE
  BY <1>1
<1>5. active' = [active EXCEPT ![Reply.id] = "none"]
  BY <1>3, <1>4
<1> QED
  BY <1>1, <1>2, <1>3, <1>4, <1>5 DEF Service!Release

\* The reply is given to a client that was owed it.
LEMMA AnswerServes ==
  ASSUME IInv, ~closed, Answer
  PROVE  Service!Answer
<1>1. worker = "answering" /\ job \in Id /\ TypeOK /\ Ledger
  BY DEF IInv, TypeOK, Labels, Answer
<1>2. owed[job] > 0
  BY <1>1 DEF Ledger, Held, One
<1>3. Reply.final /\ Reply.id = job /\ Reply' = Service!Nothing
  BY <1>1, ReplyStages DEF Answer, Idle, Reply, Service!Nothing
<1>4. owed' = [owed EXCEPT ![job] = @ - 1] /\ UNCHANGED <<active, closed>>
  BY DEF Answer, Pay, server
<1> QED
  BY <1>2, <1>3, <1>4 DEF Service!Answer

\* The steps of the worker and its callback, while the server is open.
LEMMA WorkerServes ==
  ASSUME IInv, ~closed, WorkerStep
  PROVE  Serves
<1>1. ASSUME (\E i \in Id : Take(i)) \/ Start \/ Return("ok") \/ Return("error")
      PROVE  UNCHANGED Service!vars
  <2>1. UNCHANGED <<owed, active, closed>>
    BY <1>1 DEF Take, Start, Return, server
  <2>2. Reply' = Reply
    BY <1>1, NoReply DEF Take, Start, Return
  <2> QED
    BY <2>1, <2>2 DEF Service!vars
<1>2. ASSUME Decide PROVE Serves
  BY <1>2, DecideServes DEF Serves, Service!Next
<1>3. ASSUME Release \/ Answer PROVE Serves
  BY <1>3, ReleaseServes, AnswerServes DEF Serves, Service!Next
<1>4. ASSUME AnswerFails PROVE Service!Close
  <2>1. closed' /\ UNCHANGED <<owed, active>> /\ worker' = "hanging up"
    BY <1>4 DEF AnswerFails
  <2>2. Reply' = Service!Nothing
    BY <2>1 DEF Reply, Service!Nothing
  <2>3. closed' = TRUE
    BY <1>4 DEF AnswerFails
  <2> QED
    BY <2>1, <2>2, <2>3 DEF Service!Close
<1>5. ASSUME AnswerHangsUp PROVE FALSE
  BY <1>5 DEF IInv, Labels, AnswerHangsUp
<1> QED
  BY <1>1, <1>2, <1>3, <1>4, <1>5 DEF WorkerStep, Serves, Service!Next

\* A signal ends the service, and may lose the answer that the main thread was
\* giving; a timer tells its call to stop; a broken pipe is not noticed yet.
LEMMA OthersServe ==
  ASSUME IInv, ~closed, Signal \/ Break \/ \E i \in Id : TimeOut(i)
  PROVE  Serves
<1>1. ASSUME Signal PROVE Service!Close
  <2>1. closed' = TRUE /\ UNCHANGED <<owed, active, verdict>>
    BY <1>1 DEF Signal
  <2>2. \/ UNCHANGED <<worker, job>>
        \/ worker' = "idle"
    BY <1>1 DEF Signal
  <2>3. Reply' = Reply \/ Reply' = Service!Nothing
    BY <2>1, <2>2, SameReply DEF Reply, Service!Nothing
  <2> QED
    BY <2>1, <2>3 DEF Service!Close
<1>2. ASSUME Break PROVE UNCHANGED Service!vars
  BY <1>2, SameReply DEF Break, server, pool, Service!vars
<1>3. ASSUME NEW i \in Id, TimeOut(i) PROVE Serves
  <2>1. UNCHANGED <<owed, closed, Reply>>
    BY <1>3, SameReply DEF TimeOut, server, pool
  <2>2. active' = [active EXCEPT ![i] = IF @ = "none" THEN @ ELSE "set"]
    BY <1>3 DEF TimeOut
  <2>3. Service!Tell({i})
    BY <2>1, <2>2, OneTold
  <2> QED
    BY <2>3 DEF Serves, Service!Next
<1> QED
  BY <1>1, <1>2, <1>3 DEF Serves, Service!Next

\* To its client the server is CallService, whatever interrupts, cancels,
\* delays or disconnects: while it is open every request is answered at most
\* once and only if it was asked, a success is never said of a call that had
\* been told to stop, and once it has closed nothing is answered.
THEOREM Refinement == Spec => Promise
<1>1. Init => Service!Init
  BY DEF Init, Reply, Service!Init, Service!Nothing
<1>2. IInv /\ [Next]_vars => [Service!Next]_(Service!vars)
  <2> SUFFICES ASSUME IInv, [Next]_vars PROVE Serves
    BY DEF Serves
  <2>1. CASE UNCHANGED vars
    BY <2>1, SameReply DEF vars, server, pool, Serves, Service!vars
  <2>2. CASE Next /\ closed
    BY <2>2, ClosedWinds DEF Serves, Service!Next
  <2>3. CASE Next /\ ~closed
    BY <2>3, ReceiveServes, MainServes, WorkerServes, OthersServe DEF Next
  <2> QED
    BY <2>1, <2>2, <2>3
<1> QED
  BY <1>1, <1>2, Invariance, PTL DEF Spec, Promise, Service!Spec
=============================================================================
