--------------------------- MODULE ThreadPoolProofs ---------------------------
(***************************************************************************)
(* Proofs about ThreadPool, for any sets of workers, callers and tasks and *)
(* any queue bound: who holds the mutex and who waits, that no task is     *)
(* lost or duplicated, and that the pool implements the bounded FIFO queue *)
(* of TaskQueue.                                                           *)
(***************************************************************************)
EXTENDS ThreadPool, FiniteSetTheorems, SequenceTheorems, TLAPS

\* Steps are for Zenon unless they name another prover.
USE ZenonT(60)


InsideStates == {"test", "towait", "front", "pop", "push"}

\* mutex_ is held by exactly the thread that is between lock() and unlock().
MutexInv == \A t \in Threads : pc[t] \in InsideStates <=> mutex = t

\* Who is registered with a condition variable is blocked in its wait().
WaitInv ==
  /\ \A w \in noempty : pc[w] = "waiting"
  /\ \A p \in nofull : pc[p] = "waiting"

\* What a thread found out under the mutex stays true while it holds it.
LocalInv ==
  /\ \A w \in Workers :
       /\ pc[w] = "towait" => queue = <<>>
       /\ pc[w] \in {"front", "pop"} => queue # <<>>
       /\ pc[w] = "pop" => task[w] = Head(queue)
       /\ pc[w] = "exec" => task[w] \in Tasks
  /\ \A p \in Producers :
       /\ pc[p] = "push" => ~Full
       /\ pc[p] # "idle" => task[p] \in Tasks

\* The inductive invariant behind type correctness and the queue bound.
CoreInv == TypeOK /\ MutexInv /\ WaitInv /\ LocalInv /\ QueueBounded

\* The pool just constructed.
LEMMA InitCore == Init => CoreInv
<1> SUFFICES ASSUME Init PROVE CoreInv
  OBVIOUS
<1> USE ConstantsAssumption DEF Init, Threads
<1>1. TypeOK
  <2>1. queue \in Seq(Tasks)
    BY EmptySeq
  <2>2. \A w \in Workers : pc[w] = "none"
    OBVIOUS
  <2>3. \A p \in Producers : pc[p] = "idle"
    OBVIOUS
  <2>4. pc \in [Threads -> WorkerStates \cup ProducerStates]
    BY DEF WorkerStates, ProducerStates
  <2> QED
    BY <2>1, <2>2, <2>3, <2>4 DEF TypeOK, WorkerStates, ProducerStates, OwnerStates
<1>2. MutexInv
  BY DEF MutexInv, InsideStates
<1>3. WaitInv /\ LocalInv
  BY DEF WaitInv, LocalInv
<1>4. QueueBounded
  BY SMTT(20) DEF QueueBounded
<1> QED
  BY <1>1, <1>2, <1>3, <1>4 DEF CoreInv

\* start() and stop() keep CoreInv.
LEMMA OwnerCore == CoreInv /\ OwnerStep => CoreInv'
<1> SUFFICES ASSUME CoreInv, OwnerStep PROVE CoreInv'
  OBVIOUS
<1> USE ConstantsAssumption DEF CoreInv, Threads
<1>1. CASE Start \/ StartReturns \/ Stop \/ StopNotify \/ StopReturns
  <2>1. TypeOK'
    BY <1>1 DEF TypeOK, OwnerStates, Start, StartReturns, Stop, StopNotify, StopReturns
  <2>2. MutexInv'
    BY <1>1 DEF MutexInv, Start, StartReturns, Stop, StopNotify, StopReturns
  <2>3. WaitInv'
    BY <1>1 DEF WaitInv, Start, StartReturns, Stop, StopNotify, StopReturns
  <2>4. LocalInv'
    BY <1>1 DEF LocalInv, Full, Start, StartReturns, Stop, StopNotify, StopReturns
  <2>5. QueueBounded'
    BY <1>1 DEF QueueBounded, Start, StartReturns, Stop, StopNotify, StopReturns
  <2> QED
    BY <2>1, <2>2, <2>3, <2>4, <2>5
<1>2. ASSUME NEW w \in Workers, CreateThread(w) PROVE CoreInv'
  <2> USE <1>2 DEF CreateThread, Goto
  <2>1. TypeOK'
    BY DEF TypeOK, WorkerStates
  <2>2. MutexInv'
    BY DEF MutexInv, InsideStates, TypeOK
  <2>3. WaitInv'
    BY DEF WaitInv, TypeOK
  <2>4. LocalInv'
    BY DEF LocalInv, Full, TypeOK
  <2>5. QueueBounded'
    BY DEF QueueBounded
  <2> QED
    BY <2>1, <2>2, <2>3, <2>4, <2>5
<1> QED
  BY <1>1, <1>2 DEF OwnerStep

\* runInThread() and take() keep CoreInv.
LEMMA WorkerCore ==
  ASSUME NEW w \in Workers, CoreInv, WorkerStep(w) \/ TakeLock(w)
  PROVE  CoreInv'
<1> USE ConstantsAssumption DEF CoreInv, Threads
<1>1. CASE RunInitCallback(w)
  <2> USE <1>1 DEF RunInitCallback, Goto
  <2>1. TypeOK'
    BY DEF TypeOK, WorkerStates, ProducerStates, LocalInv, Signal
  <2>2. MutexInv'
    BY DEF MutexInv, InsideStates, TypeOK
  <2>3. WaitInv'
    BY DEF WaitInv, TypeOK, Signal
  <2>4. LocalInv'
    BY DEF LocalInv, Full, TypeOK, MutexInv, InsideStates
  <2>5. QueueBounded'
    BY DEF QueueBounded, TypeOK, LocalInv, Full
  <2> QED
    BY <2>1, <2>2, <2>3, <2>4, <2>5
<1>2. CASE WhileIsRunning(w)
  <2> USE <1>2 DEF WhileIsRunning, Goto
  <2>1. TypeOK'
    BY DEF TypeOK, WorkerStates, ProducerStates, LocalInv, Signal
  <2>2. MutexInv'
    BY DEF MutexInv, InsideStates, TypeOK
  <2>3. WaitInv'
    BY DEF WaitInv, TypeOK, Signal
  <2>4. LocalInv'
    BY DEF LocalInv, Full, TypeOK, MutexInv, InsideStates
  <2>5. QueueBounded'
    BY DEF QueueBounded, TypeOK, LocalInv, Full
  <2> QED
    BY <2>1, <2>2, <2>3, <2>4, <2>5
<1>3. CASE TakeTestWait(w)
  <2> USE <1>3 DEF TakeTestWait, Goto
  <2>1. TypeOK'
    BY DEF TypeOK, WorkerStates, ProducerStates, LocalInv, Signal
  <2>2. MutexInv'
    BY DEF MutexInv, InsideStates, TypeOK
  <2>3. WaitInv'
    BY DEF WaitInv, TypeOK, Signal
  <2>4. LocalInv'
    BY DEF LocalInv, Full, TypeOK, MutexInv, InsideStates
  <2>5. QueueBounded'
    BY DEF QueueBounded, TypeOK, LocalInv, Full
  <2> QED
    BY <2>1, <2>2, <2>3, <2>4, <2>5
<1>4. CASE TakeWait(w)
  <2> USE <1>4 DEF TakeWait, Goto
  <2>1. TypeOK'
    BY DEF TypeOK, WorkerStates, ProducerStates, LocalInv, Signal
  <2>2. MutexInv'
    BY DEF MutexInv, InsideStates, TypeOK
  <2>3. WaitInv'
    BY DEF WaitInv, TypeOK, Signal
  <2>4. LocalInv'
    BY DEF LocalInv, Full, TypeOK, MutexInv, InsideStates
  <2>5. QueueBounded'
    BY DEF QueueBounded, TypeOK, LocalInv, Full
  <2> QED
    BY <2>1, <2>2, <2>3, <2>4, <2>5
<1>5. CASE TakeNothing(w)
  <2> USE <1>5 DEF TakeNothing, Goto
  <2>1. TypeOK'
    BY DEF TypeOK, WorkerStates, ProducerStates, LocalInv, Signal
  <2>2. MutexInv'
    BY DEF MutexInv, InsideStates, TypeOK
  <2>3. WaitInv'
    BY DEF WaitInv, TypeOK, Signal
  <2>4. LocalInv'
    BY DEF LocalInv, Full, TypeOK, MutexInv, InsideStates
  <2>5. QueueBounded'
    BY DEF QueueBounded, TypeOK, LocalInv, Full
  <2> QED
    BY <2>1, <2>2, <2>3, <2>4, <2>5
<1>6. CASE TakeTestSome(w)
  <2> USE <1>6 DEF TakeTestSome, Goto
  <2>1. TypeOK'
    BY DEF TypeOK, WorkerStates, ProducerStates, LocalInv, Signal
  <2>2. MutexInv'
    BY DEF MutexInv, InsideStates, TypeOK
  <2>3. WaitInv'
    BY DEF WaitInv, TypeOK, Signal
  <2>4. LocalInv'
    BY DEF LocalInv, Full, TypeOK, MutexInv, InsideStates
  <2>5. QueueBounded'
    BY DEF QueueBounded, TypeOK, LocalInv, Full
  <2> QED
    BY <2>1, <2>2, <2>3, <2>4, <2>5
<1>7. CASE TakeFront(w)
  <2> USE <1>7 DEF TakeFront, Goto
  <2>1. TypeOK'
    BY SMTT(20) DEF TypeOK, WorkerStates, ProducerStates, LocalInv, Signal
  <2>2. MutexInv'
    BY DEF MutexInv, InsideStates, TypeOK
  <2>3. WaitInv'
    BY DEF WaitInv, TypeOK, Signal
  <2>4. LocalInv'
    BY DEF LocalInv, Full, TypeOK, MutexInv, InsideStates
  <2>5. QueueBounded'
    BY DEF QueueBounded, TypeOK, LocalInv, Full
  <2> QED
    BY <2>1, <2>2, <2>3, <2>4, <2>5
<1>8. CASE TakePop(w)
  <2> USE <1>8 DEF TakePop, Goto
  <2>1. TypeOK'
    BY SMTT(20) DEF TypeOK, WorkerStates, ProducerStates, LocalInv, Signal
  <2>2. MutexInv'
    BY DEF MutexInv, InsideStates, TypeOK
  <2>3. WaitInv'
    BY DEF WaitInv, TypeOK, Signal
  <2>4. LocalInv'
    BY SMTT(20) DEF LocalInv, Full, TypeOK, MutexInv, InsideStates
  <2>5. QueueBounded'
    BY SMTT(20) DEF QueueBounded, TypeOK, LocalInv, Full
  <2> QED
    BY <2>1, <2>2, <2>3, <2>4, <2>5
<1>9. CASE Execute(w)
  <2> USE <1>9 DEF Execute, Goto
  <2>1. TypeOK'
    BY DEF TypeOK, WorkerStates, ProducerStates, LocalInv, Signal
  <2>2. MutexInv'
    BY DEF MutexInv, InsideStates, TypeOK
  <2>3. WaitInv'
    BY DEF WaitInv, TypeOK, Signal
  <2>4. LocalInv'
    BY DEF LocalInv, Full, TypeOK, MutexInv, InsideStates
  <2>5. QueueBounded'
    BY DEF QueueBounded, TypeOK, LocalInv, Full
  <2> QED
    BY <2>1, <2>2, <2>3, <2>4, <2>5
<1>10. CASE TakeLock(w)
  <2> USE <1>10 DEF TakeLock, Goto
  <2>1. TypeOK'
    BY DEF TypeOK, WorkerStates, ProducerStates, LocalInv, Signal
  <2>2. MutexInv'
    BY DEF MutexInv, InsideStates, TypeOK
  <2>3. WaitInv'
    BY DEF WaitInv, TypeOK, Signal
  <2>4. LocalInv'
    BY DEF LocalInv, Full, TypeOK, MutexInv, InsideStates
  <2>5. QueueBounded'
    BY DEF QueueBounded, TypeOK, LocalInv, Full
  <2> QED
    BY <2>1, <2>2, <2>3, <2>4, <2>5
<1> QED
  BY <1>1, <1>2, <1>3, <1>4, <1>5, <1>6, <1>7, <1>8, <1>9, <1>10 DEF WorkerStep

\* run() keeps CoreInv.
LEMMA ProducerCore ==
  ASSUME NEW p \in Producers, CoreInv, ProducerStep(p) \/ RunLock(p)
  PROVE  CoreInv'
<1> USE ConstantsAssumption DEF CoreInv, Threads
<1>1. CASE RunWait(p)
  <2> USE <1>1 DEF RunWait, Goto
  <2>1. TypeOK'
    BY DEF TypeOK, WorkerStates, ProducerStates, LocalInv, Signal
  <2>2. MutexInv'
    BY DEF MutexInv, InsideStates, TypeOK
  <2>3. WaitInv'
    BY DEF WaitInv, TypeOK, Signal
  <2>4. LocalInv'
    BY DEF LocalInv, Full, TypeOK, MutexInv, InsideStates
  <2>5. QueueBounded'
    BY DEF QueueBounded, TypeOK, LocalInv, Full
  <2> QED
    BY <2>1, <2>2, <2>3, <2>4, <2>5
<1>2. CASE RunTestRoom(p)
  <2> USE <1>2 DEF RunTestRoom, Goto
  <2>1. TypeOK'
    BY DEF TypeOK, WorkerStates, ProducerStates, LocalInv, Signal
  <2>2. MutexInv'
    BY DEF MutexInv, InsideStates, TypeOK
  <2>3. WaitInv'
    BY DEF WaitInv, TypeOK, Signal
  <2>4. LocalInv'
    BY DEF LocalInv, Full, TypeOK, MutexInv, InsideStates
  <2>5. QueueBounded'
    BY DEF QueueBounded, TypeOK, LocalInv, Full
  <2> QED
    BY <2>1, <2>2, <2>3, <2>4, <2>5
<1>3. CASE RunPush(p)
  <2> USE <1>3 DEF RunPush, Goto
  <2>1. TypeOK'
    BY SMTT(20) DEF TypeOK, WorkerStates, ProducerStates, LocalInv, Signal
  <2>2. MutexInv'
    BY SMTT(20) DEF MutexInv, InsideStates, TypeOK
  <2>3. WaitInv'
    BY DEF WaitInv, TypeOK, Signal
  <2>4. LocalInv'
    BY DEF LocalInv, Full, TypeOK, MutexInv, InsideStates
  <2>5. QueueBounded'
    BY SMTT(20) DEF QueueBounded, TypeOK, LocalInv, Full
  <2> QED
    BY <2>1, <2>2, <2>3, <2>4, <2>5
<1>4. CASE RunLock(p)
  <2> USE <1>4 DEF RunLock, Goto
  <2>1. TypeOK'
    BY DEF TypeOK, WorkerStates, ProducerStates, LocalInv, Signal
  <2>2. MutexInv'
    BY DEF MutexInv, InsideStates, TypeOK
  <2>3. WaitInv'
    BY DEF WaitInv, TypeOK, Signal
  <2>4. LocalInv'
    BY DEF LocalInv, Full, TypeOK, MutexInv, InsideStates
  <2>5. QueueBounded'
    BY DEF QueueBounded, TypeOK, LocalInv, Full
  <2> QED
    BY <2>1, <2>2, <2>3, <2>4, <2>5
<1> QED
  BY <1>1, <1>2, <1>3, <1>4 DEF ProducerStep

\* A new call of run() keeps CoreInv.
LEMMA RunCallCore ==
  ASSUME NEW p \in Producers, NEW t \in Tasks, CoreInv, RunCall(p, t)
  PROVE  CoreInv'
<1> USE ConstantsAssumption DEF CoreInv, Threads, RunCall, Goto
<1>1. TypeOK'
  BY DEF TypeOK, ProducerStates
<1>2. MutexInv' /\ WaitInv'
  BY DEF MutexInv, WaitInv, InsideStates, TypeOK
<1>3. LocalInv'
  BY DEF LocalInv, Full, TypeOK
<1>4. QueueBounded'
  BY DEF QueueBounded
<1> QED
  BY <1>1, <1>2, <1>3, <1>4

\* A spurious wakeup only sends a thread back to its while loop.
LEMMA SpuriousCore ==
  ASSUME NEW t \in Threads, CoreInv, SpuriousWakeup(t)
  PROVE  CoreInv'
BY DEF CoreInv, SpuriousWakeup, TypeOK, MutexInv, WaitInv, LocalInv, QueueBounded, Full

\* CoreInv is about the variables only.
LEMMA StutterCore == CoreInv /\ UNCHANGED vars => CoreInv'
BY DEF CoreInv, vars, TypeOK, MutexInv, WaitInv, LocalInv, QueueBounded, Full

\* Every step of the pool keeps CoreInv.
LEMMA CoreInductive == CoreInv /\ [Next]_vars => CoreInv'
BY OwnerCore, WorkerCore, ProducerCore, RunCallCore, SpuriousCore, StutterCore DEF Next

\* CoreInv holds in every reachable state of the pool.
THEOREM CoreInvariance == Spec => []CoreInv
BY InitCore, CoreInductive, PTL DEF Spec

\* The fields of ThreadPool and the locals of its threads keep their types.
\* This is more than bookkeeping: pop_front() and front() are undefined on an
\* empty deque, and a Tail of an empty queue_ would break the type.
THEOREM TypeCorrect == Spec => []TypeOK
BY CoreInvariance, PTL DEF CoreInv

\* run() never lets queue_ grow beyond maxQueueSize_, for any number of
\* callers and workers.
THEOREM BoundHolds == Spec => []QueueBounded
BY CoreInvariance, PTL DEF CoreInv

-------------------------------------------------------------------------------
(* Wakeups.                                                                 *)

\* There are finitely many threads, awake or not.
LEMMA AwakeFinite ==
  /\ IsFiniteSet(AwakeWorkers) /\ IsFiniteSet(AwakeWorkers')
  /\ IsFiniteSet(AwakeProducers) /\ IsFiniteSet(AwakeProducers')
<1>1. AwakeWorkers \subseteq Workers /\ AwakeWorkers' \subseteq Workers
  BY DEF AwakeWorkers
<1>2. AwakeProducers \subseteq Producers /\ AwakeProducers' \subseteq Producers
  BY DEF AwakeProducers
<1> QED
  BY <1>1, <1>2, FiniteAssumption, FS_Subset

\* A step that leaves the queue alone and puts no worker to sleep.
LEMMA QueueCoverKept ==
  ASSUME CoreInv, WakeupsCoverQueue, queue' = queue, noempty' \subseteq noempty,
         AwakeWorkers \subseteq AwakeWorkers'
  PROVE  WakeupsCoverQueue'
<1>1. Cardinality(AwakeWorkers) <= Cardinality(AwakeWorkers')
  BY AwakeFinite, FS_Subset
<1>2. Cardinality(AwakeWorkers) \in Nat /\ Cardinality(AwakeWorkers') \in Nat
  BY AwakeFinite, FS_CardinalityType
<1>3. Len(queue) \in Nat
  BY SMTT(20) DEF CoreInv, TypeOK
<1> QED
  BY <1>1, <1>2, <1>3, SMTT(20) DEF WakeupsCoverQueue

\* The same for the room in the queue and the callers of run().
LEMMA RoomCoverKept ==
  ASSUME CoreInv, WakeupsCoverRoom, queue' = queue, nofull' \subseteq nofull,
         AwakeProducers \subseteq AwakeProducers'
  PROVE  WakeupsCoverRoom'
<1>1. Cardinality(AwakeProducers) <= Cardinality(AwakeProducers')
  BY AwakeFinite, FS_Subset
<1>2. Cardinality(AwakeProducers) \in Nat /\ Cardinality(AwakeProducers') \in Nat
  BY AwakeFinite, FS_CardinalityType
<1>3. Len(queue) \in Nat /\ MaxQueueSize \in Nat
  BY ConstantsAssumption, SMTT(20) DEF CoreInv, TypeOK
<1> QED
  BY <1>1, <1>2, <1>3, SMTT(20) DEF WakeupsCoverRoom

\* No step leaves a worker asleep beside a task nobody is on the way to.
LEMMA QueueCoverStep ==
  ASSUME CoreInv, CoreInv', WakeupsCoverQueue, [Next]_vars
  PROVE  WakeupsCoverQueue'
<1> USE DEF CoreInv, Threads
<1>1. CASE OwnerStep
  <2>1. queue' = queue /\ noempty' \subseteq noempty
    BY <1>1 DEF OwnerStep, Start, StartReturns, Stop, StopNotify, StopReturns,
       CreateThread
  <2>2. AwakeWorkers \subseteq AwakeWorkers'
    BY <1>1 DEF OwnerStep, Start, StartReturns, Stop, StopNotify, StopReturns,
       CreateThread, Goto, AwakeWorkers, TypeOK
  <2> QED
    BY <2>1, <2>2, QueueCoverKept
<1>2. ASSUME NEW w \in Workers,
             \/ RunInitCallback(w) \/ WhileIsRunning(w) \/ TakeTestSome(w)
             \/ TakeFront(w) \/ Execute(w) \/ TakeLock(w)
      PROVE  WakeupsCoverQueue'
  <2>1. queue' = queue /\ noempty' = noempty
    BY <1>2 DEF RunInitCallback, WhileIsRunning, TakeTestSome, TakeFront, Execute,
       TakeLock
  <2>2. AwakeWorkers \subseteq AwakeWorkers'
    BY <1>2 DEF RunInitCallback, WhileIsRunning, TakeTestSome, TakeFront, Execute,
       TakeLock, Goto, AwakeWorkers, TypeOK
  <2> QED
    BY <2>1, <2>2, QueueCoverKept
<1>3. ASSUME NEW w \in Workers, TakeTestWait(w) \/ TakeWait(w) \/ TakeNothing(w)
      PROVE  WakeupsCoverQueue'
  <2>1. queue' = <<>>
    BY <1>3 DEF TakeTestWait, TakeWait, TakeNothing, LocalInv
  <2>2. Len(queue') = 0
    BY <2>1
  <2>3. Cardinality(AwakeWorkers') \in Nat
    BY AwakeFinite, FS_CardinalityType
  <2> QED
    BY <2>2, <2>3, SMTT(20) DEF WakeupsCoverQueue
<1>4. ASSUME NEW w \in Workers, TakePop(w)
      PROVE  WakeupsCoverQueue'
  <2>1. Len(queue') = Len(queue) - 1 /\ Len(queue) \in Nat
    BY <1>4, SMTT(20) DEF TakePop, LocalInv, TypeOK
  <2>2. AwakeWorkers' = AwakeWorkers \ {w} /\ w \in AwakeWorkers /\ noempty' = noempty
    BY <1>4 DEF TakePop, Goto, AwakeWorkers, TypeOK
  <2>3. Cardinality(AwakeWorkers') = Cardinality(AwakeWorkers) - 1
    BY <2>2, AwakeFinite, FS_RemoveElement
  <2>4. Cardinality(AwakeWorkers) \in Nat
    BY AwakeFinite, FS_CardinalityType
  <2> QED
    BY <2>1, <2>2, <2>3, <2>4, SMTT(20) DEF WakeupsCoverQueue
<1>5. ASSUME NEW p \in Producers, RunPush(p)
      PROVE  WakeupsCoverQueue'
  <2>1. CASE noempty = {}
    BY <1>5, <2>1 DEF RunPush, Signal, WakeupsCoverQueue
  <2>2. CASE noempty # {}
    <3>1. PICK t \in noempty : noempty' = noempty \ {t}
      BY <1>5, <2>2 DEF RunPush, Signal
    <3>2. t \in Workers /\ pc[t] = "waiting"
      BY DEF WaitInv, TypeOK
    <3>3. \A w \in Workers : pc'[w] = pc[w]
      BY <1>5, ConstantsAssumption, SMTT(20) DEF RunPush, Goto, TypeOK
    <3>4. AwakeWorkers' = AwakeWorkers \cup {t} /\ t \notin AwakeWorkers
      BY <3>1, <3>2, <3>3 DEF AwakeWorkers
    <3>5. Cardinality(AwakeWorkers') = Cardinality(AwakeWorkers) + 1
      BY <3>4, AwakeFinite, FS_AddElement
    <3>6. Len(queue') = Len(queue) + 1 /\ Len(queue) \in Nat
      BY <1>5, SMTT(20) DEF RunPush, LocalInv, TypeOK
    <3>7. Cardinality(AwakeWorkers) \in Nat
      BY AwakeFinite, FS_CardinalityType
    <3> QED
      BY <2>2, <3>5, <3>6, <3>7, SMTT(20) DEF WakeupsCoverQueue
  <2> QED
    BY <2>1, <2>2
<1>6. ASSUME NEW p \in Producers,
             \/ RunWait(p) \/ RunTestRoom(p) \/ RunLock(p)
             \/ \E t \in Tasks : RunCall(p, t)
      PROVE  WakeupsCoverQueue'
  <2>1. queue' = queue /\ noempty' = noempty
    BY <1>6 DEF RunWait, RunTestRoom, RunLock, RunCall
  <2>2. \A w \in Workers : pc'[w] = pc[w]
    BY <1>6, ConstantsAssumption, SMTT(20) DEF RunWait, RunTestRoom, RunLock, RunCall, Goto, TypeOK
  <2> QED
    BY <2>1, <2>2, QueueCoverKept DEF AwakeWorkers
<1>7. ASSUME NEW t \in Threads, SpuriousWakeup(t)
      PROVE  WakeupsCoverQueue'
  BY <1>7, QueueCoverKept DEF SpuriousWakeup, AwakeWorkers
<1>8. CASE UNCHANGED vars
  BY <1>8, QueueCoverKept DEF vars, AwakeWorkers
<1> QED
  BY <1>1, <1>2, <1>3, <1>4, <1>5, <1>6, <1>7, <1>8
  DEF Next, WorkerStep, ProducerStep

\* No step leaves a caller of run() asleep beside a slot nobody is on the way to.
LEMMA RoomCoverStep ==
  ASSUME CoreInv, CoreInv', WakeupsCoverRoom, [Next]_vars
  PROVE  WakeupsCoverRoom'
<1> USE DEF CoreInv, Threads
<1>1. CASE OwnerStep
  <2>1. queue' = queue /\ nofull' = nofull /\ \A p \in Producers : pc'[p] = pc[p]
    BY <1>1, ConstantsAssumption DEF OwnerStep, Start, StartReturns, Stop, StopNotify,
       StopReturns, CreateThread, Goto, TypeOK
  <2> QED
    BY <2>1, RoomCoverKept DEF AwakeProducers
<1>2. ASSUME NEW w \in Workers,
             \/ RunInitCallback(w) \/ WhileIsRunning(w) \/ TakeTestSome(w)
             \/ TakeFront(w) \/ Execute(w) \/ TakeLock(w)
             \/ TakeTestWait(w) \/ TakeWait(w) \/ TakeNothing(w)
      PROVE  WakeupsCoverRoom'
  <2>1. queue' = queue /\ nofull' = nofull
    BY <1>2 DEF RunInitCallback, WhileIsRunning, TakeTestSome, TakeFront, Execute,
       TakeLock, TakeTestWait, TakeWait, TakeNothing
  <2>2. \A p \in Producers : pc'[p] = pc[p]
    BY <1>2, ConstantsAssumption DEF RunInitCallback, WhileIsRunning, TakeTestSome,
       TakeFront, Execute, TakeLock, TakeTestWait, TakeWait, TakeNothing, Goto, TypeOK
  <2> QED
    BY <2>1, <2>2, RoomCoverKept DEF AwakeProducers
<1>3. ASSUME NEW w \in Workers, TakePop(w)
      PROVE  WakeupsCoverRoom'
  <2>1. Len(queue') = Len(queue) - 1 /\ Len(queue) \in Nat /\ Len(queue') \in Nat
    BY <1>3, SMTT(20) DEF TakePop, LocalInv, TypeOK
  <2>2. Cardinality(AwakeProducers) \in Nat /\ Cardinality(AwakeProducers') \in Nat
    BY AwakeFinite, FS_CardinalityType
  <2>3. CASE MaxQueueSize = 0
    BY <2>1, <2>2, <2>3, SMTT(20) DEF WakeupsCoverRoom
  <2>4. CASE MaxQueueSize > 0 /\ nofull = {}
    BY <1>3, <2>4 DEF TakePop, Signal, WakeupsCoverRoom
  <2>5. CASE MaxQueueSize > 0 /\ nofull # {}
    <3>1. PICK t \in nofull : nofull' = nofull \ {t}
      BY <1>3, <2>5 DEF TakePop, Signal
    <3>2. t \in Producers /\ pc[t] = "waiting"
      BY DEF WaitInv, TypeOK
    <3>3. \A p \in Producers : pc'[p] = pc[p]
      BY <1>3, ConstantsAssumption DEF TakePop, Goto, TypeOK
    <3>4. AwakeProducers' = AwakeProducers \cup {t} /\ t \notin AwakeProducers
      BY <3>1, <3>2, <3>3 DEF AwakeProducers
    <3>5. Cardinality(AwakeProducers') = Cardinality(AwakeProducers) + 1
      BY <3>4, AwakeFinite, FS_AddElement
    <3> QED
      BY <2>1, <2>2, <2>5, <3>5, ConstantsAssumption, SMTT(20) DEF WakeupsCoverRoom
  <2> QED
    BY <2>3, <2>4, <2>5, ConstantsAssumption, SMTT(20)
<1>4. ASSUME NEW p \in Producers, RunWait(p)
      PROVE  WakeupsCoverRoom'
  <2>1. queue' = queue /\ Len(queue) \in Nat /\ Len(queue) >= MaxQueueSize
    BY <1>4, SMTT(20) DEF RunWait, Full, TypeOK
  <2>2. Cardinality(AwakeProducers') \in Nat
    BY AwakeFinite, FS_CardinalityType
  <2> QED
    BY <2>1, <2>2, ConstantsAssumption, SMTT(20) DEF WakeupsCoverRoom
<1>5. ASSUME NEW p \in Producers, RunPush(p)
      PROVE  WakeupsCoverRoom'
  <2>1. Len(queue') = Len(queue) + 1 /\ Len(queue) \in Nat
    BY <1>5, SMTT(20) DEF RunPush, LocalInv, TypeOK
  <2>2. AwakeProducers' = AwakeProducers \ {p} /\ p \in AwakeProducers /\ nofull' = nofull
    BY <1>5 DEF RunPush, Goto, AwakeProducers, TypeOK
  <2>3. Cardinality(AwakeProducers') = Cardinality(AwakeProducers) - 1
    BY <2>2, AwakeFinite, FS_RemoveElement
  <2>4. Cardinality(AwakeProducers) \in Nat
    BY AwakeFinite, FS_CardinalityType
  <2> QED
    BY <2>1, <2>2, <2>3, <2>4, ConstantsAssumption, SMTT(20) DEF WakeupsCoverRoom
<1>6. ASSUME NEW p \in Producers,
             RunTestRoom(p) \/ RunLock(p) \/ \E t \in Tasks : RunCall(p, t)
      PROVE  WakeupsCoverRoom'
  <2>1. queue' = queue /\ nofull' = nofull
    BY <1>6 DEF RunTestRoom, RunLock, RunCall
  <2>2. AwakeProducers \subseteq AwakeProducers'
    BY <1>6 DEF RunTestRoom, RunLock, RunCall, Goto, AwakeProducers, TypeOK
  <2> QED
    BY <2>1, <2>2, RoomCoverKept
<1>7. ASSUME NEW t \in Threads, SpuriousWakeup(t)
      PROVE  WakeupsCoverRoom'
  BY <1>7, RoomCoverKept DEF SpuriousWakeup, AwakeProducers
<1>8. CASE UNCHANGED vars
  BY <1>8, RoomCoverKept DEF vars, AwakeProducers
<1> QED
  BY <1>1, <1>2, <1>3, <1>4, <1>5, <1>6, <1>7, <1>8
  DEF Next, WorkerStep, ProducerStep

\* Nobody sleeps in a pool just constructed.
LEMMA InitCover == Init => WakeupsCoverQueue /\ WakeupsCoverRoom
BY DEF Init, WakeupsCoverQueue, WakeupsCoverRoom

\* One noempty_.notify() per push_back() is enough: a worker sleeps beside
\* queued tasks only if as many workers are already on their way to them.
THEOREM NoLostTaskWakeup == Spec => []WakeupsCoverQueue
BY InitCover, CoreInvariance, QueueCoverStep, PTL DEF Spec

\* One nofull_.notify() per pop_front() is enough: a caller of run() sleeps
\* beside free slots only if as many callers are on their way to fill them.
THEOREM NoLostRoomWakeup == Spec => []WakeupsCoverRoom
BY InitCover, CoreInvariance, RoomCoverStep, PTL DEF Spec

-------------------------------------------------------------------------------
(* The elements of a queue without duplicates after push_back() and after  *)
(* pop_front().                                                            *)

Elems(s) == {s[i] : i \in DOMAIN s}

Distinct(s) == \A i, j \in DOMAIN s : s[i] = s[j] => i = j

\* push_back() of a new element.
LEMMA AppendElems ==
  ASSUME NEW S, NEW s \in Seq(S), NEW e \in S, e \notin Elems(s), Distinct(s)
  PROVE  Elems(Append(s, e)) = Elems(s) \cup {e} /\ Distinct(Append(s, e))
<1>1. /\ Append(s, e) \in Seq(S)
      /\ Len(Append(s, e)) = Len(s) + 1
      /\ \A i \in 1 .. Len(s) : Append(s, e)[i] = s[i]
      /\ Append(s, e)[Len(s) + 1] = e
  BY AppendProperties, SMTT(20)
<1>2. DOMAIN s = 1 .. Len(s) /\ DOMAIN Append(s, e) = 1 .. (Len(s) + 1) /\ Len(s) \in Nat
  BY <1>1, SMTT(20)
<1>3. DOMAIN Append(s, e) = DOMAIN s \cup {Len(s) + 1} /\ Len(s) + 1 \notin DOMAIN s
  BY <1>2, SMTT(20)
<1> QED
  BY <1>1, <1>2, <1>3, SMTT(20) DEF Elems, Distinct

\* pop_front().
LEMMA TailElems ==
  ASSUME NEW S, NEW s \in Seq(S), s # <<>>, Distinct(s)
  PROVE  /\ Head(s) \in Elems(s)
         /\ Elems(Tail(s)) = Elems(s) \ {Head(s)}
         /\ Distinct(Tail(s))
<1>1. /\ Len(Tail(s)) = Len(s) - 1
      /\ Tail(s) \in Seq(S)
      /\ \A i \in 1 .. Len(Tail(s)) : Tail(s)[i] = s[i + 1]
  BY HeadTailProperties
<1>2. Head(s) = s[1] /\ Len(s) \in Nat \ {0} /\ DOMAIN s = 1 .. Len(s)
  BY EmptySeq, SMTT(20)
<1>3. DOMAIN Tail(s) = 1 .. (Len(s) - 1)
  BY <1>1, SMTT(20)
<1>4. ASSUME NEW i \in DOMAIN s, i # 1
      PROVE  i - 1 \in DOMAIN Tail(s) /\ Tail(s)[i - 1] = s[i]
  BY <1>1, <1>2, <1>3, <1>4, SMTT(20)
<1>5. ASSUME NEW i \in DOMAIN Tail(s)
      PROVE  i + 1 \in DOMAIN s /\ i + 1 # 1 /\ Tail(s)[i] = s[i + 1]
  BY <1>1, <1>2, <1>3, SMTT(20)
<1>6. Distinct(Tail(s))
  <2> SUFFICES ASSUME NEW i \in DOMAIN Tail(s), NEW j \in DOMAIN Tail(s),
                      Tail(s)[i] = Tail(s)[j]
               PROVE  i = j
    BY DEF Distinct
  <2>1. i + 1 = j + 1
    BY <1>5 DEF Distinct
  <2> QED
    BY <2>1, <1>3, <1>2, SMTT(20)
<1>7. Elems(Tail(s)) \subseteq Elems(s) \ {Head(s)}
  BY <1>2, <1>5, SMTT(20) DEF Elems, Distinct
<1>8. Elems(s) \ {Head(s)} \subseteq Elems(Tail(s))
  BY <1>2, <1>4, SMTT(20) DEF Elems
<1>9. Head(s) \in Elems(s)
  BY <1>2, SMTT(20) DEF Elems
<1> QED
  BY <1>6, <1>7, <1>8, <1>9

-------------------------------------------------------------------------------
\* Two callers never offer the same task.
OfferedOnce ==
  \A p, q \in Producers :
    pc[p] # "idle" /\ pc[q] # "idle" /\ task[p] = task[q] => p = q

ConservedInv == TasksConserved /\ OfferedOnce

\* A step that moves no task.
Quiet ==
  /\ queue' = queue /\ submitted' = submitted /\ done' = done
  /\ \A w \in Workers : /\ pc'[w] = "exec" <=> pc[w] = "exec"
                        /\ pc[w] = "exec" => task'[w] = task[w]
  /\ \A p \in Producers : /\ pc'[p] = "idle" <=> pc[p] = "idle"
                          /\ pc[p] # "idle" => task'[p] = task[p]

\* A quiet step leaves every task where it is.
LEMMA QuietSets ==
  ASSUME Quiet
  PROVE  Offered' = Offered /\ Executing' = Executing /\ Pending' = Pending
BY DEF Quiet, Offered, Executing, Pending

\* Only run(), take() and the execution move a task.
LEMMA QuietOrMoving ==
  ASSUME CoreInv, [Next]_vars
  PROVE  \/ Quiet
         \/ \E w \in Workers : TakePop(w) \/ Execute(w)
         \/ \E p \in Producers : RunPush(p) \/ \E t \in Tasks : RunCall(p, t)
<1> USE ConstantsAssumption DEF CoreInv, TypeOK, Threads, Quiet
<1>1. CASE OwnerStep
  BY <1>1 DEF OwnerStep, Start, StartReturns, Stop, StopNotify, StopReturns,
     CreateThread, Goto
<1>2. ASSUME NEW w \in Workers,
             \/ RunInitCallback(w) \/ WhileIsRunning(w) \/ TakeTestSome(w)
             \/ TakeFront(w) \/ TakeLock(w)
             \/ TakeTestWait(w) \/ TakeWait(w) \/ TakeNothing(w)
      PROVE  Quiet
  BY <1>2 DEF RunInitCallback, WhileIsRunning, TakeTestSome, TakeFront, TakeLock,
     TakeTestWait, TakeWait, TakeNothing, Goto
<1>3. ASSUME NEW p \in Producers, RunWait(p) \/ RunTestRoom(p) \/ RunLock(p)
      PROVE  Quiet
  BY <1>3 DEF RunWait, RunTestRoom, RunLock, Goto
<1>4. ASSUME NEW t \in Threads, SpuriousWakeup(t)
      PROVE  Quiet
  BY <1>4 DEF SpuriousWakeup
<1>5. CASE UNCHANGED vars
  BY <1>5 DEF vars
<1> QED
  BY <1>1, <1>2, <1>3, <1>4, <1>5 DEF Next, WorkerStep, ProducerStep

\* A call of run() offers one task more.
LEMMA RunCallMoves ==
  ASSUME CoreInv, ConservedInv, NEW p \in Producers, NEW t \in Tasks, RunCall(p, t)
  PROVE  /\ Offered' = Offered \cup {t} /\ Executing' = Executing /\ Pending' = Pending
         /\ ConservedInv'
<1> USE DEF CoreInv, TypeOK, Threads
<1>1. t \notin Offered \cup Pending \cup Executing \cup done
  BY DEF RunCall, ConservedInv, TasksConserved
<1>2. /\ \A q \in Producers : q # p => pc'[q] = pc[q] /\ task'[q] = task[q]
      /\ pc[p] = "idle" /\ pc'[p] = "lock" /\ task'[p] = t
      /\ \A w \in Workers : pc'[w] = pc[w] /\ task'[w] = task[w]
  BY ConstantsAssumption DEF RunCall, Goto
<1>3. Offered' = Offered \cup {t}
  BY <1>2 DEF Offered
<1>4. Executing' = Executing
  BY <1>2 DEF Executing
<1>5. Pending' = Pending
  BY DEF RunCall, Pending
<1>6. OfferedOnce'
  BY <1>1, <1>2, SMTT(20) DEF OfferedOnce, ConservedInv, Offered
<1>7. TasksConserved'
  BY <1>1, <1>2, <1>3, <1>4, <1>5, SMTT(20) DEF TasksConserved, ConservedInv, RunCall
<1> QED
  BY <1>3, <1>4, <1>5, <1>6, <1>7 DEF ConservedInv

\* push_back() moves the caller's task to the queue.
LEMMA RunPushMoves ==
  ASSUME CoreInv, ConservedInv, NEW p \in Producers, RunPush(p)
  PROVE  /\ Executing' = Executing /\ done' = done /\ task[p] \in Tasks
         /\ task[p] \notin Pending \cup Executing \cup done
         /\ ConservedInv'
<1> USE DEF CoreInv, TypeOK, Threads
<1>1. /\ \A q \in Producers : q # p => pc'[q] = pc[q] /\ task'[q] = task[q]
      /\ pc[p] = "push" /\ pc'[p] = "idle" /\ task[p] \in Tasks
      /\ \A w \in Workers : pc'[w] = pc[w] /\ task'[w] = task[w]
  BY ConstantsAssumption DEF RunPush, Goto, LocalInv
<1>2. task[p] \in Offered
  BY <1>1 DEF Offered
<1>3. task[p] \notin Pending \cup Executing \cup done
  BY <1>2 DEF ConservedInv, TasksConserved
<1>4. Offered' = Offered \ {task[p]}
  BY <1>1, SMTT(20) DEF Offered, OfferedOnce, ConservedInv
<1>5. Executing' = Executing
  BY <1>1 DEF Executing
<1>6. Pending' = Pending \cup {task[p]} /\ Distinct(queue')
  <2>1. queue \in Seq(Tasks) /\ Distinct(queue) /\ task[p] \notin Elems(queue)
    BY <1>3 DEF Pending, Elems, Distinct, ConservedInv, TasksConserved
  <2>2. /\ Elems(Append(queue, task[p])) = Elems(queue) \cup {task[p]}
        /\ Distinct(Append(queue, task[p]))
    BY <1>1, <2>1, AppendElems
  <2>3. queue' = Append(queue, task[p])
    BY DEF RunPush
  <2>4. Pending = Elems(queue) /\ Pending' = Elems(queue')
    BY DEF Pending, Elems
  <2> QED
    BY <2>2, <2>3, <2>4
<1>7. OfferedOnce'
  BY <1>1 DEF OfferedOnce, ConservedInv
<1>8. done' = done /\ submitted' = submitted
  BY DEF RunPush
<1>9. TasksConserved'
  BY <1>1, <1>2, <1>3, <1>4, <1>5, <1>6, <1>8, SMTT(20)
  DEF TasksConserved, ConservedInv, Distinct
<1> QED
  BY <1>1, <1>3, <1>5, <1>7, <1>8, <1>9 DEF ConservedInv

\* pop_front() moves the oldest task to the worker.
LEMMA TakePopMoves ==
  ASSUME CoreInv, ConservedInv, NEW w \in Workers, TakePop(w)
  PROVE  /\ Executing' = Executing \cup {Head(queue)} /\ queue # <<>>
         /\ ConservedInv'
<1> USE DEF CoreInv, TypeOK, Threads
<1>1. /\ \A q \in Producers : pc'[q] = pc[q] /\ task'[q] = task[q]
      /\ pc[w] = "pop" /\ pc'[w] = "exec" /\ task'[w] = Head(queue) /\ queue # <<>>
      /\ \A v \in Workers : v # w => pc'[v] = pc[v] /\ task'[v] = task[v]
  BY ConstantsAssumption DEF TakePop, Goto, LocalInv
<1>2. /\ Head(queue) \in Pending
      /\ Pending' = Pending \ {Head(queue)}
      /\ Distinct(queue')
  <2>1. queue \in Seq(Tasks) /\ Distinct(queue)
    BY DEF Distinct, ConservedInv, TasksConserved
  <2>2. /\ Head(queue) \in Elems(queue)
        /\ Elems(Tail(queue)) = Elems(queue) \ {Head(queue)}
        /\ Distinct(Tail(queue))
    BY <1>1, <2>1, TailElems
  <2>3. queue' = Tail(queue)
    BY DEF TakePop
  <2>4. Pending = Elems(queue) /\ Pending' = Elems(queue')
    BY DEF Pending, Elems
  <2> QED
    BY <2>2, <2>3, <2>4
<1>3. Executing' = Executing \cup {Head(queue)}
  BY <1>1 DEF Executing
<1>4. Offered' = Offered
  BY <1>1 DEF Offered
<1>5. Head(queue) \notin Executing
  BY <1>2 DEF ConservedInv, TasksConserved
<1>6. \A u, v \in Workers :
        pc'[u] = "exec" /\ pc'[v] = "exec" /\ task'[u] = task'[v] => u = v
  BY <1>1, <1>5, SMTT(20) DEF Executing, ConservedInv, TasksConserved
<1>7. done' = done /\ submitted' = submitted
  BY DEF TakePop
<1>8. TasksConserved'
  BY <1>2, <1>3, <1>4, <1>6, <1>7, SMTT(20) DEF TasksConserved, ConservedInv, Distinct
<1>9. OfferedOnce'
  BY <1>1 DEF OfferedOnce, ConservedInv
<1> QED
  BY <1>1, <1>3, <1>8, <1>9 DEF ConservedInv

\* The execution ends the task of the worker.
LEMMA ExecuteMoves ==
  ASSUME CoreInv, ConservedInv, NEW w \in Workers, Execute(w)
  PROVE  /\ task[w] \in Executing /\ task[w] \in Tasks
         /\ Executing' = Executing \ {task[w]}
         /\ done' = done \cup {task[w]}
         /\ ConservedInv'
<1> USE DEF CoreInv, TypeOK, Threads
<1>1. /\ \A q \in Producers : pc'[q] = pc[q] /\ task'[q] = task[q]
      /\ pc[w] = "exec" /\ pc'[w] # "exec" /\ task[w] \in Tasks
      /\ \A v \in Workers : v # w => pc'[v] = pc[v] /\ task'[v] = task[v]
  BY ConstantsAssumption DEF Execute, Goto, LocalInv
<1>2. task[w] \in Executing
  BY <1>1 DEF Executing
<1>3. Executing' = Executing \ {task[w]}
  BY <1>1, SMTT(20) DEF Executing, ConservedInv, TasksConserved
<1>4. Offered' = Offered
  BY <1>1 DEF Offered
<1>5. Pending' = Pending /\ done' = done \cup {task[w]} /\ submitted' = submitted /\ queue' = queue
  BY DEF Execute, Pending
<1>6. TasksConserved'
  BY <1>1, <1>2, <1>3, <1>4, <1>5, SMTT(20) DEF TasksConserved, ConservedInv
<1>7. OfferedOnce'
  BY <1>1 DEF OfferedOnce, ConservedInv
<1> QED
  BY <1>1, <1>2, <1>3, <1>5, <1>6, <1>7 DEF ConservedInv

-------------------------------------------------------------------------------
\* No task was submitted.
LEMMA InitConserved == Init => ConservedInv
<1> SUFFICES ASSUME Init PROVE ConservedInv
  OBVIOUS
<1>1. \A p \in Producers : pc[p] = "idle"
  BY ConstantsAssumption DEF Init, Threads
<1>2. \A w \in Workers : pc[w] = "none"
  BY DEF Init, Threads
<1>3. Offered = {} /\ Executing = {} /\ Pending = {}
  BY <1>1, <1>2, SMTT(20) DEF Init, Offered, Executing, Pending
<1> QED
  BY <1>1, <1>2, <1>3, SMTT(20) DEF Init, ConservedInv, TasksConserved, OfferedOnce

\* A quiet step keeps the tasks where they are, each in one place.
LEMMA QuietConserved == ConservedInv /\ Quiet => ConservedInv'
<1> SUFFICES ASSUME ConservedInv, Quiet PROVE ConservedInv'
  OBVIOUS
<1>1. TasksConserved'
  BY QuietSets, SMTT(20) DEF ConservedInv, TasksConserved, Quiet
<1>2. OfferedOnce'
  BY DEF ConservedInv, OfferedOnce, Quiet
<1> QED
  BY <1>1, <1>2 DEF ConservedInv

\* Every step keeps each task in one place.
LEMMA ConservedInductive == CoreInv /\ ConservedInv /\ [Next]_vars => ConservedInv'
BY QuietOrMoving, QuietConserved, RunCallMoves, RunPushMoves, TakePopMoves, ExecuteMoves

\* Every submitted task is in one place in every reachable state.
THEOREM ConservedInvariance == Spec => []ConservedInv
BY InitConserved, CoreInvariance, ConservedInductive, PTL DEF Spec

\* take() and run() lose no task and hand none out twice: a submitted task is
\* with its caller, queued once, with one worker, or ended.
THEOREM NoTaskLost == Spec => []TasksConserved
BY ConservedInvariance, PTL DEF ConservedInv

\* Every step of the pool is a Put, a Get, an End or a stutter of the queue.
LEMMA StepSimulation ==
  ASSUME CoreInv, ConservedInv, [Next]_vars
  PROVE  [Queue!Next]_(Queue!qvars)
<1> USE DEF Queue!Next, Queue!qvars
<1>1. CASE Quiet
  BY <1>1, QuietSets DEF Quiet
<1>2. ASSUME NEW p \in Producers, NEW t \in Tasks, RunCall(p, t)
      PROVE  UNCHANGED Queue!qvars
  BY <1>2, RunCallMoves DEF RunCall
<1>3. ASSUME NEW p \in Producers, RunPush(p)
      PROVE  Queue!Put(task[p]) /\ task[p] \in Tasks
  <2>1. Executing' = Executing /\ done' = done /\ task[p] \in Tasks
    BY <1>3, RunPushMoves
  <2>2. task[p] \notin Queue!Known
    BY <1>3, RunPushMoves DEF Queue!Known, Pending
  <2>3. MaxQueueSize > 0 => Len(queue) < MaxQueueSize
    BY <1>3, ConstantsAssumption, SMTT(20) DEF RunPush, CoreInv, LocalInv, Full, TypeOK
  <2> QED
    BY <1>3, <2>1, <2>2, <2>3 DEF Queue!Put, RunPush
<1>4. ASSUME NEW w \in Workers, TakePop(w)
      PROVE  Queue!Get
  BY <1>4, TakePopMoves DEF Queue!Get, TakePop
<1>5. ASSUME NEW w \in Workers, Execute(w)
      PROVE  Queue!End(task[w]) /\ task[w] \in Tasks
  BY <1>5, ExecuteMoves DEF Queue!End, Execute
<1> QED
  BY QuietOrMoving, <1>1, <1>2, <1>3, <1>4, <1>5

\* The pool just constructed is an empty queue.
LEMMA InitSimulation == Init => Queue!Init
<1> SUFFICES ASSUME Init PROVE Queue!Init
  OBVIOUS
<1>1. \A w \in Workers : pc[w] = "none"
  BY DEF Init, Threads
<1> QED
  BY <1>1 DEF Init, Queue!Init, Executing

\* The thread pool implements the bounded FIFO queue: take() hands tasks out
\* in the order run() appended them, each one once.
THEOREM PoolRefinesQueue == Spec => ImplementsTaskQueue
BY InitSimulation, StepSimulation, CoreInvariance, ConservedInvariance, PTL
DEF Spec, ImplementsTaskQueue, Queue!Spec
==============================================================================
