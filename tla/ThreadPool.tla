------------------------------ MODULE ThreadPool ------------------------------
(***************************************************************************)
(* The thread pool behind Executor (service/core/core_executor.{h,cpp}):   *)
(* a std::deque of tasks, one mutex, two POSIX condition variables, a      *)
(* running_ flag that is read and written without the mutex, worker        *)
(* threads, callers of run() and the thread that calls start() and stop(). *)
(*                                                                         *)
(* Every statement that another thread can observe is a step of its own:   *)
(* the lock, the test of the wait condition, the wait, front(),            *)
(* pop_front() with its signal, push_back() with its signal.               *)
(***************************************************************************)
EXTENDS Naturals, Sequences, FiniteSets

CONSTANTS Workers,       \* threadSize_ worker threads
          Producers,     \* threads that call run()
          Tasks,         \* the tasks submitted, each one once
          Throwing,      \* the tasks that end with a std::exception
          MaxQueueSize,  \* maxQueueSize_; 0 is "no bound"
          NoTask,        \* an empty std::function
          Free           \* no thread holds mutex_

ASSUME ConstantsAssumption ==
  /\ MaxQueueSize \in Nat
  /\ Throwing \subseteq Tasks
  /\ NoTask \notin Tasks
  /\ Workers \cap Producers = {}
  /\ Free \notin Workers \cup Producers

ASSUME FiniteAssumption == IsFiniteSet(Workers) /\ IsFiniteSet(Producers)

Threads == Workers \cup Producers

VARIABLES running,    \* running_
          queue,      \* queue_
          mutex,      \* the holder of mutex_, or Free
          noempty,    \* threads blocked in noempty_.wait()
          nofull,     \* threads blocked in nofull_.wait()
          pc,         \* where each worker and each caller of run() is
          task,       \* the local Task of take(), the argument of run()
          ctl,        \* where the owner of the pool is
          submitted,  \* history: tasks passed to run()
          done        \* history: tasks whose execution ended

vars == <<running, queue, mutex, noempty, nofull, pc, task, ctl, submitted, done>>

WorkerStates == {"none", "failed", "init", "check", "take", "test", "towait",
                 "waiting", "front", "pop", "exec", "exited"}

ProducerStates == {"idle", "lock", "test", "waiting", "push"}

OwnerStates == {"new", "starting", "up", "stopping", "joining", "stopped"}

Init ==
  /\ running = FALSE
  /\ queue = <<>>
  /\ mutex = Free
  /\ noempty = {}
  /\ nofull = {}
  /\ pc = [t \in Threads |-> IF t \in Workers THEN "none" ELSE "idle"]
  /\ task = [t \in Threads |-> NoTask]
  /\ ctl = "new"
  /\ submitted = {}
  /\ done = {}

(***************************************************************************)
(* Condition variables: signal wakes one waiter if there is one.           *)
(***************************************************************************)
Signal(cond, after) ==
  IF cond = {} THEN after = {} ELSE \E t \in cond : after = cond \ {t}

Goto(t, label) == pc' = [pc EXCEPT ![t] = label]

-------------------------------------------------------------------------------
(* The owner: start() and stop().                                          *)

Start ==
  /\ ctl = "new"
  /\ running' = TRUE
  /\ ctl' = "starting"
  /\ UNCHANGED <<queue, mutex, noempty, nofull, pc, task, submitted, done>>

\* One iteration of start()'s loop; a failed pthread_create is logged only.
CreateThread(w) ==
  /\ ctl = "starting"
  /\ pc[w] = "none"
  /\ \/ Goto(w, "init")
     \/ Goto(w, "failed")
  /\ UNCHANGED <<running, queue, mutex, noempty, nofull, task, ctl, submitted, done>>

StartReturns ==
  /\ ctl = "starting"
  /\ \A w \in Workers : pc[w] # "none"
  /\ ctl' = "up"
  /\ UNCHANGED <<running, queue, mutex, noempty, nofull, pc, task, submitted, done>>

\* Mutant: stop() drops what is queued.
StopClears ==
  /\ ctl = "up"
  /\ running' = FALSE
  /\ queue' = <<>>
  /\ ctl' = "stopping"
  /\ UNCHANGED <<mutex, noempty, nofull, pc, task, submitted, done>>

\* running_ = false, without the mutex
Stop ==
  /\ ctl = "up"
  /\ running' = FALSE
  /\ ctl' = "stopping"
  /\ UNCHANGED <<queue, mutex, noempty, nofull, pc, task, submitted, done>>

\* noempty_.notifyAll(), without the mutex
StopNotify ==
  /\ ctl = "stopping"
  /\ noempty' = {}
  /\ ctl' = "joining"
  /\ UNCHANGED <<running, queue, mutex, nofull, pc, task, submitted, done>>

\* every created thread was joined; threads_.clear()
StopReturns ==
  /\ ctl = "joining"
  /\ \A w \in Workers : pc[w] \in {"failed", "exited"}
  /\ ctl' = "stopped"
  /\ UNCHANGED <<running, queue, mutex, noempty, nofull, pc, task, submitted, done>>

-------------------------------------------------------------------------------
(* A worker: threadpool_thread_run() and take().                           *)

RunInitCallback(w) ==
  /\ pc[w] = "init"
  /\ Goto(w, "check")
  /\ UNCHANGED <<running, queue, mutex, noempty, nofull, task, ctl, submitted, done>>

WhileIsRunning(w) ==
  /\ pc[w] = "check"
  /\ Goto(w, IF running THEN "take" ELSE "exited")
  /\ UNCHANGED <<running, queue, mutex, noempty, nofull, task, ctl, submitted, done>>

\* mutex_.lock() on entry, and the reacquisition inside pthread_cond_wait
TakeLock(w) ==
  /\ \/ pc[w] = "take"
     \/ pc[w] = "waiting" /\ w \notin noempty
  /\ mutex = Free
  /\ mutex' = w
  /\ Goto(w, "test")
  /\ UNCHANGED <<running, queue, noempty, nofull, task, ctl, submitted, done>>

\* queue_.empty() && running_
TakeTestWait(w) ==
  /\ pc[w] = "test"
  /\ queue = <<>>
  /\ running
  /\ Goto(w, "towait")
  /\ UNCHANGED <<running, queue, mutex, noempty, nofull, task, ctl, submitted, done>>

TakeWait(w) ==
  /\ pc[w] = "towait"
  /\ noempty' = noempty \cup {w}
  /\ mutex' = Free
  /\ Goto(w, "waiting")
  /\ UNCHANGED <<running, queue, nofull, task, ctl, submitted, done>>

\* the pool was stopped and nothing is queued: an empty Task is returned
TakeNothing(w) ==
  /\ pc[w] = "test"
  /\ queue = <<>>
  /\ ~running
  /\ mutex' = Free
  /\ Goto(w, "check")
  /\ UNCHANGED <<running, queue, noempty, nofull, task, ctl, submitted, done>>

TakeTestSome(w) ==
  /\ pc[w] = "test"
  /\ queue # <<>>
  /\ Goto(w, "front")
  /\ UNCHANGED <<running, queue, mutex, noempty, nofull, task, ctl, submitted, done>>

TakeFront(w) ==
  /\ pc[w] = "front"
  /\ task' = [task EXCEPT ![w] = Head(queue)]
  /\ Goto(w, "pop")
  /\ UNCHANGED <<running, queue, mutex, noempty, nofull, ctl, submitted, done>>

\* Mutant: nofull_ is never signalled.
TakePopSilent(w) ==
  /\ pc[w] = "pop"
  /\ queue' = Tail(queue)
  /\ mutex' = Free
  /\ Goto(w, "exec")
  /\ UNCHANGED <<running, noempty, nofull, task, ctl, submitted, done>>

\* Mutant: front() is paired with pop_back().
TakePopBack(w) ==
  /\ pc[w] = "pop"
  /\ queue' = SubSeq(queue, 1, Len(queue) - 1)
  /\ IF MaxQueueSize > 0 THEN Signal(nofull, nofull') ELSE UNCHANGED nofull
  /\ mutex' = Free
  /\ Goto(w, "exec")
  /\ UNCHANGED <<running, noempty, task, ctl, submitted, done>>

TakePop(w) ==
  /\ pc[w] = "pop"
  /\ queue' = Tail(queue)
  /\ IF MaxQueueSize > 0 THEN Signal(nofull, nofull') ELSE UNCHANGED nofull
  /\ mutex' = Free
  /\ Goto(w, "exec")
  /\ UNCHANGED <<running, noempty, task, ctl, submitted, done>>

\* task(): it returns and the loop continues, or its std::exception leaves
\* the loop and the thread ends
Execute(w) ==
  /\ pc[w] = "exec"
  /\ done' = done \cup {task[w]}
  /\ task' = [task EXCEPT ![w] = NoTask]
  /\ Goto(w, IF task[w] \in Throwing THEN "exited" ELSE "check")
  /\ UNCHANGED <<running, queue, mutex, noempty, nofull, ctl, submitted>>

-------------------------------------------------------------------------------
(* A caller of run().                                                      *)

RunCall(p, t) ==
  /\ pc[p] = "idle"
  /\ t \notin submitted
  /\ submitted' = submitted \cup {t}
  /\ task' = [task EXCEPT ![p] = t]
  /\ Goto(p, "lock")
  /\ UNCHANGED <<running, queue, mutex, noempty, nofull, ctl, done>>

RunLock(p) ==
  /\ \/ pc[p] = "lock"
     \/ pc[p] = "waiting" /\ p \notin nofull
  /\ mutex = Free
  /\ mutex' = p
  /\ Goto(p, "test")
  /\ UNCHANGED <<running, queue, noempty, nofull, task, ctl, submitted, done>>

Full == MaxQueueSize > 0 /\ Len(queue) >= MaxQueueSize

\* nothing outside the mutex changes the condition: test and wait are one step
RunWait(p) ==
  /\ pc[p] = "test"
  /\ Full
  /\ nofull' = nofull \cup {p}
  /\ mutex' = Free
  /\ Goto(p, "waiting")
  /\ UNCHANGED <<running, queue, noempty, task, ctl, submitted, done>>

RunTestRoom(p) ==
  /\ pc[p] = "test"
  /\ ~Full
  /\ Goto(p, "push")
  /\ UNCHANGED <<running, queue, mutex, noempty, nofull, task, ctl, submitted, done>>

\* Mutant: only the push into an empty queue signals noempty_.
RunPushSignalsIfEmpty(p) ==
  /\ pc[p] = "push"
  /\ queue' = Append(queue, task[p])
  /\ IF queue = <<>> THEN Signal(noempty, noempty') ELSE UNCHANGED noempty
  /\ mutex' = Free
  /\ task' = [task EXCEPT ![p] = NoTask]
  /\ Goto(p, "idle")
  /\ UNCHANGED <<running, nofull, ctl, submitted, done>>

\* Mutant: noempty_ is never signalled.
RunPushSilent(p) ==
  /\ pc[p] = "push"
  /\ queue' = Append(queue, task[p])
  /\ mutex' = Free
  /\ task' = [task EXCEPT ![p] = NoTask]
  /\ Goto(p, "idle")
  /\ UNCHANGED <<running, noempty, nofull, ctl, submitted, done>>

RunPush(p) ==
  /\ pc[p] = "push"
  /\ queue' = Append(queue, task[p])
  /\ Signal(noempty, noempty')
  /\ mutex' = Free
  /\ task' = [task EXCEPT ![p] = NoTask]
  /\ Goto(p, "idle")
  /\ UNCHANGED <<running, nofull, ctl, submitted, done>>

\* pthread_cond_wait may return without a signal
SpuriousWakeup(t) ==
  /\ t \in noempty \cup nofull
  /\ noempty' = noempty \ {t}
  /\ nofull' = nofull \ {t}
  /\ UNCHANGED <<running, queue, mutex, pc, task, ctl, submitted, done>>

-------------------------------------------------------------------------------
OwnerStep == Start \/ StartReturns \/ Stop \/ StopNotify \/ StopReturns
             \/ \E w \in Workers : CreateThread(w)

\* the steps of a worker that do not have to wait for the mutex
WorkerStep(w) ==
  \/ RunInitCallback(w) \/ WhileIsRunning(w)
  \/ TakeTestWait(w) \/ TakeWait(w) \/ TakeNothing(w)
  \/ TakeTestSome(w) \/ TakeFront(w) \/ TakePop(w)
  \/ Execute(w)

ProducerStep(p) == RunWait(p) \/ RunTestRoom(p) \/ RunPush(p)

Next ==
  \/ OwnerStep
  \/ \E w \in Workers : WorkerStep(w) \/ TakeLock(w)
  \/ \E p \in Producers : ProducerStep(p) \/ RunLock(p)
  \/ \E p \in Producers, t \in Tasks : RunCall(p, t)
  \/ \E t \in Threads : SpuriousWakeup(t)

Spec == Init /\ [][Next]_vars

\* The scheduler runs every thread that can run, and a thread that keeps
\* finding mutex_ free gets it.  Nobody has to call run() or stop(), and
\* spurious wakeups never have to happen.
Fairness ==
  /\ WF_vars(StopNotify) /\ WF_vars(StopReturns) /\ WF_vars(StartReturns)
  /\ \A w \in Workers :
       /\ WF_vars(CreateThread(w)) /\ WF_vars(WorkerStep(w)) /\ SF_vars(TakeLock(w))
  /\ \A p \in Producers : WF_vars(ProducerStep(p)) /\ SF_vars(RunLock(p))

FairSpec == Spec /\ Fairness

-------------------------------------------------------------------------------
(* Properties.                                                             *)

Pending == {queue[i] : i \in DOMAIN queue}

Executing == {task[w] : w \in {v \in Workers : pc[v] = "exec"}}

Offered == {task[p] : p \in {q \in Producers : pc[q] # "idle"}}

\* Types of the fields of ThreadPool and of the threads' local state.
TypeOK ==
  /\ running \in BOOLEAN
  /\ queue \in Seq(Tasks)
  /\ mutex \in Threads \cup {Free}
  /\ noempty \subseteq Workers
  /\ nofull \subseteq Producers
  /\ pc \in [Threads -> WorkerStates \cup ProducerStates]
  /\ \A w \in Workers : pc[w] \in WorkerStates
  /\ \A p \in Producers : pc[p] \in ProducerStates
  /\ task \in [Threads -> Tasks \cup {NoTask}]
  /\ ctl \in OwnerStates
  /\ submitted \subseteq Tasks
  /\ done \subseteq Tasks

\* run() never lets queue_ grow beyond maxQueueSize_, however the callers
\* that found it full and were woken together interleave.
QueueBounded == MaxQueueSize > 0 => Len(queue) <= MaxQueueSize

\* take() and run() neither lose nor duplicate a task: what was submitted is
\* with its caller, in the queue, with one worker, or ended, and in only one
\* of these places.
TasksConserved ==
  /\ submitted = Offered \cup Pending \cup Executing \cup done
  /\ \A i, j \in DOMAIN queue : queue[i] = queue[j] => i = j
  /\ \A v, w \in Workers :
       pc[v] = "exec" /\ pc[w] = "exec" /\ task[v] = task[w] => v = w
  /\ Offered \cap (Pending \cup Executing \cup done) = {}
  /\ Pending \cap (Executing \cup done) = {}
  /\ Executing \cap done = {}

\* The workers that will look at the queue before they wait again: one holds
\* the mutex, the others left noempty_.wait() and are about to.
AwakeWorkers ==
  {w \in Workers : \/ pc[w] \in {"test", "front", "pop"}
                   \/ pc[w] = "waiting" /\ w \notin noempty}

AwakeProducers ==
  {p \in Producers : \/ pc[p] \in {"test", "push"}
                     \/ pc[p] = "waiting" /\ p \notin nofull}

\* A worker never sleeps in noempty_.wait() beside queued tasks unless at
\* least as many others are already on their way to take them: one signal
\* per push is enough although busy workers steal tasks from woken ones.
WakeupsCoverQueue ==
  noempty # {} => Len(queue) <= Cardinality(AwakeWorkers)

\* The same of run(): a caller never sleeps in nofull_.wait() beside free
\* slots unless as many callers are on their way to fill them.
WakeupsCoverRoom ==
  nofull # {} => MaxQueueSize - Len(queue) <= Cardinality(AwakeProducers)

\* While the pool runs and a worker lives, a task in the queue is executed
\* in the end.
QueuedIsExecuted ==
  \A t \in Tasks :
    t \in Pending ~> \/ t \in done
                     \/ ~running
                     \/ \A w \in Workers : pc[w] \in {"failed", "exited"}

\* A call of run() returns, under the same provisos: callers blocked by a
\* full queue are let go by the workers.
RunReturns ==
  \A p \in Producers :
    pc[p] = "lock" ~> \/ pc[p] = "idle"
                      \/ ~running
                      \/ \A w \in Workers : pc[w] \in {"failed", "exited"}

\* test/executor_test.cpp calls stop() on a drained executor and then returns
\* from main: stop() has to come back once it was called.
StopTerminates == ctl = "stopping" ~> ctl = "stopped"

\* The pool implements the bounded FIFO queue of TaskQueue.
Queue == INSTANCE TaskQueue WITH
           Capacity <- MaxQueueSize,
           pending <- queue, executing <- Executing, ended <- done

ImplementsTaskQueue == Queue!Spec
==============================================================================
