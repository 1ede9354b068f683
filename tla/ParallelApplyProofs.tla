------------------------ MODULE ParallelApplyProofs ------------------------
(***************************************************************************)
(* Proofs about the two modules of the parallelism framework.              *)
(*                                                                         *)
(* ParallelApply, for any number of processes, threads and arguments and   *)
(* any size of the task queue: Apply returns only after every accepted     *)
(* argument was dealt with (ReturnsAfterAllCalls), a failure reaches the   *)
(* exit status, all outputs reach the caller, permits are never lost, and  *)
(* the call implements ApplyCall.                                          *)
(*                                                                         *)
(* ConsumerPools, at the end, for any tree of calls, any number of workers *)
(* and any depth: every call finds its task queue, and no request for a    *)
(* pool is overlooked.                                                     *)
(***************************************************************************)
EXTENDS ParallelApply, ConsumerPools, FiniteSetTheorems, SequenceTheorems,
        WellFoundedInduction, TLAPS

\* The types the proofs need (TypeOK also bounds the semaphore and the queue).
Types ==
    /\ pPc \in ProducerPcs
    /\ yielded \in 0..MaxArgs
    /\ numTasks \in Nat /\ curTask \in Nat /\ lastTask \in Nat
    /\ seen \in Nat /\ unknownException \in BOOLEAN
    /\ taskQueue \in Seq(Nat)
    /\ totalTasks \in Int /\ finished \in Nat /\ completed \in BOOLEAN
    /\ sharedVar \in Nat /\ failureCount \in Nat /\ handled \in Nat
    /\ dPc \in [Procs -> {"acquire", "get"}]
    /\ semaphore \in [Procs -> Nat]
    /\ localQueue \in [Procs -> Seq(Nat)]
    /\ wPc \in [Workers -> WorkerPcs]
    /\ task \in [Workers -> Nat]
    /\ numDone \in [Workers -> Nat]
    /\ register \in [Workers -> Nat]
    /\ delta \in [Workers -> Nat]
    /\ multiProcess \in BOOLEAN
    /\ mPc \in {"checking", "waiting", "returned"}
    /\ outcome \in {Pending, "returned", "raised"}

\* A worker is a thread of a process.
LEMMA WorkerPair == \A w \in Workers : w[1] \in Procs /\ w[2] \in Threads
BY DEF Workers

\* What is left of a queue of numbers when its head is taken.
LEMMA HeadTailOfNats ==
  ASSUME NEW s \in Seq(Nat), s # <<>>
  PROVE  /\ Head(s) \in Nat /\ Tail(s) \in Seq(Nat)
         /\ Len(s) > 0 /\ Len(Tail(s)) = Len(s) - 1 /\ Head(s) = s[1]
         /\ \A i \in 1..Len(s) - 1 : Tail(s)[i] = s[i + 1]
OBVIOUS

\* Every step keeps the types.
LEMMA TypesNext == Types /\ [Next]_vars => Types'
<1> SUFFICES ASSUME Types, [Next]_vars PROVE Types'
  OBVIOUS
<1> USE ArgsAssumption, ThreadsAssumption, QueueAssumption, FaultsAssumption DEF Types, ProducerPcs, WorkerPcs
<1>1. CASE UNCHANGED vars
  BY <1>1 DEF vars, producerVars, countVars, outputVars, dispatchVars, workerVars, callerVars, history
<1> USE DEF producerVars, countVars, outputVars, dispatchVars, workerVars, callerVars, history
<1>2. CASE Producer
  <2>1. CASE ProducerSkip BY <2>1 DEF ProducerSkip, Yield
  <2>2. CASE ProducerAccept BY <2>2 DEF ProducerAccept, Yield
  <2>3. CASE ProducerPutPrevious BY <2>3 DEF ProducerPutPrevious
  <2>4. CASE ProducerIteratorRaises BY <2>4 DEF ProducerIteratorRaises, Yield
  <2>5. CASE ProducerHandleException BY <2>5 DEF ProducerHandleException
  <2>6. CASE ProducerCheckerRaises BY <2>6 DEF ProducerCheckerRaises, Yield
  <2>7. CASE ProducerAccountingRaises BY <2>7 DEF ProducerAccountingRaises, Yield
  <2>8. CASE ProducerStops BY <2>8 DEF ProducerStops
  <2>9. CASE ProducerSetTotal BY <2>9 DEF ProducerSetTotal
  <2>10. CASE ProducerPutLast BY <2>10 DEF ProducerPutLast
  <2>11. CASE ProducerReadDone BY <2>11 DEF ProducerReadDone
  <2>12. CASE ProducerCheck BY <2>12 DEF ProducerCheck
  <2>13. CASE ProducerNotify BY <2>13 DEF ProducerNotify, NotifyAll
  <2> QED BY <1>2, <2>1, <2>2, <2>3, <2>4, <2>5, <2>6, <2>7, <2>8, <2>9, <2>10, <2>11, <2>12, <2>13 DEF Producer
<1>3. ASSUME NEW p \in Procs, Dispatcher(p) PROVE Types'
  <2>1. CASE DispatcherAcquire(p) BY <2>1 DEF DispatcherAcquire
  <2>2. CASE DispatcherGet(p)
    <3> USE <2>2 DEF DispatcherGet
    <3>1. Head(taskQueue) \in Nat /\ Tail(taskQueue) \in Seq(Nat)
      BY HeadTailOfNats
    <3>2. localQueue' \in [Procs -> Seq(Nat)]
      <4>1. Append(localQueue[p], Head(taskQueue)) \in Seq(Nat) BY <3>1
      <4> QED BY <4>1
    <3>3. semaphore' \in [Procs -> Nat]
      <4>1. semaphore[p] + 1 \in Nat OBVIOUS
      <4>2. \/ semaphore' = semaphore
            \/ semaphore' = [semaphore EXCEPT ![p] = semaphore[p] + 1]
        OBVIOUS
      <4>3. semaphore \in [Procs -> Nat] OBVIOUS
      <4> HIDE <2>2 DEF DispatcherGet, Types
      <4> QED BY <4>1, <4>2, <4>3
    <3> QED BY <3>1, <3>2, <3>3
  <2> QED BY <1>3, <2>1, <2>2 DEF Dispatcher
<1>4. ASSUME NEW w \in Workers, Worker(w) PROVE Types'
  <2> USE WorkerPair DEF Goto
  <2>1. CASE TakeLocal(w)
    <3> USE <2>1 DEF TakeLocal
    <3>1. /\ Head(localQueue[w[1]]) \in Nat
          /\ Tail(localQueue[w[1]]) \in Seq(Nat)
      BY HeadTailOfNats
    <3>2. localQueue' \in [Procs -> Seq(Nat)] BY <3>1
    <3> QED BY <3>1, <3>2
  <2>2. CASE TakeShared(w)
    <3> USE <2>2 DEF TakeShared
    <3>1. Head(taskQueue) \in Nat /\ Tail(taskQueue) \in Seq(Nat)
      BY HeadTailOfNats
    <3>2. task' \in [Workers -> Nat] BY <3>1
    <3>3. wPc' \in [Workers -> WorkerPcs] OBVIOUS
    <3> QED BY <3>1, <3>2, <3>3
  <2>3. CASE FuncReturns(w) BY <2>3 DEF FuncReturns
  <2>4. CASE FuncRaises(w) BY <2>4 DEF FuncRaises
  <2>5. CASE HandleException(w) BY <2>5 DEF HandleException
  <2>6. CASE ReleaseSemaphore(w)
    <3> USE <2>6 DEF ReleaseSemaphore
    <3>1. semaphore' \in [Procs -> Nat]
      <4>1. semaphore[w[1]] + 1 \in Nat OBVIOUS
      <4>2. \/ semaphore' = semaphore
            \/ semaphore' = [semaphore EXCEPT ![w[1]] = semaphore[w[1]] + 1]
        OBVIOUS
      <4>3. semaphore \in [Procs -> Nat] OBVIOUS
      <4> HIDE <2>6 DEF ReleaseSemaphore, Types
      <4> QED BY <4>1, <4>2, <4>3
    <3> QED BY <3>1
  <2>7. CASE PublishSharedVar(w) BY <2>7 DEF PublishSharedVar
  <2>8. CASE CountFinished(w) BY <2>8 DEF CountFinished
  <2>9. CASE CheckDone(w) BY <2>9 DEF CheckDone
  <2>10. CASE NotifyDone(w) BY <2>10 DEF NotifyDone, NotifyAll
  <2> QED BY <1>4, <2>1, <2>2, <2>3, <2>4, <2>5, <2>6, <2>7, <2>8, <2>9, <2>10 DEF Worker
<1>5. CASE Caller
  BY <1>5 DEF Caller, CallerWaits, CallerReturns
<1> QED BY <1>1, <1>2, <1>3, <1>4, <1>5 DEF Next, Quiescent

-----------------------------------------------------------------------------
(* The producer and the task queue.                                        *)

\* What a step of each kind leaves alone.
LEMMA FrameNext ==
  ASSUME [Next]_vars
  PROVE  \/ Producer /\ UNCHANGED <<wPc, task, called, localQueue, finished, numDone>>
         \/ \E p \in Procs : Dispatcher(p) /\ UNCHANGED <<producerVars, totalTasks>>
         \/ \E w \in Workers : Worker(w) /\ UNCHANGED <<producerVars, totalTasks>>
         \/ (Caller \/ UNCHANGED vars)
            /\ UNCHANGED <<producerVars, taskQueue, countVars, dispatchVars,
                           workerVars, called>>
<1> USE DEF producerVars, countVars, outputVars, dispatchVars, workerVars, callerVars, history
<1>1. CASE Producer
  BY <1>1 DEF Producer, ProducerSkip, ProducerAccept, ProducerPutPrevious,
     ProducerIteratorRaises, ProducerHandleException, ProducerCheckerRaises,
     ProducerAccountingRaises, ProducerStops, ProducerSetTotal, ProducerPutLast,
     ProducerReadDone, ProducerCheck, ProducerNotify
<1>2. ASSUME NEW p \in Procs, Dispatcher(p) PROVE UNCHANGED <<producerVars, totalTasks>>
  BY <1>2 DEF Dispatcher, DispatcherAcquire, DispatcherGet
<1>3. ASSUME NEW w \in Workers, Worker(w) PROVE UNCHANGED <<producerVars, totalTasks>>
  BY <1>3 DEF Worker, TakeLocal, TakeShared, FuncReturns, FuncRaises,
     HandleException, ReleaseSemaphore, PublishSharedVar, CountFinished,
     CheckDone, NotifyDone
<1>4. CASE Caller \/ UNCHANGED vars
  BY <1>4 DEF Caller, CallerWaits, CallerReturns, vars
<1> QED BY <1>1, <1>2, <1>3, <1>4 DEF Next, Quiescent

\* num_tasks runs at most one ahead of the tasks that exist, and total_tasks
\* is set to it before the last of them is put.
LEMMA ProducerInvNext == Types /\ ProducerInv /\ [Next]_vars => ProducerInv'
<1> SUFFICES ASSUME Types, ProducerInv, [Next]_vars PROVE ProducerInv'
  OBVIOUS
<1>1. CASE Producer
  <2> USE <1>1 DEF Types, ProducerInv, Producing, countVars, producerVars
  <2>1. CASE ProducerSkip BY <2>1 DEF ProducerSkip, Yield
  <2>2. CASE ProducerAccept BY <2>2 DEF ProducerAccept, Yield
  <2>3. CASE ProducerPutPrevious BY <2>3 DEF ProducerPutPrevious
  <2>4. CASE ProducerIteratorRaises BY <2>4 DEF ProducerIteratorRaises, Yield
  <2>5. CASE ProducerHandleException BY <2>5 DEF ProducerHandleException
  <2>6. CASE ProducerCheckerRaises BY <2>6 DEF ProducerCheckerRaises, Yield
  <2>7. CASE ProducerAccountingRaises BY <2>7 DEF ProducerAccountingRaises, Yield
  <2>8. CASE ProducerStops BY <2>8 DEF ProducerStops
  <2>9. CASE ProducerSetTotal BY <2>9 DEF ProducerSetTotal
  <2>10. CASE ProducerPutLast BY <2>10 DEF ProducerPutLast
  <2>11. CASE ProducerReadDone BY <2>11 DEF ProducerReadDone
  <2>12. CASE ProducerCheck BY <2>12 DEF ProducerCheck
  <2>13. CASE ProducerNotify BY <2>13 DEF ProducerNotify
  <2> QED BY <2>1, <2>2, <2>3, <2>4, <2>5, <2>6, <2>7, <2>8, <2>9, <2>10, <2>11, <2>12, <2>13 DEF Producer
<1>2. CASE UNCHANGED <<producerVars, totalTasks>>
  BY <1>2 DEF ProducerInv, Producing, producerVars
<1> QED BY <1>1, <1>2, FrameNext DEF countVars

\* What a queue of numbers is when one is appended.
LEMMA AppendNat ==
  ASSUME NEW s \in Seq(Nat), NEW e \in Nat
  PROVE  /\ Len(Append(s, e)) = Len(s) + 1 /\ Len(s) \in Nat
         /\ \A i \in 1..Len(s) : Append(s, e)[i] = s[i]
         /\ Append(s, e)[Len(s) + 1] = e
OBVIOUS

\* The producer does not change which tasks have left the task queue (it only
\* lets Taken fall from 0 to -1 when it puts the marker).
LEMMA ProducerKeepsTaken ==
  ASSUME Types, ProducerInv, QueueInv, Producer
  PROVE  QueueInv' /\ \A i \in 1..Taken : i \in 1..Taken'
<1> USE DEF Types, ProducerInv, Producing, QueueInv, Taken, LastPut, HasPutAll
<1>0. Len(taskQueue) \in Nat
  OBVIOUS
<1>1. CASE ProducerPutPrevious
  <2> USE <1>1 DEF ProducerPutPrevious
  <2>1. taskQueue' = Append(taskQueue, lastTask) /\ Taken' = Taken
    BY AppendNat
  <2>2. lastTask = Taken + Len(taskQueue) + 1
    BY <1>0
  <2>3. \A i \in 1..Len(taskQueue') : taskQueue'[i] = Taken' + i
    BY <1>0, <2>1, <2>2, AppendNat
  <2> QED BY <2>1, <2>3
<1>2. CASE ProducerPutLast
  <2> USE <1>2 DEF ProducerPutLast
  <2>1. taskQueue' = Append(taskQueue, curTask) /\ Len(taskQueue') = Len(taskQueue) + 1
    BY AppendNat
  <2>2. CASE curTask = 0
    <3>1. Len(taskQueue) = 0 /\ Taken = 0 /\ Taken' = -1
      BY <1>0, <2>1, <2>2
    <3>2. taskQueue'[1] = 0
      BY <2>1, <2>2, <3>1, AppendNat
    <3> QED BY <2>1, <2>2, <3>1, <3>2
  <2>3. CASE curTask # 0
    <3>1. Taken' = Taken /\ curTask = Taken + Len(taskQueue) + 1
      BY <1>0, <2>1, <2>3
    <3>2. \A i \in 1..Len(taskQueue') : taskQueue'[i] = Taken' + i
      <4>1. \A i \in 1..Len(taskQueue) : taskQueue[i] = Taken + i
        OBVIOUS
      <4>2. /\ \A i \in 1..Len(taskQueue) : taskQueue'[i] = taskQueue[i]
            /\ taskQueue'[Len(taskQueue) + 1] = curTask
        BY <2>1, AppendNat
      <4> TAKE i \in 1..Len(taskQueue')
      <4>3. CASE i = Len(taskQueue) + 1
        BY <3>1, <4>2, <4>3
      <4>4. CASE i # Len(taskQueue) + 1
        BY <1>0, <2>1, <3>1, <4>1, <4>2, <4>4
      <4> QED BY <4>3, <4>4
    <3>3. Taken' >= 0
      BY <2>3, <3>1
    <3> HIDE <1>2 DEF Types, ProducerInv, Producing, Taken
    <3> QED BY <3>1, <3>2, <3>3
  <2> QED BY <2>2, <2>3
<1>3. CASE ProducerAccept
  <2>1. Taken' = Taken /\ Taken >= 0 /\ taskQueue' = taskQueue
    BY <1>0, <1>3 DEF ProducerAccept, Yield
  <2> HIDE DEF Types, ProducerInv, Producing, Taken
  <2> QED BY <2>1
<1>4. CASE ProducerNotify \/ ProducerCheck \/ ProducerReadDone \/ ProducerSetTotal
           \/ ProducerStops \/ ProducerSkip \/ ProducerHandleException
           \/ ProducerIteratorRaises \/ ProducerCheckerRaises \/ ProducerAccountingRaises
  <2>1. UNCHANGED <<taskQueue, curTask>> /\ LastPut' = LastPut /\ (HasPutAll => HasPutAll')
    BY <1>4 DEF ProducerNotify, ProducerCheck, ProducerReadDone, ProducerSetTotal,
       ProducerStops, ProducerSkip, ProducerHandleException, ProducerIteratorRaises,
       ProducerCheckerRaises, ProducerAccountingRaises, Yield
  <2> QED BY <2>1
<1> QED BY <1>1, <1>2, <1>3, <1>4 DEF Producer

\* A task taken off the queue is the next in number.
LEMMA Dequeue ==
  ASSUME Types, QueueInv, taskQueue # <<>>, taskQueue' = Tail(taskQueue),
         UNCHANGED producerVars
  PROVE  QueueInv' /\ Taken' = Taken + 1 /\ Head(taskQueue) = Taken'
<1>0. LastPut \in Int /\ LastPut' = LastPut /\ curTask' = curTask
      /\ HasPutAll' = HasPutAll
  BY DEF Types, LastPut, HasPutAll, producerVars
<1>1. /\ Len(taskQueue) > 0 /\ Len(taskQueue') = Len(taskQueue) - 1
      /\ Head(taskQueue) = taskQueue[1]
      /\ \A i \in 1..Len(taskQueue) - 1 : taskQueue'[i] = taskQueue[i + 1]
      /\ Len(taskQueue) \in Nat
  BY HeadTailOfNats DEF Types
<1>2. Taken' = Taken + 1 /\ Taken \in Int
  BY <1>0, <1>1 DEF Taken
<1>3. \A i \in 1..Len(taskQueue) : taskQueue[i] = Taken + i
  BY DEF QueueInv
<1>4. \A i \in 1..Len(taskQueue') : taskQueue'[i] = Taken' + i
  <2> TAKE i \in 1..Len(taskQueue')
  <2>1. i + 1 \in 1..Len(taskQueue) /\ i \in 1..Len(taskQueue) - 1
    BY <1>1
  <2> QED BY <1>1, <1>2, <1>3, <2>1
<1>5. Head(taskQueue) = Taken'
  BY <1>1, <1>2, <1>3
<1>6. Taken' >= 0
  BY <1>2 DEF QueueInv
<1> QED BY <1>2, <1>4, <1>5, <1>6 DEF QueueInv

\* Every step keeps the task queue a run of consecutive numbers.
LEMMA QueueInvNext == Types /\ ProducerInv /\ QueueInv /\ [Next]_vars => QueueInv'
<1> SUFFICES ASSUME Types, ProducerInv, QueueInv, [Next]_vars PROVE QueueInv'
  OBVIOUS
<1>1. CASE Producer BY <1>1, ProducerKeepsTaken
<1>2. CASE UNCHANGED <<producerVars, taskQueue>>
  BY <1>2 DEF QueueInv, Taken, LastPut, HasPutAll, producerVars
<1>3. CASE taskQueue # <<>> /\ taskQueue' = Tail(taskQueue) /\ UNCHANGED producerVars
  BY <1>3, Dequeue
<1>4. ASSUME NEW p \in Procs, Dispatcher(p)
      PROVE  \/ UNCHANGED taskQueue
             \/ taskQueue # <<>> /\ taskQueue' = Tail(taskQueue)
  BY <1>4 DEF Dispatcher, DispatcherAcquire, DispatcherGet
<1>5. ASSUME NEW w \in Workers, Worker(w)
      PROVE  \/ UNCHANGED taskQueue
             \/ taskQueue # <<>> /\ taskQueue' = Tail(taskQueue)
  BY <1>5 DEF Worker, TakeLocal, TakeShared, FuncReturns, FuncRaises,
     HandleException, ReleaseSemaphore, PublishSharedVar, CountFinished,
     CheckDone, NotifyDone
<1> QED BY <1>1, <1>2, <1>3, <1>4, <1>5, FrameNext

-----------------------------------------------------------------------------
(* Every task that left the task queue is in one place.                    *)

PlaceInv == WorkerInv /\ LocalInv

\* A step that moves no task.
LEMMA PlaceFrame ==
  ASSUME PlaceInv, \A i \in 1..Taken : i \in 1..Taken',
         UNCHANGED <<task, called, localQueue>>,
         \A w \in Workers : Holds(w)' <=> Holds(w),
         \A w \in Workers : wPc'[w] = "func" <=> wPc[w] = "func"
  PROVE  PlaceInv'
<1>1. WorkerInv' BY DEF PlaceInv, WorkerInv, Holds
<1>2. LocalInv' BY DEF PlaceInv, LocalInv
<1> QED BY <1>1, <1>2 DEF PlaceInv

\* A task is at one place of one local queue.
LEMMA LocalDistinct ==
  ASSUME LocalInv, NEW p \in Procs, NEW q \in Procs,
         NEW i \in 1..Len(localQueue[p]), NEW j \in 1..Len(localQueue[q]),
         localQueue[p][i] = localQueue[q][j]
  PROVE  p = q /\ i = j
BY DEF LocalInv

\* A step that leaves producer and queue alone takes nothing.
LEMMA TakenFrame ==
  UNCHANGED <<producerVars, taskQueue>> => Taken' = Taken
BY DEF producerVars, Taken, LastPut, HasPutAll

\* The dispatcher of p appends the next task to its local queue.
LEMMA PlaceDispatch ==
  ASSUME Types, QueueInv, PlaceInv, NEW p \in Procs, DispatcherGet(p)
  PROVE  PlaceInv'
<1> USE DEF PlaceInv
<1>0. /\ UNCHANGED <<producerVars, wPc, task, called>>
      /\ taskQueue # <<>> /\ taskQueue' = Tail(taskQueue)
  BY DEF DispatcherGet, workerVars, history
<1>1. Taken' = Taken + 1 /\ Head(taskQueue) = Taken' /\ Taken \in Int
  BY <1>0, Dequeue DEF QueueInv, Types, Taken, LastPut
<1>2. CASE Head(taskQueue) = Marker
  <2>1. \A i \in 1..Taken : i \in 1..Taken'
    BY <1>1, <1>2 DEF Marker
  <2>2. UNCHANGED localQueue
    BY <1>2 DEF DispatcherGet
  <2> QED BY <1>0, <2>1, <2>2, PlaceFrame DEF Holds
<1>3. CASE Head(taskQueue) # Marker
  <2> DEFINE new == Taken + 1
             last == Len(localQueue[p]) + 1
  <2>1. new \in 1..Taken' /\ new \notin 1..Taken /\ \A i \in 1..Taken : i \in 1..Taken'
    BY <1>1, <1>3 DEF Marker, QueueInv
  <2>2. localQueue \in [Procs -> Seq(Nat)] /\ new \in Nat
    BY <2>1 DEF Types
  <2>3. localQueue' = [localQueue EXCEPT ![p] = Append(localQueue[p], new)]
    BY <1>1, <1>3 DEF DispatcherGet
  <2>4. /\ \A q \in Procs : q # p => localQueue'[q] = localQueue[q]
        /\ localQueue'[p] = Append(localQueue[p], new)
    BY <2>2, <2>3
  <2>5. /\ Len(localQueue'[p]) = last /\ last \in Nat \ {0}
        /\ \A i \in 1..Len(localQueue[p]) : localQueue'[p][i] = localQueue[p][i]
        /\ localQueue'[p][last] = new
    BY <2>2, <2>4, AppendNat
  <2>6. new \notin called /\ \A w \in Workers : task[w] # new
    BY <2>1, <2>2 DEF WorkerInv
  <2>7. WorkerInv'
    BY <1>0, <2>1 DEF WorkerInv, Holds
  <2> DEFINE Old(q, i) == i \in 1..Len(localQueue[q]) /\ localQueue'[q][i] = localQueue[q][i]
             New(q, i) == q = p /\ i = last /\ localQueue'[q][i] = new
  <2>8. ASSUME NEW q \in Procs, NEW i \in 1..Len(localQueue'[q])
        PROVE  Old(q, i) \/ New(q, i)
    <3>1. CASE q = p
      <4>1. i = last \/ i \in 1..Len(localQueue[p])
        BY <2>5, <3>1
      <4> QED BY <2>5, <3>1, <4>1
    <3>2. CASE q # p
      BY <2>4, <3>2
    <3> QED BY <3>1, <3>2
  <2>9. \A q \in Procs : \A i \in 1..Len(localQueue[q]) : localQueue[q][i] # new
    BY <2>1 DEF LocalInv
  <2>10. ASSUME NEW q \in Procs, NEW i \in 1..Len(localQueue'[q])
         PROVE  /\ localQueue'[q][i] \in 1..Taken' \ called'
                /\ \A w \in Workers : task'[w] # localQueue'[q][i]
    <3>1. CASE Old(q, i) BY <1>0, <2>1, <3>1 DEF LocalInv
    <3>2. CASE New(q, i) BY <1>0, <2>1, <2>6, <3>2
    <3> QED BY <2>8, <3>1, <3>2
  <2>11. ASSUME NEW q \in Procs, NEW r \in Procs,
                NEW i \in 1..Len(localQueue'[q]), NEW j \in 1..Len(localQueue'[r]),
                localQueue'[q][i] = localQueue'[r][j]
         PROVE  q = r /\ i = j
    <3>1. CASE Old(q, i) /\ Old(r, j)
      <4>1. localQueue[q][i] = localQueue[r][j] BY <2>11, <3>1
      <4>2. LocalInv OBVIOUS
      <4> QED BY <3>1, <4>1, <4>2, LocalDistinct
    <3>2. CASE New(q, i) /\ New(r, j) BY <3>2
    <3>3. CASE Old(q, i) /\ New(r, j) BY <2>9, <2>11, <3>3
    <3>4. CASE New(q, i) /\ Old(r, j) BY <2>9, <2>11, <3>4
    <3> QED BY <2>8, <3>1, <3>2, <3>3, <3>4
  <2> QED BY <2>7, <2>10, <2>11 DEF LocalInv
<1> QED BY <1>2, <1>3

\* An idle worker takes a task that nobody else holds.
LEMMA WorkerTakes ==
  ASSUME Types, WorkerInv, NEW w \in Workers, wPc[w] = "idle",
         NEW t \in 1..Taken', t \notin called, \A v \in Workers : task[v] # t,
         \A i \in 1..Taken : i \in 1..Taken',
         wPc' = [wPc EXCEPT ![w] = "func"], task' = [task EXCEPT ![w] = t],
         called' = called
  PROVE  WorkerInv'
<1>1. /\ wPc'[w] = "func" /\ task'[w] = t
      /\ \A v \in Workers : v # w => wPc'[v] = wPc[v] /\ task'[v] = task[v]
  BY DEF Types
<1>2. Holds(w)' /\ \A v \in Workers : v # w => Holds(v)' = Holds(v)
  BY <1>1 DEF Holds
<1>3. \A v \in Workers : IF Holds(v)' THEN task'[v] \in 1..Taken' ELSE task'[v] = 0
  BY <1>1, <1>2 DEF WorkerInv
<1>4. \A u, v \in Workers : Holds(u)' /\ task'[u] = task'[v] => u = v
  BY <1>1, <1>2 DEF WorkerInv
<1>5. \A v \in Workers : Holds(v)' => (task'[v] \in called' <=> wPc'[v] # "func")
  BY <1>1, <1>2 DEF WorkerInv
<1>6. called' \subseteq 1..Taken'
  BY DEF WorkerInv
<1> QED BY <1>3, <1>4, <1>5, <1>6 DEF WorkerInv

\* A worker takes the head of its local queue.
LEMMA PlaceTakeLocal ==
  ASSUME Types, PlaceInv, NEW w \in Workers, TakeLocal(w)
  PROVE  PlaceInv'
<1> DEFINE p == w[1]
           t == Head(localQueue[p])
<1>0. /\ p \in Procs /\ wPc[w] = "idle" /\ localQueue[p] # <<>>
      /\ UNCHANGED <<producerVars, taskQueue, called>>
      /\ localQueue' = [localQueue EXCEPT ![p] = Tail(localQueue[p])]
      /\ wPc' = [wPc EXCEPT ![w] = "func"] /\ task' = [task EXCEPT ![w] = t]
  BY WorkerPair DEF TakeLocal, Goto, history
<1>1. Taken' = Taken
  BY <1>0, TakenFrame
<1>2. localQueue \in [Procs -> Seq(Nat)] /\ task \in [Workers -> Nat]
  BY DEF Types
<1>3. /\ \A q \in Procs : q # p => localQueue'[q] = localQueue[q]
      /\ localQueue'[p] = Tail(localQueue[p])
  BY <1>0, <1>2
<1>4. /\ Len(localQueue[p]) > 0 /\ Len(localQueue[p]) \in Nat
      /\ Len(localQueue'[p]) = Len(localQueue[p]) - 1
      /\ t = localQueue[p][1]
      /\ \A i \in 1..Len(localQueue[p]) - 1 : localQueue'[p][i] = localQueue[p][i + 1]
  BY <1>0, <1>2, <1>3, HeadTailOfNats
<1>5. t \in 1..Taken \ called /\ \A v \in Workers : task[v] # t
  BY <1>0, <1>4 DEF PlaceInv, LocalInv
<1>6. WorkerInv'
  BY <1>0, <1>1, <1>5, WorkerTakes DEF PlaceInv
<1> DEFINE Was(q, i) == IF q = p THEN i + 1 ELSE i
<1>7. ASSUME NEW q \in Procs, NEW i \in 1..Len(localQueue'[q])
      PROVE  /\ Was(q, i) \in 1..Len(localQueue[q])
             /\ localQueue'[q][i] = localQueue[q][Was(q, i)]
             /\ q = p => Was(q, i) # 1
  <2>1. CASE q = p
    <3>1. i \in 1..Len(localQueue[p]) - 1 BY <1>4, <2>1
    <3> QED BY <1>4, <2>1, <3>1
  <2>2. CASE q # p BY <1>3, <2>2
  <2> QED BY <2>1, <2>2
<1>8. ASSUME NEW q \in Procs, NEW i \in 1..Len(localQueue'[q])
      PROVE  /\ localQueue'[q][i] \in 1..Taken' \ called'
             /\ \A v \in Workers : task'[v] # localQueue'[q][i]
  <2>1. /\ localQueue'[q][i] \in 1..Taken' \ called'
        /\ \A v \in Workers : task[v] # localQueue'[q][i]
    BY <1>0, <1>1, <1>7 DEF PlaceInv, LocalInv
  <2>2. t # localQueue'[q][i]
    <3>1. 1 \in 1..Len(localQueue[p]) BY <1>4
    <3> QED BY <1>0, <1>4, <1>7, <3>1 DEF PlaceInv, LocalInv
  <2>3. \A v \in Workers : task'[v] = task[v] \/ task'[v] = t
    BY <1>0, <1>2
  <2> QED BY <2>1, <2>2, <2>3
<1>9. ASSUME NEW q \in Procs, NEW r \in Procs,
             NEW i \in 1..Len(localQueue'[q]), NEW j \in 1..Len(localQueue'[r]),
             localQueue'[q][i] = localQueue'[r][j]
      PROVE  q = r /\ i = j
  <2>1. /\ Was(q, i) \in 1..Len(localQueue[q])
        /\ Was(r, j) \in 1..Len(localQueue[r])
        /\ localQueue[q][Was(q, i)] = localQueue[r][Was(r, j)]
    BY <1>7, <1>9
  <2>2. LocalInv BY DEF PlaceInv
  <2> HIDE DEF Was
  <2>3. q = r /\ Was(q, i) = Was(r, j)
    BY <2>1, <2>2, LocalDistinct
  <2> QED BY <2>3 DEF Was
<1> QED BY <1>6, <1>8, <1>9 DEF PlaceInv, LocalInv

\* A worker of a single process takes the head of the task queue.
LEMMA PlaceTakeShared ==
  ASSUME Types, QueueInv, PlaceInv, NEW w \in Workers, TakeShared(w)
  PROVE  PlaceInv'
<1>0. /\ UNCHANGED <<producerVars, called, localQueue>>
      /\ taskQueue # <<>> /\ taskQueue' = Tail(taskQueue)
  BY DEF TakeShared, dispatchVars, history
<1>1. Taken' = Taken + 1 /\ Head(taskQueue) = Taken' /\ Taken \in Int
  BY <1>0, Dequeue DEF QueueInv, Types, Taken, LastPut
<1>2. CASE Head(taskQueue) = Marker
  <2>1. \A i \in 1..Taken : i \in 1..Taken'
    BY <1>1, <1>2 DEF Marker
  <2>2. UNCHANGED <<wPc, task>>
    BY <1>2 DEF TakeShared
  <2> QED BY <1>0, <2>1, <2>2, PlaceFrame DEF Holds
<1>3. CASE Head(taskQueue) # Marker
  <2> DEFINE t == Taken + 1
  <2>1. t \in 1..Taken' /\ t \notin 1..Taken /\ t # 0 /\ \A i \in 1..Taken : i \in 1..Taken'
    BY <1>1, <1>3 DEF Marker, QueueInv
  <2>2. /\ wPc[w] = "idle" /\ wPc' = [wPc EXCEPT ![w] = "func"]
        /\ task' = [task EXCEPT ![w] = t]
    BY <1>1, <1>3 DEF TakeShared, Goto
  <2>3. t \notin called /\ \A v \in Workers : task[v] # t
    BY <2>1 DEF PlaceInv, WorkerInv
  <2> HIDE DEF t
  <2>4. WorkerInv'
    BY <1>0, <2>1, <2>2, <2>3, WorkerTakes DEF PlaceInv
  <2>5. \A v \in Workers : task'[v] = task[v] \/ task'[v] = t
    BY <2>2 DEF Types
  <2>6. ASSUME NEW p \in Procs, NEW i \in 1..Len(localQueue[p])
        PROVE  /\ localQueue[p][i] \in 1..Taken' \ called
               /\ \A v \in Workers : task'[v] # localQueue[p][i]
    <3>1. /\ localQueue[p][i] \in 1..Taken \ called
          /\ \A v \in Workers : task[v] # localQueue[p][i]
      BY DEF PlaceInv, LocalInv
    <3> QED BY <2>1, <2>5, <3>1
  <2>7. ASSUME NEW p \in Procs, NEW q \in Procs,
               NEW i \in 1..Len(localQueue[p]), NEW j \in 1..Len(localQueue[q]),
               localQueue[p][i] = localQueue[q][j]
        PROVE  p = q /\ i = j
    BY <2>7, LocalDistinct DEF PlaceInv
  <2>8. LocalInv'
    BY <1>0, <2>6, <2>7 DEF LocalInv
  <2> QED BY <2>4, <2>8 DEF PlaceInv
<1> QED BY <1>2, <1>3

\* The remaining steps of a worker move no task, or one it already holds.
LEMMA PlaceFunc ==
  ASSUME Types, PlaceInv, NEW w \in Workers, FuncReturns(w) \/ FuncRaises(w)
  PROVE  PlaceInv'
<1>0. /\ UNCHANGED <<producerVars, taskQueue, task, localQueue>>
      /\ wPc[w] = "func" /\ \E to \in {"release", "addFailure"} : wPc' = [wPc EXCEPT ![w] = to]
      /\ called' = called \union {task[w]}
  BY DEF FuncReturns, FuncRaises, Goto, dispatchVars
<1>1. Taken' = Taken
  BY <1>0, TakenFrame
<1>2. Holds(w) /\ task[w] \in 1..Taken /\ task[w] \notin called
  BY <1>0 DEF PlaceInv, WorkerInv, Holds
<1>3. /\ wPc'[w] \in {"release", "addFailure"}
      /\ \A v \in Workers : v # w => wPc'[v] = wPc[v]
      /\ \A v \in Workers : Holds(v)' <=> Holds(v)
  BY <1>0 DEF Types, Holds
<1>4. \A v \in Workers : v # w => task[v] # task[w]
  BY <1>2 DEF PlaceInv, WorkerInv
<1>5. \A v \in Workers : IF Holds(v)' THEN task'[v] \in 1..Taken' ELSE task'[v] = 0
  BY <1>0, <1>1, <1>3 DEF PlaceInv, WorkerInv
<1>6. \A u, v \in Workers : Holds(u)' /\ task'[u] = task'[v] => u = v
  BY <1>0, <1>3 DEF PlaceInv, WorkerInv
<1>7. ASSUME NEW v \in Workers, Holds(v)'
      PROVE  task'[v] \in called' <=> wPc'[v] # "func"
  <2>1. CASE v = w BY <1>0, <1>3, <2>1
  <2>2. CASE v # w BY <1>0, <1>3, <1>4, <1>7, <2>2 DEF PlaceInv, WorkerInv
  <2> QED BY <2>1, <2>2
<1>8. called' \subseteq 1..Taken'
  BY <1>0, <1>1, <1>2 DEF PlaceInv, WorkerInv
<1>9. LocalInv'
  BY <1>0, <1>1 DEF PlaceInv, LocalInv
<1> QED BY <1>5, <1>6, <1>7, <1>8, <1>9 DEF PlaceInv, WorkerInv

\* A worker that counts its task gives it up.
LEMMA PlaceCount ==
  ASSUME Types, PlaceInv, NEW w \in Workers, CountFinished(w)
  PROVE  PlaceInv'
<1>0. /\ UNCHANGED <<producerVars, taskQueue, called, localQueue>>
      /\ wPc[w] = "count" /\ wPc' = [wPc EXCEPT ![w] = "check"]
      /\ task' = [task EXCEPT ![w] = 0]
  BY DEF CountFinished, Goto, dispatchVars, history
<1>1. Taken' = Taken
  BY <1>0, TakenFrame
<1>2. /\ wPc'[w] = "check" /\ task'[w] = 0 /\ ~Holds(w)'
      /\ \A v \in Workers : v # w => wPc'[v] = wPc[v] /\ task'[v] = task[v] /\ (Holds(v)' <=> Holds(v))
  BY <1>0 DEF Types, Holds
<1>3. \A v \in Workers : IF Holds(v)' THEN task'[v] \in 1..Taken' ELSE task'[v] = 0
  BY <1>1, <1>2 DEF PlaceInv, WorkerInv
<1>4. \A u, v \in Workers : Holds(u)' /\ task'[u] = task'[v] => u = v
  BY <1>2, <1>3 DEF PlaceInv, WorkerInv
<1>5. \A v \in Workers : Holds(v)' => (task'[v] \in called' <=> wPc'[v] # "func")
  BY <1>0, <1>2 DEF PlaceInv, WorkerInv
<1>6. WorkerInv'
  BY <1>0, <1>1, <1>3, <1>4, <1>5 DEF PlaceInv, WorkerInv
<1>7. LocalInv'
  <2>1. \A v \in Workers : task'[v] = task[v] \/ task'[v] = 0
    BY <1>2
  <2> QED BY <1>0, <1>1, <2>1 DEF PlaceInv, LocalInv
<1> QED BY <1>6, <1>7 DEF PlaceInv

\* The other steps of a worker move no task.
LEMMA PlaceRest ==
  ASSUME Types, PlaceInv, NEW w \in Workers,
         HandleException(w) \/ ReleaseSemaphore(w) \/ PublishSharedVar(w)
           \/ CheckDone(w) \/ NotifyDone(w)
  PROVE  PlaceInv'
<1>1. /\ UNCHANGED <<producerVars, taskQueue, task, called, localQueue>>
      /\ \E from, to \in WorkerPcs :
            /\ wPc[w] = from /\ wPc' = [wPc EXCEPT ![w] = to]
            /\ \/ from \in {"addFailure", "release", "publish"} /\ to \in {"release", "publish", "count"}
               \/ from \in {"check", "notify"} /\ to \in {"notify", "idle"}
  BY DEF HandleException, ReleaseSemaphore, PublishSharedVar, CheckDone,
     NotifyDone, Goto, dispatchVars, history, WorkerPcs
<1>2. Taken' = Taken
  BY <1>1, TakenFrame
<1>3. \A v \in Workers : (Holds(v)' <=> Holds(v)) /\ (wPc'[v] = "func" <=> wPc[v] = "func")
  BY <1>1 DEF Types, Holds
<1> QED BY <1>1, <1>2, <1>3, PlaceFrame

\* A task that left the task queue stays in exactly one place.
LEMMA PlaceInvNext ==
  Types /\ ProducerInv /\ QueueInv /\ PlaceInv /\ [Next]_vars => PlaceInv'
<1> SUFFICES ASSUME Types, ProducerInv, QueueInv, PlaceInv, [Next]_vars PROVE PlaceInv'
  OBVIOUS
<1>1. CASE Producer /\ UNCHANGED <<wPc, task, called, localQueue>>
  <2>1. \A i \in 1..Taken : i \in 1..Taken' BY <1>1, ProducerKeepsTaken
  <2> QED BY <1>1, <2>1, PlaceFrame DEF Holds
<1>2. ASSUME NEW p \in Procs, Dispatcher(p) PROVE PlaceInv'
  <2>1. CASE DispatcherGet(p) BY <2>1, PlaceDispatch
  <2>2. CASE DispatcherAcquire(p)
    <3>1. UNCHANGED <<producerVars, taskQueue, wPc, task, called, localQueue>>
      BY <2>2 DEF DispatcherAcquire, workerVars, history
    <3>2. Taken' = Taken BY <3>1, TakenFrame
    <3> QED BY <3>1, <3>2, PlaceFrame DEF Holds
  <2> QED BY <1>2, <2>1, <2>2 DEF Dispatcher
<1>3. ASSUME NEW w \in Workers, Worker(w) PROVE PlaceInv'
  BY <1>3, PlaceTakeLocal, PlaceTakeShared, PlaceFunc, PlaceCount, PlaceRest DEF Worker
<1>4. CASE UNCHANGED <<producerVars, taskQueue, countVars, dispatchVars, workerVars, called>>
  <2>1. UNCHANGED <<wPc, task, called, localQueue>> /\ Taken' = Taken
    BY <1>4, TakenFrame DEF workerVars, dispatchVars
  <2> QED BY <2>1, PlaceFrame DEF Holds
<1> QED BY <1>1, <1>2, <1>3, <1>4, FrameNext

-----------------------------------------------------------------------------
(* The count of finished tasks is the number of tasks finished.            *)

\* Finitely many tasks are counted.
LEMMA CountedFinite ==
  ASSUME Types, ProducerInv, PlaceInv
  PROVE  /\ IsFiniteSet(Counted) /\ Counted \subseteq 1..curTask
         /\ Cardinality(Counted) \in Nat /\ Cardinality(Counted) <= curTask
         /\ called \subseteq 1..curTask
<1>1. Taken \in Int /\ Taken <= curTask /\ curTask \in Nat
  <2>1. LastPut \in Int /\ LastPut <= curTask BY DEF Types, LastPut
  <2>2. Len(taskQueue) \in Nat BY DEF Types
  <2> QED BY <2>1, <2>2 DEF Taken, Types
<1>2. called \subseteq 1..curTask
  BY <1>1 DEF PlaceInv, WorkerInv
<1>3. Counted \subseteq 1..curTask
  BY <1>2 DEF Counted
<1>4. IsFiniteSet(1..curTask) /\ Cardinality(1..curTask) = curTask
  BY <1>1, FS_Interval
<1> QED BY <1>2, <1>3, <1>4, FS_Subset, FS_CardinalityType

\* A task is counted by CountFinished and by nothing else.
LEMMA CountedNext ==
  ASSUME Types, ProducerInv, QueueInv, PlaceInv, [Next]_vars
  PROVE  \/ Counted' = Counted /\ UNCHANGED <<finished, numDone>>
         \/ \E w \in Workers : /\ CountFinished(w)
                               /\ task[w] \notin Counted
                               /\ Counted' = Counted \union {task[w]}
<1>0. 0 \notin called
  BY DEF PlaceInv, WorkerInv
<1>1. UNCHANGED <<task, called>> => Counted' = Counted
  BY DEF Counted
<1>2. ASSUME NEW p \in Procs, Dispatcher(p) PROVE UNCHANGED <<task, called, finished, numDone>>
  BY <1>2 DEF Dispatcher, DispatcherAcquire, DispatcherGet, workerVars, history, countVars
<1>3. ASSUME NEW w \in Workers, NEW t, t \notin called, task[w] = 0,
             task' = [task EXCEPT ![w] = t], called' = called
      PROVE  Counted' = Counted
  BY <1>0, <1>3 DEF Counted, Types
<1>4. ASSUME NEW w \in Workers, Worker(w)
      PROVE  \/ Counted' = Counted /\ UNCHANGED <<finished, numDone>>
             \/ /\ CountFinished(w) /\ task[w] \notin Counted
                /\ Counted' = Counted \union {task[w]}
  <2>1. CASE TakeLocal(w)
    <3>1. /\ w[1] \in Procs /\ wPc[w] = "idle" /\ localQueue[w[1]] # <<>>
          /\ UNCHANGED <<called, finished, numDone>>
          /\ task' = [task EXCEPT ![w] = Head(localQueue[w[1]])]
      BY <2>1, WorkerPair DEF TakeLocal, Goto, history, countVars
    <3>2. 1 \in 1..Len(localQueue[w[1]]) /\ Head(localQueue[w[1]]) = localQueue[w[1]][1]
      BY <3>1, HeadTailOfNats DEF Types
    <3>3. Head(localQueue[w[1]]) \notin called
      BY <3>1, <3>2 DEF PlaceInv, LocalInv
    <3>4. task[w] = 0 BY <3>1 DEF PlaceInv, WorkerInv, Holds
    <3> QED BY <1>3, <3>1, <3>3, <3>4
  <2>2. CASE TakeShared(w)
    <3>1. /\ taskQueue # <<>> /\ taskQueue' = Tail(taskQueue)
          /\ UNCHANGED <<producerVars, called, finished, numDone>>
          /\ \/ UNCHANGED task
             \/ wPc[w] = "idle" /\ task' = [task EXCEPT ![w] = Head(taskQueue)]
      BY <2>2 DEF TakeShared, Goto, history, countVars
    <3>2. Head(taskQueue) = Taken + 1 /\ Taken \in Int
      BY <3>1, Dequeue DEF QueueInv, Types, Taken, LastPut
    <3>3. Head(taskQueue) \notin called
      BY <3>2 DEF PlaceInv, WorkerInv
    <3>4. wPc[w] = "idle" => task[w] = 0 BY DEF PlaceInv, WorkerInv, Holds
    <3> QED BY <1>1, <1>3, <3>1, <3>3, <3>4
  <2>3. CASE FuncReturns(w) \/ FuncRaises(w)
    <3>1. called' = called \union {task[w]} /\ UNCHANGED <<task, finished, numDone>>
      BY <2>3 DEF FuncReturns, FuncRaises, countVars
    <3> QED BY <3>1 DEF Counted
  <2>4. CASE HandleException(w) \/ ReleaseSemaphore(w) \/ PublishSharedVar(w)
             \/ CheckDone(w) \/ NotifyDone(w)
    <3>1. UNCHANGED <<task, called, finished, numDone>>
      BY <2>4 DEF HandleException, ReleaseSemaphore, PublishSharedVar, CheckDone,
         NotifyDone, countVars, history
    <3> QED BY <1>1, <3>1
  <2>5. CASE CountFinished(w)
    <3>1. wPc[w] = "count" /\ called' = called /\ task' = [task EXCEPT ![w] = 0]
      BY <2>5 DEF CountFinished, Goto, history
    <3>2. Holds(w) /\ task[w] \in called /\ task[w] # 0
      BY <1>0, <3>1 DEF PlaceInv, WorkerInv, Holds
    <3>3. \A v \in Workers : v # w => task[v] # task[w]
      BY <3>2 DEF PlaceInv, WorkerInv
    <3>4. task'[w] = 0 /\ \A v \in Workers : v # w => task'[v] = task[v]
      BY <3>1 DEF Types
    <3>5. task[w] \notin Counted
      BY DEF Counted
    <3>6. Counted' = Counted \union {task[w]}
      BY <1>0, <3>1, <3>2, <3>3, <3>4 DEF Counted
    <3> QED BY <2>5, <3>5, <3>6
  <2> QED BY <1>4, <2>1, <2>2, <2>3, <2>4, <2>5 DEF Worker
<1>5. CASE UNCHANGED <<producerVars, taskQueue, countVars, dispatchVars, workerVars, called>>
  BY <1>1, <1>5 DEF workerVars, countVars
<1> QED BY <1>1, <1>2, <1>4, <1>5, FrameNext

\* Every step keeps finished the number of counted tasks.
LEMMA CountInvNext ==
  Types /\ ProducerInv /\ QueueInv /\ PlaceInv /\ CountInv /\ [Next]_vars => CountInv'
<1> SUFFICES ASSUME Types, ProducerInv, QueueInv, PlaceInv, CountInv, [Next]_vars PROVE CountInv'
  OBVIOUS
<1>1. Types' BY TypesNext
<1>2. finished' = Cardinality(Counted') /\ finished' >= finished
  <2>1. CASE Counted' = Counted /\ UNCHANGED <<finished, numDone>>
    BY <2>1 DEF CountInv, Types
  <2>2. ASSUME NEW w \in Workers, CountFinished(w), task[w] \notin Counted,
               Counted' = Counted \union {task[w]}
        PROVE  finished' = Cardinality(Counted') /\ finished' >= finished
    <3>1. Cardinality(Counted') = Cardinality(Counted) + 1
      BY <2>2, CountedFinite, FS_AddElement
    <3>2. finished' = finished + 1 BY <2>2 DEF CountFinished
    <3> QED BY <3>1, <3>2 DEF CountInv, Types
  <2> QED BY <2>1, <2>2, CountedNext
<1>3. \A w \in Workers : numDone'[w] <= finished'
  <2>1. CASE UNCHANGED numDone
    <3>1. /\ finished \in Nat /\ finished' \in Nat /\ numDone \in [Workers -> Nat]
          /\ \A w \in Workers : numDone[w] <= finished
      BY <1>1 DEF CountInv, Types
    <3> QED BY <1>2, <2>1, <3>1
  <2>2. ASSUME NEW w \in Workers, CountFinished(w)
        PROVE  \A v \in Workers : numDone'[v] <= finished'
    BY <1>2, <2>2 DEF CountFinished, CountInv, Types
  <2> QED BY <2>1, <2>2, CountedNext
<1>4. pPc' = "check" => seen' <= finished'
  <2>1. CASE Producer
    <3>1. CASE ProducerReadDone
      BY <1>2, <3>1 DEF ProducerReadDone, Types, countVars
    <3>2. CASE ~ProducerReadDone
      <4>1. pPc' # "check"
        BY <2>1, <3>2 DEF Producer, ProducerSkip, ProducerAccept, ProducerPutPrevious,
           ProducerIteratorRaises, ProducerHandleException, ProducerCheckerRaises,
           ProducerAccountingRaises, ProducerStops, ProducerSetTotal, ProducerPutLast,
           ProducerCheck, ProducerNotify, Yield
      <4> QED BY <4>1
    <3> QED BY <3>1, <3>2
  <2>2. CASE UNCHANGED producerVars
    BY <1>1, <1>2, <2>2 DEF producerVars, CountInv, Types
  <2> QED BY <2>1, <2>2, FrameNext
<1> QED BY <1>2, <1>3, <1>4 DEF CountInv

\* No more tasks are finished than were taken.
LEMMA FinishedBound ==
  Types /\ ProducerInv /\ PlaceInv /\ CountInv => finished <= curTask /\ curTask <= numTasks
BY CountedFinite DEF CountInv, ProducerInv

-----------------------------------------------------------------------------
(* The call is only marked complete when every task is finished.           *)

Reported == completed \/ pPc = "notify" \/ \E w \in Workers : wPc[w] = "notify"

\* Whoever finds num_to_do = num_done >= 0 has read the final total, and the
\* count cannot have been less than the one that was compared with it.
LEMMA AllDoneIsFinal ==
  ASSUME Types, ProducerInv, PlaceInv, CountInv, NEW n \in Nat, n <= finished, AllDone(n)
  PROVE  totalTasks >= 0 /\ finished = totalTasks
<1>1. totalTasks = numTasks
  BY DEF AllDone, ProducerInv
<1>2. finished <= numTasks
  BY FinishedBound DEF Types
<1> QED BY <1>1, <1>2 DEF AllDone, Types

\* Who is about to notify has seen all tasks finished.
LEMMA ReportedNext ==
  ASSUME Types, ProducerInv, QueueInv, PlaceInv, CountInv, [Next]_vars, Reported'
  PROVE  \/ Reported
         \/ totalTasks >= 0 /\ finished = totalTasks /\ UNCHANGED <<totalTasks, finished>>
<1>1. CASE Producer
  <2>1. CASE ProducerCheck
    <3>1. UNCHANGED <<wPc, completed, totalTasks, finished>> /\ (pPc' = "notify" => AllDone(seen))
      BY <2>1 DEF ProducerCheck, workerVars, countVars
    <3>2. seen \in Nat /\ seen <= finished
      BY <2>1 DEF ProducerCheck, CountInv, Types
    <3> QED BY <3>1, <3>2, AllDoneIsFinal DEF Reported
  <2>2. CASE ProducerNotify
    BY <2>2 DEF ProducerNotify, Reported
  <2>3. CASE ~ProducerCheck /\ ~ProducerNotify
    <3>1. pPc' # "notify" /\ UNCHANGED <<wPc, completed>>
      BY <1>1, <2>3 DEF Producer, ProducerSkip, ProducerAccept, ProducerPutPrevious,
           ProducerIteratorRaises, ProducerHandleException, ProducerCheckerRaises,
           ProducerAccountingRaises, ProducerStops, ProducerSetTotal, ProducerPutLast,
           ProducerReadDone, Yield, workerVars, countVars
    <3> QED BY <3>1 DEF Reported
  <2> QED BY <2>1, <2>2, <2>3
<1>2. ASSUME NEW p \in Procs, Dispatcher(p) PROVE Reported
  BY <1>2 DEF Dispatcher, DispatcherAcquire, DispatcherGet, workerVars, countVars,
     producerVars, Reported
<1>3. ASSUME NEW w \in Workers, Worker(w)
      PROVE  \/ Reported
             \/ totalTasks >= 0 /\ finished = totalTasks /\ UNCHANGED <<totalTasks, finished>>
  <2>1. CASE CheckDone(w)
    <3>1. /\ UNCHANGED <<pPc, completed, totalTasks, finished>>
          /\ \A v \in Workers : wPc'[v] = "notify" => wPc[v] = "notify" \/ AllDone(numDone[w])
      BY <2>1 DEF CheckDone, Goto, countVars, producerVars, Types
    <3>2. numDone[w] \in Nat /\ numDone[w] <= finished
      BY DEF CountInv, Types
    <3> QED BY <3>1, <3>2, AllDoneIsFinal DEF Reported
  <2>2. CASE NotifyDone(w)
    BY <2>2 DEF NotifyDone, Goto, Reported
  <2>3. CASE ~CheckDone(w) /\ ~NotifyDone(w)
    <3>1. /\ UNCHANGED <<pPc, completed>>
          /\ \E to \in WorkerPcs \ {"notify"} : wPc' = wPc \/ wPc' = [wPc EXCEPT ![w] = to]
      BY <1>3, <2>3 DEF Worker, TakeLocal, TakeShared, FuncReturns, FuncRaises,
         HandleException, ReleaseSemaphore, PublishSharedVar, CountFinished, Goto,
         countVars, producerVars, WorkerPcs
    <3>2. \A v \in Workers : wPc'[v] = "notify" => wPc[v] = "notify"
      BY <3>1 DEF Types
    <3> QED BY <3>1, <3>2 DEF Reported
  <2> QED BY <2>1, <2>2, <2>3
<1>4. CASE UNCHANGED <<producerVars, taskQueue, countVars, dispatchVars, workerVars, called>>
  BY <1>4 DEF Reported, producerVars, countVars, workerVars
<1> QED BY <1>1, <1>2, <1>3, <1>4, FrameNext

\* total_tasks is written once, and never after all tasks are finished.
LEMMA TotalNext ==
  ASSUME Types, ProducerInv, [Next]_vars, totalTasks >= 0
  PROVE  totalTasks' = totalTasks
<1>1. CASE Producer
  <2>1. pPc # "setTotal"
    BY DEF ProducerInv, Types
  <2> QED BY <1>1, <2>1 DEF Producer, ProducerSkip, ProducerAccept, ProducerPutPrevious,
           ProducerIteratorRaises, ProducerHandleException, ProducerCheckerRaises,
           ProducerAccountingRaises, ProducerStops, ProducerSetTotal, ProducerPutLast,
           ProducerReadDone, ProducerCheck, ProducerNotify, countVars
<1> QED BY <1>1, FrameNext DEF countVars

\* The caller returns only after the call was marked completed.
LEMMA CallerNext ==
  ASSUME [Next]_vars, mPc = "returned" => completed, outcome = Pending <=> mPc # "returned"
  PROVE  (mPc' = "returned" => completed') /\ (outcome' = Pending <=> mPc' # "returned")
<1> USE DEF callerVars, countVars
<1>1. CASE Producer
  BY <1>1 DEF Producer, ProducerSkip, ProducerAccept, ProducerPutPrevious,
           ProducerIteratorRaises, ProducerHandleException, ProducerCheckerRaises,
           ProducerAccountingRaises, ProducerStops, ProducerSetTotal, ProducerPutLast,
           ProducerReadDone, ProducerCheck, ProducerNotify, NotifyAll
<1>2. ASSUME NEW p \in Procs, Dispatcher(p)
      PROVE  UNCHANGED <<mPc, outcome, completed>>
  BY <1>2 DEF Dispatcher, DispatcherAcquire, DispatcherGet
<1>3. ASSUME NEW w \in Workers, Worker(w)
      PROVE  UNCHANGED <<mPc, outcome, completed>> \/ (NotifyAll /\ UNCHANGED outcome)
  BY <1>3 DEF Worker, TakeLocal, TakeShared, FuncReturns, FuncRaises,
     HandleException, ReleaseSemaphore, PublishSharedVar, CountFinished,
     CheckDone, NotifyDone
<1>4. CASE Caller \/ UNCHANGED vars
  BY <1>4 DEF Caller, CallerWaits, CallerReturns, Pending, vars
<1> QED BY <1>1, <1>2, <1>3, <1>4 DEF Next, Quiescent, NotifyAll

\* Every step keeps DoneInv.
LEMMA DoneInvNext ==
  Types /\ ProducerInv /\ QueueInv /\ PlaceInv /\ CountInv /\ DoneInv /\ [Next]_vars => DoneInv'
<1> SUFFICES ASSUME Types, ProducerInv, QueueInv, PlaceInv, CountInv, DoneInv, [Next]_vars
             PROVE  DoneInv'
  OBVIOUS
<1>1. Types' /\ ProducerInv' /\ PlaceInv' /\ CountInv'
  BY TypesNext, ProducerInvNext, PlaceInvNext, CountInvNext
<1>2. ASSUME Reported' PROVE totalTasks' >= 0 /\ finished' = totalTasks'
  <2>1. CASE Reported
    <3>1. totalTasks >= 0 /\ finished = totalTasks BY <2>1 DEF DoneInv, Reported
    <3>2. totalTasks' = totalTasks BY <3>1, TotalNext
    <3>3. totalTasks' = numTasks' BY <3>1, <3>2, <1>1 DEF ProducerInv
    <3>4. finished' <= numTasks'
      <4>1. (Types /\ ProducerInv /\ PlaceInv /\ CountInv
               => finished <= curTask /\ curTask <= numTasks)'
        BY FinishedBound, PTL
      <4>2. finished' \in Nat /\ curTask' \in Nat /\ numTasks' \in Nat
        BY <1>1 DEF Types
      <4> QED BY <1>1, <4>1, <4>2
    <3>5. finished' >= finished
      BY CountedNext DEF CountFinished, Types
    <3> QED BY <1>1, <3>1, <3>2, <3>3, <3>4, <3>5 DEF Types
  <2> QED BY <1>2, <2>1, ReportedNext
<1>3. (mPc' = "returned" => completed') /\ (outcome' = Pending <=> mPc' # "returned")
  BY CallerNext DEF DoneInv
<1> QED BY <1>2, <1>3 DEF DoneInv, Reported

-----------------------------------------------------------------------------
(* The theorems.                                                           *)

\* The invariant holds initially.
LEMMA InitInv == Init => Types /\ IInv
<1> SUFFICES ASSUME Init PROVE Types /\ IInv
  OBVIOUS
<1>1. Types
  <2>1. Cardinality(Threads) \in Nat BY ThreadsAssumption, FS_CardinalityType
  <2>2. taskQueue \in Seq(Nat) BY DEF Init
  <2>3. localQueue \in [Procs -> Seq(Nat)] BY DEF Init
  <2>4. semaphore \in [Procs -> Nat] /\ dPc \in [Procs -> {"acquire", "get"}]
    BY <2>1 DEF Init
  <2>5. /\ wPc \in [Workers -> WorkerPcs] /\ task \in [Workers -> Nat]
        /\ numDone \in [Workers -> Nat] /\ register \in [Workers -> Nat]
        /\ delta \in [Workers -> Nat]
    BY DEF Init, WorkerPcs
  <2>6. pPc \in ProducerPcs /\ yielded \in 0..MaxArgs
    BY ArgsAssumption DEF Init, ProducerPcs
  <2>7. /\ numTasks = 0 /\ curTask = 0 /\ lastTask = 0 /\ seen = 0
        /\ unknownException = FALSE /\ totalTasks = -1 /\ finished = 0
        /\ completed = FALSE /\ sharedVar = 0 /\ failureCount = 0 /\ handled = 0
        /\ multiProcess \in BOOLEAN /\ mPc = "checking" /\ outcome = Pending
    BY DEF Init
  <2>8. outcome \in {Pending, "returned", "raised"} /\ mPc \in {"checking", "waiting", "returned"}
    BY <2>7
  <2>9. /\ numTasks \in Nat /\ curTask \in Nat /\ lastTask \in Nat /\ seen \in Nat
        /\ totalTasks \in Int /\ finished \in Nat
        /\ sharedVar \in Nat /\ failureCount \in Nat /\ handled \in Nat
    BY <2>7
  <2>10. unknownException \in BOOLEAN /\ completed \in BOOLEAN /\ multiProcess \in BOOLEAN
    BY <2>7, Zenon
  <2> QED BY <2>2, <2>3, <2>4, <2>5, <2>6, <2>8, <2>9, <2>10, Zenon DEF Types
<1>2. ProducerInv
  BY DEF Init, ProducerInv, Producing
<1>3. Taken = 0 /\ Len(taskQueue) = 0
  <2>1. Len(taskQueue) = 0 BY DEF Init
  <2>2. LastPut = 0 BY DEF Init, LastPut, HasPutAll
  <2> QED BY <2>1, <2>2 DEF Taken
<1>4. QueueInv
  BY <1>3 DEF QueueInv
<1>5. PlaceInv
  <2>1. WorkerInv BY DEF Init, WorkerInv, Holds
  <2>2. LocalInv BY DEF Init, LocalInv
  <2> QED BY <2>1, <2>2 DEF PlaceInv
<1>6. CountInv
  <2>1. Counted = {} BY DEF Init, Counted
  <2> QED BY <2>1, FS_EmptySet DEF Init, CountInv
<1>7. DoneInv
  BY DEF Init, DoneInv, Pending
<1> QED BY <1>1, <1>2, <1>4, <1>5, <1>6, <1>7 DEF IInv, PlaceInv

\* Every step keeps the invariant.
LEMMA NextInv == Types /\ IInv /\ [Next]_vars => Types' /\ IInv'
BY TypesNext, ProducerInvNext, QueueInvNext, PlaceInvNext, CountInvNext, DoneInvNext
   DEF IInv, PlaceInv

\* The inductive invariant holds of every reachable state: in particular each
\* task number is in one place, and finished counts the finished tasks.
THEOREM Inductive == Spec => [](Types /\ IInv)
BY InitInv, NextInv, PTL DEF Spec

\* When all tasks are counted, func was called on each of them.
LEMMA CompletedMeansDone ==
  ASSUME Types, IInv, completed
  PROVE  /\ called = 1..curTask /\ curTask = numTasks /\ ~Producing
         /\ \A w \in Workers : ~Holds(w)
<1>1. totalTasks >= 0 /\ finished = totalTasks
  BY DEF IInv, DoneInv
<1>2. totalTasks = numTasks /\ ~Producing
  BY <1>1 DEF IInv, ProducerInv
<1>3. PlaceInv /\ ProducerInv /\ CountInv
  BY DEF IInv, PlaceInv
<1>4. curTask \in Nat /\ numTasks \in Nat /\ curTask <= numTasks
  BY <1>3 DEF Types, ProducerInv
<1>5. IsFiniteSet(1..curTask) /\ Cardinality(1..curTask) = curTask
  BY <1>4, FS_Interval
<1>6. Cardinality(Counted) = curTask /\ curTask = numTasks
  BY <1>1, <1>2, <1>3, <1>4, CountedFinite DEF CountInv
<1>7. Counted = 1..curTask
  BY <1>3, <1>5, <1>6, CountedFinite, FS_Subset
<1>8. called = 1..curTask
  BY <1>3, <1>7, CountedFinite DEF Counted
<1>9. ASSUME NEW w \in Workers, Holds(w) PROVE FALSE
  <2>1. task[w] \in 1..Taken /\ task[w] \notin Counted
    BY <1>3, <1>9 DEF PlaceInv, WorkerInv, Counted
  <2>2. Taken <= curTask /\ Taken \in Int
    <3>1. LastPut \in Int /\ LastPut <= curTask BY DEF Types, LastPut
    <3>2. Len(taskQueue) \in Nat BY DEF Types
    <3> QED BY <1>4, <3>1, <3>2 DEF Taken
  <2> QED BY <1>4, <1>7, <2>1, <2>2
<1> QED BY <1>2, <1>6, <1>8, <1>9

\* The invariant implies ReturnsAfterAllCalls.
LEMMA InvReturns == Types /\ IInv => ReturnsAfterAllCalls
BY CompletedMeansDone DEF ReturnsAfterAllCalls, IInv, DoneInv

\* Apply returns to its caller only when func was called on every accepted
\* argument and no worker is still handling one.
THEOREM ReturnsAfterAllCallsHolds == Spec => []ReturnsAfterAllCalls
BY Inductive, InvReturns, PTL

-----------------------------------------------------------------------------
(* The permits of a process's semaphore and the types.                     *)

PermitsInv ==
    /\ PermitsAccounted
    /\ \A p \in Procs : dPc[p] = "get" => multiProcess
    /\ ~multiProcess => semaphore = [p \in Procs |-> Cardinality(Threads)]

\* Finitely many threads use a slot.
LEMMA BusyFinite ==
  ASSUME NEW p
  PROVE  /\ IsFiniteSet(Busy(p)) /\ Cardinality(Busy(p)) \in Nat
         /\ IsFiniteSet(Busy(p)') /\ Cardinality(Busy(p))' \in Nat
         /\ Cardinality(Threads) \in Nat
<1>1. Busy(p) \subseteq Threads /\ Busy(p)' \subseteq Threads
  BY DEF Busy
<1> QED BY <1>1, ThreadsAssumption, FS_Subset, FS_CardinalityType

\* One worker changes its state: its process's count of busy threads follows.
LEMMA BusyNext ==
  ASSUME Types, NEW w \in Workers, NEW to \in WorkerPcs, wPc' = [wPc EXCEPT ![w] = to]
  PROVE  /\ \A p \in Procs : p # w[1] => Busy(p)' = Busy(p)
         /\ (UsesSlot(w) <=> UsesSlot(w)') => Busy(w[1])' = Busy(w[1])
         /\ ~UsesSlot(w) /\ UsesSlot(w)' => Cardinality(Busy(w[1])') = Cardinality(Busy(w[1])) + 1
         /\ UsesSlot(w) /\ ~UsesSlot(w)' => Cardinality(Busy(w[1])') = Cardinality(Busy(w[1])) - 1
<1> DEFINE p == w[1]
           t == w[2]
<1>1. w = <<p, t>> /\ p \in Procs /\ t \in Threads
  BY DEF Workers
<1>2. \A v \in Workers : v # w => (UsesSlot(v)' <=> UsesSlot(v))
  BY DEF Types, UsesSlot
<1>3. \A q \in Procs, u \in Threads : <<q, u>> \in Workers
  BY DEF Workers
<1>4. ASSUME NEW q \in Procs, q # p PROVE Busy(q)' = Busy(q)
  <2>1. \A u \in Threads : UsesSlot(<<q, u>>)' <=> UsesSlot(<<q, u>>)
    BY <1>1, <1>2, <1>3, <1>4
  <2> QED BY <2>1 DEF Busy
<1>5. \A u \in Threads : u # t => (UsesSlot(<<p, u>>)' <=> UsesSlot(<<p, u>>))
  BY <1>1, <1>2, <1>3
<1>6. (UsesSlot(w) <=> UsesSlot(w)') => Busy(p)' = Busy(p)
  BY <1>1, <1>5 DEF Busy
<1>7. ~UsesSlot(w) /\ UsesSlot(w)' => Busy(p)' = Busy(p) \union {t} /\ t \notin Busy(p)
  BY <1>1, <1>5 DEF Busy
<1>8. UsesSlot(w) /\ ~UsesSlot(w)' => Busy(p)' = Busy(p) \ {t} /\ t \in Busy(p)
  BY <1>1, <1>5 DEF Busy
<1>9. ~UsesSlot(w) /\ UsesSlot(w)' => Cardinality(Busy(p))' = Cardinality(Busy(p)) + 1
  BY <1>7, BusyFinite, FS_AddElement
<1>10. UsesSlot(w) /\ ~UsesSlot(w)' => Cardinality(Busy(p))' = Cardinality(Busy(p)) - 1
  BY <1>8, BusyFinite, FS_RemoveElement
<1> QED BY <1>4, <1>6, <1>9, <1>10

Waiting(p) == Len(localQueue[p])

\* Slots(p): what the permits of p are accounted with.
Slots(p) == semaphore[p] + (IF dPc[p] = "get" THEN 1 ELSE 0) + Waiting(p)
              + Cardinality(Busy(p))

\* The parts of that sum are numbers.
LEMMA SlotsDef ==
  ASSUME Types, NEW p \in Procs
  PROVE  Waiting(p) \in Nat /\ semaphore[p] \in Nat
BY DEF Types, Waiting

\* Every step keeps the permits in balance.
LEMMA PermitsNext ==
  ASSUME Types, PermitsInv, [Next]_vars
  PROVE  PermitsInv'
<1> USE DEF Slots
<1>0. (\A p \in Procs : multiProcess => Slots(p) = Cardinality(Threads)) <=> PermitsAccounted
  BY DEF PermitsAccounted, Waiting
<1>1. CASE UNCHANGED <<wPc, dispatchVars, multiProcess>>
  BY <1>1 DEF PermitsInv, PermitsAccounted, Busy, UsesSlot, dispatchVars
<1>2. CASE Producer
  <2>1. UNCHANGED <<wPc, dispatchVars, multiProcess>>
    BY <1>2 DEF Producer, ProducerSkip, ProducerAccept, ProducerPutPrevious,
           ProducerIteratorRaises, ProducerHandleException, ProducerCheckerRaises,
           ProducerAccountingRaises, ProducerStops, ProducerSetTotal, ProducerPutLast,
           ProducerReadDone, ProducerCheck, ProducerNotify, callerVars, workerVars
  <2> QED BY <1>1, <2>1
<1>3. ASSUME NEW p \in Procs, Dispatcher(p) PROVE PermitsInv'
  <2>1. UNCHANGED <<wPc, multiProcess>> /\ \A q \in Procs : Busy(q)' = Busy(q)
    BY <1>3 DEF Dispatcher, DispatcherAcquire, DispatcherGet, callerVars, workerVars,
       Busy, UsesSlot
  <2>2. Cardinality(Busy(p)) \in Nat /\ Waiting(p) \in Nat /\ semaphore[p] \in Nat
    BY BusyFinite, SlotsDef
  <2>3. /\ \A q \in Procs : q # p => UNCHANGED <<semaphore[q], dPc[q], Waiting(q)>>
        /\ multiProcess
    BY <1>3 DEF Dispatcher, DispatcherAcquire, DispatcherGet, Types, PermitsInv, Waiting
  <2>4. Slots(p)' = Slots(p)
    <3>1. CASE DispatcherAcquire(p)
      <4>1. semaphore'[p] = semaphore[p] - 1 /\ dPc[p] = "acquire" /\ dPc'[p] = "get"
            /\ Waiting(p)' = Waiting(p)
        BY <3>1 DEF DispatcherAcquire, Types, Waiting
      <4> QED BY <2>1, <2>2, <4>1
    <3>2. CASE DispatcherGet(p)
      <4>1. dPc[p] = "get" /\ dPc'[p] = "acquire"
        BY <3>2 DEF DispatcherGet, Types
      <4>2. \/ Waiting(p)' = Waiting(p) /\ semaphore'[p] = semaphore[p] + 1
            \/ Waiting(p)' = Waiting(p) + 1 /\ semaphore'[p] = semaphore[p]
        <5>1. Head(taskQueue) \in Nat
          BY <3>2, HeadTailOfNats DEF DispatcherGet, Types
        <5>2. Len(Append(localQueue[p], Head(taskQueue))) = Len(localQueue[p]) + 1
          BY <5>1, AppendNat DEF Types
        <5> QED BY <3>2, <5>2 DEF DispatcherGet, Types, Waiting
      <4>3. Cardinality(Busy(p))' = Cardinality(Busy(p))
        BY <2>1
      <4>4. Waiting(p)' \in Nat
        BY <2>2, <4>2
      <4>5. (IF dPc[p] = "get" THEN 1 ELSE 0) = 1 /\ (IF dPc'[p] = "get" THEN 1 ELSE 0) = 0
        BY <4>1
      <4> QED BY <2>2, <4>2, <4>3, <4>4, <4>5
    <3> QED BY <1>3, <3>1, <3>2 DEF Dispatcher
  <2>5. PermitsAccounted'
    <3>1. \A q \in Procs : Slots(q)' = Slots(q)
      BY <2>1, <2>3, <2>4
    <3> HIDE DEF Slots
    <3>2. \A q \in Procs : Slots(q) = Cardinality(Threads)
      BY <1>0, <2>3 DEF PermitsInv
    <3> QED BY <3>1, <3>2 DEF PermitsAccounted, Slots, Waiting
  <2> QED BY <2>1, <2>3, <2>5 DEF PermitsInv
<1>4. ASSUME NEW w \in Workers, Worker(w) PROVE PermitsInv'
  <2>p. PICK p \in Procs : p = w[1]
    BY WorkerPair
  <2>0. p \in Procs /\ UNCHANGED <<dPc, multiProcess>>
    BY <1>4, WorkerPair DEF Worker, TakeLocal, TakeShared, FuncReturns, FuncRaises, HandleException,
       ReleaseSemaphore, PublishSharedVar, CountFinished, CheckDone, NotifyDone,
       callerVars, dispatchVars
  <2>1. Cardinality(Busy(p)) \in Nat /\ Waiting(p) \in Nat /\ semaphore[p] \in Nat
    BY <2>0, BusyFinite, SlotsDef
  <2>2. CASE TakeLocal(w) \/ (ReleaseSemaphore(w) /\ multiProcess)
    <3>1. /\ \A q \in Procs : q # p => UNCHANGED <<semaphore[q], Waiting(q)>>
          /\ multiProcess
      BY <2>p, <2>2 DEF TakeLocal, ReleaseSemaphore, Types, dispatchVars, Waiting
    <3>2. Slots(p)' = Slots(p) /\ \A q \in Procs : q # p => Busy(q)' = Busy(q)
      <4>1. CASE TakeLocal(w)
        <5>1. /\ wPc[w] = "idle" /\ wPc' = [wPc EXCEPT ![w] = "func"] /\ "func" \in WorkerPcs
              /\ wPc'[w] = "func"
          BY <4>1 DEF TakeLocal, Goto, Types, WorkerPcs
        <5>7. \A q \in Procs : q # p => Busy(q)' = Busy(q)
          BY <2>p, <5>1, BusyNext DEF UsesSlot
        <5>2. Cardinality(Busy(p))' = Cardinality(Busy(p)) + 1
          BY <2>p, <5>1, BusyNext DEF UsesSlot
        <5>3. semaphore'[p] = semaphore[p] /\ Waiting(p)' = Waiting(p) - 1
          BY <2>p, <2>0, <4>1, HeadTailOfNats DEF TakeLocal, Types, Waiting
        <5>4. (IF dPc'[p] = "get" THEN 1 ELSE 0) = (IF dPc[p] = "get" THEN 1 ELSE 0)
          BY <2>0
        <5>5. semaphore'[p] + Waiting(p)' + Cardinality(Busy(p))'
                = semaphore[p] + Waiting(p) + Cardinality(Busy(p))
          BY <2>1, <5>2, <5>3
        <5>6. Slots(p)' = Slots(p)
          <6>2. Cardinality(Busy(p))' \in Nat
            BY BusyFinite
          <6> QED BY <2>1, <5>2, <5>3, <5>4, <5>5, <6>2
        <5> QED BY <5>6, <5>7
      <4>2. CASE ReleaseSemaphore(w) /\ multiProcess
        <5>1. /\ wPc[w] = "release" /\ wPc' = [wPc EXCEPT ![w] = "publish"] /\ "publish" \in WorkerPcs
              /\ wPc'[w] = "publish"
          BY <4>2 DEF ReleaseSemaphore, Goto, Types, WorkerPcs
        <5>7. \A q \in Procs : q # p => Busy(q)' = Busy(q)
          BY <2>p, <5>1, BusyNext DEF UsesSlot
        <5>2. Cardinality(Busy(p))' = Cardinality(Busy(p)) - 1
          BY <2>p, <5>1, BusyNext DEF UsesSlot
        <5>3. Waiting(p)' = Waiting(p) /\ semaphore'[p] = semaphore[p] + 1
          BY <2>p, <2>0, <4>2 DEF ReleaseSemaphore, Types, Waiting
        <5>4. (IF dPc'[p] = "get" THEN 1 ELSE 0) = (IF dPc[p] = "get" THEN 1 ELSE 0)
          BY <2>0
        <5>5. semaphore'[p] + Waiting(p)' + Cardinality(Busy(p))'
                = semaphore[p] + Waiting(p) + Cardinality(Busy(p))
          BY <2>1, <5>2, <5>3
        <5>6. Slots(p)' = Slots(p)
          <6>2. Cardinality(Busy(p))' \in Nat
            BY BusyFinite
          <6> QED BY <2>1, <5>2, <5>3, <5>4, <5>5, <6>2
        <5> QED BY <5>6, <5>7
      <4> QED BY <2>2, <4>1, <4>2
    <3>3. \A q \in Procs : Slots(q)' = Slots(q)
      BY <2>0, <3>1, <3>2
    <3>4. PermitsAccounted'
      <4> HIDE DEF Slots
      <4>1. \A q \in Procs : Slots(q) = Cardinality(Threads)
        BY <1>0, <3>1 DEF PermitsInv
      <4> QED BY <3>3, <4>1 DEF PermitsAccounted, Slots, Waiting
    <3> QED BY <2>0, <3>1, <3>4 DEF PermitsInv
  <2>3. CASE ~(TakeLocal(w) \/ (ReleaseSemaphore(w) /\ multiProcess))
    <3>1. UNCHANGED dispatchVars
      <4>1. CASE ReleaseSemaphore(w)
        BY <2>3, <4>1 DEF ReleaseSemaphore, dispatchVars
      <4>2. CASE ~ReleaseSemaphore(w)
        <5>1. CASE TakeLocal(w)
          BY <2>3, <5>1
        <5>2. CASE TakeShared(w)
          BY <5>2 DEF TakeShared
        <5>5. CASE FuncReturns(w)
          BY <5>5 DEF FuncReturns
        <5>4. CASE FuncRaises(w) \/ HandleException(w)
          BY <5>4 DEF FuncRaises, HandleException
        <5>3. CASE PublishSharedVar(w) \/ CountFinished(w) \/ CheckDone(w) \/ NotifyDone(w)
          BY <5>3 DEF PublishSharedVar, CountFinished, CheckDone, NotifyDone
        <5> QED BY <1>4, <4>2, <5>1, <5>2, <5>3, <5>4, <5>5 DEF Worker
      <4> QED BY <4>1, <4>2
    <3>2. CASE ~multiProcess
      BY <2>0, <3>1, <3>2 DEF PermitsInv, PermitsAccounted, dispatchVars
    <3>3. CASE multiProcess
      <4>1. \E to \in WorkerPcs : /\ wPc' = [wPc EXCEPT ![w] = to]
                                  /\ UsesSlot(w) <=> UsesSlot(w)'
        BY <1>4, <2>3, <3>3 DEF Worker, TakeShared, FuncReturns, FuncRaises, HandleException,
           PublishSharedVar, CountFinished, CheckDone, NotifyDone, Goto, UsesSlot, WorkerPcs, Types
      <4>2. \A q \in Procs : Busy(q)' = Busy(q)
        BY <4>1, BusyNext
      <4> QED BY <2>0, <3>1, <4>2 DEF PermitsInv, PermitsAccounted, dispatchVars
    <3> QED BY <3>2, <3>3
  <2> QED BY <2>2, <2>3
<1>5. CASE Caller \/ UNCHANGED vars
  <2>1. UNCHANGED <<wPc, dispatchVars, multiProcess>>
    BY <1>5 DEF Caller, CallerWaits, CallerReturns, vars, workerVars, callerVars
  <2> QED BY <1>1, <2>1
<1> QED BY <1>2, <1>3, <1>4, <1>5 DEF Next, Quiescent

\* Initially all permits are in the semaphores.
LEMMA PermitsInit == Init => PermitsInv
<1> SUFFICES ASSUME Init PROVE PermitsInv
  OBVIOUS
<1>1. \A p \in Procs : Busy(p) = {}
  BY DEF Init, Busy, UsesSlot, Workers
<1>2. Cardinality(Threads) \in Nat
  BY ThreadsAssumption, FS_CardinalityType
<1>3. \A p \in Procs : /\ semaphore[p] = Cardinality(Threads) /\ dPc[p] = "acquire"
                       /\ localQueue[p] = <<>> /\ Len(localQueue[p]) = 0
  BY DEF Init
<1>4. PermitsAccounted
  <2>1. \A p \in Procs : Cardinality(Busy(p)) = 0
    BY <1>1, FS_EmptySet
  <2> QED BY <1>2, <1>3, <2>1 DEF PermitsAccounted
<1> QED BY <1>3, <1>4 DEF PermitsInv, Init

\* A process never holds more tasks than it has threads, and its
\* BoundedSemaphore is never released more often than acquired.
THEOREM PermitsHold == Spec => []PermitsAccounted
<1>1. PermitsInv => PermitsAccounted BY DEF PermitsInv
<1> QED BY <1>1, PermitsInit, PermitsNext, Inductive, PTL DEF Spec

-----------------------------------------------------------------------------
(* The outputs of the calls, the bound of the queue, and the types.        *)

OutputInv ==
    /\ failed \subseteq called
    /\ results = called \ failed
    /\ failed # {} => failureCount > 0 \/ \E w \in Workers : wPc[w] = "addFailure"
    /\ Len(taskQueue) <= MaxQueueSize

\* A queue gets shorter when its head is taken.
LEMMA TailShorter ==
  ASSUME NEW s \in Seq(Nat), s # <<>>, Len(s) <= MaxQueueSize
  PROVE  Len(Tail(s)) <= MaxQueueSize
BY HeadTailOfNats, QueueAssumption

\* A queue that is not full stays within its bound.
LEMMA AppendFits ==
  ASSUME NEW s \in Seq(Nat), NEW e \in Nat, Len(s) < MaxQueueSize
  PROVE  Len(Append(s, e)) <= MaxQueueSize
BY AppendNat, QueueAssumption

\* The task queue never outgrows MaxQueueSize.
LEMMA QueueBoundNext ==
  ASSUME Types, Len(taskQueue) <= MaxQueueSize, [Next]_vars
  PROVE  Len(taskQueue)' <= MaxQueueSize
<1>1. CASE UNCHANGED taskQueue
  BY <1>1
<1>2. CASE ProducerPutPrevious \/ ProducerPutLast
  BY <1>2, AppendFits DEF ProducerPutPrevious, ProducerPutLast, Types
<1>3. ASSUME NEW p \in Procs, DispatcherGet(p) PROVE Len(taskQueue)' <= MaxQueueSize
  BY <1>3, TailShorter DEF DispatcherGet, Types
<1>4. ASSUME NEW w \in Workers, TakeShared(w) PROVE Len(taskQueue)' <= MaxQueueSize
  BY <1>4, TailShorter DEF TakeShared, Types
<1>5. \/ UNCHANGED taskQueue \/ ProducerPutPrevious \/ ProducerPutLast
      \/ \E p \in Procs : DispatcherGet(p)
      \/ \E w \in Workers : TakeShared(w)
  BY DEF Next, Producer, ProducerSkip, ProducerAccept,
     ProducerIteratorRaises, ProducerHandleException, ProducerCheckerRaises,
     ProducerAccountingRaises, ProducerStops, ProducerSetTotal,
     ProducerReadDone, ProducerCheck, ProducerNotify, Dispatcher, DispatcherAcquire,
     Worker, TakeLocal, FuncReturns, FuncRaises, HandleException, ReleaseSemaphore,
     PublishSharedVar, CountFinished, CheckDone, NotifyDone, Caller, CallerWaits,
     CallerReturns, Quiescent, vars
<1> QED BY <1>1, <1>2, <1>3, <1>4, <1>5

\* Every step keeps each failed task counted or about to be.
LEMMA OutputNext ==
  ASSUME Types, IInv, OutputInv, [Next]_vars
  PROVE  OutputInv'
<1> USE DEF OutputInv
<1>0. Len(taskQueue)' <= MaxQueueSize
  BY QueueBoundNext
<1>1. CASE UNCHANGED <<wPc, called, failed, results, failureCount>>
  BY <1>0, <1>1
<1>2. CASE ProducerHandleException
  <2>1. failureCount' > 0
    BY <1>2 DEF ProducerHandleException, Types
  <2> QED BY <1>0, <1>2, <2>1 DEF ProducerHandleException
<1>3. ASSUME NEW w \in Workers, Worker(w) PROVE OutputInv'
  <2>1. CASE FuncReturns(w) \/ FuncRaises(w)
    <3>1. task[w] \notin called
      BY <2>1 DEF FuncReturns, FuncRaises, Goto, IInv, WorkerInv, Holds
    <3>2. /\ failed' \subseteq called'
          /\ results' = called' \ failed'
      BY <2>1, <3>1 DEF FuncReturns, FuncRaises, outputVars
    <3>3. wPc' = [wPc EXCEPT ![w] = IF FuncReturns(w) THEN "release" ELSE "addFailure"]
      BY <2>1 DEF FuncReturns, FuncRaises, Goto
    <3>4. ASSUME failed' # {} PROVE failureCount' > 0 \/ \E v \in Workers : wPc'[v] = "addFailure"
      <4>1. CASE FuncReturns(w)
        <5>1. failed # {} /\ failureCount' = failureCount /\ wPc[w] # "addFailure"
          BY <3>4, <4>1 DEF FuncReturns, Goto
        <5>2. \A v \in Workers : v # w => wPc'[v] = wPc[v]
          BY <3>3 DEF Types
        <5> QED BY <5>1, <5>2
      <4>2. CASE FuncRaises(w)
        <5>1. wPc'[w] = "addFailure"
          BY <4>2 DEF FuncRaises, Goto, Types
        <5> QED BY <5>1
      <4> QED BY <2>1, <4>1, <4>2
    <3> QED BY <1>0, <3>2, <3>4
  <2>2. CASE HandleException(w)
    <3>1. failureCount' > 0
      BY <2>2 DEF HandleException, Types
    <3> QED BY <1>0, <2>2, <3>1 DEF HandleException
  <2>3. CASE ~(FuncReturns(w) \/ FuncRaises(w) \/ HandleException(w))
    <3>1. UNCHANGED <<called, failed, results, failureCount>>
      BY <1>3, <2>3 DEF Worker, TakeLocal, TakeShared, ReleaseSemaphore, PublishSharedVar,
         CountFinished, CheckDone, NotifyDone, outputVars, history
    <3>2. \A v \in Workers : wPc[v] = "addFailure" => wPc'[v] = "addFailure"
      BY <1>3, <2>3 DEF Worker, TakeLocal, TakeShared, ReleaseSemaphore, PublishSharedVar,
         CountFinished, CheckDone, NotifyDone, Goto, Types
    <3> QED BY <1>0, <3>1, <3>2
  <2> QED BY <2>1, <2>2, <2>3
<1>4. \/ UNCHANGED <<wPc, called, failed, results, failureCount>>
      \/ ProducerHandleException
      \/ \E w \in Workers : Worker(w)
  BY DEF Next, Producer, ProducerSkip, ProducerAccept, ProducerPutPrevious,
     ProducerIteratorRaises, ProducerCheckerRaises, ProducerPutLast,
     ProducerAccountingRaises, ProducerStops, ProducerSetTotal,
     ProducerReadDone, ProducerCheck, ProducerNotify, Dispatcher, DispatcherAcquire,
     DispatcherGet, Caller, CallerWaits, CallerReturns, Quiescent,
     vars, workerVars, outputVars, history
<1> QED BY <1>1, <1>2, <1>3, <1>4

\* Initially nothing has failed.
LEMMA OutputInit == Init => OutputInv
BY QueueAssumption DEF Init, OutputInv

\* A failed call is visible in the failure count when Apply returns, whatever
\* increments overwrote each other.
THEOREM FailureReachesExitStatusHolds == Spec => []FailureReachesExitStatus
<1>1. Types /\ IInv /\ OutputInv => FailureReachesExitStatus
  BY InvReturns DEF OutputInv, FailureReachesExitStatus, ReturnsAfterAllCalls, Holds
<1> QED BY <1>1, OutputInit, OutputNext, Inductive, PTL DEF Spec

-----------------------------------------------------------------------------
(* What the exception handlers added to the shared attribute.              *)

\* The workers that have not published yet what their handler added, once.
Owing == {w \in Workers : delta[w] # 0}

SharedInv ==
    /\ \A w \in Workers : delta[w] \in {0, 1}
    /\ \A w \in Owing : wPc[w] \in {"release", "publish"}
    /\ IsFiniteSet(Owing)
    /\ sharedVar + Cardinality(Owing) = handled

\* Nobody owes anything at first.
LEMMA SharedInit == Init => SharedInv
<1> SUFFICES ASSUME Init PROVE SharedInv
  OBVIOUS
<1>1. \A w \in Workers : delta[w] = 0
  BY DEF Init
<1>2. Owing = {}
  BY <1>1 DEF Owing
<1>3. sharedVar = 0 /\ handled = 0
  BY DEF Init
<1> QED BY <1>1, <1>2, <1>3, FS_EmptySet DEF SharedInv

\* A step that leaves the deltas and the shared attribute alone.
LEMMA SharedFrame ==
  ASSUME SharedInv, UNCHANGED <<delta, sharedVar, handled>>,
         \A w \in Owing : wPc'[w] \in {"release", "publish"}
  PROVE  SharedInv'
<1>1. Owing' = Owing
  BY DEF Owing
<1> QED BY <1>1 DEF SharedInv

\* A handler runs in a worker that owes nothing.
LEMMA SharedHandle ==
  ASSUME Types, SharedInv, NEW w \in Workers, HandleException(w)
  PROVE  SharedInv'
<1>1. /\ wPc[w] = "addFailure" /\ wPc' = [wPc EXCEPT ![w] = "release"]
      /\ sharedVar' = sharedVar
  BY DEF HandleException, Goto
<1>2. PICK d \in {0, 1} : delta' = [delta EXCEPT ![w] = @ + d] /\ handled' = handled + d
  BY DEF HandleException
<1>3. delta[w] = 0 /\ w \notin Owing
  BY <1>1 DEF SharedInv, Owing
<1>4. /\ delta'[w] = d /\ wPc'[w] = "release"
      /\ \A v \in Workers : v # w => delta'[v] = delta[v] /\ wPc'[v] = wPc[v]
  BY <1>1, <1>2, <1>3 DEF Types
<1>5. Owing' = IF d = 0 THEN Owing ELSE Owing \union {w}
  BY <1>2, <1>3, <1>4 DEF Owing
<1>6. IsFiniteSet(Owing) /\ Cardinality(Owing) \in Nat
  BY FS_CardinalityType DEF SharedInv
<1>7. IsFiniteSet(Owing') /\ Cardinality(Owing') = Cardinality(Owing) + d
  <2>1. CASE d = 0
    BY <2>1, <1>5, <1>6
  <2>2. CASE d = 1
    BY <2>2, <1>3, <1>5, <1>6, FS_AddElement
  <2> QED BY <2>1, <2>2
<1>8. sharedVar' + Cardinality(Owing') = handled'
  BY <1>1, <1>2, <1>6, <1>7 DEF SharedInv, Types
<1>9. \A v \in Workers : delta'[v] \in {0, 1}
  BY <1>4 DEF SharedInv
<1>10. \A v \in Owing' : wPc'[v] \in {"release", "publish"}
  BY <1>4, <1>5 DEF SharedInv, Owing
<1> QED BY <1>7, <1>8, <1>9, <1>10 DEF SharedInv

\* Update publishes what the worker owes.
LEMMA SharedPublish ==
  ASSUME Types, SharedInv, NEW w \in Workers, PublishSharedVar(w)
  PROVE  SharedInv'
<1>1. /\ wPc' = [wPc EXCEPT ![w] = "count"] /\ delta' = [delta EXCEPT ![w] = 0]
      /\ sharedVar' = sharedVar + delta[w] /\ handled' = handled
  BY DEF PublishSharedVar, Goto, history
<1>2. delta[w] \in {0, 1}
  BY DEF SharedInv
<1>3. /\ delta'[w] = 0
      /\ \A v \in Workers : v # w => delta'[v] = delta[v] /\ wPc'[v] = wPc[v]
  BY <1>1 DEF Types
<1>4. Owing' = Owing \ {w} /\ (w \in Owing <=> delta[w] = 1)
  BY <1>2, <1>3 DEF Owing
<1>5. IsFiniteSet(Owing) /\ Cardinality(Owing) \in Nat
  BY FS_CardinalityType DEF SharedInv
<1>6. IsFiniteSet(Owing') /\ Cardinality(Owing') = Cardinality(Owing) - delta[w]
  <2>1. CASE delta[w] = 0
    <3>1. Owing' = Owing
      BY <2>1, <1>4
    <3> QED BY <2>1, <3>1, <1>5
  <2>2. CASE delta[w] = 1
    BY <2>2, <1>4, <1>5, FS_RemoveElement
  <2> QED BY <1>2, <2>1, <2>2
<1>7. sharedVar' + Cardinality(Owing') = handled'
  BY <1>1, <1>2, <1>5, <1>6 DEF SharedInv, Types
<1>8. \A v \in Workers : delta'[v] \in {0, 1}
  BY <1>3 DEF SharedInv
<1>9. \A v \in Owing' : wPc'[v] \in {"release", "publish"}
  <2>1. ASSUME NEW v \in Owing' PROVE wPc'[v] \in {"release", "publish"}
    <3>1. v # w /\ v \in Owing /\ v \in Workers
      BY <1>4 DEF Owing
    <3> QED BY <3>1, <1>3 DEF SharedInv
  <2> QED BY <2>1
<1> QED BY <1>6, <1>7, <1>8, <1>9 DEF SharedInv

\* Every step keeps what was published and what is owed equal to what the
\* handlers added.
LEMMA SharedNext ==
  ASSUME Types, SharedInv, [Next]_vars
  PROVE  SharedInv'
<1>1. CASE UNCHANGED <<delta, sharedVar, handled, wPc>>
  BY <1>1, SharedFrame DEF SharedInv
<1>2. CASE ProducerHandleException
  <2>1. PICK d \in {0, 1} : sharedVar' = sharedVar + d /\ handled' = handled + d
    BY <1>2 DEF ProducerHandleException
  <2>2. UNCHANGED <<delta, wPc>>
    BY <1>2 DEF ProducerHandleException, workerVars
  <2>3. Owing' = Owing
    BY <2>2 DEF Owing
  <2>4. Cardinality(Owing) \in Nat
    BY FS_CardinalityType DEF SharedInv
  <2>5. sharedVar' + Cardinality(Owing') = handled'
    <3>1. Cardinality(Owing') = Cardinality(Owing)
      BY <2>3
    <3>2. sharedVar + Cardinality(Owing) = handled /\ sharedVar \in Nat /\ d \in Nat
      BY DEF SharedInv, Types
    <3> HIDE DEF Owing
    <3> QED BY <2>1, <2>4, <3>1, <3>2
  <2>6. /\ \A v \in Workers : delta'[v] \in {0, 1}
        /\ \A v \in Owing' : wPc'[v] \in {"release", "publish"}
    BY <2>2, <2>3 DEF SharedInv
  <2>7. IsFiniteSet(Owing')
    BY <2>3 DEF SharedInv
  <2> QED BY <2>5, <2>6, <2>7 DEF SharedInv
<1>3. ASSUME NEW w \in Workers, Worker(w) PROVE SharedInv'
  <2>1. CASE HandleException(w)
    BY <2>1, SharedHandle
  <2>2. CASE PublishSharedVar(w)
    BY <2>2, SharedPublish
  <2>3. CASE ~(HandleException(w) \/ PublishSharedVar(w))
    <3>1. UNCHANGED <<delta, sharedVar, handled>>
      BY <1>3, <2>3 DEF Worker, TakeLocal, TakeShared, FuncReturns, FuncRaises,
         ReleaseSemaphore, CountFinished, CheckDone, NotifyDone, outputVars, history
    <3>2. \A v \in Workers : wPc[v] \in {"release", "publish"} =>
                                 wPc'[v] \in {"release", "publish"}
      BY <1>3, <2>3 DEF Worker, TakeLocal, TakeShared, FuncReturns, FuncRaises,
         ReleaseSemaphore, CountFinished, CheckDone, NotifyDone, Goto, Types
    <3> QED BY <3>1, <3>2, SharedFrame DEF SharedInv, Owing
  <2> QED BY <2>1, <2>2, <2>3
<1>4. \/ UNCHANGED <<delta, sharedVar, handled, wPc>>
      \/ ProducerHandleException
      \/ \E w \in Workers : Worker(w)
  BY DEF Next, Producer, ProducerSkip, ProducerAccept, ProducerPutPrevious,
     ProducerIteratorRaises, ProducerCheckerRaises, ProducerPutLast,
     ProducerAccountingRaises, ProducerStops, ProducerSetTotal,
     ProducerReadDone, ProducerCheck, ProducerNotify, Dispatcher, DispatcherAcquire,
     DispatcherGet, Caller, CallerWaits, CallerReturns, Quiescent,
     vars, workerVars, outputVars, history
<1> QED BY <1>1, <1>2, <1>3, <1>4

\* What Apply hands its caller is complete: each result, and whatever any
\* handler in any process has added to a shared attribute.
THEOREM CallerSeesAllOutputsHolds == Spec => []CallerSeesAllOutputs
<1>1. ASSUME Types, IInv, OutputInv, SharedInv PROVE CallerSeesAllOutputs
  <2>1. SUFFICES ASSUME mPc = "returned" PROVE results = called \ failed /\ sharedVar = handled
    BY DEF CallerSeesAllOutputs
  <2>2. \A w \in Workers : ~Holds(w)
    BY <1>1, <2>1, InvReturns DEF ReturnsAfterAllCalls
  <2>3. Owing = {}
    BY <1>1, <2>2 DEF SharedInv, Owing, Holds
  <2>4. sharedVar + 0 = handled
    BY <1>1, <2>3, FS_EmptySet DEF SharedInv
  <2> QED BY <1>1, <2>4 DEF OutputInv, Types
<1>2. Types /\ IInv /\ OutputInv /\ SharedInv => CallerSeesAllOutputs
  BY <1>1
<1> QED BY <1>2, OutputInit, OutputNext, SharedInit, SharedNext, Inductive, PTL DEF Spec

-----------------------------------------------------------------------------
(* The types.                                                              *)

\* No task beyond the accepted arguments was taken.
LEMMA TakenBounded ==
  ASSUME Types, ProducerInv
  PROVE  /\ numTasks \in 0..MaxArgs /\ curTask \in 0..MaxArgs /\ lastTask \in 0..MaxArgs
         /\ totalTasks \in -1..MaxArgs
         /\ Taken <= MaxArgs /\ Taken \in Int /\ \A i \in 1..Len(taskQueue) : Taken + i <= curTask
<1>1. numTasks \in 0..MaxArgs /\ curTask \in 0..MaxArgs /\ lastTask \in 0..MaxArgs
  BY ArgsAssumption DEF Types, ProducerInv
<1>2. totalTasks \in -1..MaxArgs
  BY <1>1, ArgsAssumption DEF Types, ProducerInv
<1>3. LastPut \in Int /\ LastPut <= curTask
  BY <1>1 DEF Types, LastPut
<1>4. Len(taskQueue) \in Nat
  BY DEF Types
<1>5. Taken \in Int /\ Taken <= MaxArgs /\ \A i \in 1..Len(taskQueue) : Taken + i <= curTask
  BY <1>1, <1>3, <1>4, ArgsAssumption DEF Taken
<1> QED BY <1>1, <1>2, <1>5

\* A sequence of numbers within a range.
LEMMA SeqWithin ==
  ASSUME NEW S, NEW s \in Seq(Nat), \A i \in 1..Len(s) : s[i] \in S
  PROVE  s \in Seq(S)
<1>1. Len(s) \in Nat /\ s \in [1..Len(s) -> Nat]
  BY LenProperties
<1>2. s \in [1..Len(s) -> S]
  BY <1>1
<1> QED BY <1>1, <1>2, SeqDef

\* The invariants imply the types the model states.
LEMMA InvTypeOK ==
  ASSUME Types, IInv, OutputInv, PermitsInv
  PROVE  TypeOK
<1>0. ProducerInv /\ QueueInv /\ WorkerInv /\ LocalInv
  BY DEF IInv
<1>1. /\ numTasks \in 0..MaxArgs /\ curTask \in 0..MaxArgs /\ lastTask \in 0..MaxArgs
      /\ totalTasks \in -1..MaxArgs /\ Taken <= MaxArgs /\ Taken \in Int
  BY <1>0, TakenBounded
<1>2. called \subseteq 1..MaxArgs /\ failed \subseteq 1..MaxArgs /\ results \subseteq 1..MaxArgs
  <2>1. called \subseteq 1..MaxArgs
    BY <1>0, <1>1, ArgsAssumption DEF WorkerInv
  <2> QED BY <2>1 DEF OutputInv
<1>3. taskQueue \in Seq(0..MaxArgs) /\ Len(taskQueue) <= MaxQueueSize
  <2>1. \A i \in 1..Len(taskQueue) : taskQueue[i] \in 0..MaxArgs
    <3>1. ASSUME NEW i \in 1..Len(taskQueue) PROVE taskQueue[i] \in 0..MaxArgs
      <4>1. taskQueue[i] = Taken + i /\ Taken + i <= curTask
        BY <1>0, TakenBounded DEF QueueInv
      <4>2. taskQueue[i] \in Nat /\ i \in Int
        BY DEF Types
      <4> QED BY <1>1, <4>1, <4>2, ArgsAssumption
    <3> QED BY <3>1
  <2>2. taskQueue \in Seq(Nat) /\ Len(taskQueue) <= MaxQueueSize
    BY DEF Types, OutputInv
  <2> DEFINE S == 0..MaxArgs
  <2> HIDE DEF S
  <2>3. \A i \in 1..Len(taskQueue) : taskQueue[i] \in S
    BY <2>1 DEF S
  <2>4. taskQueue \in Seq(S)
    BY <2>2, <2>3, SeqWithin
  <2> QED BY <2>2, <2>4 DEF S
<1>4. localQueue \in [Procs -> Seq(1..MaxArgs)]
  <2>1. ASSUME NEW p \in Procs PROVE localQueue[p] \in Seq(1..MaxArgs)
    <3>1. \A i \in 1..Len(localQueue[p]) : localQueue[p][i] \in 1..MaxArgs
      BY <1>0, <1>1, ArgsAssumption DEF LocalInv
    <3>2. localQueue[p] \in Seq(Nat)
      BY DEF Types
    <3> DEFINE S == 1..MaxArgs
    <3> HIDE DEF S
    <3>3. PICK s : s = localQueue[p]
      OBVIOUS
    <3>4. s \in Seq(Nat) /\ \A i \in 1..Len(s) : s[i] \in S
      BY <3>1, <3>2, <3>3 DEF S
    <3>5. s \in Seq(S)
      BY <3>4, SeqWithin
    <3> QED BY <3>3, <3>5 DEF S
  <2>2. localQueue \in [Procs -> Seq(Nat)]
    BY DEF Types
  <2>3. localQueue = [p \in Procs |-> localQueue[p]]
    BY <2>2
  <2> DEFINE Q == Seq(1..MaxArgs)
  <2>4. \A p \in Procs : localQueue[p] \in Q
    BY <2>1
  <2> HIDE DEF Q
  <2>5. localQueue \in [Procs -> Q]
    BY <2>3, <2>4
  <2> QED BY <2>5 DEF Q
<1>5. task \in [Workers -> 0..MaxArgs]
  <2>1. ASSUME NEW w \in Workers PROVE task[w] \in 0..MaxArgs
    BY <1>0, <1>1, ArgsAssumption DEF WorkerInv
  <2> QED BY <2>1 DEF Types
<1>6. semaphore \in [Procs -> 0..Cardinality(Threads)]
  <2>1. ASSUME NEW p \in Procs PROVE semaphore[p] \in 0..Cardinality(Threads)
    <3>1. /\ semaphore[p] \in Nat /\ Waiting(p) \in Nat
          /\ Cardinality(Busy(p)) \in Nat /\ Cardinality(Threads) \in Nat
      BY SlotsDef, BusyFinite
    <3>2. CASE multiProcess
      <4>1. semaphore[p] + (IF dPc[p] = "get" THEN 1 ELSE 0) + Waiting(p)
              + Cardinality(Busy(p)) = Cardinality(Threads)
        BY <3>2 DEF PermitsInv, PermitsAccounted, Waiting
      <4> QED BY <3>1, <4>1
    <3>3. CASE ~multiProcess
      BY <3>1, <3>3 DEF PermitsInv
    <3> QED BY <3>2, <3>3 DEF Types
  <2> QED BY <2>1 DEF Types
<1> QED BY <1>1, <1>2, <1>3, <1>4, <1>5, <1>6 DEF Types, TypeOK

\* The type invariant, with the bounds of the queue and of the semaphores.
THEOREM TypesHold == Spec => []TypeOK
<1>1. Types /\ IInv /\ OutputInv /\ PermitsInv => TypeOK
  BY InvTypeOK
<1> QED BY <1>1, OutputInit, OutputNext, PermitsInit, PermitsNext, Inductive, PTL DEF Spec

-----------------------------------------------------------------------------
(* Refinement.                                                             *)

\* The initial states are initial states of ApplyCall.
LEMMA PromiseInit == Init => Promise!Init
BY DEF Init, Promise!Init, Pending

\* Every step is a step of ApplyCall or a stutter.
LEMMA PromiseNext ==
  ASSUME Types, IInv, [Next]_vars
  PROVE  [Promise!Next]_(Promise!vars)
<1> USE DEF Promise!vars
<1> DEFINE Same == UNCHANGED <<curTask, Producing, called, outcome>>
<1>0. Same => UNCHANGED Promise!vars
  BY DEF Producing
<1>1. CASE Producer
  <2>0. UNCHANGED <<called, outcome>>
    BY <1>1 DEF Producer, ProducerSkip, ProducerAccept, ProducerPutPrevious,
           ProducerIteratorRaises, ProducerHandleException, ProducerCheckerRaises,
           ProducerAccountingRaises, ProducerStops, ProducerSetTotal, ProducerPutLast,
           ProducerReadDone, ProducerCheck, ProducerNotify, callerVars, history
  <2>1. CASE ProducerAccept
    <3>1. numTasks = curTask /\ curTask < MaxArgs
      BY <2>1, ArgsAssumption DEF ProducerAccept, Yield, IInv, ProducerInv, Producing, Types
    <3>2. Promise!Accept
      BY <2>0, <2>1, <3>1 DEF ProducerAccept, Yield, Promise!Accept
    <3> QED BY <3>2 DEF Promise!Next
  <2>2. CASE ProducerCheckerRaises \/ ProducerAccountingRaises \/ ProducerStops
    <3>1. Promise!Close
      BY <2>0, <2>2 DEF ProducerCheckerRaises, ProducerAccountingRaises, ProducerStops,
         Yield, Promise!Close
    <3> QED BY <3>1 DEF Promise!Next
  <2>3. CASE ~(ProducerAccept \/ ProducerCheckerRaises \/ ProducerAccountingRaises \/ ProducerStops)
    <3>1. curTask' = curTask /\ Producing' = Producing
      BY <1>1, <2>3 DEF Producer, ProducerSkip, ProducerPutPrevious, Producing,
           ProducerIteratorRaises, ProducerHandleException, ProducerSetTotal,
           ProducerPutLast, ProducerReadDone, ProducerCheck, ProducerNotify, Yield
    <3> QED BY <1>0, <2>0, <3>1
  <2> QED BY <2>1, <2>2, <2>3
<1>2. ASSUME NEW p \in Procs, Dispatcher(p) PROVE Same
  BY <1>2 DEF Dispatcher, DispatcherAcquire, DispatcherGet, producerVars, callerVars,
     history, Producing
<1>3. ASSUME NEW w \in Workers, Worker(w) PROVE [Promise!Next]_(Promise!vars)
  <2>1. CASE FuncReturns(w) \/ FuncRaises(w)
    <3>1. /\ UNCHANGED <<curTask, pPc, outcome>> /\ wPc[w] = "func"
          /\ called' = called \union {task[w]}
      BY <2>1 DEF FuncReturns, FuncRaises, Goto, producerVars, callerVars
    <3>2. task[w] \in 1..Taken /\ task[w] \notin called
      BY <3>1 DEF IInv, WorkerInv, Holds
    <3>3. called' \subseteq 1..curTask'
      <4>1. (Types /\ ProducerInv /\ PlaceInv => called \subseteq 1..curTask)'
        BY CountedFinite, PTL
      <4>2. (Types /\ IInv)' BY NextInv
      <4> QED BY <4>1, <4>2 DEF IInv, PlaceInv
    <3>4. task[w] \in 1..curTask
      BY <3>1, <3>3
    <3>5. Promise!Perform(task[w])
      BY <3>1, <3>2 DEF Promise!Perform
    <3> QED BY <3>4, <3>5 DEF Promise!Next
  <2>2. CASE ~(FuncReturns(w) \/ FuncRaises(w))
    <3>1. Same
      BY <1>3, <2>2 DEF Worker, TakeLocal, TakeShared, HandleException, ReleaseSemaphore,
         PublishSharedVar, CountFinished, CheckDone, NotifyDone, producerVars,
         callerVars, history, Producing
    <3> QED BY <1>0, <3>1
  <2> QED BY <2>1, <2>2
<1>4. CASE CallerReturns
  <2>1. /\ completed /\ mPc # "returned" /\ outcome' \in {"returned", "raised"}
        /\ UNCHANGED <<curTask, pPc, called>>
    BY <1>4 DEF CallerReturns, producerVars, history
  <2>2. outcome = Pending
    BY <2>1 DEF IInv, DoneInv
  <2>3. called = 1..curTask /\ ~Producing
    BY <2>1, CompletedMeansDone
  <2>4. Promise!Answer
    BY <2>1, <2>2, <2>3 DEF Promise!Answer, Producing, Pending
  <2> QED BY <2>4 DEF Promise!Next
<1>5. CASE CallerWaits \/ UNCHANGED vars
  <2>1. Same
    BY <1>5 DEF CallerWaits, vars, producerVars, callerVars, history, Producing
  <2> QED BY <1>0, <2>1
<1> QED BY <1>0, <1>1, <1>2, <1>3, <1>4, <1>5 DEF Next, Caller, Quiescent

\* ParallelApply implements ApplyCall: no argument is handled twice, and the
\* caller is answered after the last one.
THEOREM Implements == Spec => ImplementsApplyCall
BY PromiseInit, PromiseNext, Inductive, PTL DEF Spec, ImplementsApplyCall, Promise!Spec

-----------------------------------------------------------------------------
(* ConsumerPools.                                                          *)

\* A nested call that has begun and not returned.
Active(c) == pc[c] \notin {"none", "returned"}

\* queues, current_max_recursive_level and the pools that are up, for each
\* place of the main thread, and the queues each pool has seen.
PoolCountInv ==
    /\ queues = maxLevel + 1
    /\ maxLevel <= MaxDepth + 1
    /\ mainPc = "start" => maxLevel = 0 /\ pools = 0
    /\ mainPc \in {"checking", "waiting", "returned"} => pools = maxLevel
    /\ mainPc \in {"creating", "raised"} => maxLevel = pools + 1
    /\ mainPc # "raised" => maxLevel <= MaxDepth
    /\ \A n \in 1..pools : forked[n] = n + 1

\* A call runs in a pool of the level above it.
LevelInv == \A c \in Calls : pc[c] # "none" => Level[c] <= pools

\* A call is made by a task of a call that goes on.
TreeInv ==
    /\ \A c \in Nested : Active(c) => pc[Parent[c]] = "running"
    /\ pc[Root] \in {"none", "running", "completed", "returned"}
    /\ mainPc = "start" => \A c \in Calls : pc[c] = "none"
    /\ mainPc = "returned" => pc[Root] = "returned"

PoolInv == PoolTypeOK /\ PoolCountInv /\ LevelInv /\ TreeInv /\ RequestIsHeard

-----------------------------------------------------------------------------
\* A set of numbers that is not empty has a least one.
LEMMA LeastNat ==
  ASSUME NEW S \in SUBSET Nat, S # {}
  PROVE  \E n \in S : \A k \in S : ~(k < n)
<1> DEFINE R == OpToRel(<, Nat)
<1>1. IsWellFoundedOn(R, Nat)
  BY NatLessThanWellFounded
<1>2. \A k, n \in Nat : k < n => <<k, n>> \in R
  BY DEF OpToRel
<1> HIDE DEF R
<1>3. PICK n \in S : \A k \in S : ~(<<k, n>> \in R)
  BY <1>1, WFMin
<1> QED BY <1>2, <1>3

\* While any nested call goes on, so does the call of the main thread: the
\* active call of the least level has the root for its parent.
LEMMA ActiveUnderRoot ==
  ASSUME TreeInv, NEW c \in Nested, Active(c)
  PROVE  pc[Root] = "running"
<1> DEFINE S == {Level[d] : d \in {e \in Nested : Active(e)}}
<1>1. S \in SUBSET Nat /\ S # {}
  BY TreeAssumption DEF Nested
<1>2. PICK n \in S : \A k \in S : ~(k < n)
  BY <1>1, LeastNat
<1>3. PICK d \in Nested : Active(d) /\ Level[d] = n
  BY <1>2
<1>4. pc[Parent[d]] = "running" /\ Parent[d] \in Calls
  BY <1>3, TreeAssumption DEF TreeInv, Nested
<1>5. CASE Parent[d] \in Nested
  <2>1. Active(Parent[d])
    BY <1>4 DEF Active
  <2>2. Level[Parent[d]] \in S
    BY <1>5, <2>1
  <2>3. Level[d] = Level[Parent[d]] + 1 /\ Level[Parent[d]] \in Nat
    BY <1>4, TreeAssumption
  <2>4. Level[Parent[d]] < n
    BY <1>3, <2>3
  <2> QED BY <1>2, <2>2, <2>4
<1> QED BY <1>4, <1>5 DEF Nested

\* The invariant holds before the first call.
LEMMA PoolInitInv == PoolInit => PoolInv
<1> SUFFICES ASSUME PoolInit PROVE PoolInv
  OBVIOUS
<1> USE TreeAssumption, PoolAssumption DEF PoolInit, Nested
<1>1. PoolTypeOK
  <2>1. pc \in [Calls -> Pcs] /\ mainPc \in MainPcs
    BY DEF Pcs, MainPcs
  <2>2. maxLevel \in 0..MaxDepth + 1 /\ queues \in 1..MaxDepth + 2
          /\ forked \in Seq(1..MaxDepth + 2) /\ pools <= MaxDepth
    BY DEF pools
  <2> QED BY <2>1, <2>2 DEF PoolTypeOK
<1>2. PoolCountInv
  BY DEF PoolCountInv, pools
<1>3. LevelInv /\ TreeInv /\ RequestIsHeard
  BY DEF LevelInv, TreeInv, RequestIsHeard, Active
<1> QED BY <1>1, <1>2, <1>3 DEF PoolInv

-----------------------------------------------------------------------------
(* One lemma for each part of the invariant.                               *)

\* The pool that is forked when there are pools + 2 queues sees one more than
\* its own.
LEMMA ForkCounts ==
  ASSUME PoolTypeOK, NEW q \in 1..MaxDepth + 2, q = pools + 2,
         pools < MaxDepth, Fork(q),
         \A n \in 1..pools : forked[n] = n + 1
  PROVE  /\ forked' \in Seq(1..MaxDepth + 2)
         /\ pools' = pools + 1
         /\ \A n \in 1..pools' : forked'[n] = n + 1
<1>1. forked \in Seq(1..MaxDepth + 2) /\ pools \in Nat /\ pools = Len(forked)
  BY DEF PoolTypeOK, pools
<1>2. forked' = Append(forked, q) /\ forked' \in Seq(1..MaxDepth + 2)
  BY <1>1 DEF Fork
<1>3. pools' = pools + 1
  BY <1>1, <1>2 DEF pools
<1>4. ASSUME NEW n \in 1..pools' PROVE forked'[n] = n + 1
  <2>1. CASE n = pools + 1
    <3>1. forked'[n] = q
      BY <1>1, <1>2, <2>1
    <3> QED BY <2>1, <3>1, <1>1
  <2>2. CASE n \in 1..pools
    <3>1. forked'[n] = forked[n]
      BY <1>1, <1>2, <2>2
    <3> QED BY <2>2, <3>1
  <2> QED BY <1>1, <1>3, <2>1, <2>2
<1> QED BY <1>2, <1>3, <1>4

\* Queues and pools are counted in step with the main thread's loop.
LEMMA PoolTypeNext == PoolTypeOK /\ PoolCountInv /\ [PoolNext]_poolVars => PoolTypeOK' /\ PoolCountInv'
<1> SUFFICES ASSUME PoolTypeOK, PoolCountInv, [PoolNext]_poolVars PROVE PoolTypeOK' /\ PoolCountInv'
  OBVIOUS
<1> USE TreeAssumption, PoolAssumption
    DEF PoolTypeOK, PoolCountInv, Pcs, MainPcs, Nested
<1>0. UNCHANGED forked => pools' = pools
  BY DEF pools
<1>1. CASE UNCHANGED poolVars BY <1>0, <1>1 DEF poolVars
<1>2. CASE Main
  <2> USE <1>0
  <2>1. CASE MainStarts
    <3>1. queues' = 2 /\ maxLevel' = 1 /\ mainPc' = "checking" /\ pools = 0
            /\ maxLevel = 0 /\ UNCHANGED <<levelLock, newPoolNeeded>>
      BY <2>1 DEF MainStarts, AppendQueue
    <3>2. Fork(queues') /\ pc' = [pc EXCEPT ![Root] = "running"]
      BY <2>1 DEF MainStarts
    <3>3. /\ forked' \in Seq(1..MaxDepth + 2)
          /\ pools' = 1
          /\ \A n \in 1..pools' : forked'[n] = n + 1
      BY <3>1, <3>2, ForkCounts
    <3>4. pc' \in [Calls -> Pcs]
      BY <3>2
    <3> QED BY <3>1, <3>3, <3>4
  <2>2. CASE MainReturns BY <2>2 DEF MainReturns
  <2>3. CASE MainCreatesQueue
    <3>1. /\ mainPc = "checking"
          /\ newPoolNeeded' = FALSE
          /\ queues' = queues + 1 /\ maxLevel' = maxLevel + 1
          /\ mainPc' = IF maxLevel' > MaxDepth THEN "raised" ELSE "creating"
          /\ UNCHANGED <<pc, levelLock, forked>>
      BY <2>3 DEF MainCreatesQueue, AppendQueue
    <3>2. maxLevel <= MaxDepth /\ pools = maxLevel /\ pools' = pools
      BY <3>1
    <3>3. maxLevel' \in 0..MaxDepth + 1 /\ queues' \in 1..MaxDepth + 2
      BY <3>1, <3>2
    <3>4. mainPc' \in MainPcs /\ newPoolNeeded' \in BOOLEAN
      BY <3>1
    <3>5. PoolTypeOK'
      BY <3>1, <3>3, <3>4
    <3> QED BY <3>1, <3>2, <3>5
  <2>4. CASE MainStartsPool
    <3>1. /\ mainPc = "creating" /\ mainPc' = "waiting" /\ Fork(queues)
          /\ UNCHANGED <<levelLock, newPoolNeeded, maxLevel, queues>>
      BY <2>4 DEF MainStartsPool
    <3>2. maxLevel = pools + 1 /\ queues = pools + 2 /\ pools < MaxDepth
      BY <3>1 DEF pools
    <3>3. /\ forked' \in Seq(1..MaxDepth + 2)
          /\ pools' = pools + 1
          /\ \A n \in 1..pools' : forked'[n] = n + 1
      BY <3>1, <3>2, ForkCounts
    <3>4. pc' \in [Calls -> Pcs]
      BY <2>4 DEF MainStartsPool, Woken
    <3> QED BY <3>1, <3>2, <3>3, <3>4
  <2>5. CASE MainWaits BY <2>5 DEF MainWaits
  <2> QED BY <1>2, <2>1, <2>2, <2>3, <2>4, <2>5 DEF Main
<1>3. ASSUME NEW c \in Nested, Call(c) PROVE PoolTypeOK' /\ PoolCountInv'
  <2> USE <1>0, <1>3 DEF Moves
  <2>1. CASE TakeTask(c) BY <2>1 DEF TakeTask
  <2>2. CASE AcquireLevelLock(c) BY <2>2 DEF AcquireLevelLock
  <2>3. CASE PoolExists(c) BY <2>3 DEF PoolExists
  <2>4. CASE PoolMissing(c) BY <2>4 DEF PoolMissing
  <2>5. CASE RequestPool(c)
    BY <2>5 DEF RequestPool, CondFree, Woken, MainWoken
  <2>6. CASE ReturnFromWait(c) BY <2>6 DEF ReturnFromWait
  <2>7. CASE StartProducer(c) BY <2>7 DEF StartProducer
  <2>8. CASE Return(c) BY <2>8 DEF Return
  <2> QED
    BY <2>1, <2>2, <2>3, <2>4, <2>5, <2>6, <2>7, <2>8 DEF Call
<1>4. ASSUME NEW c \in Calls, Complete(c) PROVE PoolTypeOK' /\ PoolCountInv'
  BY <1>0, <1>4 DEF Complete, CondFree, Woken, MainWoken
<1>5. CASE PoolsRest BY <1>0, <1>5 DEF PoolsRest, poolVars
<1> QED BY <1>1, <1>2, <1>3, <1>4, <1>5 DEF PoolNext

\* A call gets beyond "none" only by TakeTask, or MainStarts for the root.
LEMMA PoolLevelNext ==
  PoolTypeOK /\ PoolCountInv /\ LevelInv /\ [PoolNext]_poolVars => LevelInv'
<1> SUFFICES ASSUME PoolTypeOK, PoolCountInv, LevelInv, [PoolNext]_poolVars PROVE LevelInv'
  OBVIOUS
<1> USE TreeAssumption DEF PoolTypeOK, LevelInv, Nested
<1>0. UNCHANGED forked => pools' = pools
  BY DEF pools
<1>1. CASE UNCHANGED poolVars BY <1>0, <1>1 DEF poolVars
<1>2. CASE Main
  <2> USE <1>0
  <2>0. ASSUME NEW q, Fork(q) PROVE pools' >= pools /\ pools \in Nat /\ pools' \in Nat
    BY <2>0 DEF Fork, pools
  <2>1. CASE MainStarts
    <3>1. pools' >= 0 /\ \A c \in Calls : c # Root => pc'[c] = pc[c]
      BY <2>0, <2>1 DEF MainStarts
    <3>2. pools = 0 /\ pools' >= pools
      BY <2>0, <2>1 DEF MainStarts, PoolCountInv
    <3>3. \A c \in Calls : Level[c] \in Nat
      OBVIOUS
    <3> QED BY <3>1, <3>2, <3>3
  <2>2. CASE MainReturns BY <2>2 DEF MainReturns
  <2>3. CASE MainCreatesQueue BY <2>3 DEF MainCreatesQueue
  <2>4. CASE MainStartsPool
    <3>1. pools' >= pools /\ pools \in Nat /\ pools' \in Nat
      BY <2>0, <2>4 DEF MainStartsPool
    <3>2. \A c \in Calls : pc'[c] # "none" => pc[c] # "none"
      BY <2>4 DEF MainStartsPool, Woken
    <3> QED BY <3>1, <3>2
  <2>5. CASE MainWaits BY <2>5 DEF MainWaits
  <2> QED BY <1>2, <2>1, <2>2, <2>3, <2>4, <2>5 DEF Main
<1>3. ASSUME NEW c \in Nested, Call(c) PROVE LevelInv'
  <2> USE <1>0, <1>3 DEF Moves
  <2>1. CASE TakeTask(c)
    <3>0. Parent[c] \in Calls
      BY <1>3
    <3>1. Level[Parent[c]] \in Nat /\ Level[c] = Level[Parent[c]] + 1
      BY <1>3, <3>0
    <3>2. pools > Level[Parent[c]]
      BY <2>1 DEF TakeTask, FreeWorker
    <3>3. pools \in Nat
      BY DEF pools
    <3>4. Level[c] <= pools
      BY <3>1, <3>2, <3>3
    <3> QED BY <2>1, <3>4 DEF TakeTask
  <2>2. CASE AcquireLevelLock(c) BY <2>2 DEF AcquireLevelLock
  <2>3. CASE PoolExists(c) BY <2>3 DEF PoolExists
  <2>4. CASE PoolMissing(c) BY <2>4 DEF PoolMissing
  <2>5. CASE RequestPool(c) BY <2>5 DEF RequestPool, Woken
  <2>6. CASE ReturnFromWait(c) BY <2>6 DEF ReturnFromWait
  <2>7. CASE StartProducer(c) BY <2>7 DEF StartProducer
  <2>8. CASE Return(c) BY <2>8 DEF Return
  <2> QED
    BY <2>1, <2>2, <2>3, <2>4, <2>5, <2>6, <2>7, <2>8 DEF Call
<1>4. ASSUME NEW c \in Calls, Complete(c) PROVE LevelInv'
  BY <1>0, <1>4 DEF Complete, Woken
<1>5. CASE PoolsRest BY <1>0, <1>5 DEF PoolsRest, poolVars
<1> QED BY <1>1, <1>2, <1>3, <1>4, <1>5 DEF PoolNext

\* A call stops running only when all the calls it has made have returned.
LEMMA PoolTreeNext == PoolTypeOK /\ TreeInv /\ [PoolNext]_poolVars => TreeInv'
<1> SUFFICES ASSUME PoolTypeOK, TreeInv, [PoolNext]_poolVars PROVE TreeInv'
  OBVIOUS
<1> USE TreeAssumption DEF PoolTypeOK, TreeInv, Nested, Active
<1>1. CASE UNCHANGED poolVars BY <1>1 DEF poolVars
<1>2. CASE Main
  <2>1. CASE MainStarts BY <2>1 DEF MainStarts
  <2>2. CASE MainReturns
    <3>1. \A c \in Nested : ~Active(c)
      BY <2>2, ActiveUnderRoot DEF MainReturns
    <3> QED BY <2>2, <3>1 DEF MainReturns
  <2>3. CASE MainCreatesQueue BY <2>3 DEF MainCreatesQueue
  <2>4. CASE MainStartsPool BY <2>4 DEF MainStartsPool, Woken
  <2>5. CASE MainWaits BY <2>5 DEF MainWaits
  <2> QED BY <1>2, <2>1, <2>2, <2>3, <2>4, <2>5 DEF Main
<1>3. ASSUME NEW c \in Nested, Call(c) PROVE TreeInv'
  <2> USE <1>3 DEF Moves
  <2>0. \A d \in Nested : Parent[d] # d /\ Parent[d] \in Calls
    OBVIOUS
  <2>1. CASE TakeTask(c) BY <2>0, <2>1 DEF TakeTask
  <2>2. CASE AcquireLevelLock(c) BY <2>0, <2>2 DEF AcquireLevelLock
  <2>3. CASE PoolExists(c) BY <2>0, <2>3 DEF PoolExists
  <2>4. CASE PoolMissing(c) BY <2>0, <2>4 DEF PoolMissing
  <2>5. CASE RequestPool(c) BY <2>0, <2>5 DEF RequestPool, Woken, MainWoken
  <2>6. CASE ReturnFromWait(c) BY <2>0, <2>6 DEF ReturnFromWait
  <2>7. CASE StartProducer(c) BY <2>0, <2>7 DEF StartProducer
  <2>8. CASE Return(c) BY <2>0, <2>8 DEF Return
  <2> QED
    BY <2>1, <2>2, <2>3, <2>4, <2>5, <2>6, <2>7, <2>8 DEF Call
<1>4. ASSUME NEW c \in Calls, Complete(c) PROVE TreeInv'
  <2>1. \A d \in Nested : Parent[d] = c => ~Active(d)
    BY <1>4 DEF Complete, Children
  <2> QED BY <1>4, <2>1 DEF Complete, Woken, MainWoken
<1>5. CASE PoolsRest BY <1>5 DEF PoolsRest, poolVars
<1> QED BY <1>1, <1>2, <1>3, <1>4, <1>5 DEF PoolNext

\* Who asks finds the main thread checking, or wakes it; and the main thread
\* goes to sleep only when nobody has asked.
LEMMA PoolHeardNext ==
  PoolTypeOK /\ TreeInv /\ RequestIsHeard /\ [PoolNext]_poolVars => RequestIsHeard'
<1> SUFFICES ASSUME PoolTypeOK, TreeInv, RequestIsHeard, [PoolNext]_poolVars
             PROVE  RequestIsHeard'
  OBVIOUS
<1> USE TreeAssumption DEF PoolTypeOK, RequestIsHeard, Nested
<1>1. CASE UNCHANGED poolVars BY <1>1 DEF poolVars
<1>2. CASE Main
  <2>1. CASE MainStarts BY <2>1 DEF MainStarts
  <2>2. CASE MainReturns
    <3>1. \A c \in Nested : pc[c] # "waiting"
      BY <2>2, ActiveUnderRoot DEF MainReturns, Active
    <3> QED BY <2>2, <3>1 DEF MainReturns
  <2>3. CASE MainCreatesQueue BY <2>3 DEF MainCreatesQueue
  <2>4. CASE MainStartsPool BY <2>4 DEF MainStartsPool, Woken
  <2>5. CASE MainWaits BY <2>5 DEF MainWaits
  <2> QED BY <1>2, <2>1, <2>2, <2>3, <2>4, <2>5 DEF Main
<1>3. ASSUME NEW c \in Nested, Call(c) PROVE RequestIsHeard'
  <2> USE <1>3 DEF Moves
  <2>1. CASE TakeTask(c) BY <2>1 DEF TakeTask
  <2>2. CASE AcquireLevelLock(c) BY <2>2 DEF AcquireLevelLock
  <2>3. CASE PoolExists(c) BY <2>3 DEF PoolExists
  <2>4. CASE PoolMissing(c) BY <2>4 DEF PoolMissing
  <2>5. CASE RequestPool(c)
    <3>1. pc[c] = "request"
      BY <2>5 DEF RequestPool
    <3>2. pc[Root] = "running"
      BY <3>1, ActiveUnderRoot DEF Active
    <3>3. mainPc \in {"checking", "waiting", "raised"}
      BY <2>5, <3>2 DEF RequestPool, CondFree, TreeInv, MainPcs
    <3>4. mainPc' \in {"checking", "raised"} /\ newPoolNeeded'
      BY <2>5, <3>3 DEF RequestPool, MainWoken
    <3> QED BY <3>4
  <2>6. CASE ReturnFromWait(c) BY <2>6 DEF ReturnFromWait
  <2>7. CASE StartProducer(c) BY <2>7 DEF StartProducer
  <2>8. CASE Return(c) BY <2>8 DEF Return
  <2> QED
    BY <2>1, <2>2, <2>3, <2>4, <2>5, <2>6, <2>7, <2>8 DEF Call
<1>4. ASSUME NEW c \in Calls, Complete(c) PROVE RequestIsHeard'
  BY <1>4 DEF Complete, Woken
<1>5. CASE PoolsRest BY <1>5 DEF PoolsRest, poolVars
<1> QED BY <1>1, <1>2, <1>3, <1>4, <1>5 DEF PoolNext

-----------------------------------------------------------------------------
\* The invariant behind the theorems below.
THEOREM PoolInvariant == PoolSpec => []PoolInv
<1>1. PoolInv /\ [PoolNext]_poolVars => PoolInv'
  BY PoolTypeNext, PoolLevelNext, PoolTreeNext, PoolHeardNext DEF PoolInv
<1> QED BY <1>1, PoolInitInv, PTL DEF PoolSpec

\* All the variables keep their types; there are never more pools than the
\* depth allows (_CreateNewConsumerPool).
THEOREM PoolTypes == PoolSpec => []PoolTypeOK
<1>1. PoolInv => PoolTypeOK
  BY DEF PoolInv
<1> QED BY <1>1, PoolInvariant, PTL

\* Nobody looks up a queue that its process does not know: the list a pool has
\* kept since its fork reaches to the level its workers may call from, even
\* when they go on before the pool of that level is there (_ParallelApply).
THEOREM QueueExistsHolds == PoolSpec => []QueueExists
<1>1. PoolInv => QueueExists
  <2> SUFFICES ASSUME PoolInv PROVE QueueExists
    OBVIOUS
  <2>1. /\ forked \in Seq(1..MaxDepth + 2) /\ pools \in Nat /\ pools = Len(forked)
        /\ maxLevel \in Nat /\ queues \in Nat
    BY PoolAssumption DEF PoolInv, PoolTypeOK, pools
  <2>2. \A n \in 1..pools : forked[n] = n + 1
    BY DEF PoolInv, PoolCountInv
  <2>3. queues = maxLevel + 1
    BY DEF PoolInv, PoolCountInv
  <2>4. ASSUME NEW c \in Calls, pc[c] \in {"produce", "running"}
        PROVE  Level[c] < QueuesSeenBy(c)
    <3>1. CASE c = Root
      <4>1. Level[c] = 0
        BY <3>1, TreeAssumption
      <4> QED BY <2>1, <2>3, <3>1, <4>1 DEF QueuesSeenBy
    <3>2. CASE c # Root
      <4>1. Level[Parent[c]] \in Nat /\ Level[c] = Level[Parent[c]] + 1
        BY <3>2, TreeAssumption DEF Nested
      <4>2. Level[c] <= pools
        BY <2>4 DEF PoolInv, LevelInv
      <4>3. Level[c] \in 1..pools
        BY <2>1, <4>1, <4>2
      <4>4. forked[Level[c]] = Level[c] + 1
        BY <2>2, <4>3
      <4> QED BY <3>2, <4>1, <4>4 DEF QueuesSeenBy
    <3> QED BY <3>1, <3>2
  <2>5. \A n \in DOMAIN forked : n - 1 < forked[n]
    BY <2>1, <2>2
  <2> QED BY <2>4, <2>5 DEF QueueExists
<1> QED BY <1>1, PoolInvariant, PTL

\* No request for a pool is overlooked: the flag, the notification and the main
\* thread's loop leave no gap (_ParallelApply).
THEOREM RequestIsHeardHolds == PoolSpec => []RequestIsHeard
<1>1. PoolInv => RequestIsHeard
  BY DEF PoolInv
<1> QED BY <1>1, PoolInvariant, PTL
=============================================================================
