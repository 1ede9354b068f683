--------------------------- MODULE ParallelApply ---------------------------
(***************************************************************************)
(* One call of Command._ParallelApply (gslib/command.py): the calling      *)
(* thread starts a ProducerThread that feeds a bounded task queue, and     *)
(* sleeps on need_pool_or_done_cond until somebody finds that as many      *)
(* tasks are finished as were produced.                                    *)
(*                                                                         *)
(* multiProcess = FALSE: the WorkerThreads of one process read the task    *)
(* queue themselves.  multiProcess = TRUE: each process runs _ApplyThreads *)
(* in its main thread, the dispatcher, which moves tasks from the shared   *)
(* queue to the local queue of its WorkerPool under a BoundedSemaphore.    *)
(*                                                                         *)
(* Tasks are numbered in the order they are created; 0 is no task, and in  *)
(* a queue it is the ZERO_TASKS_TO_DO_ARGUMENT marker.                     *)
(***************************************************************************)
EXTENDS Integers, Sequences, FiniteSets

CONSTANTS
    Procs,          \* the processes of the consumer pool
    Threads,        \* the WorkerThreads of each process
    MaxQueueSize,   \* MAX_QUEUE_SIZE
    MaxArgs,        \* bound: what the iterator yields, exceptions included
    Faults          \* where the producer may meet an exception

AllFaults == {"iterator", "checker", "accounting"}

ASSUME ThreadsAssumption == IsFiniteSet(Threads)
ASSUME QueueAssumption == MaxQueueSize \in Nat
ASSUME ArgsAssumption == MaxArgs \in Nat
ASSUME FaultsAssumption == Faults \subseteq AllFaults

Workers == Procs \X Threads
Marker == 0
Pending == "pending"

VARIABLES
    \* ProducerThread
    pPc, yielded, numTasks, curTask, lastTask, seen, unknownException,
    \* shared by the processes
    taskQueue, totalTasks, finished, completed, results, sharedVar,
    failureCount,
    \* _ApplyThreads, one per process
    dPc, semaphore, localQueue,
    \* WorkerThread: numDone is what its Increment returned, register the
    \* failure count it has read, delta what its instance of the command has
    \* added to the shared attribute since the last Update
    wPc, task, numDone, register, delta,
    \* the calling thread; multiProcess, process_count > 1, is fixed when the
    \* call starts
    multiProcess, mPc, outcome,
    \* history: the tasks func was called on, those it failed on, and all
    \* that the exception handlers added to the shared attribute
    called, failed, handled

producerVars == <<pPc, yielded, numTasks, curTask, lastTask, seen,
                  unknownException>>
countVars == <<totalTasks, finished, completed>>
outputVars == <<results, sharedVar, failureCount>>
dispatchVars == <<dPc, semaphore, localQueue>>
workerVars == <<wPc, task, numDone, register, delta>>
callerVars == <<multiProcess, mPc, outcome>>
history == <<called, failed, handled>>
vars == <<producerVars, taskQueue, countVars, outputVars, dispatchVars,
          workerVars, callerVars, history>>

ProducerPcs == {"iterate", "addFailure", "putPrevious", "setTotal", "putLast",
                "readDone", "check", "notify", "exited"}
WorkerPcs == {"idle", "func", "addFailure", "release", "publish", "count",
              "check", "notify"}

Init ==
    /\ multiProcess \in BOOLEAN
    /\ pPc = "iterate" /\ yielded = 0 /\ numTasks = 0
    /\ curTask = 0 /\ lastTask = 0 /\ seen = 0
    /\ unknownException = FALSE
    /\ taskQueue = <<>>
    /\ totalTasks = -1              \* the producer hasn't finished yet
    /\ finished = 0
    /\ completed = FALSE
    /\ results = {}
    /\ sharedVar = 0
    /\ failureCount = 0
    /\ dPc = [p \in Procs |-> "acquire"]
    /\ semaphore = [p \in Procs |-> Cardinality(Threads)]
    /\ localQueue = [p \in Procs |-> <<>>]
    /\ wPc = [w \in Workers |-> "idle"]
    /\ task = [w \in Workers |-> 0]
    /\ numDone = [w \in Workers |-> 0]
    /\ register = [w \in Workers |-> 0]
    /\ delta = [w \in Workers |-> 0]
    /\ mPc = "checking" /\ outcome = Pending
    /\ called = {} /\ failed = {} /\ handled = 0

-----------------------------------------------------------------------------
(* ProducerThread.run.                                                     *)

Yield ==
    /\ pPc = "iterate"
    /\ yielded < MaxArgs
    /\ yielded' = yielded + 1

\* arg_checker turns the argument down.
ProducerSkip ==
    /\ Yield
    /\ UNCHANGED <<pPc, numTasks, curTask, lastTask, seen, unknownException,
                   taskQueue, countVars, outputVars, dispatchVars, workerVars,
                   callerVars, history>>

\* A new task is created and held back; the one before it, if any, is put.
ProducerAccept ==
    /\ Yield
    /\ numTasks' = numTasks + 1
    /\ lastTask' = curTask
    /\ curTask' = numTasks + 1
    /\ pPc' = IF curTask = 0 THEN "iterate" ELSE "putPrevious"
    /\ UNCHANGED <<seen, unknownException, taskQueue, countVars, outputVars,
                   dispatchVars, workerVars, callerVars, history>>

\* task_queue.put(last_task) blocks while the queue is full.
ProducerPutPrevious ==
    /\ pPc = "putPrevious"
    /\ Len(taskQueue) < MaxQueueSize
    /\ taskQueue' = Append(taskQueue, lastTask)
    /\ pPc' = "iterate"
    /\ UNCHANGED <<yielded, numTasks, curTask, lastTask, seen,
                   unknownException, countVars, outputVars, dispatchVars,
                   workerVars, callerVars, history>>

\* The iterator raises: fail_on_error is never set when there are several
\* workers, so the exception is counted, handled and iteration goes on.  The
\* increment of the failure count is a read and a write.
ProducerIteratorRaises ==
    /\ Yield
    /\ "iterator" \in Faults
    /\ seen' = failureCount
    /\ pPc' = "addFailure"
    /\ UNCHANGED <<numTasks, curTask, lastTask, unknownException, taskQueue,
                   countVars, outputVars, dispatchVars, workerVars, callerVars,
                   history>>

\* The handler may add to the shared attribute or raise; what it added is
\* published by the Update that follows it.
ProducerHandleException ==
    /\ pPc = "addFailure"
    /\ failureCount' = seen + 1
    /\ \E d \in {0, 1} :
          /\ sharedVar' = sharedVar + d
          /\ handled' = handled + d
    /\ pPc' = "iterate"
    /\ UNCHANGED <<yielded, numTasks, curTask, lastTask, seen,
                   unknownException, taskQueue, countVars, results,
                   dispatchVars, workerVars, callerVars, called, failed>>

\* arg_checker, or iter() itself, raises.
ProducerCheckerRaises ==
    /\ Yield
    /\ "checker" \in Faults
    /\ unknownException' = TRUE
    /\ pPc' = "setTotal"
    /\ UNCHANGED <<numTasks, curTask, lastTask, seen, taskQueue, countVars,
                   outputVars, dispatchVars, workerVars, callerVars, history>>

\* The argument is counted in num_tasks, and then reading its size or the
\* task_estimation_threshold option raises, before its Task exists.
ProducerAccountingRaises ==
    /\ Yield
    /\ "accounting" \in Faults
    /\ numTasks' = numTasks + 1
    /\ unknownException' = TRUE
    /\ pPc' = "setTotal"
    /\ UNCHANGED <<curTask, lastTask, seen, taskQueue, countVars, outputVars,
                   dispatchVars, workerVars, callerVars, history>>

ProducerStops ==
    /\ pPc = "iterate"
    /\ pPc' = "setTotal"
    /\ UNCHANGED <<yielded, numTasks, curTask, lastTask, seen,
                   unknownException, taskQueue, countVars, outputVars,
                   dispatchVars, workerVars, callerVars, history>>

\* Mutant: the total leaves out the task that is still held back.
SetTotalOffByOne ==
    /\ pPc = "setTotal"
    /\ totalTasks' = lastTask
    /\ pPc' = "putLast"
    /\ UNCHANGED <<yielded, numTasks, curTask, lastTask, seen,
                   unknownException, taskQueue, finished, completed,
                   outputVars, dispatchVars, workerVars, callerVars, history>>

\* The finally clause: the total is known before the last task is put.
ProducerSetTotal ==
    /\ pPc = "setTotal"
    /\ totalTasks' = numTasks
    /\ pPc' = "putLast"
    /\ UNCHANGED <<yielded, numTasks, curTask, lastTask, seen,
                   unknownException, taskQueue, finished, completed,
                   outputVars, dispatchVars, workerVars, callerVars, history>>

\* Mutant: the producer leaves it to the workers to find that all is done.
PutLastAndExit ==
    /\ pPc = "putLast"
    /\ Len(taskQueue) < MaxQueueSize
    /\ taskQueue' = Append(taskQueue, curTask)
    /\ pPc' = "exited"
    /\ UNCHANGED <<yielded, numTasks, curTask, lastTask, seen,
                   unknownException, countVars, outputVars, dispatchVars,
                   workerVars, callerVars, history>>

\* curTask = 0 puts the marker: there were no arguments.
ProducerPutLast ==
    /\ pPc = "putLast"
    /\ Len(taskQueue) < MaxQueueSize
    /\ taskQueue' = Append(taskQueue, curTask)
    /\ pPc' = "readDone"
    /\ UNCHANGED <<yielded, numTasks, curTask, lastTask, seen,
                   unknownException, countVars, outputVars, dispatchVars,
                   workerVars, callerVars, history>>

ProducerReadDone ==
    /\ pPc = "readDone"
    /\ seen' = finished
    /\ pPc' = "check"
    /\ UNCHANGED <<yielded, numTasks, curTask, lastTask, unknownException,
                   taskQueue, countVars, outputVars, dispatchVars, workerVars,
                   callerVars, history>>

\* Mutant: a total that is not known yet passes for reached.
AllDoneTooEarly(done) == totalTasks <= done

\* _NotifyIfDone compares the count it was given with total_tasks ...
AllDone(done) == totalTasks = done /\ totalTasks >= 0

ProducerCheck ==
    /\ pPc = "check"
    /\ pPc' = IF AllDone(seen) THEN "notify" ELSE "exited"
    /\ UNCHANGED <<yielded, numTasks, curTask, lastTask, seen,
                   unknownException, taskQueue, countVars, outputVars,
                   dispatchVars, workerVars, callerVars, history>>

\* ... and under need_pool_or_done_cond marks the call and wakes the waiters.
NotifyAll ==
    /\ completed' = TRUE
    /\ mPc' = IF mPc = "waiting" THEN "checking" ELSE mPc

ProducerNotify ==
    /\ pPc = "notify"
    /\ NotifyAll
    /\ pPc' = "exited"
    /\ UNCHANGED <<yielded, numTasks, curTask, lastTask, seen,
                   unknownException, taskQueue, totalTasks, finished,
                   outputVars, dispatchVars, workerVars, multiProcess, outcome,
                   history>>

Producer ==
    \/ ProducerSkip \/ ProducerAccept \/ ProducerPutPrevious
    \/ ProducerIteratorRaises \/ ProducerHandleException
    \/ ProducerCheckerRaises \/ ProducerAccountingRaises
    \/ ProducerStops \/ ProducerSetTotal \/ ProducerPutLast
    \/ ProducerReadDone \/ ProducerCheck \/ ProducerNotify

-----------------------------------------------------------------------------
(* _ApplyThreads: a task is fetched only once a WorkerThread is free for   *)
(* it, so that one process does not hoard what another could start.        *)

DispatcherAcquire(p) ==
    /\ multiProcess
    /\ dPc[p] = "acquire"
    /\ semaphore[p] > 0
    /\ semaphore' = [semaphore EXCEPT ![p] = @ - 1]
    /\ dPc' = [dPc EXCEPT ![p] = "get"]
    /\ UNCHANGED <<producerVars, taskQueue, countVars, outputVars, localQueue,
                   workerVars, callerVars, history>>

\* Mutant: the permit taken for the marker is not given back.
GetKeepsPermit(p) ==
    /\ dPc[p] = "get"
    /\ taskQueue # <<>>
    /\ taskQueue' = Tail(taskQueue)
    /\ dPc' = [dPc EXCEPT ![p] = "acquire"]
    /\ IF Head(taskQueue) # Marker
       THEN localQueue' = [localQueue EXCEPT ![p] = Append(@, Head(taskQueue))]
       ELSE UNCHANGED localQueue
    /\ UNCHANGED <<producerVars, countVars, outputVars, semaphore, workerVars,
                   callerVars, history>>

DispatcherGet(p) ==
    /\ dPc[p] = "get"
    /\ taskQueue # <<>>
    /\ taskQueue' = Tail(taskQueue)
    /\ dPc' = [dPc EXCEPT ![p] = "acquire"]
    /\ IF Head(taskQueue) # Marker
       THEN /\ localQueue' = [localQueue EXCEPT
                                ![p] = Append(@, Head(taskQueue))]
            /\ UNCHANGED semaphore
       ELSE /\ semaphore' = [semaphore EXCEPT ![p] = @ + 1]
            /\ UNCHANGED localQueue
    /\ UNCHANGED <<producerVars, countVars, outputVars, workerVars, callerVars,
                   history>>

Dispatcher(p) == DispatcherAcquire(p) \/ DispatcherGet(p)

-----------------------------------------------------------------------------
(* WorkerThread.run and PerformTask.                                       *)

Goto(w, from, to) ==
    /\ wPc[w] = from
    /\ wPc' = [wPc EXCEPT ![w] = to]

TakeLocal(w) ==
    /\ multiProcess
    /\ localQueue[w[1]] # <<>>
    /\ Goto(w, "idle", "func")
    /\ task' = [task EXCEPT ![w] = Head(localQueue[w[1]])]
    /\ localQueue' = [localQueue EXCEPT ![w[1]] = Tail(@)]
    /\ UNCHANGED <<producerVars, taskQueue, countVars, outputVars, dPc,
                   semaphore, numDone, register, delta, callerVars, history>>

\* With one process the threads consume the producer's queue directly, and
\* skip the marker.
TakeShared(w) ==
    /\ ~multiProcess
    /\ taskQueue # <<>>
    /\ taskQueue' = Tail(taskQueue)
    /\ IF Head(taskQueue) = Marker
       THEN wPc[w] = "idle" /\ UNCHANGED <<wPc, task>>
       ELSE /\ Goto(w, "idle", "func")
            /\ task' = [task EXCEPT ![w] = Head(taskQueue)]
    /\ UNCHANGED <<producerVars, countVars, outputVars, dispatchVars, numDone,
                   register, delta, callerVars, history>>

\* func returns, and its result is appended to global_return_values_map.
FuncReturns(w) ==
    /\ Goto(w, "func", "release")
    /\ called' = called \union {task[w]}
    /\ results' = results \union {task[w]}
    /\ UNCHANGED <<producerVars, taskQueue, countVars, sharedVar,
                   failureCount, dispatchVars, task, numDone, register, delta,
                   callerVars, failed, handled>>

\* func raises: the increment of failure_count reads it ...
FuncRaises(w) ==
    /\ Goto(w, "func", "addFailure")
    /\ called' = called \union {task[w]}
    /\ failed' = failed \union {task[w]}
    /\ register' = [register EXCEPT ![w] = failureCount]
    /\ UNCHANGED <<producerVars, taskQueue, countVars, outputVars,
                   dispatchVars, task, numDone, delta, callerVars, handled>>

\* Mutant: the failure is handled but not counted.
HandleUncounted(w) ==
    /\ Goto(w, "addFailure", "release")
    /\ \E d \in {0, 1} :
          /\ delta' = [delta EXCEPT ![w] = @ + d]
          /\ handled' = handled + d
    /\ UNCHANGED <<producerVars, taskQueue, countVars, outputVars,
                   dispatchVars, task, numDone, register, callerVars, called,
                   failed>>

\* ... and writes it; the exception handler adds to the shared attribute of
\* the worker's own instance of the command, or raises and is ignored.
HandleException(w) ==
    /\ Goto(w, "addFailure", "release")
    /\ failureCount' = register[w] + 1
    /\ \E d \in {0, 1} :
          /\ delta' = [delta EXCEPT ![w] = @ + d]
          /\ handled' = handled + d
    /\ UNCHANGED <<producerVars, taskQueue, countVars, results, sharedVar,
                   dispatchVars, task, numDone, register, callerVars, called,
                   failed>>

\* Mutant: the semaphore is released once more than it was acquired.
ReleaseTwice(w) ==
    /\ Goto(w, "release", "publish")
    /\ semaphore' = IF multiProcess
                    THEN [semaphore EXCEPT ![w[1]] = @ + 2]
                    ELSE semaphore
    /\ UNCHANGED <<producerVars, taskQueue, countVars, outputVars, dPc,
                   localQueue, task, numDone, register, delta, callerVars,
                   history>>

\* The finally clause of PerformTask, one shared structure at a time.
ReleaseSemaphore(w) ==
    /\ Goto(w, "release", "publish")
    /\ semaphore' = IF multiProcess
                    THEN [semaphore EXCEPT ![w[1]] = @ + 1]
                    ELSE semaphore
    /\ UNCHANGED <<producerVars, taskQueue, countVars, outputVars, dPc,
                   localQueue, task, numDone, register, delta, callerVars,
                   history>>

\* Mutant: what was published stays in the worker's delta.
PublishAgain(w) ==
    /\ Goto(w, "publish", "count")
    /\ sharedVar' = sharedVar + delta[w]
    /\ UNCHANGED <<producerVars, taskQueue, countVars, results, failureCount,
                   dispatchVars, task, numDone, register, delta, callerVars,
                   history>>

PublishSharedVar(w) ==
    /\ Goto(w, "publish", "count")
    /\ sharedVar' = sharedVar + delta[w]
    /\ delta' = [delta EXCEPT ![w] = 0]
    /\ UNCHANGED <<producerVars, taskQueue, countVars, results, failureCount,
                   dispatchVars, task, numDone, register, callerVars, history>>

CountFinished(w) ==
    /\ Goto(w, "count", "check")
    /\ finished' = finished + 1
    /\ numDone' = [numDone EXCEPT ![w] = finished + 1]
    /\ task' = [task EXCEPT ![w] = 0]
    /\ UNCHANGED <<producerVars, taskQueue, totalTasks, completed, outputVars,
                   dispatchVars, register, delta, callerVars, history>>

CheckDone(w) ==
    /\ Goto(w, "check", IF AllDone(numDone[w]) THEN "notify" ELSE "idle")
    /\ UNCHANGED <<producerVars, taskQueue, countVars, outputVars,
                   dispatchVars, task, numDone, register, delta, callerVars,
                   history>>

NotifyDone(w) ==
    /\ Goto(w, "notify", "idle")
    /\ NotifyAll
    /\ UNCHANGED <<producerVars, taskQueue, totalTasks, finished, outputVars,
                   dispatchVars, task, numDone, register, delta, multiProcess,
                   outcome, history>>

Worker(w) ==
    \/ TakeLocal(w) \/ TakeShared(w)
    \/ FuncReturns(w) \/ FuncRaises(w) \/ HandleException(w)
    \/ ReleaseSemaphore(w) \/ PublishSharedVar(w) \/ CountFinished(w)
    \/ CheckDone(w) \/ NotifyDone(w)

-----------------------------------------------------------------------------
(* The calling thread: it looks at call_completed_map before each wait(),  *)
(* with the condition's lock held.                                         *)

CallerWaits ==
    /\ mPc = "checking"
    /\ ~completed
    /\ mPc' = "waiting"
    /\ UNCHANGED <<producerVars, taskQueue, countVars, outputVars,
                   dispatchVars, workerVars, multiProcess, outcome, history>>

CallerReturns ==
    /\ mPc = "checking"
    /\ completed
    /\ mPc' = "returned"
    /\ outcome' = IF unknownException THEN "raised" ELSE "returned"
    /\ UNCHANGED <<producerVars, taskQueue, countVars, outputVars,
                   dispatchVars, workerVars, multiProcess, history>>

Caller == CallerWaits \/ CallerReturns

\* The workers are daemon threads: once the call has been answered they may
\* stay blocked on their queues.
Quiescent ==
    /\ mPc = "returned"
    /\ pPc = "exited"
    /\ taskQueue = <<>>
    /\ \A w \in Workers : wPc[w] = "idle"
    /\ \A p \in Procs : multiProcess => dPc[p] = "get"
    /\ UNCHANGED vars

Next ==
    \/ Producer
    \/ \E p \in Procs : Dispatcher(p)
    \/ \E w \in Workers : Worker(w)
    \/ Caller
    \/ Quiescent

Spec == Init /\ [][Next]_vars

\* Every thread keeps running; a queue hands an item to some waiting reader.
Fairness ==
    /\ WF_vars(Producer)
    /\ \A p \in Procs : WF_vars(Dispatcher(p))
    /\ \A w \in Workers : WF_vars(Worker(w))
    /\ WF_vars(Caller)

FairSpec == Spec /\ Fairness

-----------------------------------------------------------------------------
(* Properties.                                                             *)

\* Which worker is still busy with a task it has not counted.
Holds(w) == wPc[w] \in {"func", "addFailure", "release", "publish", "count"}
UsesSlot(w) == wPc[w] \in {"func", "addFailure", "release"}
Busy(p) == {t \in Threads : UsesSlot(<<p, t>>)}

TypeOK ==
    /\ pPc \in ProducerPcs
    /\ yielded \in 0..MaxArgs
    /\ numTasks \in 0..MaxArgs /\ curTask \in 0..MaxArgs
    /\ lastTask \in 0..MaxArgs
    /\ seen \in Nat
    /\ unknownException \in BOOLEAN
    /\ taskQueue \in Seq(0..MaxArgs) /\ Len(taskQueue) <= MaxQueueSize
    /\ totalTasks \in -1..MaxArgs
    /\ finished \in Nat
    /\ completed \in BOOLEAN
    /\ results \subseteq 1..MaxArgs
    /\ sharedVar \in Nat
    /\ failureCount \in Nat
    /\ dPc \in [Procs -> {"acquire", "get"}]
    /\ semaphore \in [Procs -> 0..Cardinality(Threads)]
    /\ localQueue \in [Procs -> Seq(1..MaxArgs)]
    /\ wPc \in [Workers -> WorkerPcs]
    /\ task \in [Workers -> 0..MaxArgs]
    /\ numDone \in [Workers -> Nat]
    /\ register \in [Workers -> Nat]
    /\ delta \in [Workers -> Nat]
    /\ multiProcess \in BOOLEAN
    /\ mPc \in {"checking", "waiting", "returned"}
    /\ outcome \in {Pending, "returned", "raised"}
    /\ called \subseteq 1..MaxArgs
    /\ failed \subseteq 1..MaxArgs
    /\ handled \in Nat

\* When Apply goes on after its wait, func has been called on every argument
\* that was accepted, and no worker is still between the call and the count:
\* the threads that finish tasks, the one that learns the total and the one
\* that sleeps agree whatever their order (command.py, _NotifyIfDone).
ReturnsAfterAllCalls ==
    mPc = "returned" => /\ called = 1..numTasks
                        /\ \A w \in Workers : ~Holds(w)

\* What Apply hands its caller is complete: the result of every call that did
\* not raise, and every change the handlers made to a shared attribute in
\* whatever process, even the producer's.
CallerSeesAllOutputs ==
    mPc = "returned" => results = called \ failed /\ sharedVar = handled

\* CommandRunner turns failure_count > 0 into exit status 1: one failed call
\* is enough to get there although increments can overwrite each other.
FailureReachesExitStatus ==
    mPc = "returned" /\ failed # {} => failureCount > 0

\* "Ensure fairness across processes by filling our WorkerPool only with as
\* many tasks as it has WorkerThreads": permits, tasks on their way and tasks
\* in a thread always add up, so a task never waits in a process behind more
\* tasks than it has threads and the BoundedSemaphore is never over-released.
PermitsAccounted ==
    \A p \in Procs : multiProcess =>
        semaphore[p] + (IF dPc[p] = "get" THEN 1 ELSE 0) + Len(localQueue[p])
          + Cardinality(Busy(p)) = Cardinality(Threads)

-----------------------------------------------------------------------------
(* The inductive invariant behind ReturnsAfterAllCalls.  The task queue    *)
(* always holds a run of consecutive numbers, so how many tasks have left  *)
(* it follows from where the producer is.                                  *)

Producing == pPc \in {"iterate", "addFailure", "putPrevious"}
HasPutAll == pPc \in {"readDone", "check", "notify", "exited"}

LastPut ==
    IF HasPutAll THEN curTask
    ELSE IF pPc = "putPrevious" THEN curTask - 2
    ELSE IF curTask = 0 THEN 0
    ELSE curTask - 1

Taken == LastPut - Len(taskQueue)

ProducerInv ==
    /\ lastTask <= curTask /\ curTask <= numTasks /\ numTasks <= yielded
    /\ Producing => numTasks = curTask
    /\ Producing \/ pPc = "setTotal" => totalTasks = -1
    /\ ~Producing /\ pPc # "setTotal" => totalTasks = numTasks
    /\ pPc = "putPrevious" => lastTask = curTask - 1 /\ curTask >= 2

QueueInv ==
    /\ Taken >= 0 \/ (Taken = -1 /\ curTask = 0 /\ HasPutAll)
    /\ \A i \in 1..Len(taskQueue) : taskQueue[i] = Taken + i

\* A task that has left the task queue is in one local queue, or in one
\* worker, or finished.
WorkerInv ==
    /\ \A w \in Workers : IF Holds(w) THEN task[w] \in 1..Taken
                                      ELSE task[w] = 0
    /\ \A v, w \in Workers : Holds(v) /\ task[v] = task[w] => v = w
    /\ \A w \in Workers : Holds(w) => (task[w] \in called <=> wPc[w] # "func")
    /\ called \subseteq 1..Taken

LocalInv ==
    /\ \A p \in Procs : \A i \in 1..Len(localQueue[p]) :
          /\ localQueue[p][i] \in 1..Taken \ called
          /\ \A w \in Workers : task[w] # localQueue[p][i]
    /\ \A p, q \in Procs :
          \A i \in 1..Len(localQueue[p]), j \in 1..Len(localQueue[q]) :
             localQueue[p][i] = localQueue[q][j] => p = q /\ i = j

Counted == called \ {task[w] : w \in Workers}

CountInv ==
    /\ finished = Cardinality(Counted)
    /\ \A w \in Workers : numDone[w] <= finished
    /\ pPc = "check" => seen <= finished

DoneInv ==
    /\ completed \/ pPc = "notify" \/ (\E w \in Workers : wPc[w] = "notify")
          => totalTasks >= 0 /\ finished = totalTasks
    /\ mPc = "returned" => completed
    /\ outcome = Pending <=> mPc # "returned"

IInv == ProducerInv /\ QueueInv /\ WorkerInv /\ LocalInv /\ CountInv /\ DoneInv

-----------------------------------------------------------------------------
\* An argument is counted in num_tasks that never becomes a task: what
\* ProducerAccountingRaises leaves behind.
CountedInVain == numTasks > curTask

\* The call is answered in the end, whatever the queue's size and whatever
\* raises, as long as every task that is counted exists.
EventuallyReturns == <>(mPc = "returned" \/ CountedInVain)

\* The call implements ApplyCall: every accepted argument is dealt with once.
Promise == INSTANCE ApplyCall WITH
    accepted <- curTask,
    open <- pPc \in {"iterate", "addFailure", "putPrevious"},
    performed <- called,
    outcome <- outcome

ImplementsApplyCall == Promise!Spec

=============================================================================
