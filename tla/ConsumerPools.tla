--------------------------- MODULE ConsumerPools ---------------------------
(***************************************************************************)
(* How nested calls of Command.Apply get the process pools that run them   *)
(* (gslib/command.py, _ParallelApply with process_count > 1).  A call made *)
(* from level n of the call tree puts its tasks in task_queues[n], and the *)
(* (n+1)st consumer pool serves that queue.  Only the main thread starts   *)
(* processes: a worker whose call has no pool yet asks it through          *)
(* new_pool_needed and need_pool_or_done_cond, holding                     *)
(* worker_checking_level_lock.                                             *)
(*                                                                         *)
(* task_queues is a plain list of each process: only the main thread       *)
(* appends to it, and a worker has the list as it was at its fork.         *)
(*                                                                         *)
(* The tasks of a call are its nested calls; a call without any has one    *)
(* task that calls nothing.  ParallelApply describes how the end of a call *)
(* is found; here it is one step.                                          *)
(***************************************************************************)
EXTENDS Naturals, Sequences, FiniteSets

CONSTANTS
    Calls,          \* the calls of the tree
    Root,           \* the one the main thread makes
    Parent,         \* the call whose task makes a call
    Level,          \* recursive_apply_level of the caller
    WorkersPerPool, \* process_count * thread_count
    MaxDepth        \* MAX_RECURSIVE_DEPTH

Nested == Calls \ {Root}

ASSUME TreeAssumption ==
    /\ IsFiniteSet(Calls) /\ Root \in Calls
    /\ Parent \in [Nested -> Calls]
    /\ Level \in [Calls -> Nat] /\ Level[Root] = 0
    /\ \A c \in Nested : Level[c] = Level[Parent[c]] + 1
ASSUME PoolAssumption == WorkersPerPool \in Nat \ {0} /\ MaxDepth \in Nat \ {0}

VARIABLES
    pc,             \* where each call is
    mainPc,         \* the main thread's loop
    levelLock,      \* who holds worker_checking_level_lock
    newPoolNeeded,
    maxLevel,       \* current_max_recursive_level
    queues,         \* len(task_queues) of the main process
    forked          \* consumer_pools: for each len(task_queues) at its fork

poolVars == <<pc, mainPc, levelLock, newPoolNeeded, maxLevel, queues, forked>>

pools == Len(forked)

Nobody == "nobody"

Pcs == {"none", "lock", "check", "request", "waiting", "woken", "produce",
        "running", "completed", "returned"}
MainPcs == {"start", "checking", "creating", "waiting", "returned", "raised"}

PoolInit ==
    /\ pc = [c \in Calls |-> "none"]
    /\ mainPc = "start"
    /\ levelLock = Nobody
    /\ newPoolNeeded = FALSE
    /\ maxLevel = 0
    /\ queues = 1
    /\ forked = <<>>

\* The condition's lock is held for one step at a time, except by the main
\* thread while it creates a pool.
CondFree == mainPc # "creating"

\* Who waits on the condition has to take its lock again.
Woken(c) == IF pc[c] = "waiting" THEN "woken" ELSE pc[c]
MainWoken == IF mainPc = "waiting" THEN "checking" ELSE mainPc

-----------------------------------------------------------------------------
(* The main thread.                                                        *)

\* "we always keep around one more queue than we know we need".
AppendQueue == queues' = queues + 1

\* Mutant: the processes of a pool are started before its queue is appended.
ForkBeforeQueue(q) == forked' = Append(forked, q - 1)

\* The processes of a pool keep the list of queues as it is now.
Fork(q) == forked' = Append(forked, q)

\* Level 0 has no pool yet: the main thread creates it itself.
MainStarts ==
    /\ mainPc = "start"
    /\ AppendQueue
    /\ maxLevel' = 1
    /\ Fork(queues')
    /\ pc' = [pc EXCEPT ![Root] = "running"]
    /\ mainPc' = "checking"
    /\ UNCHANGED <<levelLock, newPoolNeeded>>

MainReturns ==
    /\ mainPc = "checking"
    /\ pc[Root] = "completed"
    /\ pc' = [pc EXCEPT ![Root] = "returned"]
    /\ mainPc' = "returned"
    /\ UNCHANGED <<levelLock, newPoolNeeded, maxLevel, queues, forked>>

\* _CreateNewConsumerPool up to the depth check.
MainCreatesQueue ==
    /\ mainPc = "checking"
    /\ pc[Root] # "completed"
    /\ newPoolNeeded
    /\ newPoolNeeded' = FALSE
    /\ AppendQueue
    /\ maxLevel' = maxLevel + 1
    /\ mainPc' = IF maxLevel' > MaxDepth THEN "raised" ELSE "creating"
    /\ UNCHANGED <<pc, levelLock, forked>>

\* Mutant: the main thread does not tell who asked.
StartPoolSilently ==
    /\ mainPc = "creating"
    /\ Fork(queues)
    /\ mainPc' = "waiting"
    /\ UNCHANGED <<pc, levelLock, newPoolNeeded, maxLevel, queues>>

\* The processes are started, everybody is notified, and the main thread
\* waits without looking again: it has held the lock all the time.
MainStartsPool ==
    /\ mainPc = "creating"
    /\ Fork(queues)
    /\ pc' = [c \in Calls |-> Woken(c)]
    /\ mainPc' = "waiting"
    /\ UNCHANGED <<levelLock, newPoolNeeded, maxLevel, queues>>

MainWaits ==
    /\ mainPc = "checking"
    /\ pc[Root] # "completed"
    /\ ~newPoolNeeded
    /\ mainPc' = "waiting"
    /\ UNCHANGED <<pc, levelLock, newPoolNeeded, maxLevel, queues, forked>>

Main == MainStarts \/ MainReturns \/ MainCreatesQueue \/ MainStartsPool
          \/ MainWaits

-----------------------------------------------------------------------------
(* A nested call.                                                          *)

InPool(l) == {c \in Nested : Level[c] = l + 1 /\ pc[c] \notin {"none", "returned"}}

\* A thread of the pool of level l can take a task.
FreeWorker(l) == pools > l /\ Cardinality(InPool(l)) < WorkersPerPool

Moves(c, from, to) ==
    /\ pc[c] = from
    /\ pc' = [pc EXCEPT ![c] = to]

TakeTask(c) ==
    /\ pc[Parent[c]] = "running"
    /\ FreeWorker(Level[Parent[c]])
    /\ Moves(c, "none", "lock")
    /\ UNCHANGED <<mainPc, levelLock, newPoolNeeded, maxLevel, queues, forked>>

AcquireLevelLock(c) ==
    /\ levelLock = Nobody
    /\ levelLock' = c
    /\ Moves(c, "lock", "check")
    /\ UNCHANGED <<mainPc, newPoolNeeded, maxLevel, queues, forked>>

\* The level is read before the condition's lock is taken.
PoolExists(c) ==
    /\ Level[c] < maxLevel
    /\ levelLock' = Nobody
    /\ Moves(c, "check", "produce")
    /\ UNCHANGED <<mainPc, newPoolNeeded, maxLevel, queues, forked>>

PoolMissing(c) ==
    /\ Level[c] >= maxLevel
    /\ Moves(c, "check", "request")
    /\ UNCHANGED <<mainPc, levelLock, newPoolNeeded, maxLevel, queues, forked>>

\* Mutant: the flag is set, but nobody is notified.
RequestSilently(c) ==
    /\ CondFree
    /\ newPoolNeeded' = TRUE
    /\ Moves(c, "request", "waiting")
    /\ UNCHANGED <<mainPc, levelLock, maxLevel, queues, forked>>

\* notify_all, then wait: who asks wakes everybody but itself.
RequestPool(c) ==
    /\ pc[c] = "request"
    /\ CondFree
    /\ newPoolNeeded' = TRUE
    /\ pc' = [d \in Calls |-> IF d = c THEN "waiting" ELSE Woken(d)]
    /\ mainPc' = MainWoken
    /\ UNCHANGED <<levelLock, maxLevel, queues, forked>>

\* wait() returns after any notify_all, and the call goes on without looking
\* whether its pool exists.
ReturnFromWait(c) ==
    /\ CondFree
    /\ levelLock' = Nobody
    /\ Moves(c, "woken", "produce")
    /\ UNCHANGED <<mainPc, newPoolNeeded, maxLevel, queues, forked>>

\* task_queues[level] is looked up and a ProducerThread fills it.
StartProducer(c) ==
    /\ Moves(c, "produce", "running")
    /\ UNCHANGED <<mainPc, levelLock, newPoolNeeded, maxLevel, queues, forked>>

Children(c) == {d \in Nested : Parent[d] = c}

\* The last task is done: its worker notifies all that wait.
Complete(c) ==
    /\ pc[c] = "running"
    /\ CondFree
    /\ \A d \in Children(c) : pc[d] = "returned"
    /\ Children(c) = {} => FreeWorker(Level[c])
    /\ pc' = [d \in Calls |-> IF d = c THEN "completed" ELSE Woken(d)]
    /\ mainPc' = MainWoken
    /\ UNCHANGED <<levelLock, newPoolNeeded, maxLevel, queues, forked>>

Return(c) ==
    /\ Moves(c, "completed", "returned")
    /\ UNCHANGED <<mainPc, levelLock, newPoolNeeded, maxLevel, queues, forked>>

Call(c) ==
    \/ TakeTask(c) \/ AcquireLevelLock(c) \/ PoolExists(c) \/ PoolMissing(c)
    \/ RequestPool(c) \/ ReturnFromWait(c) \/ StartProducer(c)
    \/ Return(c)

PoolsRest == mainPc \in {"returned", "raised"} /\ UNCHANGED poolVars

PoolNext ==
    \/ Main
    \/ \E c \in Nested : Call(c)
    \/ \E c \in Calls : Complete(c)
    \/ PoolsRest

PoolSpec == PoolInit /\ [][PoolNext]_poolVars

\* The threads keep running.  A lock is granted to some waiting thread; no
\* thread asks for worker_checking_level_lock twice in a call, so each gets it.
PoolFairness ==
    /\ WF_poolVars(Main)
    /\ \A c \in Nested : WF_poolVars(Call(c))
    /\ \A c \in Calls : WF_poolVars(Complete(c))

PoolFairSpec == PoolSpec /\ PoolFairness

-----------------------------------------------------------------------------
(* Properties.                                                             *)

PoolTypeOK ==
    /\ pc \in [Calls -> Pcs]
    /\ mainPc \in MainPcs
    /\ levelLock \in Calls \union {Nobody}
    /\ newPoolNeeded \in BOOLEAN
    /\ maxLevel \in 0..MaxDepth + 1
    /\ queues \in 1..MaxDepth + 2
    /\ forked \in Seq(1..MaxDepth + 2) /\ pools <= MaxDepth

\* task_queues as the process of a call has it.  A nested call runs in the pool
\* of the level above its own.
QueuesSeenBy(c) == IF c = Root THEN queues ELSE forked[Level[c]]

\* Nobody looks up a queue that its own process does not know: neither the
\* call that fills task_queues[recursive_apply_level], even when it was woken
\* before its pool was created and long after its process was forked, nor the
\* processes of a pool that are to read it.
QueueExists ==
    /\ \A c \in Calls : pc[c] \in {"produce", "running"} =>
          Level[c] < QueuesSeenBy(c)
    /\ \A n \in DOMAIN forked : n - 1 < forked[n]

\* A request is never overlooked: while a worker sleeps until its pool is
\* there, the main thread is awake, and it will see the request or is
\* serving it.
RequestIsHeard ==
    \A c \in Nested : pc[c] = "waiting" =>
        \/ mainPc = "checking" /\ newPoolNeeded
        \/ mainPc \in {"creating", "raised"}

\* Every call comes to its end: a task that waits for the calls it makes
\* keeps a worker of its own level, never one of the level those calls need.
EveryCallReturns == <>(mainPc = "returned" /\ \A c \in Calls : pc[c] = "returned")

=============================================================================
