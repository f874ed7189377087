------------------------------- MODULE TPool -------------------------------
(***************************************************************************)
(* The thread pool of myUtils/TPool/myThreadPool.c: TPoolModuleInit, the   *)
(* workers (_TPoolProcFn), the asynchronous TPoolAddTask, the synchronous  *)
(* TPoolAddTaskAndWait, the two setters and TPoolModuleExit.               *)
(*                                                                         *)
(* Grain.  A section of code under the pool lock is one action: it waits   *)
(* for nothing but its own pthread_cond_wait (the task lock taken inside   *)
(* AddTaskAndWait's section belongs to a task no other thread can see      *)
(* yet), so nothing another thread does can come between its steps.  What  *)
(* the code does outside the pool lock - the worker's while test, its two  *)
(* reads of TaskStat, the caller's write of TaskStat, the frees, the steps *)
(* of TPoolModuleExit - is an action each.                                 *)
(*                                                                         *)
(* A task stands for one call of TPoolAddTask or TPoolAddTaskAndWait and   *)
(* for the MY_TPOOL_TASK node that call allocates.  MemCalloc never        *)
(* returns NULL to a registered module, so the ENOMEM paths are not taken. *)
(*                                                                         *)
(* Undefined behaviour ends a behaviour: the access to freed memory is     *)
(* recorded in ub and no further step is taken, as nothing can be said of  *)
(* the program after it.                                                   *)
(***************************************************************************)
EXTENDS Integers, Sequences, FiniteSets

CONSTANTS
    Workers,      \* the ThreadPoolSize threads of the pool
    AsyncTasks,   \* calls of TPoolAddTask
    SyncTasks,    \* calls of TPoolAddTaskAndWait
    Callers,      \* how many threads call the pool: bounds the calls in progress
    MaxLengths,   \* values TaskMaxLength is given (Init, TPoolSetMaxQueueLength)
    Timeouts,     \* values of "TaskDefaultTimeout > 0" (Init, TPoolSetTimeout)
    Polls,        \* times TPoolModuleInit looks at CurrentThreadNum (11 in the code)
    Env           \* what the surroundings may do, a subset of EnvKinds

Tasks == AsyncTasks \cup SyncTasks

\* "timeout":  a timed wait may expire before its signal
\* "spurious": pthread_cond_wait and _timedwait may return 0 without a signal
\* "clock":    clock_gettime may fail
\* "exit":     TPoolModuleExit is called
\* "hang":     a TaskFunc need not return
EnvKinds == {"timeout", "spurious", "clock", "exit", "hang"}

ASSUME WorkersAssumption == Workers # {} /\ IsFiniteSet(Workers)
ASSUME TasksAssumption == AsyncTasks \cap SyncTasks = {} /\ IsFiniteSet(Tasks)
ASSUME LimitsAssumption == /\ Callers \in Nat \ {0}
                           /\ Polls \in Nat \ {0}
                           /\ MaxLengths \subseteq Int /\ MaxLengths # {}
                           /\ Timeouts \subseteq BOOLEAN /\ Timeouts # {}
ASSUME EnvAssumption == Env \subseteq EnvKinds

VARIABLES
    initpc,             \* TPoolModuleInit: "start", "polling", "done"
    polls,              \* looks at CurrentThreadNum that found it too small
    exitpc,             \* TPoolModuleExit: "no", "flagged", "broadcast", "freed"
    exitRet,            \* what TPoolModuleExit returned
    queue,              \* TaskListHead: the tasks, oldest first
    taskListLength,     \* TaskListLength
    taskMaxLength,      \* TaskMaxLength
    defaultTimeout,     \* TaskDefaultTimeout > 0
    currentThreadNum,   \* CurrentThreadNum
    wpc,                \* worker -> where it is in _TPoolProcFn
    batch,              \* worker -> what is left of its listHeadTmp
    call,               \* task -> where its caller is
    ret,                \* task -> what its call returned
    taskStat,           \* task -> TaskStat of its node
    node,               \* task -> memory of its MY_TPOOL_TASK
    sync,               \* task -> memory of its TaskLock and TaskCond
    starts,             \* task -> calls of its TaskFunc (history)
    ends,               \* task -> returns of its TaskFunc (history)
    stats,              \* sg_ThreadPoolStats
    ub                  \* undefined behaviour met, see above

poolVars  == <<queue, taskListLength, currentThreadNum>>
limitVars == <<taskMaxLength, defaultTimeout>>
lifeVars  == <<initpc, polls, exitpc, exitRet>>
callVars  == <<call, ret>>
heapVars  == <<node, sync>>
runVars   == <<starts, ends>>
vars == <<poolVars, limitVars, lifeVars, callVars, heapVars, runVars,
          wpc, batch, taskStat, stats, ub>>

WorkerPcs == {"unborn", "top", "lock", "waiting", "woken", "batch", "running",
              "ended", "signal", "leaving", "left", "exiting", "exited"}
CallPcs == {"idle", "entered", "checked", "held", "waiting", "signalled",
            "timedout", "marked", "returned"}
Returns == {"none", "SUCCESS", "EINVAL", "EBUSY", "EIO", "ETIMEDOUT", "MEM_LEAK"}
Stats == {"UNSPEC", "INIT", "TIMEOUT"}     \* TaskStat is never set to WORKING
Memory == {"none", "live", "freed"}
Faults == {"freed pool", "freed node", "freed task lock", "double free"}

-----------------------------------------------------------------------------
Inited  == initpc # "start" /\ exitpc # "freed"        \* sg_TPoolModuleInited
Exit    == exitpc # "no"                               \* threadPool->Exit
Freed   == exitpc = "freed"                            \* the pool's memory is gone
InCall(t) == call[t] \notin {"idle", "returned"}
Waiting == {w \in Workers : wpc[w] = "waiting"}
InBatch(w, t) == \E i \in 1..Len(batch[w]) : batch[w][i] = t
InQueue(t) == \E i \in 1..Len(queue) : queue[i] = t
Enqueued(t) == node[t] # "none" /\ ret[t] # "EIO"

\* pthread_cond_signal(&Cond): one of the waiting workers, if any, is woken
Signal == \/ Waiting = {} /\ wpc' = wpc
          \/ \E w \in Waiting : wpc' = [wpc EXCEPT ![w] = "woken"]

\* pthread_cond_broadcast(&Cond)
Broadcast == wpc' = [w \in Workers |-> IF w \in Waiting THEN "woken" ELSE wpc[w]]

\* MemFree does nothing for a module that is no longer registered
MemFree(heap, t) == IF Freed THEN heap ELSE [heap EXCEPT ![t] = "freed"]

\* The fault, if any, of using or freeing memory of t
Fault(heap, t, what) == IF heap[t] = "freed" THEN {what} ELSE {}

Return(t, code) == /\ call' = [call EXCEPT ![t] = "returned"]
                   /\ ret' = [ret EXCEPT ![t] = code]

Goto(t, pc) == call' = [call EXCEPT ![t] = pc] /\ UNCHANGED ret

Count(name) == stats' = [stats EXCEPT ![name] = @ + 1]

\* Variant: the append forgets to signal
Enqueue_NoSignal(t) == /\ queue' = Append(queue, t)
                       /\ taskListLength' = taskListLength + 1
                       /\ UNCHANGED wpc
                       /\ Count("TaskAdded")

\* MY_LIST_ADD_TAIL, TaskListLength ++, pthread_cond_signal, TaskAdded ++
Enqueue(t) == /\ queue' = Append(queue, t)
              /\ taskListLength' = taskListLength + 1
              /\ Signal
              /\ Count("TaskAdded")

-----------------------------------------------------------------------------
Init ==
    /\ initpc = "start" /\ polls = 0
    /\ exitpc = "no" /\ exitRet = "none"
    /\ queue = <<>> /\ taskListLength = 0 /\ currentThreadNum = 0
    /\ taskMaxLength \in MaxLengths /\ defaultTimeout \in Timeouts
    /\ wpc = [w \in Workers |-> "unborn"]
    /\ batch = [w \in Workers |-> <<>>]
    /\ call = [t \in Tasks |-> "idle"]
    /\ ret = [t \in Tasks |-> "none"]
    /\ taskStat = [t \in Tasks |-> "UNSPEC"]
    /\ node = [t \in Tasks |-> "none"]
    /\ sync = [t \in Tasks |-> "none"]
    /\ starts = [t \in Tasks |-> 0]
    /\ ends = [t \in Tasks |-> 0]
    /\ stats = [TaskAdded |-> 0, TaskSucceed |-> 0, TaskFailed |-> 0]
    /\ ub = {}

(***************************************************************************)
(* TPoolModuleInit: create the workers, publish the module, then look at   *)
(* CurrentThreadNum at most Polls times and return success in any case.    *)
(***************************************************************************)
InitCreate ==
    /\ initpc = "start"
    /\ initpc' = "polling"
    /\ wpc' = [w \in Workers |-> "top"]
    /\ UNCHANGED <<polls, exitpc, exitRet, poolVars, limitVars, callVars, heapVars,
                   runVars, batch, taskStat, stats, ub>>

Ready == currentThreadNum >= Cardinality(Workers)

InitPoll ==
    /\ initpc = "polling"
    /\ polls' = IF Ready THEN polls ELSE polls + 1
    /\ initpc' = IF Ready \/ polls' = Polls THEN "done" ELSE "polling"
    /\ UNCHANGED <<exitpc, exitRet, poolVars, limitVars, callVars, heapVars,
                   runVars, wpc, batch, taskStat, stats, ub>>

(***************************************************************************)
(* TPoolModuleExit.  The program calls it once Init has returned and when  *)
(* no thread that adds tasks is left: the server joins its own thread and  *)
(* CmdLine's before the pool is torn down.  It joins no worker.            *)
(***************************************************************************)
ExitFlag ==
    /\ "exit" \in Env /\ initpc = "done" /\ exitpc = "no"
    /\ \A t \in Tasks : ~InCall(t)
    /\ exitpc' = "flagged"
    /\ UNCHANGED <<initpc, polls, exitRet, poolVars, limitVars, callVars, heapVars,
                   runVars, wpc, batch, taskStat, stats, ub>>

\* The broadcast under the lock; those of the loop after it find nobody new
ExitBroadcast ==
    /\ exitpc = "flagged"
    /\ exitpc' = "broadcast"
    /\ Broadcast
    /\ UNCHANGED <<initpc, polls, exitRet, poolVars, limitVars, callVars, heapVars,
                   runVars, batch, taskStat, stats, ub>>

\* Destroy the lock, free the pool, unregister: MEM_LEAK if task memory is left
ExitFree ==
    /\ exitpc = "broadcast"
    /\ exitpc' = "freed"
    /\ exitRet' = IF \E t \in Tasks : node[t] = "live" \/ sync[t] = "live"
                  THEN "MEM_LEAK" ELSE "SUCCESS"
    /\ UNCHANGED <<initpc, polls, poolVars, limitVars, callVars, heapVars,
                   runVars, wpc, batch, taskStat, stats, ub>>

(***************************************************************************)
(* The setters CmdLine calls.                                              *)
(***************************************************************************)
TPoolSetMaxQueueLength ==
    /\ Inited /\ ~Exit
    /\ taskMaxLength' \in MaxLengths
    /\ UNCHANGED <<lifeVars, poolVars, defaultTimeout, callVars, heapVars,
                   runVars, wpc, batch, taskStat, stats, ub>>

TPoolSetTimeout ==
    /\ Inited /\ ~Exit
    /\ defaultTimeout' \in Timeouts
    /\ UNCHANGED <<lifeVars, poolVars, taskMaxLength, callVars, heapVars,
                   runVars, wpc, batch, taskStat, stats, ub>>

-----------------------------------------------------------------------------
\* A thread is free to make call t, and not while the pool is being torn down
CanCall(t) ==
    /\ call[t] = "idle"
    /\ Cardinality({u \in Tasks : InCall(u)}) < Callers
    /\ exitpc \in {"no", "freed"}

(***************************************************************************)
(* TPoolAddTask.  The length is checked in one section under the lock and  *)
(* the task appended in another; errors are not counted in TaskFailed.     *)
(***************************************************************************)
AddTaskEnter(t) ==
    /\ t \in AsyncTasks /\ CanCall(t)
    /\ IF Inited THEN Goto(t, "entered") ELSE Return(t, "EINVAL")
    /\ UNCHANGED <<lifeVars, poolVars, limitVars, heapVars, runVars, wpc, batch,
                   taskStat, stats, ub>>

\* Variant: > instead of >=
Full_OffByOne == taskListLength > taskMaxLength
Full == taskListLength >= taskMaxLength

AddTaskCheck(t) ==
    /\ t \in AsyncTasks /\ call[t] = "entered"
    /\ \/ /\ Full
          /\ Signal
          /\ Return(t, "EBUSY")
       \/ /\ ~Full
          /\ Goto(t, "checked")
          /\ UNCHANGED wpc
    /\ UNCHANGED <<lifeVars, poolVars, limitVars, heapVars, runVars, batch,
                   taskStat, stats, ub>>

AddTaskAppend(t) ==
    /\ call[t] = "checked"
    /\ node' = [node EXCEPT ![t] = "live"]
    /\ Enqueue(t)
    /\ Return(t, "SUCCESS")
    /\ UNCHANGED <<lifeVars, limitVars, currentThreadNum, sync, runVars, batch,
                   taskStat, ub>>

(***************************************************************************)
(* TPoolAddTaskAndWait.  The queue's length is not checked.  The task lock *)
(* is taken before the pool lock is released and held until the timed      *)
(* wait; pthread_cond_timedwait is called once, not in a loop.             *)
(***************************************************************************)
SyncEnter(t) ==
    /\ t \in SyncTasks /\ CanCall(t)
    /\ \/ /\ Inited
          /\ Goto(t, "entered")               \* own or default timeout positive
          /\ UNCHANGED stats
       \/ /\ ~Inited \/ ~defaultTimeout
          /\ Return(t, "EINVAL")
          /\ Count("TaskFailed")
    /\ UNCHANGED <<lifeVars, poolVars, limitVars, heapVars, runVars, wpc, batch,
                   taskStat, ub>>

SyncAppend(t) ==
    /\ t \in SyncTasks /\ call[t] = "entered"
    /\ node' = [node EXCEPT ![t] = "live"]
    /\ sync' = [sync EXCEPT ![t] = "live"]
    /\ taskStat' = [taskStat EXCEPT ![t] = "INIT"]
    /\ Enqueue(t)
    /\ Goto(t, "held")
    /\ UNCHANGED <<lifeVars, limitVars, currentThreadNum, runVars, batch, ub>>

\* clock_gettime fails: lock and condition are freed, the node is not
SyncClockFails(t) ==
    /\ "clock" \in Env
    /\ t \in SyncTasks /\ call[t] = "entered"
    /\ node' = [node EXCEPT ![t] = "live"]
    /\ sync' = [sync EXCEPT ![t] = "freed"]
    /\ taskStat' = [taskStat EXCEPT ![t] = "INIT"]
    /\ Count("TaskFailed")
    /\ Return(t, "EIO")
    /\ UNCHANGED <<lifeVars, poolVars, limitVars, runVars, wpc, batch, ub>>

\* Variant: the wait is left out
SyncWait_NoWait(t) ==
    /\ call[t] = "held"
    /\ Goto(t, "signalled")
    /\ UNCHANGED <<lifeVars, poolVars, limitVars, heapVars, runVars, wpc, batch,
                   taskStat, stats, ub>>

SyncWait(t) ==
    /\ call[t] = "held"
    /\ Goto(t, "waiting")
    /\ UNCHANGED <<lifeVars, poolVars, limitVars, heapVars, runVars, wpc, batch,
                   taskStat, stats, ub>>

\* The wait is over without a signal, spuriously or because time is up
SyncWakesAlone(t) ==
    /\ call[t] = "waiting"
    /\ \/ "spurious" \in Env /\ Goto(t, "signalled")
       \/ "timeout" \in Env /\ Goto(t, "timedout")
    /\ UNCHANGED <<lifeVars, poolVars, limitVars, heapVars, runVars, wpc, batch,
                   taskStat, stats, ub>>

\* Variant: the caller leaves lock and condition allocated
CallerFrees_Never(t) == UNCHANGED <<sync, ub>>

\* The caller destroys and frees lock and condition
CallerFrees(t) == /\ sync' = [sync EXCEPT ![t] = "freed"]
                  /\ ub' = ub \cup Fault(sync, t, "double free")

\* timedwait returned 0: unlock, destroy and free lock and condition
SyncReturns(t) ==
    /\ call[t] = "signalled"
    /\ CallerFrees(t)
    /\ Return(t, "SUCCESS")
    /\ UNCHANGED <<lifeVars, poolVars, limitVars, node, runVars, wpc, batch,
                   taskStat, stats>>

\* timedwait returned ETIMEDOUT with the lock held: mark the node ...
SyncMark(t) ==
    /\ call[t] = "timedout"
    /\ taskStat' = [taskStat EXCEPT ![t] = "TIMEOUT"]
    /\ ub' = ub \cup Fault(node, t, "freed node")
    /\ Goto(t, "marked")
    /\ UNCHANGED <<lifeVars, poolVars, limitVars, heapVars, runVars, wpc, batch,
                   stats>>

\* ... and unlock; lock and condition are left for the worker to free
SyncGivesUp(t) ==
    /\ call[t] = "marked"
    /\ ub' = ub \cup Fault(sync, t, "freed task lock")
    /\ Count("TaskFailed")
    /\ Return(t, "ETIMEDOUT")
    /\ UNCHANGED <<lifeVars, poolVars, limitVars, heapVars, runVars, wpc, batch,
                   taskStat>>

-----------------------------------------------------------------------------
(***************************************************************************)
(* _TPoolProcFn.                                                           *)
(***************************************************************************)
\* while (!threadPool->Exit), read without the lock
WorkerTop(w) ==
    /\ wpc[w] = "top" /\ ~Freed
    /\ wpc' = [wpc EXCEPT ![w] = IF Exit THEN "exiting" ELSE "lock"]
    /\ UNCHANGED <<lifeVars, poolVars, limitVars, callVars, heapVars, runVars,
                   batch, taskStat, stats, ub>>

\* A worker that comes to the lock is counted; one back from its wait already is
Counted(w) == currentThreadNum + (IF wpc[w] = "lock" THEN 1 ELSE 0)

\* Variants: the pool's list head is not reset, or only the first task is taken
TakeList_KeepsList(w) == /\ batch' = [batch EXCEPT ![w] = queue]
                         /\ UNCHANGED <<queue, taskListLength>>
TakeList_First(w) == /\ batch' = [batch EXCEPT ![w] = <<Head(queue)>>]
                     /\ queue' = <<>> /\ taskListLength' = 0

\* MY_LIST_HEAD_COPY to listHeadTmp, MY_LIST_NODE_INIT, TaskListLength = 0
TakeList(w) == /\ batch' = [batch EXCEPT ![w] = queue]
               /\ queue' = <<>> /\ taskListLength' = 0

\* The section under the pool lock: leave, take the whole list, or wait
WorkerSection(w) ==
    /\ wpc[w] \in {"lock", "woken"} /\ ~Freed
    /\ \/ /\ Exit
          /\ wpc' = [wpc EXCEPT ![w] = "leaving"]
          /\ currentThreadNum' = Counted(w)
          /\ UNCHANGED <<queue, taskListLength, batch>>
       \/ /\ ~Exit /\ queue # <<>>
          /\ TakeList(w)
          /\ currentThreadNum' = Counted(w) - 1
          /\ wpc' = [wpc EXCEPT ![w] = "batch"]
       \/ /\ ~Exit /\ queue = <<>>
          /\ wpc' = [wpc EXCEPT ![w] = "waiting"]
          /\ currentThreadNum' = Counted(w)
          /\ UNCHANGED <<queue, taskListLength, batch>>
    /\ UNCHANGED <<lifeVars, limitVars, callVars, heapVars, runVars, taskStat,
                   stats, ub>>

\* pthread_cond_wait returns 0 without a signal
WorkerWakesAlone(w) ==
    /\ "spurious" \in Env /\ wpc[w] = "waiting"
    /\ wpc' = [wpc EXCEPT ![w] = "woken"]
    /\ UNCHANGED <<lifeVars, poolVars, limitVars, callVars, heapVars, runVars,
                   batch, taskStat, stats, ub>>

\* CommonReturn: from inside the section, or ("exiting") from the while test
WorkerLeaves(w) ==
    /\ wpc[w] \in {"leaving", "exiting"} /\ ~Freed
    /\ currentThreadNum' = currentThreadNum - 1
    /\ wpc' = [wpc EXCEPT ![w] = IF @ = "leaving" THEN "left" ELSE "exited"]
    /\ UNCHANGED <<lifeVars, queue, taskListLength, limitVars, callVars, heapVars,
                   runVars, batch, taskStat, stats, ub>>

\* Every one of the four above reads or writes the pool
WorkerUsesFreedPool(w) ==
    /\ Freed /\ wpc[w] \in {"top", "lock", "woken", "leaving", "exiting"}
    /\ ub' = ub \cup {"freed pool"}
    /\ UNCHANGED <<lifeVars, poolVars, limitVars, callVars, heapVars, runVars,
                   wpc, batch, taskStat, stats>>

\* Done with the head of the batch: free its node and go on
Dispose(w) ==
    /\ batch' = [batch EXCEPT ![w] = Tail(@)]
    /\ node' = MemFree(node, Head(batch[w]))
    /\ wpc' = [wpc EXCEPT ![w] = IF Tail(batch[w]) = <<>> THEN "top" ELSE "batch"]

\* Free the task lock and condition of a task whose caller has given up
DropSync(t) == /\ sync' = MemFree(sync, t)
               /\ ub' = ub \cup Fault(sync, t, "double free")

\* Variants: TaskStat is not looked at, or any value but UNSPEC will do
TimedOut_Never(t) == FALSE
TimedOut_Any(t) == t \in SyncTasks /\ taskStat[t] # "UNSPEC"
TimedOut(t) == t \in SyncTasks /\ taskStat[t] = "TIMEOUT"

\* Variant: a skipped task is counted as a success
WorkerSkips_Counts(w) ==
    /\ wpc[w] = "batch" /\ TimedOut(Head(batch[w]))
    /\ DropSync(Head(batch[w]))
    /\ Dispose(w)
    /\ Count("TaskSucceed")
    /\ UNCHANGED <<lifeVars, poolVars, limitVars, callVars, runVars, taskStat>>

\* First read of TaskStat: a task that timed out is not run
WorkerSkips(w) ==
    /\ wpc[w] = "batch" /\ TimedOut(Head(batch[w]))
    /\ DropSync(Head(batch[w]))
    /\ Dispose(w)
    /\ UNCHANGED <<lifeVars, poolVars, limitVars, callVars, runVars, taskStat, stats>>

WorkerStarts(w) ==
    /\ wpc[w] = "batch" /\ ~TimedOut(Head(batch[w]))
    /\ starts' = [starts EXCEPT ![Head(batch[w])] = @ + 1]
    /\ wpc' = [wpc EXCEPT ![w] = "running"]
    /\ UNCHANGED <<lifeVars, poolVars, limitVars, callVars, heapVars, ends, batch,
                   taskStat, stats, ub>>

\* TaskFunc has returned
WorkerEnds(w) ==
    /\ wpc[w] = "running"
    /\ ends' = [ends EXCEPT ![Head(batch[w])] = @ + 1]
    /\ wpc' = [wpc EXCEPT ![w] = "ended"]
    /\ UNCHANGED <<lifeVars, poolVars, limitVars, callVars, heapVars, starts, batch,
                   taskStat, stats, ub>>

\* An asynchronous task, or one the second read of TaskStat finds timed out
WorkerFinishes(w) ==
    /\ wpc[w] = "ended"
    /\ LET t == Head(batch[w]) IN
       \/ t \in AsyncTasks /\ UNCHANGED <<sync, ub>>
       \/ TimedOut(t) /\ DropSync(t)
    /\ Dispose(w)
    /\ Count("TaskSucceed")
    /\ UNCHANGED <<lifeVars, poolVars, limitVars, callVars, runVars, taskStat>>

\* The second read of TaskStat finds no timeout: go to signal the caller
WorkerWillSignal(w) ==
    /\ wpc[w] = "ended"
    /\ Head(batch[w]) \in SyncTasks /\ ~TimedOut(Head(batch[w]))
    /\ wpc' = [wpc EXCEPT ![w] = "signal"]
    /\ UNCHANGED <<lifeVars, poolVars, limitVars, callVars, heapVars, runVars,
                   batch, taskStat, stats, ub>>

\* Variant: the signal is sent without the task lock
TaskLockFree_Ignored(t) == TRUE
TaskLockFree(t) == call[t] \notin {"held", "marked"}

\* Lock the task lock (its caller must not hold it), signal, unlock
WorkerSignals(w) ==
    /\ wpc[w] = "signal"
    /\ LET t == Head(batch[w]) IN
       /\ TaskLockFree(t)
       /\ call' = IF call[t] = "waiting" THEN [call EXCEPT ![t] = "signalled"] ELSE call
       /\ ub' = ub \cup Fault(sync, t, "freed task lock")
    /\ Dispose(w)
    /\ Count("TaskSucceed")
    /\ UNCHANGED <<lifeVars, poolVars, limitVars, ret, sync, runVars, taskStat>>

-----------------------------------------------------------------------------
ModuleStep == \/ InitCreate \/ InitPoll
              \/ ExitFlag \/ ExitBroadcast \/ ExitFree
              \/ TPoolSetMaxQueueLength \/ TPoolSetTimeout

CallBegins(t) == AddTaskEnter(t) \/ SyncEnter(t)

CallStep(t) == \/ AddTaskCheck(t) \/ AddTaskAppend(t)
               \/ SyncAppend(t) \/ SyncClockFails(t) \/ SyncWait(t)
               \/ SyncReturns(t) \/ SyncMark(t) \/ SyncGivesUp(t)

WorkerStep(w) == \/ WorkerTop(w) \/ WorkerSection(w) \/ WorkerLeaves(w)
                 \/ WorkerUsesFreedPool(w) \/ WorkerSkips(w) \/ WorkerStarts(w)
                 \/ WorkerFinishes(w) \/ WorkerWillSignal(w) \/ WorkerSignals(w)

Next ==
    /\ ub = {}
    /\ \/ ModuleStep
       \/ \E t \in Tasks : CallBegins(t) \/ CallStep(t) \/ SyncWakesAlone(t)
       \/ \E w \in Workers : WorkerStep(w) \/ WorkerEnds(w) \/ WorkerWakesAlone(w)

(***************************************************************************)
(* Every thread that can go on does: the scheduler runs every runnable     *)
(* thread, and a free mutex is got in the end because only finitely many   *)
(* sections compete for it.  Time passes, so a timed wait expires; a       *)
(* TaskFunc returns unless "hang"; nothing makes a thread call the pool.   *)
(***************************************************************************)
Fairness ==
    /\ WF_vars(ub = {} /\ (InitCreate \/ InitPoll))
    /\ WF_vars(ub = {} /\ (ExitBroadcast \/ ExitFree))
    /\ \A t \in Tasks : WF_vars(ub = {} /\ CallStep(t))
    /\ \A t \in Tasks : "timeout" \in Env => WF_vars(ub = {} /\ SyncWakesAlone(t))
    /\ \A w \in Workers : WF_vars(ub = {} /\ WorkerStep(w))
    /\ \A w \in Workers : "hang" \notin Env => WF_vars(ub = {} /\ WorkerEnds(w))

Spec == Init /\ [][Next]_vars
FairSpec == Spec /\ Fairness

-----------------------------------------------------------------------------
(***************************************************************************)
(* Properties.                                                             *)
(***************************************************************************)
ModuleType ==
    /\ initpc \in {"start", "polling", "done"} /\ polls \in Nat
    /\ exitpc \in {"no", "flagged", "broadcast", "freed"} /\ exitRet \in Returns
    /\ stats \in [{"TaskAdded", "TaskSucceed", "TaskFailed"} -> Nat]
    /\ ub \subseteq Faults

PoolType ==
    /\ queue \in Seq(Tasks) /\ taskListLength \in Nat /\ currentThreadNum \in Int
    /\ taskMaxLength \in MaxLengths /\ defaultTimeout \in Timeouts

WorkerType == wpc \in [Workers -> WorkerPcs] /\ batch \in [Workers -> Seq(Tasks)]

TaskType ==
    /\ call \in [Tasks -> CallPcs] /\ ret \in [Tasks -> Returns]
    /\ taskStat \in [Tasks -> Stats]
    /\ node \in [Tasks -> Memory] /\ sync \in [Tasks -> Memory]
    /\ starts \in [Tasks -> Nat] /\ ends \in [Tasks -> Nat]

\* Every variable holds a value of its kind.
TypeOK == ModuleType /\ PoolType /\ WorkerType /\ TaskType

\* Taking the whole list (l.98-105) while others append and take: no task's
\* function is called twice, whichever workers and callers interleave.
AtMostOnce == \A t \in Tasks : starts[t] <= 1

\* A task that was put on the list is still on it, in the batch of a worker, has
\* been run, or was marked as timed out by its caller: none drops out between
\* the copy of the list head and the end of the batch.
NothingLost ==
    \A t \in Tasks : Enqueued(t) =>
        \/ InQueue(t) \/ \E w \in Workers : InBatch(w, t)
        \/ ends[t] = 1 \/ taskStat[t] = "TIMEOUT"

\* TaskListLength, which TPoolAddTask tests and the health report prints, is the
\* number of nodes on the list.
LengthAgrees == taskListLength = Len(queue)

\* No lost wakeup: while a task is on the list some worker is not asleep on the
\* condition variable (each append signals, each sleeper found the list empty).
NoSleepOverQueue == queue # <<>> => \E w \in Workers : wpc[w] # "waiting"

\* TPoolAddTask checks the limit in one section and appends in another, so the
\* list may pass the limit, but by no more than the other callers in between.
QueueOvershoot ==
    LET queued == {t \in AsyncTasks : InQueue(t)} IN
    queued # {} => \E m \in MaxLengths : Cardinality(queued) <= m + Callers - 1

ExpiredKept == \A t \in SyncTasks : taskStat[t] = "TIMEOUT" => starts'[t] = starts[t]

\* Once a caller has given up on a task that has not started, its function is
\* never called: after -ETIMEDOUT the caller may reuse TaskArg.
ExpiredNeverStarts == [][ExpiredKept]_vars

\* Caller and worker decide on their own, from the return code and from TaskStat,
\* who frees the task lock: never both.
NoDoubleFree == "double free" \notin ub

Pending == {t \in Tasks : InQueue(t) \/ \E w \in Workers : InBatch(w, t)}
Skipped == {t \in SyncTasks : taskStat[t] = "TIMEOUT" /\ starts[t] = 0} \ Pending

\* CurrentThreadNum counts the workers parked in the section, which is what Init
\* waits for; each worker that leaves by the while test takes one too many off.
CurrentThreadNumLaw ==
    currentThreadNum + Cardinality({w \in Workers : wpc[w] = "exited"})
        = Cardinality({w \in Workers : wpc[w] \in {"waiting", "woken", "leaving"}})

\* The numbers kept beside the list, which limit it and make the health report, are
\* right: its length, the parked workers, and of the tasks added those that
\* succeeded, are pending, or were skipped after their timeout.
CountersAgree ==
    /\ LengthAgrees /\ CurrentThreadNumLaw
    /\ stats.TaskAdded = stats.TaskSucceed + Cardinality(Pending) + Cardinality(Skipped)

\* The synchronous call returns success only after the task's function returned:
\* "sync api, you can care about TaskArg inout".
SyncSuccessRan == \A t \in SyncTasks : ret[t] = "SUCCESS" => ends[t] = 1

\* TPoolModuleExit called when every task has been handled reports no leak.
CleanExit == [][ExitFree /\ Pending = {} => exitRet' = "SUCCESS"]_vars

\* Every task TPoolAddTask accepted is run, unless the pool is torn down.
AcceptedRuns == \A t \in AsyncTasks : Enqueued(t) ~> (ends[t] = 1 \/ Exit)

\* A synchronous call returns: the signal of its worker is never missed.
SyncAnswered == \A t \in SyncTasks : call[t] = "entered" ~> call[t] = "returned"

-----------------------------------------------------------------------------
(***************************************************************************)
(* The pool seen by its callers.                                           *)
(***************************************************************************)
absState == [t \in Tasks |->
    CASE ends[t] > 0                                 -> "done"
      [] ends[t] = 0 /\ starts[t] > 0                -> "started"
      [] starts[t] = 0 /\ taskStat[t] = "TIMEOUT"    -> "expired"
      [] starts[t] = 0 /\ taskStat[t] # "TIMEOUT" /\ Enqueued(t) -> "accepted"
      [] OTHER                                       -> "new"]

absAnswer == [t \in Tasks |->
    CASE ret[t] = "none"      -> "none"
      [] ret[t] = "SUCCESS"   -> "ok"
      [] ret[t] = "ETIMEDOUT" -> "late"
      [] OTHER                -> "refused"]

Abs == INSTANCE TaskPool WITH state <- absState, answer <- absAnswer,
                              TrueWakeups <- "spurious" \notin Env

\* The pool implements TaskPool: every step is one of its steps or none.
Refines == Abs!Spec

=============================================================================
