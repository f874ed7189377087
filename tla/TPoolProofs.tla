---------------------------- MODULE TPoolProofs ----------------------------
(***************************************************************************)
(* Proofs about the thread pool, for every value of its constants.         *)
(***************************************************************************)
EXTENDS TPool, FiniteSetTheorems, SequenceTheorems, TLAPS

\* A worker has a batch exactly while it works through one, and none before it
\* is created
BatchShape ==
    /\ \A w \in Workers :
        batch[w] # <<>> <=> wpc[w] \in {"batch", "running", "ended", "signal"}
    /\ initpc = "start" => \A w \in Workers : wpc[w] = "unborn"

LEMMA CountType ==
    ASSUME NEW name \in {"TaskAdded", "TaskSucceed", "TaskFailed"}, Count(name),
           stats \in [{"TaskAdded", "TaskSucceed", "TaskFailed"} -> Nat]
    PROVE  stats' \in [{"TaskAdded", "TaskSucceed", "TaskFailed"} -> Nat]
BY DEF Count

\* Disposing of the head of a batch that is not empty
LEMMA DisposeType ==
    ASSUME NEW w \in Workers, WorkerType, batch[w] # <<>>, Dispose(w)
    PROVE  WorkerType'
<1>1. Tail(batch[w]) \in Seq(Tasks)
    BY HeadTailProperties DEF WorkerType
<1>2. batch' \in [Workers -> Seq(Tasks)]
    BY <1>1 DEF WorkerType, Dispose
<1>3. wpc' \in [Workers -> WorkerPcs]
    BY DEF WorkerType, Dispose, WorkerPcs
<1> QED BY <1>2, <1>3 DEF WorkerType

LEMMA SignalType == WorkerType /\ BatchShape /\ batch' = batch /\ initpc' = initpc
                        /\ (wpc' = wpc \/ Signal) => WorkerType' /\ BatchShape'
BY DEF Signal, Waiting, WorkerType, WorkerPcs, BatchShape

LEMMA TypeInductive == TypeOK /\ BatchShape /\ [Next]_vars => TypeOK' /\ BatchShape'
<1> SUFFICES ASSUME ModuleType, PoolType, WorkerType, TaskType, BatchShape, [Next]_vars
             PROVE  ModuleType' /\ PoolType' /\ WorkerType' /\ TaskType' /\ BatchShape'
    BY DEF TypeOK
<1> USE DEF lifeVars, poolVars, limitVars, callVars, heapVars, runVars
<1>1. CASE InitPoll
    <2>1. initpc' \in {"polling", "done"}
        BY <1>1, Zenon DEF InitPoll
    <2>2. polls' \in Nat
        BY <1>1 DEF InitPoll, ModuleType
    <2> QED BY <1>1, <2>1, <2>2 DEF InitPoll, ModuleType, PoolType, WorkerType, TaskType,
            BatchShape
<1>2. CASE InitCreate \/ ExitBroadcast
    <2>1. ModuleType' /\ PoolType' /\ TaskType'
        BY <1>2 DEF InitCreate, ExitBroadcast, ModuleType, PoolType, TaskType
    <2>2. WorkerType' /\ BatchShape'
        BY <1>2 DEF InitCreate, ExitBroadcast, Broadcast, Waiting, WorkerType, WorkerPcs,
            BatchShape
    <2> QED BY <2>1, <2>2
<1>3. CASE \/ ExitFlag \/ ExitFree \/ TPoolSetMaxQueueLength \/ TPoolSetTimeout
           \/ UNCHANGED vars
    <2>1. ModuleType' /\ PoolType'
        BY <1>3 DEF ExitFlag, ExitFree, TPoolSetMaxQueueLength, TPoolSetTimeout, vars,
            ModuleType, PoolType, Returns
    <2>2. WorkerType' /\ TaskType' /\ BatchShape'
        BY <1>3 DEF ExitFlag, ExitFree, TPoolSetMaxQueueLength, TPoolSetTimeout, vars,
            WorkerType, TaskType, BatchShape
    <2> QED BY <2>1, <2>2
\* calls: what they do to the tables of the tasks, to the statistics and to ub
<1>4. ASSUME NEW t \in Tasks, CallBegins(t) \/ CallStep(t) \/ SyncWakesAlone(t)
      PROVE  ModuleType' /\ PoolType' /\ WorkerType' /\ TaskType' /\ BatchShape'
    <2> USE DEF CallBegins, CallStep
    <2>1. /\ \E c \in CallPcs : call' = [call EXCEPT ![t] = c]
          /\ ret' = ret \/ \E c \in Returns : ret' = [ret EXCEPT ![t] = c]
        BY <1>4 DEF AddTaskEnter, AddTaskCheck, AddTaskAppend, SyncEnter, SyncAppend,
            SyncClockFails, SyncWait, SyncWakesAlone, SyncReturns, SyncMark, SyncGivesUp,
            Goto, Return, CallPcs, Returns
    <2>2. /\ node' = node \/ \E m \in Memory : node' = [node EXCEPT ![t] = m]
          /\ sync' = sync \/ \E m \in Memory : sync' = [sync EXCEPT ![t] = m]
          /\ taskStat' = taskStat \/ \E s \in Stats : taskStat' = [taskStat EXCEPT ![t] = s]
          /\ UNCHANGED <<starts, ends>>
        BY <1>4 DEF AddTaskEnter, AddTaskCheck, AddTaskAppend, SyncEnter, SyncAppend,
            SyncClockFails, SyncWait, SyncWakesAlone, SyncReturns, CallerFrees, SyncMark,
            SyncGivesUp, Memory, Stats
    <2>3. TaskType'
        BY <2>1, <2>2 DEF TaskType
    <2>4. \/ stats' = stats
          \/ \E name \in {"TaskAdded", "TaskFailed"} : Count(name)
        BY <1>4 DEF AddTaskEnter, AddTaskCheck, AddTaskAppend, Enqueue, SyncEnter, SyncAppend,
            SyncClockFails, SyncWait, SyncWakesAlone, SyncReturns, SyncMark, SyncGivesUp
    <2>5. ub' \subseteq ub \cup Faults /\ UNCHANGED lifeVars
        BY <1>4 DEF AddTaskEnter, AddTaskCheck, AddTaskAppend, SyncEnter, SyncAppend,
            SyncClockFails, SyncWait, SyncWakesAlone, SyncReturns, CallerFrees, SyncMark,
            SyncGivesUp, Fault, Faults
    <2>6. ModuleType'
        BY <2>4, <2>5, CountType DEF ModuleType
    <2>7. /\ \/ UNCHANGED <<queue, taskListLength>>
             \/ queue' = Append(queue, t) /\ taskListLength' = taskListLength + 1
          /\ UNCHANGED <<currentThreadNum, limitVars>>
          /\ batch' = batch /\ (wpc' = wpc \/ Signal)
        BY <1>4 DEF AddTaskEnter, AddTaskCheck, AddTaskAppend, Enqueue, SyncEnter, SyncAppend,
            SyncClockFails, SyncWait, SyncWakesAlone, SyncReturns, SyncMark, SyncGivesUp
    <2>8. PoolType'
        BY <2>7 DEF PoolType
    <2>9. WorkerType' /\ BatchShape'
        BY <2>5, <2>7, SignalType
    <2> QED BY <2>3, <2>6, <2>8, <2>9
\* workers outside their batch
<1>5. ASSUME NEW w \in Workers, WorkerTop(w) \/ WorkerSection(w) \/ WorkerWakesAlone(w)
                                  \/ WorkerLeaves(w) \/ WorkerUsesFreedPool(w)
      PROVE  ModuleType' /\ PoolType' /\ WorkerType' /\ TaskType' /\ BatchShape'
    <2>1. ModuleType' /\ TaskType'
        BY <1>5 DEF WorkerTop, WorkerSection, WorkerWakesAlone, WorkerLeaves,
            WorkerUsesFreedPool, ModuleType, Faults, TaskType
    <2>2. PoolType'
        <3>1. Counted(w) \in Int /\ currentThreadNum \in Int
            BY DEF Counted, PoolType
        <3>2. currentThreadNum' \in {currentThreadNum, currentThreadNum - 1, Counted(w),
                                     Counted(w) - 1}
            BY <1>5 DEF WorkerTop, WorkerSection, WorkerWakesAlone, WorkerLeaves,
                WorkerUsesFreedPool
        <3>3. UNCHANGED <<queue, taskListLength>> \/ (queue' = <<>> /\ taskListLength' = 0)
            BY <1>5 DEF WorkerTop, WorkerSection, TakeList, WorkerWakesAlone, WorkerLeaves,
                WorkerUsesFreedPool
        <3>4. UNCHANGED limitVars
            BY <1>5 DEF WorkerTop, WorkerSection, WorkerWakesAlone, WorkerLeaves,
                WorkerUsesFreedPool
        <3>5. currentThreadNum' \in Int
            BY <3>1, <3>2
        <3>6. queue' \in Seq(Tasks) /\ taskListLength' \in Nat
            <4>1. queue \in Seq(Tasks) /\ taskListLength \in Nat /\ <<>> \in Seq(Tasks)
                BY DEF PoolType
            <4>2. CASE UNCHANGED <<queue, taskListLength>>
                BY <4>1, <4>2
            <4>3. CASE queue' = <<>> /\ taskListLength' = 0
                BY <4>1, <4>3
            <4> QED BY <3>3, <4>2, <4>3
        <3> QED BY <3>4, <3>5, <3>6 DEF PoolType
    <2>3. wpc[w] # "unborn" /\ batch[w] = <<>>
        BY <1>5 DEF WorkerTop, WorkerSection, WorkerWakesAlone, WorkerLeaves,
            WorkerUsesFreedPool, BatchShape
    <2>4. /\ initpc # "start" /\ initpc' = initpc
          /\ \/ /\ batch' = batch
                /\ \/ wpc' = wpc
                   \/ \E pc \in {"exiting", "lock", "leaving", "waiting", "woken", "left",
                                 "exited"} :
                        wpc' = [wpc EXCEPT ![w] = pc]
             \/ /\ batch' = [batch EXCEPT ![w] = queue] /\ queue # <<>>
                /\ wpc' = [wpc EXCEPT ![w] = "batch"]
        BY <1>5, <2>3 DEF WorkerTop, WorkerSection, TakeList, WorkerWakesAlone, WorkerLeaves,
            WorkerUsesFreedPool, BatchShape
    <2>5. WorkerType' /\ BatchShape'
        BY <2>3, <2>4 DEF WorkerType, WorkerPcs, PoolType, BatchShape
    <2> QED BY <2>1, <2>2, <2>5
<1>6. ASSUME NEW w \in Workers, WorkerStarts(w) \/ WorkerEnds(w) \/ WorkerWillSignal(w)
      PROVE  ModuleType' /\ PoolType' /\ WorkerType' /\ TaskType' /\ BatchShape'
    <2>1. ModuleType' /\ PoolType'
        BY <1>6 DEF WorkerStarts, WorkerEnds, WorkerWillSignal, ModuleType, PoolType
    <2>2. batch[w] # <<>> /\ initpc # "start"
        BY <1>6 DEF WorkerStarts, WorkerEnds, WorkerWillSignal, BatchShape
    <2>3. /\ batch' = batch /\ initpc' = initpc
          /\ \E pc \in {"running", "ended", "signal"} : wpc' = [wpc EXCEPT ![w] = pc]
        BY <1>6 DEF WorkerStarts, WorkerEnds, WorkerWillSignal
    <2>4. WorkerType' /\ BatchShape'
        BY <2>2, <2>3 DEF WorkerType, WorkerPcs, BatchShape
    <2>5. TaskType'
        BY <1>6 DEF WorkerStarts, WorkerEnds, WorkerWillSignal, TaskType
    <2> QED BY <2>1, <2>4, <2>5
<1>7. ASSUME NEW w \in Workers, WorkerSkips(w) \/ WorkerFinishes(w) \/ WorkerSignals(w)
      PROVE  ModuleType' /\ PoolType' /\ WorkerType' /\ TaskType' /\ BatchShape'
    <2>1. batch[w] # <<>> /\ initpc # "start" /\ Dispose(w)
        BY <1>7 DEF WorkerSkips, WorkerFinishes, WorkerSignals, BatchShape
    <2>2. /\ stats' = stats \/ Count("TaskSucceed")
          /\ ub' \subseteq ub \cup Faults /\ UNCHANGED <<lifeVars, poolVars, limitVars>>
        BY <1>7 DEF WorkerSkips, WorkerFinishes, WorkerSignals, DropSync, Fault, Faults
    <2>3. ModuleType' /\ PoolType'
        BY <2>2, CountType DEF ModuleType, PoolType
    <2>4. WorkerType'
        BY <2>1, DisposeType
    <2>5. BatchShape'
        BY <2>1, <2>2 DEF Dispose, WorkerType, BatchShape
    <2>6. TaskType'
        BY <1>7 DEF WorkerSkips, WorkerFinishes, WorkerSignals, Dispose, DropSync, MemFree,
            TaskType, CallPcs, Memory
    <2> QED BY <2>3, <2>4, <2>5, <2>6
<1> QED BY <1>1, <1>2, <1>3, <1>4, <1>5, <1>6, <1>7 DEF Next, ModuleStep, WorkerStep

-----------------------------------------------------------------------------
(***************************************************************************)
(* The inductive invariant behind AtMostOnce and NothingLost: a task is in *)
(* at most one place, once; before it is taken up its function was not     *)
(* called; the worker that has it at the head of its batch called it once. *)
(***************************************************************************)
Distinct(s) == \A i, j \in 1..Len(s) : s[i] = s[j] => i = j

Apart ==
    /\ Distinct(queue) /\ \A w \in Workers : Distinct(batch[w])
    /\ \A t \in Tasks, w \in Workers : ~(InQueue(t) /\ InBatch(w, t))
    /\ \A t \in Tasks, v, w \in Workers : InBatch(v, t) /\ InBatch(w, t) => v = w

Untouched(t) == starts[t] = 0 /\ ends[t] = 0

\* The caller has not put its task on the list yet
Outside == \A t \in Tasks :
    call[t] \in {"idle", "entered", "checked"} =>
        Untouched(t) /\ ~InQueue(t) /\ \A w \in Workers : ~InBatch(w, t)

Waits == \A t \in Tasks :
    /\ InQueue(t) => Untouched(t)
    /\ \A w \in Workers :
        InBatch(w, t) /\ (wpc[w] = "batch" \/ t # Head(batch[w])) => Untouched(t)

Runs ==
    /\ \A w \in Workers :
        /\ wpc[w] = "running" => starts[Head(batch[w])] = 1 /\ ends[Head(batch[w])] = 0
        /\ wpc[w] \in {"ended", "signal"} =>
            starts[Head(batch[w])] = 1 /\ ends[Head(batch[w])] = 1
    /\ \A t \in Tasks : starts[t] \in {0, 1} /\ ends[t] \in {0, 1}

Unanswered == \A t \in Tasks :
    /\ call[t] # "returned" => ret[t] = "none"
    /\ call[t] \in {"idle", "entered", "checked"} => node[t] = "none"

PlaceInv == Apart /\ Outside /\ Waits /\ Runs /\ Unanswered /\ NothingLost

\* What the proofs carry along: the types, and where every task is.
IInv == TypeOK /\ BatchShape /\ PlaceInv

\* Appending a task that is not on the list
LEMMA Appended ==
    ASSUME TypeOK, NEW t \in Tasks, ~InQueue(t), Distinct(queue),
           queue' = Append(queue, t)
    PROVE  /\ \A u \in Tasks : InQueue(u)' <=> InQueue(u) \/ u = t
           /\ Distinct(queue')
<1>1. /\ queue \in Seq(Tasks)
      /\ Len(queue') = Len(queue) + 1
      /\ \A i \in 1..Len(queue) : queue'[i] = queue[i]
      /\ queue'[Len(queue) + 1] = t
    BY DEF TypeOK, PoolType
<1>2. Len(queue) \in Nat
    BY <1>1
<1>3. ASSUME NEW u \in Tasks PROVE InQueue(u)' <=> InQueue(u) \/ u = t
    <2>1. InQueue(u) => InQueue(u)'
        BY <1>1, <1>2 DEF InQueue
    <2>2. InQueue(t)'
        BY <1>1, <1>2 DEF InQueue
    <2>3. ASSUME InQueue(u)', u # t PROVE InQueue(u)
        BY <1>1, <1>2, <2>3 DEF InQueue
    <2> QED BY <2>1, <2>2, <2>3
<1>4. Distinct(queue')
    BY <1>1, <1>2 DEF Distinct, InQueue
<1> QED BY <1>3, <1>4

\* A worker takes the whole list
LEMMA Taken ==
    ASSUME TypeOK, BatchShape, NEW w \in Workers, batch[w] = <<>>, Apart,
           batch' = [batch EXCEPT ![w] = queue], queue' = <<>>
    PROVE  /\ \A u \in Tasks : ~InQueue(u)'
           /\ \A u \in Tasks : InBatch(w, u)' <=> InQueue(u)
           /\ \A u \in Tasks, v \in Workers \ {w} : InBatch(v, u)' <=> InBatch(v, u)
           /\ Apart'
<1>1. /\ batch'[w] = queue
      /\ \A v \in Workers \ {w} : batch'[v] = batch[v]
      /\ batch \in [Workers -> Seq(Tasks)]
    BY DEF TypeOK, WorkerType
<1>2. \A u \in Tasks : ~InQueue(u)'
    BY DEF InQueue
<1>3. \A u \in Tasks : InBatch(w, u)' <=> InQueue(u)
    BY <1>1 DEF InBatch, InQueue
<1>4. \A u \in Tasks, v \in Workers \ {w} : InBatch(v, u)' <=> InBatch(v, u)
    BY <1>1 DEF InBatch
<1>5. Distinct(queue') /\ \A v \in Workers : Distinct(batch'[v])
    BY <1>1 DEF Apart, Distinct
<1>6. \A t \in Tasks, u, v \in Workers : InBatch(u, t)' /\ InBatch(v, t)' => u = v
    BY <1>3, <1>4 DEF Apart
<1> QED BY <1>2, <1>3, <1>4, <1>5, <1>6 DEF Apart

\* A worker is done with the head of its batch
LEMMA Disposed ==
    ASSUME TypeOK, NEW w \in Workers, batch[w] # <<>>, Apart,
           batch' = [batch EXCEPT ![w] = Tail(@)], queue' = queue
    PROVE  /\ \A u \in Tasks : InQueue(u)' <=> InQueue(u)
           /\ \A u \in Tasks : InBatch(w, u)' <=> InBatch(w, u) /\ u # Head(batch[w])
           /\ \A u \in Tasks, v \in Workers \ {w} : InBatch(v, u)' <=> InBatch(v, u)
           /\ Apart'
<1> DEFINE b == batch[w]
<1>1. /\ b \in Seq(Tasks) /\ Len(b) \in Nat \ {0}
      /\ batch'[w] = Tail(b) /\ Head(b) = b[1]
      /\ Len(Tail(b)) = Len(b) - 1
      /\ \A i \in 1..(Len(b) - 1) : Tail(b)[i] = b[i + 1]
      /\ \A v \in Workers \ {w} : batch'[v] = batch[v]
    BY DEF TypeOK, WorkerType
<1>2. \A i, j \in 1..Len(b) : b[i] = b[j] => i = j
    BY DEF Apart, Distinct
<1>3. \A u \in Tasks : InQueue(u)' <=> InQueue(u)
    BY DEF InQueue
<1>4. ASSUME NEW u \in Tasks PROVE InBatch(w, u)' <=> InBatch(w, u) /\ u # Head(b)
    <2> HIDE DEF b
    <2>1. InBatch(w, u)' <=> \E i \in 1..(Len(b) - 1) : b[i + 1] = u
        BY <1>1 DEF InBatch
    <2>2. InBatch(w, u) <=> \E i \in 1..Len(b) : b[i] = u
        BY DEF InBatch, b
    <2>3. ASSUME NEW i \in 1..(Len(b) - 1), b[i + 1] = u
          PROVE  (\E k \in 1..Len(b) : b[k] = u) /\ u # b[1]
        BY <1>1, <1>2, <2>3
    <2>4. ASSUME NEW k \in 1..Len(b), b[k] = u, u # b[1]
          PROVE  \E i \in 1..(Len(b) - 1) : b[i + 1] = u
        <3>1. k - 1 \in 1..(Len(b) - 1) /\ b[(k - 1) + 1] = u
            BY <1>1, <2>4
        <3> QED BY <3>1
    <2> QED BY <1>1, <2>1, <2>2, <2>3, <2>4
<1>5. \A u \in Tasks, v \in Workers \ {w} : InBatch(v, u)' <=> InBatch(v, u)
    BY <1>1 DEF InBatch
<1>6. Distinct(batch'[w])
    <2> HIDE DEF b
    <2>1. ASSUME NEW i \in 1..(Len(b) - 1), NEW j \in 1..(Len(b) - 1),
                 b[i + 1] = b[j + 1]
          PROVE  i = j
        BY <1>1, <1>2, <2>1
    <2>2. Distinct(Tail(b))
        BY <1>1, <2>1 DEF Distinct
    <2> QED BY <1>1, <2>2
<1>7. Distinct(queue') /\ \A v \in Workers : Distinct(batch'[v])
    BY <1>1, <1>6 DEF Apart, Distinct
<1> QED BY <1>3, <1>4, <1>5, <1>7 DEF Apart

\* A task at the head of a batch is in that batch
LEMMA HeadInBatch ==
    ASSUME TypeOK, NEW w \in Workers, batch[w] # <<>>
    PROVE  Head(batch[w]) \in Tasks /\ InBatch(w, Head(batch[w]))
<1>1. batch[w] \in Seq(Tasks) /\ Len(batch[w]) \in Nat \ {0}
    BY DEF TypeOK, WorkerType
<1>2. Head(batch[w]) = batch[w][1] /\ 1 \in 1..Len(batch[w])
    BY <1>1
<1> QED BY <1>1, <1>2 DEF InBatch

\* A step that leaves the list and the batches alone
LEMMA SameLists ==
    ASSUME queue' = queue, batch' = batch
    PROVE  /\ \A t \in Tasks : InQueue(t)' <=> InQueue(t)
           /\ \A t \in Tasks, w \in Workers : InBatch(w, t)' <=> InBatch(w, t)
           /\ Apart => Apart'
<1>1. \A t \in Tasks : InQueue(t)' <=> InQueue(t)
    BY DEF InQueue
<1>2. \A t \in Tasks, w \in Workers : InBatch(w, t)' <=> InBatch(w, t)
    BY DEF InBatch
<1> QED BY <1>1, <1>2 DEF Apart, Distinct

\* Steps that concern no task
Idle == \/ InitCreate \/ InitPoll \/ ExitFlag \/ ExitBroadcast \/ ExitFree
        \/ TPoolSetMaxQueueLength \/ TPoolSetTimeout
        \/ \E w \in Workers : \/ WorkerTop(w) \/ WorkerWakesAlone(w) \/ WorkerLeaves(w)
                              \/ WorkerUsesFreedPool(w) \/ WorkerWillSignal(w)
        \/ UNCHANGED vars

taskVars == <<queue, batch, call, ret, node, taskStat, starts, ends>>

LEMMA IdleStep == Idle => UNCHANGED <<taskVars, sync, stats, taskListLength>>
<1> SUFFICES ASSUME Idle PROVE UNCHANGED <<taskVars, sync, stats, taskListLength>>
    OBVIOUS
<1> USE DEF taskVars, poolVars, callVars, heapVars, runVars
<1>1. CASE InitCreate \/ InitPoll \/ ExitFlag \/ ExitBroadcast \/ ExitFree
           \/ TPoolSetMaxQueueLength \/ TPoolSetTimeout \/ UNCHANGED vars
    BY <1>1 DEF InitCreate, InitPoll, ExitFlag, ExitBroadcast, ExitFree,
        TPoolSetMaxQueueLength, TPoolSetTimeout, vars
<1>2. ASSUME NEW w \in Workers, WorkerTop(w) \/ WorkerWakesAlone(w) \/ WorkerLeaves(w)
                              \/ WorkerUsesFreedPool(w) \/ WorkerWillSignal(w)
      PROVE  UNCHANGED <<taskVars, sync, stats, taskListLength>>
    BY <1>2 DEF WorkerTop, WorkerWakesAlone, WorkerLeaves, WorkerUsesFreedPool,
        WorkerWillSignal
<1> QED BY <1>1, <1>2 DEF Idle

\* The steps that do
LEMMA StepKinds == [Next]_vars =>
    \/ Idle
    \/ \E t \in Tasks : \/ AddTaskEnter(t) \/ AddTaskCheck(t) \/ AddTaskAppend(t)
                        \/ SyncEnter(t) \/ SyncAppend(t) \/ SyncClockFails(t) \/ SyncWait(t)
                        \/ SyncWakesAlone(t) \/ SyncReturns(t) \/ SyncMark(t)
                        \/ SyncGivesUp(t)
    \/ \E w \in Workers : \/ WorkerSection(w) \/ WorkerSkips(w) \/ WorkerStarts(w)
                          \/ WorkerEnds(w) \/ WorkerFinishes(w) \/ WorkerSignals(w)
BY DEF Next, ModuleStep, CallBegins, CallStep, WorkerStep, Idle

\* Which workers have a task in hand, and how far they are with it
Phases == \A w \in Workers :
    /\ wpc'[w] = "batch" <=> wpc[w] = "batch"
    /\ wpc'[w] = "running" <=> wpc[w] = "running"
    /\ wpc'[w] \in {"ended", "signal"} <=> wpc[w] \in {"ended", "signal"}

LEMMA SignalPhases == TypeOK /\ (wpc' = wpc \/ Signal) => Phases
BY DEF Signal, Waiting, Phases, TypeOK, WorkerType

LEMMA IdlePhases == TypeOK /\ BatchShape /\ Idle => Phases
<1> SUFFICES ASSUME TypeOK, BatchShape, Idle PROVE Phases
    OBVIOUS
<1>1. CASE InitCreate
    BY <1>1 DEF InitCreate, BatchShape, Phases
<1>2. CASE ExitBroadcast
    BY <1>2 DEF ExitBroadcast, Broadcast, Waiting, Phases
<1>3. CASE wpc' = wpc
    BY <1>3 DEF Phases
<1>4. ASSUME NEW w \in Workers, WorkerTop(w) \/ WorkerWakesAlone(w) \/ WorkerLeaves(w)
                              \/ WorkerWillSignal(w)
      PROVE  Phases
    BY <1>4 DEF WorkerTop, WorkerWakesAlone, WorkerLeaves, WorkerWillSignal, Phases, TypeOK,
        WorkerType
<1> QED BY <1>1, <1>2, <1>3, <1>4 DEF Idle, InitPoll, ExitFlag, ExitFree,
        TPoolSetMaxQueueLength, TPoolSetTimeout, WorkerUsesFreedPool, vars

\* A step that leaves the tasks where they are
LEMMA PlaceKept ==
    ASSUME IInv, UNCHANGED <<queue, batch, starts, ends>>, Phases
    PROVE  Apart' /\ Waits' /\ Runs'
<1>1. /\ \A u \in Tasks : InQueue(u)' <=> InQueue(u)
      /\ \A u \in Tasks, v \in Workers : InBatch(v, u)' <=> InBatch(v, u)
      /\ Apart'
    BY SameLists DEF IInv, PlaceInv
<1>2. Waits'
    BY <1>1 DEF Phases, Waits, Untouched, IInv, PlaceInv
<1>3. Runs'
    BY DEF Phases, Runs, IInv, PlaceInv
<1> QED BY <1>1, <1>2, <1>3

LEMMA PlaceInductive == IInv /\ [Next]_vars => PlaceInv'
<1> SUFFICES ASSUME IInv, [Next]_vars PROVE PlaceInv'
    OBVIOUS
<1> USE DEF IInv, PlaceInv, poolVars, callVars, heapVars, runVars
<1>1. CASE Idle
    <2>1. UNCHANGED taskVars /\ Phases
        BY <1>1, IdleStep, IdlePhases
    <2>2. Apart' /\ Waits' /\ Runs'
        BY <2>1, PlaceKept DEF taskVars
    <2>3. Outside' /\ Unanswered' /\ NothingLost'
        BY <2>1, SameLists DEF taskVars, Outside, Untouched, Unanswered, NothingLost, Enqueued
    <2> QED BY <2>2, <2>3
<1>2. ASSUME NEW t \in Tasks,
             \/ AddTaskEnter(t) \/ AddTaskCheck(t) \/ SyncEnter(t) \/ SyncClockFails(t)
             \/ SyncWait(t) \/ SyncWakesAlone(t) \/ SyncReturns(t) \/ SyncMark(t)
             \/ SyncGivesUp(t)
      PROVE  PlaceInv'
    <2>1. /\ UNCHANGED <<queue, batch, starts, ends>>
          /\ wpc' = wpc \/ Signal
        BY <1>2 DEF AddTaskEnter, AddTaskCheck, SyncEnter, SyncClockFails, SyncWait,
            SyncWakesAlone, SyncReturns, SyncMark, SyncGivesUp
    <2>2. Apart' /\ Waits' /\ Runs'
        BY <2>1, PlaceKept, SignalPhases DEF Phases
    <2>3. \/ ret' = ret
          \/ \E c \in Returns : call' = [call EXCEPT ![t] = "returned"]
                                  /\ ret' = [ret EXCEPT ![t] = c]
        BY <1>2 DEF AddTaskEnter, AddTaskCheck, SyncEnter, SyncClockFails, SyncWait,
            SyncWakesAlone, SyncReturns, SyncMark, SyncGivesUp, Goto, Return, Returns
    <2>4. \/ /\ call[t] = "idle"
             /\ \E c \in {"entered", "returned"} : call' = [call EXCEPT ![t] = c]
          \/ /\ call[t] = "entered"
             /\ \E c \in {"checked", "returned"} : call' = [call EXCEPT ![t] = c]
          \/ /\ call[t] \notin {"idle", "entered", "checked", "returned"}
             /\ \E c \in CallPcs \ {"idle", "entered", "checked"} :
                    call' = [call EXCEPT ![t] = c]
        BY <1>2 DEF AddTaskEnter, AddTaskCheck, SyncEnter, SyncClockFails, SyncWait,
            SyncWakesAlone, SyncReturns, SyncMark, SyncGivesUp, Goto, Return, CanCall, CallPcs
    <2>5. \/ node' = node
          \/ SyncClockFails(t)
        BY <1>2 DEF AddTaskEnter, AddTaskCheck, SyncEnter, SyncWait, SyncWakesAlone,
            SyncReturns, SyncMark, SyncGivesUp
    <2>6. Outside'
        BY <2>1, <2>4, SameLists DEF Outside, Untouched, TypeOK, TaskType
    <2>7. Unanswered'
        BY <2>3, <2>4, <2>5 DEF Unanswered, SyncClockFails, Return, TypeOK, TaskType
    <2>8. NothingLost'
        <3>1. \A u \in Tasks : Enqueued(u)' => Enqueued(u)
            <4>1. CASE node' = node
                BY <2>3, <2>4, <4>1 DEF Enqueued, Unanswered, TypeOK, TaskType
            <4>2. CASE SyncClockFails(t)
                BY <4>2 DEF SyncClockFails, Return, Enqueued, TypeOK, TaskType
            <4> QED BY <2>5, <4>1, <4>2
        <3>2. \A u \in Tasks :
                Enqueued(u)' /\ taskStat[u] = "TIMEOUT" => taskStat'[u] = "TIMEOUT"
            <4>1. CASE SyncClockFails(t)
                BY <4>1 DEF SyncClockFails, Return, Enqueued, TypeOK, TaskType
            <4>2. CASE taskStat' = taskStat
                BY <4>2
            <4>3. CASE SyncMark(t)
                BY <4>3 DEF SyncMark, TypeOK, TaskType
            <4> QED BY <1>2, <4>1, <4>2, <4>3 DEF AddTaskEnter, AddTaskCheck, SyncEnter,
                    SyncWait, SyncWakesAlone, SyncReturns, SyncGivesUp
        <3> QED BY <2>1, <3>1, <3>2, SameLists DEF NothingLost
    <2> QED BY <2>2, <2>6, <2>7, <2>8
<1>3. ASSUME NEW t \in Tasks, AddTaskAppend(t) \/ SyncAppend(t) PROVE PlaceInv'
    <2>1. /\ Enqueue(t) /\ UNCHANGED <<batch, starts, ends>>
          /\ call[t] \in {"checked", "entered"}
          /\ node' = [node EXCEPT ![t] = "live"]
          /\ \/ /\ call' = [call EXCEPT ![t] = "returned"]
                /\ ret' = [ret EXCEPT ![t] = "SUCCESS"]
                /\ taskStat' = taskStat
             \/ /\ call' = [call EXCEPT ![t] = "held"] /\ ret' = ret
                /\ taskStat' = [taskStat EXCEPT ![t] = "INIT"]
        BY <1>3 DEF AddTaskAppend, SyncAppend, Return, Goto
    <2>2. ~InQueue(t) /\ (\A w \in Workers : ~InBatch(w, t)) /\ Untouched(t)
        BY <2>1 DEF Outside
    <2>3. /\ \A u \in Tasks : InQueue(u)' <=> InQueue(u) \/ u = t
          /\ Distinct(queue')
        BY <2>1, <2>2, Appended DEF Enqueue, Apart
    <2>4. \A u \in Tasks, w \in Workers : InBatch(w, u)' <=> InBatch(w, u)
        BY <2>1 DEF InBatch
    <2>5. Phases
        BY <2>1, SignalPhases DEF Enqueue
    <2>6. Apart'
        BY <2>1, <2>2, <2>3, <2>4 DEF Apart
    <2>7. Waits'
        BY <2>1, <2>2, <2>3, <2>4, <2>5 DEF Waits, Untouched, Phases
    <2>8. Runs'
        BY <2>1, <2>5 DEF Runs, Phases
    <2>9. Outside' /\ Unanswered'
        BY <2>1, <2>2, <2>3, <2>4 DEF Outside, Untouched, Unanswered, TypeOK, TaskType
    <2>10. NothingLost'
        BY <2>1, <2>3, <2>4 DEF NothingLost, Enqueued, TypeOK, TaskType
    <2> QED BY <2>6, <2>7, <2>8, <2>9, <2>10
<1>4. ASSUME NEW w \in Workers, WorkerSection(w) PROVE PlaceInv'
    <2>1. UNCHANGED <<starts, ends, call, ret, node, taskStat>> /\ batch[w] = <<>>
        BY <1>4 DEF WorkerSection, BatchShape
    <2>2. CASE UNCHANGED <<queue, batch>> /\ \E pc \in {"leaving", "waiting"} :
                                                wpc' = [wpc EXCEPT ![w] = pc]
        <3>1. Phases
            BY <1>4, <2>2 DEF WorkerSection, Phases, TypeOK, WorkerType
        <3>2. Apart' /\ Waits' /\ Runs'
            BY <2>1, <2>2, <3>1, PlaceKept
        <3>3. Outside' /\ Unanswered' /\ NothingLost'
            BY <2>1, <2>2, SameLists DEF Outside, Untouched, Unanswered, NothingLost, Enqueued
        <3> QED BY <3>2, <3>3
    <2>3. CASE TakeList(w) /\ wpc' = [wpc EXCEPT ![w] = "batch"]
        <3>1. /\ batch' = [batch EXCEPT ![w] = queue] /\ queue' = <<>>
              /\ \A v \in Workers \ {w} : batch'[v] = batch[v] /\ wpc'[v] = wpc[v]
              /\ wpc'[w] = "batch"
            BY <2>3 DEF TakeList, TypeOK, WorkerType
        <3>2. /\ \A u \in Tasks : ~InQueue(u)'
              /\ \A u \in Tasks : InBatch(w, u)' <=> InQueue(u)
              /\ \A u \in Tasks, v \in Workers \ {w} : InBatch(v, u)' <=> InBatch(v, u)
              /\ Apart'
            BY <2>1, <3>1, Taken
        <3>3. Waits'
            BY <2>1, <3>1, <3>2 DEF Waits, Untouched
        <3>4. Runs'
            BY <2>1, <3>1 DEF Runs
        <3>5. Outside' /\ Unanswered'
            BY <2>1, <3>2 DEF Outside, Untouched, Unanswered
        <3>6. NothingLost'
            <4>1. \A u \in Tasks : ~InBatch(w, u)
                BY <2>1 DEF InBatch
            <4> QED BY <2>1, <3>2, <4>1 DEF NothingLost, Enqueued
        <3> QED BY <3>2, <3>3, <3>4, <3>5, <3>6
    <2> QED BY <1>4, <2>2, <2>3 DEF WorkerSection
<1>5. ASSUME NEW w \in Workers, WorkerSkips(w) \/ WorkerFinishes(w) \/ WorkerSignals(w)
      PROVE  PlaceInv'
    <2>1. /\ batch[w] # <<>> /\ Dispose(w) /\ queue' = queue
          /\ UNCHANGED <<starts, ends, ret, taskStat>>
        BY <1>5 DEF WorkerSkips, WorkerFinishes, WorkerSignals, BatchShape
    <2>2. PICK h \in Tasks : h = Head(batch[w]) /\ InBatch(w, h)
        BY <2>1, HeadInBatch
    <2>3. /\ \A u \in Tasks : InQueue(u)' <=> InQueue(u)
          /\ \A u \in Tasks : InBatch(w, u)' <=> InBatch(w, u) /\ u # h
          /\ \A u \in Tasks, v \in Workers \ {w} : InBatch(v, u)' <=> InBatch(v, u)
          /\ Apart'
        BY <2>1, <2>2, Disposed DEF Dispose
    <2>4. /\ \A v \in Workers \ {w} : batch'[v] = batch[v] /\ wpc'[v] = wpc[v]
          /\ wpc'[w] \in {"top", "batch"}
        BY <2>1 DEF Dispose, TypeOK, WorkerType
    <2>5. call' = call \/ (call[h] = "waiting" /\ call' = [call EXCEPT ![h] = "signalled"])
        BY <1>5, <2>2 DEF WorkerSkips, WorkerFinishes, WorkerSignals
    <2>6. node' = node \/ node' = [node EXCEPT ![h] = "freed"]
        BY <2>1, <2>2 DEF Dispose, MemFree
    <2>7. Waits'
        BY <2>1, <2>2, <2>3, <2>4 DEF Waits, Untouched
    <2>8. Runs'
        BY <2>1, <2>4 DEF Runs
    <2>9. Outside'
        BY <2>1, <2>2, <2>3, <2>5 DEF Outside, Untouched, TypeOK, TaskType
    <2>10. Unanswered'
        BY <2>1, <2>2, <2>5, <2>6 DEF Unanswered, Outside, TypeOK, TaskType
    <2>11. NothingLost'
        <3>1. ends[h] = 1 \/ taskStat[h] = "TIMEOUT"
            BY <1>5, <2>2 DEF WorkerSkips, WorkerFinishes, WorkerSignals, TimedOut, Runs
        <3>2. \A u \in Tasks \ {h} : Enqueued(u)' => Enqueued(u)
            BY <2>1, <2>6 DEF Enqueued, TypeOK, TaskType
        <3> QED BY <2>1, <2>3, <3>1, <3>2 DEF NothingLost
    <2> QED BY <2>3, <2>7, <2>8, <2>9, <2>10, <2>11
<1>6. ASSUME NEW w \in Workers, WorkerStarts(w) \/ WorkerEnds(w) PROVE PlaceInv'
    <2>1. batch[w] # <<>> /\ UNCHANGED <<queue, batch, call, ret, node, taskStat>>
        BY <1>6 DEF WorkerStarts, WorkerEnds, BatchShape
    <2>2. PICK h \in Tasks : h = Head(batch[w]) /\ InBatch(w, h)
        BY <2>1, HeadInBatch
    <2>3. /\ \A u \in Tasks \ {h} : starts'[u] = starts[u] /\ ends'[u] = ends[u]
          /\ \A v \in Workers \ {w} : wpc'[v] = wpc[v]
        BY <1>6, <2>2 DEF WorkerStarts, WorkerEnds, TypeOK, TaskType, WorkerType
    <2>4. /\ starts'[h] = 1
          /\ \/ wpc'[w] = "running" /\ ends'[h] = 0
             \/ wpc'[w] = "ended" /\ ends'[h] = 1
        <3>1. CASE WorkerStarts(w)
            <4>1. starts[h] = 0 /\ ends[h] = 0
                BY <2>2, <3>1 DEF WorkerStarts, Waits, Untouched
            <4> QED BY <2>2, <3>1, <4>1 DEF WorkerStarts, TypeOK, TaskType, WorkerType
        <3>2. CASE WorkerEnds(w)
            <4>1. starts[h] = 1 /\ ends[h] = 0
                BY <2>2, <3>2 DEF WorkerEnds, Runs
            <4> QED BY <2>2, <3>2, <4>1 DEF WorkerEnds, TypeOK, TaskType, WorkerType
        <3> QED BY <1>6, <3>1, <3>2
    <2>5. /\ \A u \in Tasks : InQueue(u)' <=> InQueue(u)
          /\ \A u \in Tasks, v \in Workers : InBatch(v, u)' <=> InBatch(v, u)
          /\ Apart'
        BY <2>1, SameLists
    <2>6. \A u \in Tasks, v \in Workers :
            InBatch(v, u) /\ v # w => u # h
        BY <2>2 DEF Apart
    <2>7. ~InQueue(h)
        BY <2>2 DEF Apart
    <2>8. Waits'
        BY <2>1, <2>2, <2>3, <2>4, <2>5, <2>6, <2>7 DEF Waits, Untouched
    <2>9. Runs'
        <3>1. \A v \in Workers \ {w} : batch[v] # <<>> => Head(batch[v]) \in Tasks \ {h}
            BY <2>6, HeadInBatch
        <3>2. \A v \in Workers \ {w} : wpc[v] \in {"running", "ended", "signal"} =>
                                            batch[v] # <<>>
            BY DEF BatchShape
        <3> QED BY <2>1, <2>2, <2>3, <2>4, <3>1, <3>2 DEF Runs
    <2>10. Outside' /\ Unanswered'
        BY <2>1, <2>2, <2>3, <2>5 DEF Outside, Untouched, Unanswered
    <2>11. NothingLost'
        BY <2>1, <2>2, <2>3, <2>5 DEF NothingLost, Enqueued
    <2> QED BY <2>5, <2>8, <2>9, <2>10, <2>11
<1> QED BY <1>1, <1>2, <1>3, <1>4, <1>5, <1>6, StepKinds

LEMMA InitIInv == Init => IInv
<1> SUFFICES ASSUME Init PROVE IInv
    OBVIOUS
<1>1. queue = <<>> /\ \A w \in Workers : batch[w] = <<>>
    BY DEF Init
<1>2. TypeOK
    BY LimitsAssumption DEF Init, TypeOK, ModuleType, PoolType, WorkerType, TaskType,
        WorkerPcs, CallPcs, Returns, Stats, Memory, Faults
<1>3. \A t \in Tasks : ~InQueue(t) /\ \A w \in Workers : ~InBatch(w, t)
    BY <1>1 DEF InQueue, InBatch
<1>4. Apart
    BY <1>1, <1>3 DEF Apart, Distinct
<1>5. BatchShape /\ Outside /\ Waits /\ Runs /\ Unanswered /\ NothingLost
    BY <1>1, <1>3 DEF Init, BatchShape, Outside, Untouched, Waits, Runs, Unanswered,
        NothingLost, Enqueued
<1> QED BY <1>2, <1>4, <1>5 DEF IInv, PlaceInv

LEMMA NextIInv == IInv /\ [Next]_vars => IInv'
BY TypeInductive, PlaceInductive DEF IInv

\* Types, places and history of every task, for any number of workers, callers
\* and tasks and whatever the surroundings do.
THEOREM Invariance == Spec => []IInv
<1>1. Init => IInv
    BY InitIInv
<1>2. IInv /\ [Next]_vars => IInv'
    BY NextIInv
<1> QED BY <1>1, <1>2, PTL DEF Spec

\* Every variable always holds a value of its kind.
THEOREM TypeCorrect == Spec => []TypeOK
<1>1. IInv => TypeOK
    BY DEF IInv
<1> QED BY <1>1, Invariance, PTL

\* No task's function is ever called twice (_TPoolProcFn takes whole lists).
THEOREM RunAtMostOnce == Spec => []AtMostOnce
<1>1. IInv => AtMostOnce
    BY DEF IInv, PlaceInv, Runs, AtMostOnce
<1> QED BY <1>1, Invariance, PTL

\* No accepted task drops out of list and batches before it ran or expired.
THEOREM NoTaskDropped == Spec => []NothingLost
<1>1. IInv => NothingLost
    BY DEF IInv, PlaceInv
<1> QED BY <1>1, Invariance, PTL

\* A task marked as timed out before it started is never started: both reads of
\* TaskStat precede what they guard.
THEOREM NoStartAfterTimeout == Spec => ExpiredNeverStarts
<1>1. IInv /\ [Next]_vars => [ExpiredKept]_vars
    <2> SUFFICES ASSUME IInv, Next, NEW t \in SyncTasks, taskStat[t] = "TIMEOUT"
                 PROVE  starts'[t] = starts[t]
        BY DEF ExpiredKept
    <2>1. CASE starts' = starts
        BY <2>1
    <2>2. ASSUME NEW w \in Workers, WorkerStarts(w) PROVE starts'[t] = starts[t]
        <3>1. Head(batch[w]) # t
            BY <2>2 DEF WorkerStarts, TimedOut
        <3> QED BY <2>2, <3>1 DEF WorkerStarts, IInv, TypeOK, TaskType, Tasks
    <2> QED BY <2>1, <2>2 DEF Next, runVars, ModuleStep, CallBegins, CallStep,
        WorkerStep, InitCreate, InitPoll, ExitFlag, ExitBroadcast, ExitFree,
        TPoolSetMaxQueueLength, TPoolSetTimeout, AddTaskEnter, AddTaskCheck,
        AddTaskAppend, SyncEnter, SyncAppend, SyncClockFails, SyncWait,
        SyncWakesAlone, SyncReturns, SyncMark, SyncGivesUp, WorkerTop,
        WorkerSection, TakeList, WorkerWakesAlone, WorkerLeaves, WorkerUsesFreedPool,
        WorkerSkips, WorkerStarts, WorkerEnds, WorkerFinishes, WorkerWillSignal,
        WorkerSignals
<1> QED BY <1>1, Invariance, PTL DEF Spec, ExpiredNeverStarts

-----------------------------------------------------------------------------
\* TaskListLength and the list are only changed together.
THEOREM LengthIsExact == Spec => []LengthAgrees
<1>1. Init => LengthAgrees
    BY DEF Init, LengthAgrees
<1>2. IInv /\ LengthAgrees /\ [Next]_vars => LengthAgrees'
    <2> SUFFICES ASSUME IInv, LengthAgrees, [Next]_vars PROVE LengthAgrees'
        OBVIOUS
    <2>1. CASE queue' = queue /\ taskListLength' = taskListLength
        BY <2>1 DEF LengthAgrees
    <2>2. ASSUME NEW t \in Tasks, Enqueue(t) PROVE LengthAgrees'
        BY <2>2 DEF Enqueue, LengthAgrees, IInv, TypeOK, PoolType
    <2>3. CASE queue' = <<>> /\ taskListLength' = 0
        BY <2>3 DEF LengthAgrees
    <2> QED BY <2>1, <2>2, <2>3 DEF Next, vars, poolVars, ModuleStep, CallBegins,
        CallStep, WorkerStep, InitCreate, InitPoll, ExitFlag, ExitBroadcast,
        ExitFree, TPoolSetMaxQueueLength, TPoolSetTimeout, AddTaskEnter,
        AddTaskCheck, AddTaskAppend, SyncEnter, SyncAppend, SyncClockFails,
        SyncWait, SyncWakesAlone, SyncReturns, SyncMark, SyncGivesUp, WorkerTop,
        WorkerSection, TakeList, WorkerWakesAlone, WorkerLeaves, WorkerUsesFreedPool,
        WorkerSkips, WorkerStarts, WorkerEnds, WorkerFinishes, WorkerWillSignal,
        WorkerSignals
<1> QED BY <1>1, <1>2, Invariance, PTL DEF Spec

\* While a task is on the list, some worker is not asleep: no wakeup is lost.
THEOREM NoLostWakeup == Spec => []NoSleepOverQueue
<1>1. Init => NoSleepOverQueue
    BY DEF Init, NoSleepOverQueue
<1>2. IInv /\ NoSleepOverQueue /\ [Next]_vars => NoSleepOverQueue'
    <2> SUFFICES ASSUME IInv, NoSleepOverQueue, [Next]_vars PROVE NoSleepOverQueue'
        OBVIOUS
    <2> USE DEF NoSleepOverQueue
    <2>1. CASE queue' = queue /\ wpc' = wpc
        BY <2>1
    <2>2. CASE Signal
        BY <2>2, WorkersAssumption DEF Signal, Waiting, IInv, TypeOK, WorkerType
    <2>3. CASE queue' = queue /\ \E w \in Workers : wpc'[w] # "waiting"
        BY <2>3
    <2>4. CASE queue' = <<>>
        BY <2>4
    <2>5. ASSUME NEW w \in Workers, WorkerStep(w) \/ WorkerEnds(w) \/ WorkerWakesAlone(w)
          PROVE NoSleepOverQueue'
        <3>1. CASE WorkerSection(w)
            BY <3>1 DEF WorkerSection, TakeList, IInv, TypeOK, WorkerType
        <3>2. CASE WorkerSkips(w) \/ WorkerFinishes(w) \/ WorkerSignals(w)
            <4>1. queue' = queue /\ wpc'[w] \in {"top", "batch"}
                BY <3>2 DEF WorkerSkips, WorkerFinishes, WorkerSignals, Dispose,
                    poolVars, IInv, TypeOK, WorkerType
            <4> QED BY <4>1
        <3>3. CASE WorkerUsesFreedPool(w)
            BY <3>3 DEF WorkerUsesFreedPool, poolVars
        <3>4. ASSUME WorkerTop(w) \/ WorkerWakesAlone(w) \/ WorkerLeaves(w)
                        \/ WorkerStarts(w) \/ WorkerEnds(w) \/ WorkerWillSignal(w)
              PROVE  NoSleepOverQueue'
            <4>1. queue' = queue /\ wpc'[w] # "waiting"
                BY <3>4 DEF WorkerTop, WorkerWakesAlone, WorkerLeaves, WorkerStarts,
                    WorkerEnds, WorkerWillSignal, poolVars, IInv, TypeOK, WorkerType
            <4> QED BY <4>1
        <3> QED BY <2>5, <3>1, <3>2, <3>3, <3>4 DEF WorkerStep
    <2>6. InitCreate \/ ExitBroadcast => \E w \in Workers : wpc'[w] # "waiting"
        BY WorkersAssumption DEF InitCreate, ExitBroadcast, Broadcast, Waiting
    <2> QED BY <2>1, <2>2, <2>3, <2>4, <2>5, <2>6 DEF Next, vars, poolVars,
        Enqueue, ModuleStep, CallBegins, CallStep, InitCreate, InitPoll, ExitFlag,
        ExitBroadcast, ExitFree, TPoolSetMaxQueueLength, TPoolSetTimeout,
        AddTaskEnter, AddTaskCheck, AddTaskAppend, SyncEnter, SyncAppend,
        SyncClockFails, SyncWait, SyncWakesAlone, SyncReturns, SyncMark, SyncGivesUp
<1> QED BY <1>1, <1>2, Invariance, PTL DEF Spec

-----------------------------------------------------------------------------
(***************************************************************************)
(* Who frees the task lock: until its caller has left the wait, lock and   *)
(* condition are live and the task not marked; while a marked task is on   *)
(* the list or in a batch they are still live.                             *)
(***************************************************************************)
OnHand(t) == InQueue(t) \/ \E w \in Workers : InBatch(w, t)

SyncInv == \A t \in Tasks :
    /\ call[t] \in {"held", "waiting", "signalled", "timedout"} =>
        sync[t] = "live" /\ taskStat[t] = "INIT"
    /\ taskStat[t] = "TIMEOUT" /\ OnHand(t) => sync[t] = "live"
    /\ call[t] \in {"idle", "entered", "checked"} => taskStat[t] # "TIMEOUT"

\* Where the tasks are after each kind of step
LEMMA SameHands == UNCHANGED <<queue, batch>> => \A u \in Tasks : OnHand(u)' <=> OnHand(u)
BY SameLists DEF OnHand

LEMMA EnqueueHands ==
    ASSUME IInv, NEW t \in Tasks, ~InQueue(t), Enqueue(t), batch' = batch
    PROVE  \A u \in Tasks : OnHand(u)' <=> OnHand(u) \/ u = t
<1>1. \A u \in Tasks : InQueue(u)' <=> InQueue(u) \/ u = t
    BY Appended DEF Enqueue, IInv, PlaceInv, Apart
<1>2. \A u \in Tasks, w \in Workers : InBatch(w, u)' <=> InBatch(w, u)
    BY DEF InBatch
<1> QED BY <1>1, <1>2 DEF OnHand

LEMMA SectionHands ==
    ASSUME IInv, NEW w \in Workers, WorkerSection(w)
    PROVE  \A u \in Tasks : OnHand(u)' <=> OnHand(u)
<1>1. CASE UNCHANGED <<queue, batch>>
    BY <1>1, SameHands
<1>2. CASE batch' = [batch EXCEPT ![w] = queue] /\ queue' = <<>>
    <2>1. batch[w] = <<>> /\ TypeOK /\ BatchShape /\ Apart
        BY DEF WorkerSection, IInv, BatchShape, PlaceInv
    <2>2. /\ \A u \in Tasks : ~InQueue(u)'
          /\ \A u \in Tasks : InBatch(w, u)' <=> InQueue(u)
          /\ \A u \in Tasks, v \in Workers \ {w} : InBatch(v, u)' <=> InBatch(v, u)
        BY <1>2, <2>1, Taken
    <2>3. \A u \in Tasks : ~InBatch(w, u)
        BY <2>1 DEF InBatch
    <2> QED BY <2>2, <2>3 DEF OnHand
<1> QED BY <1>1, <1>2 DEF WorkerSection, TakeList

LEMMA DisposeHands ==
    ASSUME IInv, NEW w \in Workers, batch[w] # <<>>, Dispose(w), queue' = queue
    PROVE  /\ Head(batch[w]) \in Tasks /\ OnHand(Head(batch[w]))
           /\ \A u \in Tasks : OnHand(u)' <=> OnHand(u) /\ u # Head(batch[w])
<1>1. TypeOK /\ Apart
    BY DEF IInv, PlaceInv
<1>2. /\ \A u \in Tasks : InQueue(u)' <=> InQueue(u)
      /\ \A u \in Tasks : InBatch(w, u)' <=> InBatch(w, u) /\ u # Head(batch[w])
      /\ \A u \in Tasks, v \in Workers \ {w} : InBatch(v, u)' <=> InBatch(v, u)
    BY <1>1, Disposed DEF Dispose
<1>3. Head(batch[w]) \in Tasks /\ InBatch(w, Head(batch[w]))
    BY <1>1, HeadInBatch
<1> QED BY <1>1, <1>2, <1>3 DEF OnHand, Apart

LEMMA SyncInductive == IInv /\ SyncInv /\ [Next]_vars => SyncInv'
<1> SUFFICES ASSUME IInv, SyncInv, [Next]_vars PROVE SyncInv'
    OBVIOUS
<1> USE DEF poolVars, callVars, heapVars, runVars
<1>1. CASE Idle
    BY <1>1, IdleStep, SameHands DEF taskVars, SyncInv
<1>2. ASSUME NEW t \in Tasks, AddTaskEnter(t) \/ AddTaskCheck(t) \/ SyncEnter(t)
      PROVE  SyncInv'
    <2>1. /\ UNCHANGED <<queue, batch, sync, taskStat>> /\ call[t] \in {"idle", "entered"}
          /\ \E c \in {"entered", "checked", "returned"} : call' = [call EXCEPT ![t] = c]
        BY <1>2 DEF AddTaskEnter, AddTaskCheck, SyncEnter, CanCall, Goto, Return
    <2> QED BY <2>1, SameHands DEF SyncInv, IInv, TypeOK, TaskType
<1>3. ASSUME NEW t \in Tasks, AddTaskAppend(t) PROVE SyncInv'
    <2>1. /\ \A u \in Tasks \ {t} : OnHand(u)' <=> OnHand(u)
          /\ UNCHANGED <<sync, taskStat>> /\ call[t] = "checked"
          /\ call' = [call EXCEPT ![t] = "returned"]
        BY <1>3, EnqueueHands DEF AddTaskAppend, Return, IInv, PlaceInv, Outside
    <2> QED BY <2>1 DEF SyncInv, IInv, TypeOK, TaskType
<1>4. ASSUME NEW t \in Tasks, SyncAppend(t) PROVE SyncInv'
    <2>1. \A u \in Tasks \ {t} : OnHand(u)' <=> OnHand(u)
        BY <1>4, EnqueueHands DEF SyncAppend, IInv, PlaceInv, Outside
    <2> QED BY <1>4, <2>1 DEF SyncAppend, Goto, SyncInv, IInv, TypeOK, TaskType
<1>5. ASSUME NEW t \in Tasks, SyncClockFails(t) PROVE SyncInv'
    BY <1>5, SameHands DEF SyncClockFails, Return, SyncInv, IInv, TypeOK, TaskType
<1>6. ASSUME NEW t \in Tasks, SyncWait(t) \/ SyncWakesAlone(t) PROVE SyncInv'
    BY <1>6, SameHands DEF SyncWait, SyncWakesAlone, Goto, SyncInv, IInv, TypeOK, TaskType
<1>7. ASSUME NEW t \in Tasks, SyncReturns(t) \/ SyncMark(t) \/ SyncGivesUp(t)
      PROVE  SyncInv'
    BY <1>7, SameHands DEF SyncReturns, CallerFrees, SyncMark, SyncGivesUp, Goto, Return,
        SyncInv, IInv, TypeOK, TaskType
<1>8. ASSUME NEW w \in Workers, WorkerSection(w) \/ WorkerStarts(w) \/ WorkerEnds(w)
      PROVE  SyncInv'
    BY <1>8, SectionHands, SameHands DEF WorkerSection, WorkerStarts, WorkerEnds, SyncInv
<1>9. ASSUME NEW w \in Workers, WorkerSkips(w) \/ WorkerFinishes(w) \/ WorkerSignals(w)
      PROVE  SyncInv'
    <2>1. batch[w] # <<>> /\ Dispose(w) /\ queue' = queue /\ taskStat' = taskStat
        BY <1>9 DEF WorkerSkips, WorkerFinishes, WorkerSignals, IInv, BatchShape
    <2>2. PICK h \in Tasks : h = Head(batch[w])
        BY <2>1, HeadInBatch DEF IInv
    <2>3. \A u \in Tasks : OnHand(u)' <=> OnHand(u) /\ u # h
        BY <2>1, <2>2, DisposeHands
    <2>4. \/ UNCHANGED <<sync, call>>
          \/ sync' = sync /\ call[h] = "waiting" /\ call' = [call EXCEPT ![h] = "signalled"]
          \/ call' = call /\ taskStat[h] = "TIMEOUT" /\ sync' = [sync EXCEPT ![h] = "freed"]
        BY <1>9, <2>2 DEF WorkerSkips, WorkerFinishes, WorkerSignals, DropSync, MemFree,
            TimedOut
    <2> QED BY <2>1, <2>3, <2>4 DEF SyncInv, IInv, TypeOK, TaskType
<1> QED BY <1>1, <1>2, <1>3, <1>4, <1>5, <1>6, <1>7, <1>8, <1>9, StepKinds

LEMMA InitSyncInv == Init => SyncInv
BY DEF Init, SyncInv

\* Who may still free a task's lock and condition, at every point of both threads
\* (_TPoolProcFn l.116-150 and TPoolAddTaskAndWait l.397-429).
THEOREM SyncInvariance == Spec => []SyncInv
<1>1. IInv /\ SyncInv /\ [Next]_vars => SyncInv'
    BY SyncInductive
<1> QED BY <1>1, InitSyncInv, Invariance, PTL DEF Spec

\* The task lock is never freed twice, whatever timeouts, spurious wakeups and
\* tear-down do: the caller frees it unless it marked the task, the worker only
\* if it is marked.
THEOREM NeverFreedTwice == Spec => []NoDoubleFree
<1>1. Init => NoDoubleFree
    BY DEF Init, NoDoubleFree
<1>2. IInv /\ SyncInv /\ NoDoubleFree /\ [Next]_vars => NoDoubleFree'
    <2> SUFFICES ASSUME IInv, SyncInv, NoDoubleFree, [Next]_vars PROVE NoDoubleFree'
        OBVIOUS
    <2>1. CASE ub' = ub
        BY <2>1 DEF NoDoubleFree
    <2>2. ASSUME NEW t \in Tasks, SyncReturns(t) PROVE NoDoubleFree'
        BY <2>2 DEF SyncReturns, CallerFrees, Fault, SyncInv, NoDoubleFree
    <2>3. ASSUME NEW w \in Workers, TimedOut(Head(batch[w])), batch[w] # <<>>,
                 DropSync(Head(batch[w]))
          PROVE  NoDoubleFree'
        <3>1. OnHand(Head(batch[w])) /\ Head(batch[w]) \in Tasks
            BY <2>3, HeadInBatch DEF OnHand, IInv
        <3> QED BY <2>3, <3>1 DEF DropSync, TimedOut, Fault, SyncInv, NoDoubleFree
    <2>4. ASSUME NEW t \in Tasks, SyncMark(t) \/ SyncGivesUp(t) PROVE NoDoubleFree'
        <3>1. \/ ub' = ub \cup Fault(node, t, "freed node")
              \/ ub' = ub \cup Fault(sync, t, "freed task lock")
            BY <2>4 DEF SyncMark, SyncGivesUp
        <3>2. "double free" \notin {"freed node", "freed task lock"}
            OBVIOUS
        <3> QED BY <3>1, <3>2 DEF Fault, NoDoubleFree
    <2>5. ASSUME NEW w \in Workers, WorkerSignals(w) \/ WorkerUsesFreedPool(w)
          PROVE  NoDoubleFree'
        <3>1. \/ ub' = ub \cup {"freed pool"}
              \/ ub' = ub \cup Fault(sync, Head(batch[w]), "freed task lock")
            BY <2>5 DEF WorkerSignals, WorkerUsesFreedPool
        <3>2. "double free" \notin {"freed pool", "freed task lock"}
            OBVIOUS
        <3> QED BY <3>1, <3>2 DEF Fault, NoDoubleFree
    <2>6. ASSUME NEW w \in Workers, WorkerSkips(w) \/ WorkerFinishes(w)
          PROVE  NoDoubleFree'
        <3>1. batch[w] # <<>>
            BY <2>6 DEF WorkerSkips, WorkerFinishes, IInv, BatchShape
        <3> QED BY <2>1, <2>3, <2>6, <3>1 DEF WorkerSkips, WorkerFinishes
    <2> QED BY <2>1, <2>2, <2>4, <2>5, <2>6 DEF Next, vars, ModuleStep,
            CallBegins, CallStep, WorkerStep, InitCreate, InitPoll,
            ExitFlag, ExitBroadcast, ExitFree,
            TPoolSetMaxQueueLength, TPoolSetTimeout, AddTaskEnter,
            AddTaskCheck, AddTaskAppend, SyncEnter, SyncAppend,
            SyncClockFails, SyncWait, SyncWakesAlone, WorkerTop,
            WorkerSection, TakeList, WorkerWakesAlone, WorkerLeaves,
            WorkerStarts, WorkerEnds, WorkerWillSignal
<1> QED BY <1>1, <1>2, Invariance, SyncInvariance, PTL DEF Spec

-----------------------------------------------------------------------------
(***************************************************************************)
(* What is left of the pool's properties rests on one more invariant: how  *)
(* far a call is says what its task has become.                            *)
(***************************************************************************)
CallInv == \A t \in Tasks :
    /\ call[t] = "checked" => t \in AsyncTasks
    /\ call[t] \in {"held", "waiting", "signalled", "timedout", "marked"} =>
          t \in SyncTasks /\ node[t] # "none"
    /\ call[t] = "marked" => taskStat[t] = "TIMEOUT"
    /\ taskStat[t] = "TIMEOUT" => t \in SyncTasks
    /\ OnHand(t) => node[t] # "none" /\ ret[t] # "EIO"
    /\ t \in SyncTasks /\ ret[t] = "SUCCESS" => node[t] # "none"
    /\ ends[t] = 1 => starts[t] = 1
    /\ call[t] = "signalled" \/ (t \in SyncTasks /\ ret[t] = "SUCCESS") =>
          ends[t] = 1 \/ "spurious" \in Env

LEMMA CallInductive == IInv /\ SyncInv /\ CallInv /\ [Next]_vars => CallInv'
<1> SUFFICES ASSUME IInv, SyncInv, CallInv, [Next]_vars PROVE CallInv'
    OBVIOUS
<1> USE DEF poolVars, callVars, heapVars, runVars
<1>1. CASE Idle
    BY <1>1, IdleStep, SameHands DEF taskVars, CallInv
<1>2. ASSUME NEW t \in Tasks, AddTaskEnter(t) \/ AddTaskCheck(t) PROVE CallInv'
    BY <1>2, SameHands DEF AddTaskEnter, AddTaskCheck, CanCall, Goto, Return, CallInv, IInv,
        TypeOK, TaskType
<1>3. ASSUME NEW t \in Tasks, AddTaskAppend(t) PROVE CallInv'
    <2>1. \A u \in Tasks : OnHand(u)' <=> OnHand(u) \/ u = t
        BY <1>3, EnqueueHands DEF AddTaskAppend, IInv, PlaceInv, Outside
    <2> QED BY <1>3, <2>1, TasksAssumption DEF AddTaskAppend, Return, CallInv, IInv, TypeOK,
            TaskType
<1>4. ASSUME NEW t \in Tasks, SyncEnter(t) PROVE CallInv'
    BY <1>4, SameHands DEF SyncEnter, CanCall, Goto, Return, CallInv, IInv, TypeOK, TaskType
<1>5. ASSUME NEW t \in Tasks, SyncAppend(t) PROVE CallInv'
    <2>1. \A u \in Tasks : OnHand(u)' <=> OnHand(u) \/ u = t
        BY <1>5, EnqueueHands DEF SyncAppend, IInv, PlaceInv, Outside
    <2>2. ret[t] = "none"
        BY <1>5 DEF SyncAppend, IInv, PlaceInv, Unanswered
    <2> QED BY <1>5, <2>1, <2>2 DEF SyncAppend, Goto, CallInv, IInv, TypeOK, TaskType
<1>6. ASSUME NEW t \in Tasks, SyncClockFails(t) PROVE CallInv'
    <2>1. ~OnHand(t)
        BY <1>6 DEF SyncClockFails, OnHand, IInv, PlaceInv, Outside
    <2>2. \A u \in Tasks : OnHand(u)' <=> OnHand(u)
        BY <1>6, SameHands DEF SyncClockFails
    <2> QED BY <1>6, <2>1, <2>2 DEF SyncClockFails, Return, CallInv, IInv, TypeOK, TaskType
<1>7. ASSUME NEW t \in Tasks, SyncWait(t) \/ SyncWakesAlone(t) PROVE CallInv'
    BY <1>7, SameHands DEF SyncWait, SyncWakesAlone, Goto, CallInv, IInv, TypeOK, TaskType
<1>8. ASSUME NEW t \in Tasks, SyncReturns(t) \/ SyncGivesUp(t) PROVE CallInv'
    BY ZenonT(60), <1>8, SameHands DEF SyncReturns, SyncGivesUp, CallerFrees, Return,
        CallInv, IInv, TypeOK, TaskType
<1>9. ASSUME NEW t \in Tasks, SyncMark(t) PROVE CallInv'
    BY <1>9, SameHands DEF SyncMark, Goto, CallInv, IInv, TypeOK, TaskType
<1>10. ASSUME NEW w \in Workers, WorkerSection(w) PROVE CallInv'
    BY <1>10, SectionHands DEF WorkerSection, CallInv
<1>11. ASSUME NEW w \in Workers, WorkerSkips(w) \/ WorkerFinishes(w) \/ WorkerSignals(w)
       PROVE  CallInv'
    <2> DEFINE h == Head(batch[w])
    <2>1. batch[w] # <<>> /\ Dispose(w) /\ queue' = queue
        BY <1>11 DEF WorkerSkips, WorkerFinishes, WorkerSignals, IInv, BatchShape
    <2>2. /\ h \in Tasks /\ OnHand(h)
          /\ \A u \in Tasks : OnHand(u)' <=> OnHand(u) /\ u # h
        BY <2>1, DisposeHands
    <2>3. \A u \in Tasks : node'[u] # "none" <=> node[u] # "none"
        BY <2>1, <2>2 DEF Dispose, MemFree, CallInv, IInv, TypeOK, TaskType
    <2>4. \/ call' = call
          \/ call[h] = "waiting" /\ call' = [call EXCEPT ![h] = "signalled"] /\ ends[h] = 1
        BY <1>11 DEF WorkerSkips, WorkerFinishes, WorkerSignals, IInv, PlaceInv, Runs
    <2>5. UNCHANGED <<ret, starts, ends, taskStat>>
        BY <1>11 DEF WorkerSkips, WorkerFinishes, WorkerSignals
    <2> HIDE DEF h
    <2> QED BY <2>2, <2>3, <2>4, <2>5 DEF CallInv, IInv, TypeOK, TaskType
<1>12. ASSUME NEW w \in Workers, WorkerStarts(w) PROVE CallInv'
    <2> DEFINE h == Head(batch[w])
    <2>1. batch[w] # <<>> /\ wpc[w] = "batch"
        BY <1>12 DEF WorkerStarts, IInv, BatchShape
    <2>2. h \in Tasks /\ starts[h] = 0 /\ ends[h] = 0
        BY <2>1, HeadInBatch DEF IInv, PlaceInv, Waits, Untouched
    <2> HIDE DEF h
    <2>3. starts' = [starts EXCEPT ![h] = @ + 1]
          /\ UNCHANGED <<queue, batch, call, ret, node, taskStat, ends>>
        BY <1>12 DEF WorkerStarts, h
    <2> QED BY <2>2, <2>3, SameHands DEF CallInv, IInv, TypeOK, TaskType
<1>13. ASSUME NEW w \in Workers, WorkerEnds(w) PROVE CallInv'
    <2> DEFINE h == Head(batch[w])
    <2>1. batch[w] # <<>> /\ wpc[w] = "running"
        BY <1>13 DEF WorkerEnds, IInv, BatchShape
    <2>2. h \in Tasks /\ starts[h] = 1 /\ ends[h] = 0
        BY <2>1, HeadInBatch DEF IInv, PlaceInv, Runs
    <2> HIDE DEF h
    <2>3. ends' = [ends EXCEPT ![h] = @ + 1]
          /\ UNCHANGED <<queue, batch, call, ret, node, taskStat, starts>>
        BY <1>13 DEF WorkerEnds, h
    <2> QED BY <2>2, <2>3, SameHands DEF CallInv, IInv, TypeOK, TaskType
<1> QED BY <1>1, <1>2, <1>3, <1>4, <1>5, <1>6, <1>7, <1>8, <1>9, <1>10, <1>11, <1>12,
           <1>13, StepKinds

LEMMA CallInit == Init => CallInv
BY DEF Init, CallInv, OnHand, InQueue, InBatch

LEMMA CallInvariance == Spec => []CallInv
BY CallInit, CallInductive, Invariance, SyncInvariance, PTL DEF Spec

\* A synchronous call that succeeds has its task's function behind it, if no wait ends
\* without a signal: the code waits once, not in a loop.
THEOREM SuccessMeansRan ==
    ASSUME "spurious" \notin Env
    PROVE  Spec => []SyncSuccessRan
<1>1. CallInv => SyncSuccessRan
    BY DEF CallInv, SyncSuccessRan, Tasks
<1> QED BY <1>1, CallInvariance, PTL

-----------------------------------------------------------------------------
(***************************************************************************)
(* The pool implements TaskPool.  A step moves at most one task and        *)
(* answers at most one call, so it is enough to see what it does to the    *)
(* facts absState and absAnswer are made of.                               *)
(***************************************************************************)
RefInv == IInv /\ SyncInv /\ CallInv

Expired(t) == taskStat[t] = "TIMEOUT"

LEMMA Stages ==
    ASSUME NEW t \in Tasks
    PROVE  /\ ends[t] = 1 /\ starts[t] = 1 => absState[t] = "done"
           /\ ends[t] = 0 /\ starts[t] = 1 => absState[t] = "started"
           /\ starts[t] = 0 /\ ends[t] = 0 /\ Expired(t) => absState[t] = "expired"
           /\ starts[t] = 0 /\ ends[t] = 0 /\ ~Expired(t) /\ Enqueued(t) =>
                absState[t] = "accepted"
           /\ starts[t] = 0 /\ ends[t] = 0 /\ ~Expired(t) /\ ~Enqueued(t) =>
                absState[t] = "new"
<1>1. ends[t] = 1 /\ starts[t] = 1 => absState[t] = "done"
    BY DEF absState
<1>2. ends[t] = 0 /\ starts[t] = 1 => absState[t] = "started"
    BY DEF absState
<1>3. starts[t] = 0 /\ ends[t] = 0 /\ Expired(t) => absState[t] = "expired"
    BY DEF absState, Expired
<1>4. starts[t] = 0 /\ ends[t] = 0 /\ ~Expired(t) /\ Enqueued(t) => absState[t] = "accepted"
    BY DEF absState, Expired
<1>5. starts[t] = 0 /\ ends[t] = 0 /\ ~Expired(t) /\ ~Enqueued(t) => absState[t] = "new"
    BY DEF absState, Expired
<1> QED BY <1>1, <1>2, <1>3, <1>4, <1>5

\* Steps that move no task, or only task t
LEMMA StateKept ==
    ASSUME UNCHANGED <<starts, ends>>, NEW T \in SUBSET Tasks,
           \A u \in Tasks \ T : (Expired(u)' <=> Expired(u)) /\ (Enqueued(u)' <=> Enqueued(u))
    PROVE  \A u \in Tasks \ T : absState'[u] = absState[u]
BY DEF absState, Expired

LEMMA StateMoves ==
    ASSUME NEW t \in Tasks, \A u \in Tasks \ {t} : absState'[u] = absState[u]
    PROVE  absState' = [absState EXCEPT ![t] = absState'[t]]
<1>1. absState = [u \in Tasks |-> absState[u]] /\ absState' = [u \in Tasks |-> absState'[u]]
    BY DEF absState
<1> QED BY <1>1

LEMMA StateStays ==
    ASSUME \A u \in Tasks : absState'[u] = absState[u]
    PROVE  absState' = absState
BY DEF absState

LEMMA Answered ==
    ASSUME NEW t \in Tasks, NEW c \in Returns, ret' = [ret EXCEPT ![t] = c], IInv
    PROVE  /\ absAnswer' = [absAnswer EXCEPT ![t] = absAnswer'[t]]
           /\ ret'[t] = c
BY DEF absAnswer, IInv, TypeOK, TaskType

\* A call that is turned down before its task is accepted
LEMMA RefuseStep ==
    ASSUME IInv, IInv', SyncInv, CallInv, NEW t \in Tasks,
           call[t] \in {"idle", "entered"},
           NEW c \in {"EINVAL", "EBUSY", "EIO"}, ret' = [ret EXCEPT ![t] = c],
           UNCHANGED runVars,
           \A u \in Tasks \ {t} : node'[u] = node[u],
           c # "EIO" => node'[t] = node[t],
           \A u \in Tasks : Expired(u)' <=> Expired(u)
    PROVE  Abs!Next
<1>1. ret[t] = "none" /\ node[t] = "none" /\ starts[t] = 0 /\ ends[t] = 0 /\ ~Expired(t)
    BY DEF IInv, PlaceInv, Unanswered, Outside, Untouched, SyncInv, Expired
<1>2. \A u \in Tasks : Enqueued(u)' <=> Enqueued(u)
    BY <1>1 DEF Enqueued, IInv, TypeOK, TaskType
<1>3. absState' = absState
    BY <1>2, StateKept, StateStays, {} \subseteq Tasks DEF runVars
<1>4. absState[t] = "new"
    BY <1>1, Stages DEF Enqueued
<1>5. ret'[t] = c /\ absAnswer' = [absAnswer EXCEPT ![t] = absAnswer'[t]]
    BY Answered DEF Returns
<1>6. absAnswer[t] = "none" /\ absAnswer'[t] = "refused"
    BY <1>1, <1>5 DEF absAnswer
<1>7. Abs!Refuse(t)
    BY <1>3, <1>4, <1>5, <1>6 DEF Abs!Refuse, Abs!Answer
<1> QED BY <1>7 DEF Abs!Next, Abs!All, Tasks

LEMMA StutterStep ==
    ASSUME UNCHANGED <<starts, ends, ret>>,
           \A u \in Tasks : (Expired(u)' <=> Expired(u)) /\ (Enqueued(u)' <=> Enqueued(u))
    PROVE  UNCHANGED Abs!avars
<1>1. absState' = absState
    BY StateKept, StateStays, {} \subseteq Tasks
<1>2. absAnswer' = absAnswer
    BY DEF absAnswer
<1> QED BY <1>1, <1>2 DEF Abs!avars

LEMMA StepRefines == RefInv /\ RefInv' /\ [Next]_vars => [Abs!Next]_Abs!avars
<1> SUFFICES ASSUME IInv, SyncInv, CallInv, IInv', SyncInv', CallInv', [Next]_vars
             PROVE  Abs!Next \/ UNCHANGED Abs!avars
    BY DEF RefInv
<1> USE DEF poolVars, callVars, heapVars, runVars
<1>1. CASE Idle
    BY <1>1, IdleStep, StutterStep DEF taskVars, Expired, Enqueued
<1>2. ASSUME NEW t \in Tasks, AddTaskEnter(t) \/ AddTaskCheck(t)
      PROVE  Abs!Next \/ UNCHANGED Abs!avars
    <2>1. UNCHANGED <<starts, ends, node, taskStat>>
        BY <1>2 DEF AddTaskEnter, AddTaskCheck
    <2>2. CASE ret' = ret
        BY <2>1, <2>2, StutterStep DEF Expired, Enqueued
    <2>3. ASSUME NEW c \in {"EINVAL", "EBUSY"}, ret' = [ret EXCEPT ![t] = c]
          PROVE  Abs!Next
        <3>1. call[t] \in {"idle", "entered"}
            BY <1>2 DEF AddTaskEnter, AddTaskCheck, CanCall
        <3> QED BY <2>1, <2>3, <3>1, RefuseStep DEF Expired
    <2> QED BY <1>2, <2>2, <2>3 DEF AddTaskEnter, AddTaskCheck, Goto, Return
<1>3. ASSUME NEW t \in Tasks, AddTaskAppend(t) PROVE Abs!Next
    <2>1. /\ t \in AsyncTasks /\ ret[t] = "none" /\ node[t] = "none" /\ ~Expired(t)
          /\ starts[t] = 0 /\ ends[t] = 0
        BY <1>3 DEF AddTaskAppend, CallInv, IInv, PlaceInv, Unanswered, Outside, Untouched,
            SyncInv, Expired
    <2>2. /\ node' = [node EXCEPT ![t] = "live"] /\ ret' = [ret EXCEPT ![t] = "SUCCESS"]
          /\ UNCHANGED <<starts, ends, taskStat>>
        BY <1>3 DEF AddTaskAppend, Return
    <2>3. /\ \A u \in Tasks \ {t} : Enqueued(u)' <=> Enqueued(u)
          /\ \A u \in Tasks : Expired(u)' <=> Expired(u)
          /\ ~Enqueued(t) /\ Enqueued(t)'
        BY <2>1, <2>2 DEF Enqueued, Expired, IInv, TypeOK, TaskType
    <2>4. absState' = [absState EXCEPT ![t] = absState'[t]]
        BY <2>2, <2>3, StateKept, StateMoves, {t} \subseteq Tasks
    <2>5. absState[t] = "new" /\ absState'[t] = "accepted"
        BY <2>1, <2>2, <2>3 DEF absState, Expired
    <2>6. ret'[t] = "SUCCESS" /\ absAnswer' = [absAnswer EXCEPT ![t] = absAnswer'[t]]
        BY <2>2, Answered DEF Returns
    <2>7. absAnswer[t] = "none" /\ absAnswer'[t] = "ok"
        BY <2>1, <2>6 DEF absAnswer
    <2>8. Abs!AcceptAsync(t)
        BY <2>1, <2>4, <2>5, <2>6, <2>7 DEF Abs!AcceptAsync, Abs!Move, Abs!Answer
    <2> QED BY <2>8 DEF Abs!Next, Abs!All, Tasks
<1>4. ASSUME NEW t \in Tasks, SyncEnter(t) PROVE Abs!Next \/ UNCHANGED Abs!avars
    <2>1. UNCHANGED <<starts, ends, node, taskStat>> /\ call[t] = "idle"
        BY <1>4 DEF SyncEnter, CanCall
    <2>2. CASE ret' = ret
        BY <2>1, <2>2, StutterStep DEF Expired, Enqueued
    <2>3. CASE ret' = [ret EXCEPT ![t] = "EINVAL"]
        BY <2>1, <2>3, RefuseStep DEF Expired
    <2> QED BY <1>4, <2>2, <2>3 DEF SyncEnter, Goto, Return
<1>5. ASSUME NEW t \in Tasks, SyncAppend(t) PROVE Abs!Next
    <2>1. /\ t \in SyncTasks /\ ret[t] = "none" /\ node[t] = "none" /\ ~Expired(t)
          /\ starts[t] = 0 /\ ends[t] = 0
        BY <1>5 DEF SyncAppend, IInv, PlaceInv, Unanswered, Outside, Untouched, SyncInv,
            Expired
    <2>2. /\ node' = [node EXCEPT ![t] = "live"] /\ taskStat' = [taskStat EXCEPT ![t] = "INIT"]
          /\ UNCHANGED <<starts, ends, ret>>
        BY <1>5 DEF SyncAppend, Goto
    <2>3. /\ \A u \in Tasks \ {t} : Enqueued(u)' <=> Enqueued(u)
          /\ \A u \in Tasks : Expired(u)' <=> Expired(u)
          /\ ~Enqueued(t) /\ Enqueued(t)'
        BY <2>1, <2>2 DEF Enqueued, Expired, IInv, TypeOK, TaskType
    <2>4. absState' = [absState EXCEPT ![t] = absState'[t]]
        BY <2>2, <2>3, StateKept, StateMoves, {t} \subseteq Tasks
    <2>5. absState[t] = "new" /\ absState'[t] = "accepted"
        <3>1. ~(taskStat[t] = "TIMEOUT") /\ ~(taskStat'[t] = "TIMEOUT")
            BY <2>1, <2>3 DEF Expired
        <3> QED BY <2>1, <2>2, <2>3, <3>1 DEF absState
    <2>6. absAnswer' = absAnswer /\ absAnswer[t] = "none"
        BY <2>1, <2>2 DEF absAnswer
    <2>7. Abs!AcceptSync(t)
        BY <2>1, <2>4, <2>5, <2>6 DEF Abs!AcceptSync, Abs!Move
    <2> QED BY <2>7 DEF Abs!Next, Abs!All, Tasks
<1>6. ASSUME NEW t \in Tasks, SyncClockFails(t) PROVE Abs!Next
    <2>1. /\ call[t] = "entered" /\ ret' = [ret EXCEPT ![t] = "EIO"]
          /\ node' = [node EXCEPT ![t] = "live"] /\ taskStat' = [taskStat EXCEPT ![t] = "INIT"]
          /\ UNCHANGED <<starts, ends>>
        BY <1>6 DEF SyncClockFails, Return
    <2>2. \A u \in Tasks : Expired(u)' <=> Expired(u)
        BY <2>1 DEF Expired, SyncInv, IInv, TypeOK, TaskType
    <2>3. \A u \in Tasks \ {t} : node'[u] = node[u]
        BY <2>1 DEF IInv, TypeOK, TaskType
    <2> QED BY <2>1, <2>2, <2>3, RefuseStep
<1>7. ASSUME NEW t \in Tasks, SyncWait(t) \/ SyncWakesAlone(t) PROVE UNCHANGED Abs!avars
    BY <1>7, StutterStep DEF SyncWait, SyncWakesAlone, Goto, Expired, Enqueued
<1>8. ASSUME NEW t \in Tasks, SyncReturns(t) PROVE Abs!Next
    <2>1. /\ t \in SyncTasks /\ ret[t] = "none" /\ node[t] # "none"
          /\ ends[t] = 1 \/ "spurious" \in Env
          /\ ends[t] = 1 => starts[t] = 1
        BY <1>8 DEF SyncReturns, CallInv, IInv, PlaceInv, Unanswered
    <2>2. ret' = [ret EXCEPT ![t] = "SUCCESS"] /\ UNCHANGED <<starts, ends, node, taskStat>>
        BY <1>8 DEF SyncReturns, Return
    <2>3. Enqueued(t) /\ absState[t] # "new"
        BY <2>1, Stages DEF Enqueued, IInv, PlaceInv, Runs
    <2>4. "spurious" \notin Env => absState[t] = "done"
        BY <2>1, Stages
    <2>5. absState' = absState
        <3>1. \A u \in Tasks : (Expired(u)' <=> Expired(u)) /\ (Enqueued(u)' <=> Enqueued(u))
            BY <2>1, <2>2 DEF Expired, Enqueued, IInv, TypeOK, TaskType
        <3> QED BY <2>2, <3>1, StateKept, StateStays, {} \subseteq Tasks
    <2>6. ret'[t] = "SUCCESS" /\ absAnswer' = [absAnswer EXCEPT ![t] = absAnswer'[t]]
        BY <2>2, Answered DEF Returns
    <2>7. absAnswer[t] = "none" /\ absAnswer'[t] = "ok"
        BY <2>1, <2>6 DEF absAnswer
    <2>8. Abs!AnswerOk(t)
        BY <2>1, <2>3, <2>4, <2>5, <2>6, <2>7 DEF Abs!AnswerOk, Abs!Answer
    <2> QED BY <2>8 DEF Abs!Next, Abs!All, Tasks
<1>9. ASSUME NEW t \in Tasks, SyncMark(t) PROVE Abs!Next \/ UNCHANGED Abs!avars
    <2>1. /\ t \in SyncTasks /\ ret[t] = "none" /\ node[t] # "none"
          /\ taskStat[t] = "INIT" /\ starts[t] \in {0, 1} /\ ends[t] \in {0, 1}
          /\ ends[t] = 1 => starts[t] = 1
        BY <1>9 DEF SyncMark, CallInv, SyncInv, IInv, PlaceInv, Unanswered, Runs
    <2>2. /\ taskStat' = [taskStat EXCEPT ![t] = "TIMEOUT"]
          /\ UNCHANGED <<starts, ends, node, ret>>
        BY <1>9 DEF SyncMark, Goto
    <2>3. /\ \A u \in Tasks : Enqueued(u)' <=> Enqueued(u)
          /\ \A u \in Tasks \ {t} : Expired(u)' <=> Expired(u)
          /\ Enqueued(t) /\ ~Expired(t) /\ taskStat'[t] = "TIMEOUT"
        BY <2>1, <2>2 DEF Enqueued, Expired, IInv, TypeOK, TaskType
    <2>4. absState' = [absState EXCEPT ![t] = absState'[t]]
        BY <2>2, <2>3, StateKept, StateMoves, {t} \subseteq Tasks
    <2>5. absAnswer' = absAnswer
        BY <2>2 DEF absAnswer
    <2>6. CASE starts[t] = 1
        <3>1. absState'[t] = absState[t]
            BY <2>1, <2>2, <2>6 DEF absState
        <3>2. absState' = absState
            BY ZenonT(60), <2>4, <3>1 DEF absState
        <3> QED BY <2>5, <3>2 DEF Abs!avars
    <2>7. CASE starts[t] = 0
        <3>1. ends[t] = 0
            BY <2>1, <2>7
        <3>2. absState[t] = "accepted" /\ absState'[t] = "expired"
            BY <2>2, <2>3, <2>7, <3>1 DEF absState, Expired
        <3>3. Abs!Expire(t)
            BY <2>1, <2>4, <2>5, <3>2 DEF Abs!Expire, Abs!Move
        <3> QED BY <3>3 DEF Abs!Next, Abs!All, Tasks
    <2> QED BY <2>1, <2>6, <2>7
<1>10. ASSUME NEW t \in Tasks, SyncGivesUp(t) PROVE Abs!Next
    <2>1. /\ t \in SyncTasks /\ ret[t] = "none" /\ node[t] # "none" /\ Expired(t)
          /\ starts[t] \in {0, 1} /\ ends[t] \in {0, 1}
          /\ ends[t] = 1 => starts[t] = 1
        BY <1>10 DEF SyncGivesUp, CallInv, IInv, PlaceInv, Unanswered, Runs, Expired
    <2>2. /\ ret' = [ret EXCEPT ![t] = "ETIMEDOUT"]
          /\ UNCHANGED <<starts, ends, node, taskStat>>
        BY <1>10 DEF SyncGivesUp, Return
    <2>3. absState[t] \in {"started", "done", "expired"}
        BY <2>1, Stages
    <2>4. absState' = absState
        <3>1. \A u \in Tasks : (Expired(u)' <=> Expired(u)) /\ (Enqueued(u)' <=> Enqueued(u))
            BY <2>1, <2>2 DEF Expired, Enqueued, IInv, TypeOK, TaskType
        <3> QED BY <2>2, <3>1, StateKept, StateStays, {} \subseteq Tasks
    <2>5. ret'[t] = "ETIMEDOUT" /\ absAnswer' = [absAnswer EXCEPT ![t] = absAnswer'[t]]
        BY <2>2, Answered DEF Returns
    <2>6. absAnswer[t] = "none" /\ absAnswer'[t] = "late"
        BY <2>1, <2>5 DEF absAnswer
    <2>7. Abs!AnswerLate(t)
        BY <2>1, <2>3, <2>4, <2>5, <2>6 DEF Abs!AnswerLate, Abs!Answer
    <2> QED BY <2>7 DEF Abs!Next, Abs!All, Tasks
<1>11. ASSUME NEW w \in Workers,
              WorkerSection(w) \/ WorkerSkips(w) \/ WorkerFinishes(w) \/ WorkerSignals(w)
       PROVE  UNCHANGED Abs!avars
    <2>1. UNCHANGED <<starts, ends, ret, taskStat>>
        BY <1>11 DEF WorkerSection, WorkerSkips, WorkerFinishes, WorkerSignals
    <2>2. \A u \in Tasks : node'[u] # "none" <=> node[u] # "none"
        <3>1. CASE node' = node
            BY <3>1
        <3>2. CASE batch[w] # <<>> /\ node' = [node EXCEPT ![Head(batch[w])] = "freed"]
            <4>1. Head(batch[w]) \in Tasks /\ node[Head(batch[w])] # "none"
                BY <3>2, HeadInBatch DEF CallInv, OnHand, IInv
            <4> QED BY <3>2, <4>1 DEF IInv, TypeOK, TaskType
        <3>3. WorkerSkips(w) \/ WorkerFinishes(w) \/ WorkerSignals(w) => batch[w] # <<>>
            BY DEF WorkerSkips, WorkerFinishes, WorkerSignals, IInv, BatchShape
        <3> QED BY <1>11, <3>1, <3>2, <3>3 DEF WorkerSection, WorkerSkips, WorkerFinishes,
                WorkerSignals, Dispose, MemFree
    <2> QED BY <2>1, <2>2, StutterStep DEF Expired, Enqueued
<1>12. ASSUME NEW w \in Workers, WorkerStarts(w) PROVE Abs!Next
    <2>1. batch[w] # <<>> /\ wpc[w] = "batch"
        BY <1>12 DEF WorkerStarts, IInv, BatchShape
    <2>2. PICK h \in Tasks : h = Head(batch[w])
        BY <2>1, HeadInBatch DEF IInv
    <2>3. OnHand(h) /\ starts[h] = 0 /\ ends[h] = 0
        BY <2>1, <2>2, HeadInBatch DEF IInv, PlaceInv, Waits, Untouched, OnHand
    <2>4. Enqueued(h) /\ ~Expired(h)
        BY <1>12, <2>2, <2>3 DEF CallInv, Enqueued, WorkerStarts, TimedOut, Expired
    <2>5. starts' = [starts EXCEPT ![h] = @ + 1] /\ UNCHANGED <<ends, ret, node, taskStat>>
        BY <1>12, <2>2 DEF WorkerStarts
    <2>6. /\ starts'[h] = 1 /\ \A u \in Tasks \ {h} : starts'[u] = starts[u]
        BY <2>3, <2>5 DEF IInv, TypeOK, TaskType
    <2>7. absState' = [absState EXCEPT ![h] = absState'[h]]
        <3>1. \A u \in Tasks \ {h} : absState'[u] = absState[u]
            BY <2>5, <2>6 DEF absState, Enqueued
        <3> QED BY <3>1, StateMoves
    <2>8. absState[h] = "accepted" /\ absState'[h] = "started"
        BY <2>3, <2>4, <2>5, <2>6 DEF absState, Expired
    <2>9. Abs!Start(h)
        BY <2>5, <2>7, <2>8 DEF Abs!Start, Abs!Move, absAnswer
    <2> QED BY <2>9 DEF Abs!Next, Abs!All, Tasks
<1>13. ASSUME NEW w \in Workers, WorkerEnds(w) PROVE Abs!Next
    <2>1. batch[w] # <<>> /\ wpc[w] = "running"
        BY <1>13 DEF WorkerEnds, IInv, BatchShape
    <2>2. PICK h \in Tasks : h = Head(batch[w])
        BY <2>1, HeadInBatch DEF IInv
    <2>3. starts[h] = 1 /\ ends[h] = 0
        BY <2>1, <2>2 DEF IInv, PlaceInv, Runs
    <2>4. ends' = [ends EXCEPT ![h] = @ + 1] /\ UNCHANGED <<starts, ret, node, taskStat>>
        BY <1>13, <2>2 DEF WorkerEnds
    <2>5. /\ ends'[h] = 1 /\ \A u \in Tasks \ {h} : ends'[u] = ends[u]
        BY <2>3, <2>4 DEF IInv, TypeOK, TaskType
    <2>6. absState' = [absState EXCEPT ![h] = absState'[h]]
        <3>1. \A u \in Tasks \ {h} : absState'[u] = absState[u]
            BY <2>4, <2>5 DEF absState, Enqueued
        <3> QED BY <3>1, StateMoves
    <2>7. absState[h] = "started" /\ absState'[h] = "done"
        BY <2>3, <2>4, <2>5 DEF absState
    <2>8. Abs!Finish(h)
        BY <2>4, <2>6, <2>7 DEF Abs!Finish, Abs!Move, absAnswer
    <2> QED BY <2>8 DEF Abs!Next, Abs!All, Tasks
<1> QED BY <1>1, <1>2, <1>3, <1>4, <1>5, <1>6, <1>7, <1>8, <1>9, <1>10, <1>11, <1>12,
           <1>13, StepKinds

LEMMA InitRefines == Init => Abs!Init
BY DEF Init, Abs!Init, Abs!All, Tasks, absState, absAnswer, Enqueued

\* Every behaviour of the pool is one of TaskPool's, for any number of workers, callers
\* and tasks: no step of worker, caller or tear-down takes a task or an answer where the
\* callers could not expect it.
THEOREM PoolImplements == Spec => Refines
<1>1. RefInv /\ RefInv' /\ [Next]_vars => [Abs!Next]_Abs!avars
    BY StepRefines
<1> QED BY <1>1, InitRefines, Invariance, SyncInvariance, CallInvariance, PTL
        DEF Spec, RefInv, Refines, Abs!Spec

-----------------------------------------------------------------------------
(***************************************************************************)
(* The length limit.  A caller past its check holds a place that is not    *)
(* yet taken on the list: places taken and held together stay within the   *)
(* limit that the last check saw, and one per other caller.                *)
(***************************************************************************)
Calling == {t \in Tasks : InCall(t)}
Checked == {t \in Tasks : call[t] = "checked"}
Queued == {t \in AsyncTasks : InQueue(t)}

CallersBusy == Cardinality(Calling) <= Callers

WithinLimit ==
    Queued \cup Checked # {} =>
        \E m \in MaxLengths :
            Cardinality(Queued) + Cardinality(Checked) <= m + Callers - 1

LimitInv == CallersBusy /\ WithinLimit

LEMMA FiniteParts == \A S \in SUBSET Tasks : IsFiniteSet(S) /\ Cardinality(S) \in Nat
BY TasksAssumption, FS_Subset, FS_CardinalityType

\* A set of tasks gains or loses at most one
LEMMA Gains ==
    ASSUME NEW S \in SUBSET Tasks, NEW T \in SUBSET Tasks, NEW t \in Tasks,
           T \subseteq S \cup {t}
    PROVE  Cardinality(T) <= Cardinality(S) + 1
<1>1. IsFiniteSet(S) /\ IsFiniteSet(S \cup {t}) /\ Cardinality(S) \in Nat
      /\ Cardinality(T) \in Nat
    BY FiniteParts, {t} \subseteq Tasks
<1>2. Cardinality(S \cup {t}) <= Cardinality(S) + 1
    BY <1>1, FS_AddElement
<1>3. Cardinality(T) <= Cardinality(S \cup {t})
    BY <1>1, FS_Subset
<1>4. Cardinality(S \cup {t}) \in Nat
    BY <1>1, FS_CardinalityType
<1> QED BY <1>1, <1>2, <1>3, <1>4

LEMMA GainsOne ==
    ASSUME NEW S \in SUBSET Tasks, NEW t \in Tasks \ S
    PROVE  Cardinality(S \cup {t}) = Cardinality(S) + 1
BY FiniteParts, FS_AddElement

LEMMA LosesOne ==
    ASSUME NEW S \in SUBSET Tasks, NEW t \in S
    PROVE  Cardinality(S \ {t}) = Cardinality(S) - 1
BY FiniteParts, FS_RemoveElement

LEMMA Smaller ==
    ASSUME NEW S \in SUBSET Tasks, NEW T \in SUBSET S
    PROVE  Cardinality(T) <= Cardinality(S)
BY FiniteParts, FS_Subset

LEMMA CallersInductive == IInv /\ CallersBusy /\ [Next]_vars => CallersBusy'
<1> SUFFICES ASSUME IInv, CallersBusy, [Next]_vars PROVE CallersBusy'
    OBVIOUS
<1> USE DEF callVars
<1>1. Cardinality(Calling) \in Nat /\ Cardinality(Calling') \in Nat
    BY FiniteParts DEF Calling
<1>2. ASSUME Calling' \subseteq Calling PROVE CallersBusy'
    <2>1. Cardinality(Calling') <= Cardinality(Calling)
        BY <1>2, Smaller DEF Calling
    <2> QED BY <1>1, <2>1, LimitsAssumption DEF CallersBusy
<1>3. ASSUME call' = call PROVE Calling' \subseteq Calling
    BY <1>3 DEF Calling, InCall
<1>4. ASSUME NEW t \in Tasks, AddTaskEnter(t) \/ SyncEnter(t) PROVE CallersBusy'
    <2>1. Cardinality(Calling) < Callers
        BY <1>4 DEF AddTaskEnter, SyncEnter, CanCall, Calling
    <2>2. Calling' \subseteq Calling \cup {t}
        BY <1>4 DEF AddTaskEnter, SyncEnter, Goto, Return, Calling, InCall, IInv, TypeOK,
            TaskType
    <2>3. Cardinality(Calling') <= Cardinality(Calling) + 1
        BY <2>2, Gains DEF Calling
    <2> QED BY <1>1, <2>1, <2>3, LimitsAssumption DEF CallersBusy
<1>5. ASSUME NEW t \in Tasks, InCall(t), NEW c \in CallPcs, call' = [call EXCEPT ![t] = c]
      PROVE  Calling' \subseteq Calling
    BY <1>5 DEF Calling, InCall, IInv, TypeOK, TaskType
<1>6. ASSUME NEW t \in Tasks,
             \/ AddTaskCheck(t) \/ AddTaskAppend(t) \/ SyncAppend(t) \/ SyncClockFails(t)
             \/ SyncWait(t) \/ SyncWakesAlone(t) \/ SyncReturns(t) \/ SyncMark(t)
             \/ SyncGivesUp(t)
      PROVE  CallersBusy'
    <2>1. InCall(t)
        BY <1>6 DEF InCall, AddTaskCheck, AddTaskAppend, SyncAppend, SyncClockFails,
            SyncWait, SyncWakesAlone, SyncReturns, SyncMark, SyncGivesUp
    <2>2. \E c \in CallPcs : call' = [call EXCEPT ![t] = c]
        BY <1>6 DEF CallPcs, Goto, Return, AddTaskCheck, AddTaskAppend, SyncAppend,
            SyncClockFails, SyncWait, SyncWakesAlone, SyncReturns, SyncMark, SyncGivesUp
    <2> QED BY <1>2, <1>5, <2>1, <2>2
<1>7. ASSUME NEW w \in Workers, WorkerSignals(w) PROVE CallersBusy'
    <2>1. batch[w] # <<>>
        BY <1>7 DEF WorkerSignals, IInv, BatchShape
    <2>2. PICK h \in Tasks : h = Head(batch[w])
        BY <2>1, HeadInBatch DEF IInv
    <2>3. CASE call' = call
        BY <1>2, <1>3, <2>3
    <2>4. CASE call[h] = "waiting" /\ call' = [call EXCEPT ![h] = "signalled"]
        BY <1>2, <1>5, <2>4 DEF InCall, CallPcs
    <2> QED BY <1>7, <2>2, <2>3, <2>4 DEF WorkerSignals
<1>8. ASSUME NEW w \in Workers, \/ WorkerSection(w) \/ WorkerSkips(w) \/ WorkerStarts(w)
                                \/ WorkerEnds(w) \/ WorkerFinishes(w)
      PROVE  CallersBusy'
    <2>1. call' = call
        BY <1>8 DEF WorkerSection, WorkerSkips, WorkerStarts, WorkerEnds, WorkerFinishes
    <2> QED BY <1>2, <1>3, <2>1
<1>9. CASE Idle
    BY <1>2, <1>3, <1>9, IdleStep DEF taskVars
<1> QED BY <1>4, <1>6, <1>7, <1>8, <1>9, StepKinds

\* No more asynchronous tasks are on the list than it has nodes
LEMMA QueuedFits == TypeOK => Cardinality(Queued) <= Len(queue)
<1> SUFFICES ASSUME TypeOK PROVE Cardinality(Queued) <= Len(queue)
    OBVIOUS
<1> DEFINE all == {queue[i] : i \in 1..Len(queue)}
<1>1. queue \in Seq(Tasks) /\ Len(queue) \in Nat
    BY DEF TypeOK, PoolType
<1>2. IsFiniteSet(1..Len(queue)) /\ Cardinality(1..Len(queue)) = Len(queue)
    BY <1>1, FS_Interval
<1>3. all \subseteq Tasks /\ Queued \subseteq all
    BY <1>1 DEF Queued, InQueue
<1>4. Cardinality(all) <= Cardinality(1..Len(queue))
    <2>1. [i \in 1..Len(queue) |-> queue[i]] \in Surjection(1..Len(queue), all)
        BY DEF Surjection
    <2> HIDE DEF all
    <2> QED BY <1>2, <2>1, FS_Surjection
<1>5. Cardinality(Queued) <= Cardinality(all)
    BY <1>3, Smaller
<1>6. Cardinality(Queued) \in Nat /\ Cardinality(all) \in Nat
    BY <1>3, FiniteParts
<1> HIDE DEF all
<1> QED BY <1>1, <1>2, <1>4, <1>5, <1>6

LEMMA LimitInductive ==
    IInv /\ CallInv /\ LengthAgrees /\ LimitInv /\ [Next]_vars => WithinLimit'
<1> SUFFICES ASSUME IInv, CallInv, LengthAgrees, LimitInv, [Next]_vars,
                    CallersBusy'
             PROVE  WithinLimit'
    BY CallersInductive DEF LimitInv
<1> USE DEF callVars, poolVars
<1>1. /\ Queued \subseteq Tasks /\ Checked \subseteq Tasks
      /\ Queued' \subseteq Tasks /\ Checked' \subseteq Tasks
      /\ Cardinality(Queued) \in Nat /\ Cardinality(Checked) \in Nat
      /\ Cardinality(Queued') \in Nat /\ Cardinality(Checked') \in Nat
    BY FiniteParts DEF Queued, Checked, Tasks
<1>2. ASSUME Queued' \subseteq Queued, Checked' \subseteq Checked PROVE WithinLimit'
    <2>1. /\ Cardinality(Queued') <= Cardinality(Queued)
          /\ Cardinality(Checked') <= Cardinality(Checked)
        BY <1>1, <1>2, Smaller
    <2> QED BY <1>1, <1>2, <2>1, LimitsAssumption DEF LimitInv, WithinLimit
<1>3. ASSUME NEW t \in Tasks, AddTaskCheck(t) PROVE WithinLimit'
    <2>1. Queued' = Queued
        BY <1>3 DEF AddTaskCheck, Queued, InQueue
    <2>2. CASE call' = [call EXCEPT ![t] = "returned"]
        <3>1. Checked' \subseteq Checked
            BY <2>2 DEF Checked, IInv, TypeOK, TaskType
        <3> QED BY <1>2, <2>1, <3>1
    <2>3. CASE ~Full /\ call' = [call EXCEPT ![t] = "checked"]
        <3>1. Checked' \subseteq Calling'
            BY DEF Checked, Calling, InCall
        <3>2. Cardinality(Checked') <= Cardinality(Calling') /\ Cardinality(Calling') \in Nat
            BY <3>1, Smaller, FiniteParts DEF Calling
        <3>3. Cardinality(Checked') <= Callers
            BY <1>1, <3>2, LimitsAssumption DEF CallersBusy
        <3>4. taskMaxLength \in MaxLengths /\ Len(queue) \in Nat /\ Len(queue) < taskMaxLength
            BY <2>3, LimitsAssumption DEF Full, LengthAgrees, IInv, TypeOK, PoolType
        <3>5. Cardinality(Queued) <= Len(queue)
            BY QueuedFits DEF IInv
        <3>6. Cardinality(Queued') + Cardinality(Checked') <= taskMaxLength + Callers - 1
            BY <1>1, <2>1, <3>3, <3>4, <3>5, LimitsAssumption
        <3> QED BY <3>4, <3>6 DEF WithinLimit
    <2> QED BY <1>3, <2>2, <2>3 DEF AddTaskCheck, Goto, Return
<1>4. ASSUME NEW t \in Tasks, AddTaskAppend(t) PROVE WithinLimit'
    <2>1. t \in Checked /\ t \in AsyncTasks /\ ~InQueue(t)
        BY <1>4 DEF AddTaskAppend, Checked, CallInv, IInv, PlaceInv, Outside
    <2>2. \A u \in Tasks : InQueue(u)' <=> InQueue(u) \/ u = t
        BY <1>4, <2>1, Appended DEF AddTaskAppend, Enqueue, IInv, PlaceInv, Apart
    <2>3. Queued' = Queued \cup {t} /\ t \notin Queued
        BY <2>1, <2>2 DEF Queued, Tasks
    <2>4. Checked' = Checked \ {t}
        BY <1>4 DEF AddTaskAppend, Return, Checked, IInv, TypeOK, TaskType
    <2>5. /\ Cardinality(Queued') = Cardinality(Queued) + 1
          /\ Cardinality(Checked') = Cardinality(Checked) - 1
        BY <1>1, <2>1, <2>3, <2>4, GainsOne, LosesOne
    <2>6. Cardinality(Queued') + Cardinality(Checked')
            = Cardinality(Queued) + Cardinality(Checked)
        BY <1>1, <2>5
    <2>7. Queued \cup Checked # {}
        BY <2>1
    <2> QED BY <2>6, <2>7 DEF LimitInv, WithinLimit
<1>5. ASSUME NEW t \in Tasks, SyncAppend(t) PROVE WithinLimit'
    <2>1. ~InQueue(t) /\ t \in SyncTasks
        BY <1>5 DEF SyncAppend, IInv, PlaceInv, Outside
    <2>2. \A u \in Tasks : InQueue(u)' <=> InQueue(u) \/ u = t
        BY <1>5, <2>1, Appended DEF SyncAppend, Enqueue, IInv, PlaceInv, Apart
    <2>3. Queued' \subseteq Queued
        BY <2>1, <2>2, TasksAssumption DEF Queued, Tasks
    <2>4. Checked' \subseteq Checked
        BY <1>5 DEF SyncAppend, Goto, Checked, IInv, TypeOK, TaskType
    <2> QED BY <1>2, <2>3, <2>4
<1>6. ASSUME NEW t \in Tasks,
             \/ AddTaskEnter(t) \/ SyncEnter(t) \/ SyncClockFails(t) \/ SyncWait(t)
             \/ SyncWakesAlone(t) \/ SyncReturns(t) \/ SyncMark(t) \/ SyncGivesUp(t)
      PROVE  WithinLimit'
    <2>1. queue' = queue
        BY <1>6 DEF AddTaskEnter, SyncEnter, SyncClockFails, SyncWait, SyncWakesAlone,
            SyncReturns, SyncMark, SyncGivesUp
    <2>2. \E c \in CallPcs \ {"checked"} : call' = [call EXCEPT ![t] = c]
        BY <1>6 DEF CallPcs, Goto, Return, AddTaskEnter, SyncEnter, SyncClockFails, SyncWait,
            SyncWakesAlone, SyncReturns, SyncMark, SyncGivesUp
    <2>3. Checked' \subseteq Checked
        BY <2>2 DEF Checked, IInv, TypeOK, TaskType
    <2>4. Queued' \subseteq Queued
        BY <2>1 DEF Queued, InQueue
    <2> QED BY <1>2, <2>3, <2>4
<1>7. ASSUME NEW w \in Workers,
             \/ WorkerSection(w) \/ WorkerSkips(w) \/ WorkerStarts(w) \/ WorkerEnds(w)
             \/ WorkerFinishes(w) \/ WorkerSignals(w)
      PROVE  WithinLimit'
    <2>1. queue' = queue \/ queue' = <<>>
        BY <1>7 DEF WorkerSection, TakeList, WorkerSkips, WorkerStarts, WorkerEnds,
            WorkerFinishes, WorkerSignals
    <2>2. \A t \in Tasks : call'[t] = "checked" => call[t] = "checked"
        BY <1>7 DEF WorkerSection, WorkerSkips, WorkerStarts, WorkerEnds, WorkerFinishes,
            WorkerSignals, IInv, TypeOK, TaskType
    <2>3. Checked' \subseteq Checked
        BY <2>2 DEF Checked
    <2>4. Queued' \subseteq Queued
        BY <2>1 DEF Queued, InQueue
    <2> QED BY <1>2, <2>3, <2>4
<1>8. CASE Idle
    <2>1. Queued' \subseteq Queued /\ Checked' \subseteq Checked
        BY <1>8, IdleStep DEF taskVars, Queued, InQueue, Checked
    <2> QED BY <1>2, <2>1
<1> QED BY <1>3, <1>4, <1>5, <1>6, <1>7, <1>8, StepKinds

LEMMA LimitInit == Init => LimitInv
<1> SUFFICES ASSUME Init PROVE LimitInv
    OBVIOUS
<1>1. Calling = {} /\ Checked = {} /\ Queued = {}
    BY DEF Init, Calling, InCall, Checked, Queued, InQueue
<1> QED BY <1>1, FS_EmptySet, LimitsAssumption DEF LimitInv, CallersBusy, WithinLimit

LEMMA LimitInvariance == Spec => []LimitInv
<1>1. IInv /\ CallInv /\ LengthAgrees /\ LimitInv /\ [Next]_vars => LimitInv'
    BY LimitInductive, CallersInductive DEF LimitInv
<1> QED BY <1>1, LimitInit, Invariance, CallInvariance, LengthIsExact, PTL DEF Spec

\* The list passes its limit by no more than the callers between check and append,
\* whatever the limit is changed to meanwhile.
THEOREM LimitNearlyKept == Spec => []QueueOvershoot
<1>1. LimitInv => QueueOvershoot
    <2> SUFFICES ASSUME LimitInv, Queued # {}
                 PROVE  \E m \in MaxLengths : Cardinality(Queued) <= m + Callers - 1
        BY DEF QueueOvershoot, Queued
    <2>1. PICK m \in MaxLengths :
            Cardinality(Queued) + Cardinality(Checked) <= m + Callers - 1
        BY DEF LimitInv, WithinLimit
    <2>2. Cardinality(Queued) \in Nat /\ Cardinality(Checked) \in Nat
        BY FiniteParts DEF Queued, Checked, Tasks
    <2> QED BY <2>1, <2>2, LimitsAssumption
<1> QED BY <1>1, LimitInvariance, PTL

-----------------------------------------------------------------------------
(***************************************************************************)
(* The numbers kept beside the list.                                       *)
(***************************************************************************)
Parked == {w \in Workers : wpc[w] \in {"waiting", "woken", "leaving"}}
Quit == {w \in Workers : wpc[w] = "exited"}

LEMMA FiniteCrews == \A S \in SUBSET Workers : IsFiniteSet(S) /\ Cardinality(S) \in Nat
BY WorkersAssumption, FS_Subset, FS_CardinalityType

LEMMA CrewChange ==
    ASSUME NEW S \in SUBSET Workers, NEW w \in Workers
    PROVE  /\ w \notin S => Cardinality(S \cup {w}) = Cardinality(S) + 1
           /\ w \in S => Cardinality(S \ {w}) = Cardinality(S) - 1
BY FiniteCrews, FS_AddElement, FS_RemoveElement

\* What a worker's step does to the parked and to those that quit
LEMMA CrewStep ==
    ASSUME IInv, NEW w \in Workers, NEW pc \in WorkerPcs, wpc' = [wpc EXCEPT ![w] = pc]
    PROVE  /\ Parked' = IF pc \in {"waiting", "woken", "leaving"}
                        THEN Parked \cup {w} ELSE Parked \ {w}
           /\ Quit' = IF pc = "exited" THEN Quit \cup {w} ELSE Quit \ {w}
BY DEF Parked, Quit, IInv, TypeOK, WorkerType

LEMMA CrewSame ==
    ASSUME \/ wpc' = wpc
           \/ Signal /\ IInv
           \/ Broadcast
    PROVE  Parked' = Parked /\ Quit' = Quit
<1>1. \A w \in Workers : wpc'[w] = wpc[w] \/ (wpc[w] = "waiting" /\ wpc'[w] = "woken")
    BY DEF Signal, Broadcast, Waiting, IInv, TypeOK, WorkerType
<1> QED BY <1>1 DEF Parked, Quit

LEMMA ThreadNumInductive ==
    IInv /\ CurrentThreadNumLaw /\ [Next]_vars => CurrentThreadNumLaw'
<1> SUFFICES ASSUME IInv, CurrentThreadNumLaw, [Next]_vars PROVE CurrentThreadNumLaw'
    OBVIOUS
<1> USE DEF poolVars
<1>1. /\ currentThreadNum + Cardinality(Quit) = Cardinality(Parked)
      /\ currentThreadNum \in Int
      /\ Parked \subseteq Workers /\ Quit \subseteq Workers
      /\ Cardinality(Quit) \in Nat /\ Cardinality(Parked) \in Nat
    BY FiniteCrews DEF CurrentThreadNumLaw, Parked, Quit, IInv, TypeOK, PoolType
<1>2. ASSUME currentThreadNum' + Cardinality(Quit') = Cardinality(Parked')
      PROVE  CurrentThreadNumLaw'
    BY <1>2 DEF CurrentThreadNumLaw, Parked, Quit
<1>3. ASSUME currentThreadNum' = currentThreadNum, Parked' = Parked, Quit' = Quit
      PROVE  CurrentThreadNumLaw'
    BY <1>1, <1>2, <1>3
<1>4. CASE InitCreate
    <2>1. \A w \in Workers : wpc[w] = "unborn" /\ wpc'[w] = "top"
        BY <1>4 DEF InitCreate, IInv, BatchShape
    <2>2. Parked = {} /\ Quit = {} /\ Parked' = {} /\ Quit' = {}
        BY <2>1 DEF Parked, Quit
    <2> QED BY <1>3, <1>4, <2>2 DEF InitCreate
<1>5. CASE \/ UNCHANGED <<wpc, currentThreadNum>>
           \/ Signal /\ UNCHANGED currentThreadNum
           \/ Broadcast /\ UNCHANGED currentThreadNum
    BY <1>3, <1>5, CrewSame
<1>6. ASSUME NEW w \in Workers, WorkerSection(w) PROVE CurrentThreadNumLaw'
    <2>1. wpc[w] = "lock" => w \notin Parked /\ w \notin Quit
        BY DEF Parked, Quit
    <2>2. wpc[w] = "woken" => w \in Parked /\ w \notin Quit
        BY DEF Parked, Quit
    <2>3. wpc[w] = "lock" \/ wpc[w] = "woken"
        BY <1>6 DEF WorkerSection
    <2>4. CASE /\ currentThreadNum' = Counted(w)
               /\ \E pc \in {"leaving", "waiting"} : wpc' = [wpc EXCEPT ![w] = pc]
        <3>1. Parked' = Parked \cup {w} /\ Quit' = Quit \ {w}
            BY <2>4, CrewStep DEF WorkerPcs
        <3>2. Quit' = Quit
            BY <2>1, <2>2, <2>3, <3>1
        <3>3. CASE wpc[w] = "lock"
            <4>1. currentThreadNum' = currentThreadNum + 1
                BY <1>1, <2>4, <3>3 DEF Counted
            <4>2. Cardinality(Parked') = Cardinality(Parked) + 1
                BY <1>1, <2>1, <3>1, <3>3, CrewChange
            <4> QED BY <1>1, <1>2, <3>2, <4>1, <4>2
        <3>4. CASE wpc[w] = "woken"
            <4>1. currentThreadNum' = currentThreadNum
                BY <1>1, <2>4, <3>4 DEF Counted
            <4> QED BY <1>3, <2>2, <3>1, <3>2, <3>4, <4>1
        <3> QED BY <2>3, <3>3, <3>4
    <2>5. CASE /\ currentThreadNum' = Counted(w) - 1
               /\ wpc' = [wpc EXCEPT ![w] = "batch"]
        <3>1. Parked' = Parked \ {w} /\ Quit' = Quit \ {w}
            BY <2>5, CrewStep DEF WorkerPcs
        <3>2. Quit' = Quit
            BY <2>1, <2>2, <2>3, <3>1
        <3>3. CASE wpc[w] = "lock"
            <4>1. currentThreadNum' = currentThreadNum
                BY <1>1, <2>5, <3>3 DEF Counted
            <4> QED BY <1>3, <2>1, <3>1, <3>2, <3>3, <4>1
        <3>4. CASE wpc[w] = "woken"
            <4>1. currentThreadNum' = currentThreadNum - 1
                BY <1>1, <2>5, <3>4 DEF Counted
            <4>2. Cardinality(Parked') = Cardinality(Parked) - 1
                BY <1>1, <2>2, <3>1, <3>4, CrewChange
            <4> QED BY <1>1, <1>2, <3>2, <4>1, <4>2
        <3> QED BY <2>3, <3>3, <3>4
    <2> QED BY <1>6, <2>4, <2>5 DEF WorkerSection
<1>7. ASSUME NEW w \in Workers, WorkerLeaves(w) PROVE CurrentThreadNumLaw'
    <2>1. currentThreadNum' = currentThreadNum - 1
        BY <1>7 DEF WorkerLeaves
    <2>2. CASE wpc[w] = "leaving"
        <3>1. w \in Parked /\ w \notin Quit
            BY <2>2 DEF Parked, Quit
        <3>2. wpc' = [wpc EXCEPT ![w] = "left"]
            BY <1>7, <2>2 DEF WorkerLeaves
        <3>3. Parked' = Parked \ {w} /\ Quit' = Quit
            <4>1. Parked' = Parked \ {w} /\ Quit' = Quit \ {w}
                BY <3>2, CrewStep DEF WorkerPcs
            <4> QED BY <3>1, <4>1
        <3>4. Cardinality(Parked') = Cardinality(Parked) - 1
            BY <1>1, <3>1, <3>3, CrewChange
        <3> QED BY <1>1, <1>2, <2>1, <3>3, <3>4
    <2>3. CASE wpc[w] = "exiting"
        <3>1. w \notin Parked /\ w \notin Quit
            BY <2>3 DEF Parked, Quit
        <3>2. wpc' = [wpc EXCEPT ![w] = "exited"]
            BY <1>7, <2>3 DEF WorkerLeaves
        <3>3. Parked' = Parked /\ Quit' = Quit \cup {w}
            <4>1. Parked' = Parked \ {w} /\ Quit' = Quit \cup {w}
                BY <3>2, CrewStep DEF WorkerPcs
            <4> QED BY <3>1, <4>1
        <3>4. Cardinality(Quit') = Cardinality(Quit) + 1
            BY <1>1, <3>1, <3>3, CrewChange
        <3> QED BY <1>1, <1>2, <2>1, <3>3, <3>4
    <2> QED BY <1>7, <2>2, <2>3 DEF WorkerLeaves
<1>8. ASSUME NEW w \in Workers, w \notin Parked \cup Quit, currentThreadNum' = currentThreadNum,
             NEW pc \in WorkerPcs \ {"waiting", "woken", "leaving", "exited"},
             wpc' = [wpc EXCEPT ![w] = pc]
      PROVE  CurrentThreadNumLaw'
    <2>1. Parked' = Parked /\ Quit' = Quit
        <3>1. Parked' = Parked \ {w} /\ Quit' = Quit \ {w}
            BY <1>8, CrewStep
        <3> QED BY <1>8, <3>1
    <2> QED BY <1>3, <1>8, <2>1
<1>9. ASSUME NEW w \in Workers, \/ WorkerTop(w) \/ WorkerSkips(w) \/ WorkerStarts(w)
                                \/ WorkerEnds(w) \/ WorkerFinishes(w) \/ WorkerWillSignal(w)
                                \/ WorkerSignals(w)
      PROVE  CurrentThreadNumLaw'
    <2>1. wpc[w] \in {"top", "batch", "running", "ended", "signal"}
          /\ currentThreadNum' = currentThreadNum
        BY <1>9 DEF WorkerTop, WorkerSkips, WorkerStarts, WorkerEnds, WorkerFinishes,
            WorkerWillSignal, WorkerSignals
    <2>2. \E pc \in {"exiting", "lock", "top", "batch", "running", "ended", "signal"} :
            wpc' = [wpc EXCEPT ![w] = pc]
        BY <1>9 DEF WorkerTop, WorkerSkips, WorkerStarts, WorkerEnds, WorkerFinishes,
            WorkerWillSignal, WorkerSignals, Dispose
    <2>3. w \notin Parked \cup Quit
        BY <2>1 DEF Parked, Quit
    <2> QED BY <1>8, <2>1, <2>2, <2>3 DEF WorkerPcs
<1>10. ASSUME NEW w \in Workers, WorkerWakesAlone(w) PROVE CurrentThreadNumLaw'
    <2>1. w \in Parked /\ w \notin Quit
        BY <1>10 DEF WorkerWakesAlone, Parked, Quit
    <2>2. Parked' = Parked /\ Quit' = Quit
        <3>1. Parked' = Parked \cup {w} /\ Quit' = Quit \ {w}
            BY <1>10, CrewStep DEF WorkerWakesAlone, WorkerPcs
        <3> QED BY <2>1, <3>1
    <2> QED BY <1>3, <1>10, <2>2 DEF WorkerWakesAlone
<1>11. ASSUME NEW t \in Tasks, CallBegins(t) \/ CallStep(t) \/ SyncWakesAlone(t)
       PROVE  CurrentThreadNumLaw'
    <2>1. /\ wpc' = wpc \/ Signal
          /\ currentThreadNum' = currentThreadNum
        BY <1>11 DEF CallBegins, CallStep, AddTaskEnter, AddTaskCheck, AddTaskAppend, Enqueue,
            SyncEnter, SyncAppend, SyncClockFails, SyncWait, SyncWakesAlone, SyncReturns,
            SyncMark, SyncGivesUp
    <2> QED BY <1>5, <2>1
<1>12. ASSUME ModuleStep PROVE CurrentThreadNumLaw'
    BY <1>4, <1>5, <1>12 DEF ModuleStep, InitPoll, ExitFlag, ExitBroadcast, ExitFree,
        TPoolSetMaxQueueLength, TPoolSetTimeout
<1>13. ASSUME NEW w \in Workers, WorkerUsesFreedPool(w) PROVE CurrentThreadNumLaw'
    BY <1>5, <1>13 DEF WorkerUsesFreedPool
<1> QED BY <1>5, <1>6, <1>7, <1>9, <1>10, <1>11, <1>12, <1>13 DEF Next, vars, WorkerStep

LEMMA ThreadNumInit == Init => CurrentThreadNumLaw
<1> SUFFICES ASSUME Init PROVE CurrentThreadNumLaw
    OBVIOUS
<1>1. Parked = {} /\ Quit = {} /\ currentThreadNum = 0
    BY DEF Init, Parked, Quit
<1> QED BY <1>1, FS_EmptySet DEF CurrentThreadNumLaw, Parked, Quit

\* Of the tasks added, those that succeeded, are pending or were skipped
AddUp == stats.TaskAdded = stats.TaskSucceed + Cardinality(Pending) + Cardinality(Skipped)

LEMMA Counting ==
    ASSUME ModuleType, NEW name \in {"TaskAdded", "TaskSucceed", "TaskFailed"}, Count(name)
    PROVE  /\ stats'.TaskAdded = stats.TaskAdded + (IF name = "TaskAdded" THEN 1 ELSE 0)
           /\ stats'.TaskSucceed = stats.TaskSucceed + (IF name = "TaskSucceed" THEN 1 ELSE 0)
BY DEF Count, ModuleType


LEMMA AddUpInductive == IInv /\ SyncInv /\ CallInv /\ AddUp /\ [Next]_vars => AddUp'
<1> SUFFICES ASSUME IInv, SyncInv, CallInv, AddUp, [Next]_vars PROVE AddUp'
    OBVIOUS
<1> USE DEF poolVars, callVars, heapVars, runVars
<1>1. /\ stats.TaskAdded = stats.TaskSucceed + Cardinality(Pending) + Cardinality(Skipped)
      /\ stats.TaskAdded \in Nat /\ stats.TaskSucceed \in Nat
      /\ Pending \subseteq Tasks /\ Skipped \subseteq Tasks
      /\ Cardinality(Pending) \in Nat /\ Cardinality(Skipped) \in Nat
    BY FiniteParts DEF AddUp, Pending, Skipped, Tasks, IInv, TypeOK, ModuleType
<1>2. ASSUME stats'.TaskAdded = stats.TaskAdded, stats'.TaskSucceed = stats.TaskSucceed,
             Pending' = Pending, Skipped' = Skipped
      PROVE  AddUp'
    BY <1>1, <1>2 DEF AddUp
\* what the two sets are made of
<1>3. Pending' = {t \in Tasks : OnHand(t)'} /\ Pending = {t \in Tasks : OnHand(t)}
    BY DEF Pending, OnHand
<1>4. ASSUME \A u \in Tasks : OnHand(u)' <=> OnHand(u) PROVE Pending' = Pending
    BY <1>3, <1>4
<1>5. ASSUME Pending' = Pending, starts' = starts,
             \A u \in SyncTasks : taskStat'[u] = "TIMEOUT" <=> taskStat[u] = "TIMEOUT"
      PROVE  Skipped' = Skipped
    BY <1>5 DEF Skipped
<1>6. CASE Idle
    <2>1. Pending' = Pending /\ Skipped' = Skipped /\ stats' = stats
        BY <1>4, <1>5, <1>6, IdleStep, SameHands DEF taskVars
    <2> QED BY <1>2, <2>1
<1>7. ASSUME NEW t \in Tasks,
             \/ AddTaskEnter(t) \/ AddTaskCheck(t) \/ SyncEnter(t) \/ SyncClockFails(t)
             \/ SyncWait(t) \/ SyncWakesAlone(t) \/ SyncReturns(t) \/ SyncGivesUp(t)
      PROVE  AddUp'
    <2>1. UNCHANGED <<queue, batch, starts>>
        BY <1>7 DEF AddTaskEnter, AddTaskCheck, SyncEnter, SyncClockFails, SyncWait,
            SyncWakesAlone, SyncReturns, SyncGivesUp
    <2>2. stats' = stats \/ Count("TaskFailed")
        BY <1>7 DEF AddTaskEnter, AddTaskCheck, SyncEnter, SyncClockFails, SyncWait,
            SyncWakesAlone, SyncReturns, SyncGivesUp
    <2>3. stats'.TaskAdded = stats.TaskAdded /\ stats'.TaskSucceed = stats.TaskSucceed
        BY <1>1, <2>2, Counting DEF IInv, TypeOK
    <2>4. \A u \in SyncTasks : taskStat'[u] = "TIMEOUT" <=> taskStat[u] = "TIMEOUT"
        <3>1. CASE taskStat' = taskStat
            BY <3>1
        <3>2. CASE SyncClockFails(t)
            BY <3>2 DEF SyncClockFails, SyncInv, IInv, TypeOK, TaskType, Tasks
        <3> QED BY <1>7, <3>1, <3>2 DEF AddTaskEnter, AddTaskCheck, SyncEnter, SyncWait,
                SyncWakesAlone, SyncReturns, SyncGivesUp
    <2> QED BY <1>2, <1>4, <1>5, <2>1, <2>3, <2>4, SameHands
<1>8. ASSUME NEW t \in Tasks, AddTaskAppend(t) \/ SyncAppend(t) PROVE AddUp'
    <2>1. /\ Count("TaskAdded") /\ Enqueue(t) /\ UNCHANGED <<batch, starts>>
          /\ call[t] \in {"checked", "entered"}
        BY <1>8 DEF AddTaskAppend, SyncAppend, Enqueue
    <2>2. ~OnHand(t) /\ ~InQueue(t) /\ taskStat[t] # "TIMEOUT"
        BY <2>1 DEF OnHand, SyncInv, IInv, PlaceInv, Outside
    <2>3. \A u \in Tasks : OnHand(u)' <=> OnHand(u) \/ u = t
        BY <2>1, <2>2, EnqueueHands
    <2>4. Pending' = Pending \cup {t} /\ t \notin Pending
        BY <1>3, <2>2, <2>3
    <2>5. \A u \in SyncTasks : taskStat'[u] = "TIMEOUT" <=> taskStat[u] = "TIMEOUT"
        BY <1>8, <2>2 DEF AddTaskAppend, SyncAppend, IInv, TypeOK, TaskType, Tasks
    <2>6. Skipped' = Skipped
        BY <2>1, <2>2, <2>4, <2>5 DEF Skipped
    <2>7. Cardinality(Pending') = Cardinality(Pending) + 1
        BY <1>1, <2>4, GainsOne
    <2>8. stats'.TaskAdded = stats.TaskAdded + 1 /\ stats'.TaskSucceed = stats.TaskSucceed
        BY <1>1, <2>1, Counting DEF IInv, TypeOK
    <2> QED BY <1>1, <2>6, <2>7, <2>8 DEF AddUp
<1>9. ASSUME NEW t \in Tasks, SyncMark(t) PROVE AddUp'
    <2>1. /\ UNCHANGED <<queue, batch, starts, stats>>
          /\ taskStat' = [taskStat EXCEPT ![t] = "TIMEOUT"]
        BY <1>9 DEF SyncMark
    <2>2. Pending' = Pending
        BY <1>4, <2>1, SameHands
    <2>3. starts[t] = 0 => OnHand(t)
        <3>1. Enqueued(t) /\ taskStat[t] = "INIT" /\ (ends[t] = 1 => starts[t] = 1)
            BY <1>9 DEF SyncMark, Enqueued, CallInv, SyncInv, IInv, PlaceInv, Unanswered
        <3> QED BY <3>1 DEF IInv, PlaceInv, NothingLost, OnHand
    <2>4. \A u \in SyncTasks \ {t} : taskStat'[u] = taskStat[u]
        BY <2>1 DEF IInv, TypeOK, TaskType, Tasks
    <2>5. t \notin Skipped /\ t \notin Skipped'
        BY <1>3, <2>1, <2>2, <2>3, <1>9 DEF Skipped, SyncMark, SyncInv
    <2>6. Skipped' = Skipped
        <3>1. \A u \in SyncTasks \ {t} : u \in Skipped' <=> u \in Skipped
            BY <2>1, <2>2, <2>4 DEF Skipped
        <3>2. Skipped \subseteq SyncTasks /\ Skipped' \subseteq SyncTasks
            BY DEF Skipped
        <3> QED BY <2>5, <3>1, <3>2
    <2> QED BY <1>2, <2>1, <2>2, <2>6
<1>10. ASSUME NEW w \in Workers, WorkerSection(w) PROVE AddUp'
    <2>1. Pending' = Pending /\ UNCHANGED <<starts, taskStat, stats>>
        BY <1>4, <1>10, SectionHands DEF WorkerSection
    <2> QED BY <1>2, <1>5, <2>1
<1>11. ASSUME NEW w \in Workers, WorkerSkips(w) \/ WorkerFinishes(w) \/ WorkerSignals(w)
       PROVE  AddUp'
    <2>1. /\ batch[w] # <<>> /\ Dispose(w)
          /\ UNCHANGED <<queue, starts, taskStat>>
        BY <1>11 DEF WorkerSkips, WorkerFinishes, WorkerSignals, IInv, BatchShape
    <2>2. PICK h \in Tasks : h = Head(batch[w])
        BY <2>1, HeadInBatch DEF IInv
    <2>3. OnHand(h) /\ \A u \in Tasks : OnHand(u)' <=> OnHand(u) /\ u # h
        BY <2>1, <2>2, DisposeHands
    <2>4. Pending' = Pending \ {h} /\ h \in Pending
        BY <1>3, <2>3
    <2>5. Cardinality(Pending') = Cardinality(Pending) - 1
        BY <1>1, <2>4, LosesOne
    <2>6. CASE WorkerSkips(w)
        <3>1. h \in SyncTasks /\ taskStat[h] = "TIMEOUT" /\ starts[h] = 0 /\ stats' = stats
            <4>1. wpc[w] = "batch" /\ InBatch(w, h)
                BY <2>1, <2>2, <2>6, HeadInBatch DEF WorkerSkips, IInv
            <4> QED BY <2>2, <2>6, <4>1 DEF WorkerSkips, TimedOut, IInv, PlaceInv, Waits,
                    Untouched
        <3>2. Skipped' = Skipped \cup {h} /\ h \notin Skipped
            BY <2>1, <2>4, <3>1 DEF Skipped
        <3>3. Cardinality(Skipped') = Cardinality(Skipped) + 1
            BY <1>1, <3>2, GainsOne
        <3> QED BY <1>1, <2>5, <3>1, <3>3 DEF AddUp
    <2>7. CASE WorkerFinishes(w) \/ WorkerSignals(w)
        <3>1. starts[h] = 1 /\ Count("TaskSucceed")
            BY <2>2, <2>7 DEF WorkerFinishes, WorkerSignals, IInv, PlaceInv, Runs
        <3>2. Skipped' = Skipped
            BY <2>1, <2>4, <3>1 DEF Skipped
        <3>3. stats'.TaskAdded = stats.TaskAdded /\ stats'.TaskSucceed = stats.TaskSucceed + 1
            BY <1>1, <3>1, Counting DEF IInv, TypeOK
        <3> QED BY <1>1, <2>5, <3>2, <3>3 DEF AddUp
    <2> QED BY <1>11, <2>6, <2>7
<1>12. ASSUME NEW w \in Workers, WorkerStarts(w) \/ WorkerEnds(w) PROVE AddUp'
    <2>1. UNCHANGED <<queue, batch, taskStat, stats>>
        BY <1>12 DEF WorkerStarts, WorkerEnds
    <2>2. Pending' = Pending
        BY <1>4, <2>1, SameHands
    <2>3. \A u \in SyncTasks \ Pending : starts'[u] = starts[u]
        <3>1. batch[w] # <<>>
            BY <1>12 DEF WorkerStarts, WorkerEnds, IInv, BatchShape
        <3>2. PICK h \in Tasks : h = Head(batch[w]) /\ OnHand(h)
            BY <3>1, HeadInBatch DEF IInv, OnHand
        <3>3. h \in Pending
            BY <1>3, <3>2
        <3> QED BY <1>12, <3>2, <3>3 DEF WorkerStarts, WorkerEnds, IInv, TypeOK, TaskType,
                Tasks
    <2>4. Skipped' = Skipped
        BY <2>1, <2>2, <2>3 DEF Skipped
    <2> QED BY <1>2, <2>1, <2>2, <2>4
<1> QED BY <1>6, <1>7, <1>8, <1>9, <1>10, <1>11, <1>12, StepKinds

LEMMA AddUpInit == Init => AddUp
<1> SUFFICES ASSUME Init PROVE AddUp
    OBVIOUS
<1>1. Pending = {} /\ Skipped = {}
    <2>1. queue = <<>> /\ \A w \in Workers : batch[w] = <<>>
        BY DEF Init
    <2>2. \A t \in Tasks : ~InQueue(t) /\ \A w \in Workers : ~InBatch(w, t)
        BY <2>1 DEF InQueue, InBatch
    <2>3. \A t \in SyncTasks : taskStat[t] = "UNSPEC"
        BY DEF Init, Tasks
    <2> QED BY <2>2, <2>3 DEF Pending, Skipped
<1>2. stats.TaskAdded = 0 /\ stats.TaskSucceed = 0
    BY DEF Init
<1> QED BY <1>1, <1>2, FS_EmptySet DEF AddUp

\* The length, the count of parked workers and the task statistics, kept in separate
\* statements all over the code, say what is the case, in every interleaving.
THEOREM CountersRight == Spec => []CountersAgree
<1>1. IInv /\ CurrentThreadNumLaw /\ [Next]_vars => CurrentThreadNumLaw'
    BY ThreadNumInductive
<1>2. IInv /\ SyncInv /\ CallInv /\ AddUp /\ [Next]_vars => AddUp'
    BY AddUpInductive
<1>3. LengthAgrees /\ CurrentThreadNumLaw /\ AddUp => CountersAgree
    BY DEF CountersAgree, AddUp
<1> QED BY <1>1, <1>2, <1>3, ThreadNumInit, AddUpInit, Invariance, SyncInvariance,
           CallInvariance, LengthIsExact, PTL DEF Spec

-----------------------------------------------------------------------------
(***************************************************************************)
(* Who holds memory of a task when no wait times out and the clock works:  *)
(* the list or a worker its node, its caller the lock and condition.       *)
(***************************************************************************)
NoneExpires == \A t \in Tasks : taskStat[t] # "TIMEOUT" /\ call[t] \notin {"timedout", "marked"}

MemoryHeld == \A t \in Tasks :
    /\ node[t] = "live" => OnHand(t) \/ Freed
    /\ sync[t] = "live" => call[t] \in {"held", "waiting", "signalled"}

NobodyCalls == exitpc \in {"flagged", "broadcast"} => \A t \in Tasks : ~InCall(t)

ExitInv == NoneExpires /\ MemoryHeld /\ NobodyCalls

LEMMA ExitInit == Init => ExitInv
BY DEF Init, ExitInv, NoneExpires, MemoryHeld, NobodyCalls

LEMMA ExitInductive ==
    ASSUME {"timeout", "clock"} \cap Env = {}, IInv, SyncInv, CallInv, ExitInv, [Next]_vars
    PROVE  ExitInv'
<1> USE DEF poolVars, callVars, heapVars, runVars, lifeVars, ExitInv
\* the steps that leave exitpc alone, by what they do to one call
<1>1. ASSUME exitpc' = exitpc, \A t \in Tasks : InCall(t)' => InCall(t)
      PROVE  NobodyCalls'
    BY <1>1 DEF NobodyCalls
<1>2. CASE Idle
    <2>1. UNCHANGED <<taskVars, sync>>
        BY <1>2, IdleStep
    <2>2. NoneExpires'
        BY <2>1 DEF taskVars, NoneExpires
    <2>3. Freed => Freed'
        BY <1>2 DEF Freed, Idle, InitCreate, InitPoll, ExitFlag, ExitBroadcast, ExitFree,
            TPoolSetMaxQueueLength, TPoolSetTimeout, WorkerTop, WorkerWakesAlone,
            WorkerLeaves, WorkerUsesFreedPool, WorkerWillSignal, vars
    <2>4. MemoryHeld'
        BY <2>1, <2>3, SameHands DEF taskVars, MemoryHeld
    <2>5. \A t \in Tasks : InCall(t)' <=> InCall(t)
        BY <2>1 DEF taskVars, InCall
    <2>6. exitpc' = exitpc \/ exitpc' = "freed" \/ (\A t \in Tasks : ~InCall(t))
        BY <1>2 DEF Idle, InitCreate, InitPoll, ExitFlag, ExitBroadcast, ExitFree,
            TPoolSetMaxQueueLength, TPoolSetTimeout, WorkerTop, WorkerWakesAlone,
            WorkerLeaves, WorkerUsesFreedPool, WorkerWillSignal, vars, NobodyCalls
    <2> QED BY <2>2, <2>4, <2>5, <2>6 DEF NobodyCalls
<1>3. ASSUME NEW t \in Tasks, AddTaskEnter(t) \/ SyncEnter(t) PROVE ExitInv'
    <2>1. /\ UNCHANGED <<queue, batch, node, sync, taskStat, exitpc>>
          /\ exitpc \in {"no", "freed"} /\ call[t] = "idle"
          /\ \E c \in {"entered", "returned"} : call' = [call EXCEPT ![t] = c]
        BY <1>3 DEF AddTaskEnter, SyncEnter, CanCall, Goto, Return
    <2>2. NoneExpires' /\ MemoryHeld'
        BY <2>1, SameHands DEF NoneExpires, MemoryHeld, Freed, IInv, TypeOK, TaskType
    <2> QED BY <2>1, <2>2 DEF NobodyCalls
<1>4. ASSUME NEW t \in Tasks, AddTaskCheck(t) \/ SyncWait(t) \/ SyncWakesAlone(t)
      PROVE  ExitInv'
    <2>1. /\ UNCHANGED <<queue, batch, node, sync, taskStat, exitpc>>
          /\ \/ call[t] = "entered" /\ t \in AsyncTasks
                /\ \E c \in {"checked", "returned"} : call' = [call EXCEPT ![t] = c]
             \/ call[t] = "held" /\ call' = [call EXCEPT ![t] = "waiting"]
             \/ call[t] = "waiting" /\ call' = [call EXCEPT ![t] = "signalled"]
        BY <1>4 DEF AddTaskCheck, SyncWait, SyncWakesAlone, Goto, Return
    <2>2. NoneExpires' /\ MemoryHeld'
        BY <2>1, SameHands DEF NoneExpires, MemoryHeld, Freed, IInv, TypeOK, TaskType
    <2>3. \A u \in Tasks : InCall(u)' => InCall(u)
        BY <2>1 DEF InCall, IInv, TypeOK, TaskType
    <2> QED BY <1>1, <2>1, <2>2, <2>3
<1>5. ASSUME NEW t \in Tasks, AddTaskAppend(t) \/ SyncAppend(t) PROVE ExitInv'
    <2>1. /\ Enqueue(t) /\ batch' = batch /\ exitpc' = exitpc
          /\ node' = [node EXCEPT ![t] = "live"]
          /\ \/ /\ call[t] = "checked" /\ UNCHANGED <<sync, taskStat>>
                /\ call' = [call EXCEPT ![t] = "returned"]
             \/ /\ call[t] = "entered" /\ call' = [call EXCEPT ![t] = "held"]
                /\ sync' = [sync EXCEPT ![t] = "live"]
                /\ taskStat' = [taskStat EXCEPT ![t] = "INIT"]
        BY <1>5 DEF AddTaskAppend, SyncAppend, Goto, Return
    <2>2. ~InQueue(t)
        BY <2>1 DEF IInv, PlaceInv, Outside
    <2>3. \A u \in Tasks : OnHand(u)' <=> OnHand(u) \/ u = t
        BY <2>1, <2>2, EnqueueHands
    <2>4. NoneExpires'
        BY <2>1 DEF NoneExpires, IInv, TypeOK, TaskType
    <2>5. MemoryHeld'
        BY <2>1, <2>3 DEF MemoryHeld, Freed, IInv, TypeOK, TaskType
    <2>6. \A u \in Tasks : InCall(u)' => InCall(u)
        BY <2>1 DEF InCall, IInv, TypeOK, TaskType
    <2> QED BY <1>1, <2>1, <2>4, <2>5, <2>6
<1>6. ASSUME NEW t \in Tasks, SyncReturns(t) PROVE ExitInv'
    <2>1. /\ UNCHANGED <<queue, batch, node, taskStat, exitpc>> /\ call[t] = "signalled"
          /\ call' = [call EXCEPT ![t] = "returned"] /\ sync' = [sync EXCEPT ![t] = "freed"]
        BY <1>6 DEF SyncReturns, CallerFrees, Return
    <2>2. NoneExpires' /\ MemoryHeld'
        BY <2>1, SameHands DEF NoneExpires, MemoryHeld, Freed, IInv, TypeOK, TaskType
    <2>3. \A u \in Tasks : InCall(u)' => InCall(u)
        BY <2>1 DEF InCall, IInv, TypeOK, TaskType
    <2> QED BY <1>1, <2>1, <2>2, <2>3
<1>7. ASSUME NEW t \in Tasks PROVE ~(SyncClockFails(t) \/ SyncMark(t) \/ SyncGivesUp(t))
    BY DEF SyncClockFails, SyncMark, SyncGivesUp, NoneExpires
<1>8. ASSUME NEW w \in Workers, WorkerSection(w) \/ WorkerStarts(w) \/ WorkerEnds(w)
      PROVE  ExitInv'
    <2>1. UNCHANGED <<node, sync, taskStat, call, exitpc>>
        BY <1>8 DEF WorkerSection, WorkerStarts, WorkerEnds
    <2>2. \A u \in Tasks : OnHand(u)' <=> OnHand(u)
        BY <1>8, SectionHands, SameHands DEF WorkerStarts, WorkerEnds
    <2>3. NoneExpires' /\ MemoryHeld'
        BY <2>1, <2>2 DEF NoneExpires, MemoryHeld, Freed
    <2> QED BY <1>1, <2>1, <2>3 DEF InCall
<1>9. ASSUME NEW w \in Workers, WorkerSkips(w) \/ WorkerFinishes(w) \/ WorkerSignals(w)
      PROVE  ExitInv'
    <2>1. batch[w] # <<>> /\ Dispose(w) /\ queue' = queue /\ taskStat' = taskStat
          /\ exitpc' = exitpc
        BY <1>9 DEF WorkerSkips, WorkerFinishes, WorkerSignals, IInv, BatchShape
    <2>2. PICK h \in Tasks : h = Head(batch[w])
        BY <2>1, HeadInBatch DEF IInv
    <2>3. \A u \in Tasks : OnHand(u)' <=> OnHand(u) /\ u # h
        BY <2>1, <2>2, DisposeHands
    <2>4. ~TimedOut(h)
        BY DEF TimedOut, NoneExpires
    <2>5. /\ sync' = sync
          /\ \/ call' = call
             \/ call[h] = "waiting" /\ call' = [call EXCEPT ![h] = "signalled"]
        BY <1>9, <2>2, <2>4 DEF WorkerSkips, WorkerFinishes, WorkerSignals
    <2>6. NoneExpires'
        BY <2>1, <2>5 DEF NoneExpires, IInv, TypeOK, TaskType
    <2>7. Freed \/ node' = [node EXCEPT ![h] = "freed"]
        BY <2>1, <2>2 DEF Dispose, MemFree
    <2>8. MemoryHeld'
        <3>1. Freed' <=> Freed
            BY <2>1 DEF Freed
        <3>2. \A u \in Tasks : node'[u] = "live" => OnHand(u)' \/ Freed'
            BY <2>3, <2>7, <3>1 DEF MemoryHeld, IInv, TypeOK, TaskType
        <3>3. \A u \in Tasks :
                sync'[u] = "live" => call'[u] \in {"held", "waiting", "signalled"}
            BY <2>5 DEF MemoryHeld, IInv, TypeOK, TaskType
        <3> QED BY <3>2, <3>3 DEF MemoryHeld
    <2>9. \A u \in Tasks : InCall(u)' => InCall(u)
        BY <2>5 DEF InCall, IInv, TypeOK, TaskType
    <2> QED BY <1>1, <2>1, <2>6, <2>8, <2>9
<1> QED BY <1>2, <1>3, <1>4, <1>5, <1>6, <1>7, <1>8, <1>9, StepKinds

\* The leak tpool_leak finds is the only kind there is: without timeouts and clock
\* failures a pool torn down with no task pending has freed everything.
THEOREM ExitLeavesNothing == {"timeout", "clock"} \cap Env = {} => (Spec => CleanExit)
<1> SUFFICES ASSUME {"timeout", "clock"} \cap Env = {} PROVE Spec => CleanExit
    OBVIOUS
<1>1. IInv /\ SyncInv /\ CallInv /\ ExitInv /\ [Next]_vars => ExitInv'
    BY ExitInductive
<1>2. ExitInv => [ExitFree /\ Pending = {} => exitRet' = "SUCCESS"]_vars
    <2> SUFFICES ASSUME ExitInv, ExitFree, Pending = {} PROVE exitRet' = "SUCCESS"
        OBVIOUS
    <2>1. exitpc = "broadcast" /\ \A t \in Tasks : ~OnHand(t)
        BY DEF ExitFree, Pending, OnHand
    <2>2. \A t \in Tasks : node[t] # "live"
        BY <2>1 DEF ExitInv, MemoryHeld, Freed
    <2>3. \A t \in Tasks : sync[t] # "live"
        BY <2>1 DEF ExitInv, MemoryHeld, NobodyCalls, InCall
    <2> QED BY <2>2, <2>3 DEF ExitFree
<1> QED BY <1>1, <1>2, ExitInit, Invariance, SyncInvariance, CallInvariance, PTL
        DEF Spec, CleanExit

============================================================================
