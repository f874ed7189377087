# A TLA+ model of MyWorkEnv (Release)

The repository holds a small client/server program and the library it is built
from (`src/Code/src_USpace/Release`). A server process accepts TCP clients,
executes the commands they send in a thread pool and sends the output back; a
client process is a prompt that sends such commands. Both start the same set of
modules (log, memory accounting, thread pool, health monitor, timers, message
framing, command line). `Lesson1` to `Lesson3` are earlier iterations of the same
program and `src_Kern` is a separate netfilter demo: neither is modelled.

Paths below are relative to `src/Code/src_USpace/Release`.

## Inventory

| Component | State | Operations | Talks to | What is hard | What makes it correct |
|---|---|---|---|---|---|
| **TPool** `myUtils/TPool/myThreadPool.c` | task list, its length and limits, worker count, one node/lock/condition per task, statistics | Init, worker loop, `TPoolAddTask`, `TPoolAddTaskAndWait`, two setters, Exit | server (adds tasks), CmdLine (setters), Health (statistics) | lists taken as a whole, condition variables, timeouts racing completion, memory handed from caller to worker, tear-down without join | every accepted task runs once; no lost wakeup; a synchronous answer means the task ran; nobody frees twice, somebody frees |
| **Server** `server/ServerProc.c`, `ServerMsgHandler.c`, `ServerClientMap.c` | listening and epoll descriptors, client map, messages in progress | accept, receive, execute, reply, close, Exit | Msg, TPool, CmdLine (statistics) | edge-triggered events, descriptor numbers reused, a reply sent by a pool thread after the client left | each command is answered, whole, on its own connection; a departed client is forgotten |
| **Msg** `myUtils/Msg/myMsg.c` | statistics, its memory id | `RecvMsg`, `SendMsg`, `NewMsg`, `FillMsgCont` | sockets, Mem | partial reads and writes, EAGAIN retried for ever, two threads sending on one descriptor, a length converted to `int` | a frame is received as it was sent |
| **Mem** `myUtils/Mem/myMem.c` | 16 slots: registered, bytes allocated and freed | register, unregister, alloc, free, leak check | every module | alloc and free racing unregister, slots reused under a stale id | unregister reports a leak iff something is left |
| **Log** `myUtils/Log/myLogIO.c` | file, size, limits | print, rotate, Init, Exit | every module | rotation by several writers, a tar that fails, Exit under writers | no line is lost but to a failed or overwritten archive, size and number of archives bounded |
| **Health** `myUtils/Health/myModuleHealth.c` | event base, list of monitors | Init, add, callback, Exit | TPool, Msg, Mem, Log, CmdLine, Timer (statistics) | registration racing the event thread, Exit racing callbacks | every monitor fires while running, none after Exit |
| **Timer** `myUtils/Timer/myTimer.c` | event base, list of timers | Init, add, delete, callback, Exit | users' callbacks | same as Health; handles used after Exit | a deleted timer does not fire; handles are freed once |
| **CmdLine** `myUtils/CmdLine/myCmdLine.c` | pid-file lock, role, TCP socket on loopback, command table | Init as server or as command sender, command loop, Exit | every module's commands; ends the process | which of two processes is the server; a stop command served by the thread that is stopped; descriptors kept without bound and closed twice | one server per role; a command gets its reply |
| **MyModuleCommon** `myUtils/myModuleCommon.c` | which modules are up | Init and Exit of all modules | all | order of tear-down against the threads still running | nothing is used after its Exit |
| **Client** `client/*.c` | socket, event thread, prompt | connect, send, receive, exit | Msg, server | exit from the event thread and from main at once, replies mixed by a user who does not wait | whole replies are printed, the prompt ends, the thread is joined once |
| **MyList** `include/myList.h` | - | list macros | TPool, Timer, Health, server | head copied between lists | pointer operations are sequence operations |
| CommonUtil, SafetyManager | - | pure helpers, stub | | | |
| Unit tests `myUtils/UnitTest` | | | | | state what modules promise |

## Plan

| Step | Modules | State |
|---|---|---|
| 1 | `TPool` implements the abstract `TaskPool`; `TPoolProofs` | done |
| 2 | `Server`: accept and epoll loop, handlers, client map, replies from the pool's workers; `ServerProofs` | done |
| 3 | `Mem`, `MemProofs`: slots and accounting | done |
| 4 | `Log`, `LogProofs`: printing and rotation by several threads | done |
| 5 | `EventWorker`, `EventWorkerProofs`: the event thread of Timer and Health | done |
| 6 | `Program`, `ProgramProofs`: roles, command channel, start and end of the modules | done |
| 7 | `Client`, `ClientProofs`: the two threads and the two exits | done |
| 8 | `MyList`: the pointer macros, which `EventWorker` keeps its list with; proved in `EventWorkerProofs` | done |
| 9 | `Msg` implements the abstract `MsgChannel`: the byte stream; `MsgProofs` | done |
| 10 | `TPoolProofs`: `Refines`, the properties that count, `SyncSuccessRan`, `CleanExit` | done |
| 11 | `MemProofs`: `VerdictExact`; `LogProofs`: `LinesKept`, `ArchivesBounded` | done |
| 12 | `ProgramProofs`: `ModulesOutliveServerThread`, `FaultsOnlyEarly` | done |

With that every safety property and action property the runs check, and the safety of
both refinements, is a theorem. What remains:

13. Sharper versions of theorems that exclude something of `Env` (listed under *What is
    proved*): what still holds of `VerdictExact` for the modules whose threads are
    stopped when others are `"late"`, and of `MsgChannel` under `"together"`.
14. For the liveness properties, the safety they rest on beyond what is stated now, such
    as that a thread that waits has somebody left who will wake it.

Modules are written to be proved about: parameters are CONSTANTS with named
assumptions, one action per operation, no RECURSIVE operator.

How the modules fit together: `Server` uses of the pool what `TaskPool` promises (an
accepted task starts once) and of a connection, for the replies, its three sends;
`EventWorker` keeps its list with the operators of `MyList`; `Program` keeps of each
module whether it is up, being ended or ended, and what its end waits for (for the
server thread that is `ExitJoins` of `Server`); `Client` takes a message to arrive in
two pieces, which `Msg` shows RecvMsg to put together from any.

## TPool

**Modules.** `TPool.tla` is the code, `TaskPool.tla` what a caller may rely on,
`TPoolProofs.tla` the theorems, `MCTPool.tla` the instance TLC checks.

**State.** Each field of `MY_THREAD_POOL` is a variable of the same name
(`queue` is `TaskListHead`). A *task* stands for one call of an add function and
for the node it allocates: `call` is where the calling thread is, `taskStat`,
`node` and `sync` are the node's `TaskStat` and the memory of the node and of
its lock and condition ("none", "live", "freed"), `starts` and `ends` count calls
and returns of `TaskFunc`. `wpc` is where a worker is in `_TPoolProcFn`, `batch`
what is left of its `listHeadTmp`. Lists are sequences: that `MY_LIST_ADD_TAIL`
appends and `MY_LIST_HEAD_COPY` with `MY_LIST_NODE_INIT` hands over the whole queue
is proved of the pointers (see *MyList*).

**Actions.** A critical section under the pool lock is one action
(`WorkerSection`, `AddTaskCheck`, `AddTaskAppend`, `SyncAppend`): it can only wait
in `pthread_cond_wait`, which is its end. Everything outside the lock is an
action of its own, because that is where the races are: the worker's `while` test
(`WorkerTop`), its two unlocked reads of `TaskStat` (`WorkerSkips`/`WorkerStarts`
and `WorkerFinishes`/`WorkerWillSignal`), the signal under the task lock
(`WorkerSignals`), the caller's timed wait (`SyncWait`, `SyncWakesAlone`), its
write of `TaskStat` (`SyncMark`) and its unlock (`SyncGivesUp`), and the three steps
of `TPoolModuleExit`.

**Environment.** `Env` says what the surroundings do: `"timeout"` (a timed wait
expires), `"spurious"` (a wait returns 0 without a signal), `"clock"`
(`clock_gettime` fails), `"exit"` (`TPoolModuleExit` is called), `"hang"` (a
`TaskFunc` need not return). Exit is called only while no call is in progress:
the server joins the threads that add tasks first.

**Undefined behaviour.** A use of freed memory is recorded in `ub` and ends the
behaviour: nothing can be said of the program after it. Such states are
reachable (a worker using the freed pool after Exit; a caller writing to the
node, or unlocking the lock, the worker freed); the theorems and the runs say
what holds up to there.

**Left out.** `MemCalloc` returns NULL plus the size of its prefix when `calloc`
fails (`myUtils/Mem/myMem.c:213-223`), so the ENOMEM paths are never taken; NULL
`TaskFunc` is never passed; the pool lives once. The content of tasks and logging
are data.

### Runs

Bounds: two workers and two calling threads are the least with which two lists
are in two workers' hands while a caller appends; three tasks on a limit of one
reach the overshoot; a single synchronous task has all the races of the caller
with its worker, as task locks are not shared. `Polls` is 1: Init may give up at
once, which is the most it can do wrong.

| Run | Shows |
|---|---|
| `tpool_safety` | With expiring and spurious waits and a failing clock: `AtMostOnce`, `NothingLost`, `NoSleepOverQueue`, `NoDoubleFree`, `QueueOvershoot` (the limit is passed by at most the other callers), `CountersAgree` (list length, parked workers, statistics), and `Refines`: the pool implements `TaskPool`, so that also no expired task is ever started (`ExpiredNeverStarts`, proved on its own). |
| `tpool_live` | Without expiring waits but with Exit, under fairness: `AcceptedRuns`, `SyncAnswered`, `SyncSuccessRan`, `CleanExit`. |
| `tpool_leak` (violation) | With a timeout the lock and condition of a task can be left to nobody. |

Two more things the model says, without a run of their own: with `"spurious"` a
synchronous call can succeed before its task ran (`SyncSuccessRan` fails, as the
wait is not in a loop), and Init returns success with no worker ready once its polls
are used up, against the comment at `myThreadPool.c:228`.

**Fairness** (`TPool!Fairness`). Every thread that can take a step of its own
program eventually does (weak fairness per thread): the program uses ordinary
threads and mutexes, and only finitely many critical sections compete for the
lock. A timed wait eventually expires. A `TaskFunc` returns unless `"hang"`.
Nothing makes a thread call the pool or Exit.

Deadlock is not checked: when all calls are done the workers sleep.

### Proofs

`TPoolProofs.tla`, for every set of workers and tasks, every limit and every
`Env`. The inductive invariant is `IInv`: types, `BatchShape` (a worker has a
batch exactly where its program counter says so) and `PlaceInv`. The latter says
that a task is in at most one place (once on the list or once in one batch),
and what is known of it there: not enqueued tasks are nowhere and have no history
(`Outside`, `Untouched`), queued ones have not started (`Waits`), the head of a
batch has run as far as its worker's program counter says and those behind it not
at all (`Runs`), and one that is nowhere any more has run or was marked
(`NothingLost`). `AtMostOnce` alone is not inductive: it needs that a task is in
one place. From `Invariance` follow `RunAtMostOnce`, `NoTaskDropped`,
`NoStartAfterTimeout`, `LengthIsExact` and `NoLostWakeup` (the last two with a
second induction of their own). `NeverFreedTwice` rests on `SyncInv`, which says
who holds the right to free the task lock: the caller until it marks the task,
then the worker if it has not passed its second read.

Assumptions are those `TPool` names: the sets of workers and tasks are finite,
workers exist, limits are integers, at least one caller and one poll.

`CallInv` adds what a call's progress says of its task (a call that is answered
SUCCESS has a node behind it, one that is "marked" has marked it). With it:

- `SuccessMeansRan` (`SyncSuccessRan`) for every `Env` without `"spurious"`; with it the
  property is false, as said above.
- `PoolImplements` (`Refines`): every step is one of `TaskPool` or changes nothing of it.
  A step moves at most one task or answers at most one call, so the proof looks only
  at what it does to the facts `absState` and `absAnswer` are made of.
- `LimitNearlyKept` (`QueueOvershoot`): places on the list and places promised by a check
  and not yet taken are counted together (`LimitInv`); the list alone is no invariant,
  since the caller that overshoots did its check when there was room.
- `CountersRight` (`CountersAgree`): `CurrentThreadNumLaw` and `AddUp`, each a sum over
  cardinalities kept by statements in different functions.
- `ExitLeavesNothing` (`CleanExit`), if neither `"timeout"` nor `"clock"` is in `Env`:
  `ExitInv` says who holds each piece of memory (`MemoryHeld`). `tpool_leak` shows what
  is lost otherwise.

Only model-checked: `AcceptedRuns` and `SyncAnswered` (liveness).

## Server

**Modules.** `Server.tla` (with the receive and send loops of `myUtils/Msg/myMsg.c`
as the server uses them), `ServerProofs.tla`, `MCServer.tla`.

**State.** The server thread's place in `_ServerProcFn` (`spc`), what is left of
`waitEvents` (`batch`), the client map; for each *request* `<<c, k>>`, the k-th
message of connection c, how far its handling is (`job`) and the descriptor number
it was given (`jobFd`). The kernel's side is what a descriptor number stands for
(`sock`) and epoll's ready list (`edge`); the clients' side what each has sent, what
of it was received (in pieces, two to a frame) and what it has got back (`out`, three
parts to a reply).

**Actions.** One per branch of the loop: `EpollWait`, `ServerAcceptNewConnect`,
`RecvBegins` and `ErrorEvent` for an event, then the steps of one `RecvMsg`
(`RecvPiece`, `RecvTooLong`, `RecvPeerClosed`) and of the handlers
(`ServerMsgExecCmd`, `ServerDefaultMsgHandler`). A command is executed by a pool
worker (`ServerMsgExecCmdFn`) and its reply sent part by part (`SendPart`,
`SendFails`, `SendUnseen`, `SendKills`) to whatever is then behind the number. Of
the pool only the promise of `TaskPool` is used: an accepted task starts once.

**Environment.** `Env`: clients that do not wait for replies (`"pipeline"`), that
leave early (`"hurry"`), frames in pieces (`"split"`), a pool that refuses
(`"full"`), `"popen"` and connection (`"error"`) failures, no listening socket
(`"listen"`), `ServerProcExit` (`"exit"`).

| Run | Shows |
|---|---|
| `server_polite` | Three clients that wait for each reply, one of which only comes and goes, on two descriptors: `RepliesToSender`, `FramesWhole`, `RequestAnswered`, `GoneForgotten`, `ExitJoins`. |
| `server_rough` | Two clients that neither wait nor stay, messages that are turned down, failing connections: `ClientMapAgrees`, `SentOnce` hold whatever happens to the replies. |
| `server_reuse` (violation) | A reply goes to the client that was given the number of one that left. |

Bounds: two descriptors for three clients make a number be given out twice; two
requests each, one for the pool and one for the server thread, have a worker and the
server thread send to one client. A third piece or part adds nothing the properties
tell apart.

**Fairness.** The server thread, the workers and the joining thread take the steps
they can; a client sends the rest of a frame it has begun. Nothing makes a client
send or leave, so the liveness properties hold however idle the clients are. The
clients of `server_polite` are those for which the code keeps its promise; the
violation run shows what another one sees. With `"pipeline"` `RequestAnswered` fails
too: events are edge-triggered and each has one `RecvMsg`, so that the second of two
commands that arrive together is left until a third comes. `RecvMsg` and `SendMsg` retry EAGAIN
for ever: as the client completes its frames and reads its replies, that is a wait.

**Left out.** Content of commands and replies, statistics, `epoll` failures, and
`popen` output longer than a frame's limit. SIGPIPE ends the behaviour (`dead`).
Deadlock is not checked: an idle server waits.

### Proofs

`ServerProofs.tla`, for any clients, requests, descriptors and pool size. `ServerInv`
holds in every `Env`: types, `EventsAreOpen` (events, and the connection being
served, are of open descriptors), `JobsReceived` and `PartsPast` (what was received
and sent of a request matches how far its handling is). From it follow `ServerTypes`,
`ClientMapRight` and `NothingSentTwice`. `PoliteInv` adds what is true only of clients
that wait and connections that do not fail (`Polite`): `OneFdEach`, `FdsStay` (the
number a request was given still stands for its client), `Waiting` (nobody sends
again or leaves without an answer) and `Frames` (a reply that has begun is the one
being sent). `Waiting` is what the first two need: the server forgets a descriptor only
when its client has gone, which it does not while a worker holds the number. From it
follow `PoliteReplies` and `PoliteFrames`. `server_reuse` shows that without the
assumption the first is false.

Only model-checked: `RequestAnswered`, `GoneForgotten`, `ExitJoins` (liveness).

## Msg

`Msg.tla`, the abstract `MsgChannel.tla`, `MCMsg.tla`: one direction of a connection
between two processes. `MsgChannel` has no bytes: messages are sent, delivered in order
and counted, all of them unless the connection breaks.

**State.** For each sending thread how far building and sending is (`pc`), its message
(`num`, `len` for `Head.ContentLen`) and `SendMsg`'s `currentLen` over the frame (`at`);
the bytes on the way (`stream`, at most `Room`); `RecvMsg`'s place, the bytes it has and
the length in the head (`rpc`, `rmsg`, `rlen`); `MY_MSG_STATS` of both ends (`counts`);
the module's life at each end (`mod`); when `RecvMsg` is called (`event`): whenever there
is something, by the client's libevent, or once for the edges since the last call, by the
server's epoll. A byte is `<<m, p>>`, the p-th of the frame of m.

**Actions.** `MsgModuleInit`, `MsgModuleExit`; `NewMsg`, `FillMsgCont` (nothing empty,
and strictly less than what is left, for a terminating zero), `ClearMsgCont`; a send or
a recv of any number of bytes within the part its loop is at (`SendBytes`, `RecvBytes`,
the latter with the conversion and the check of `ContentLen`), `SendFails`, `RecvEnds`,
and the returns, which count. A wait for EAGAIN is a step that is not enabled.
`ContentLen` is a `uint32_t` and both sides put it into an `int` before they look at it
(`AsInt`): a length beyond `IntMax` is negative, so that it passes the check for too long
ones (`TooLong`) and has no content to be sent or received (`Content`), while the
statistics count it as it is (`Counted`). `FillMsgCont` makes no such length; `Foreign`
are those another program, or a stray `ContentLen`, may send.

**Refinement.** `Implements` is `Channel!Spec`, `AllArrive` its fairness: while the
connection lasts what was sent is delivered and counted. `sent` are the messages whose
first byte was sent, `got` what the received bytes are, `Mangled` if they are no frame.
`broken` is what excuses a missing message: the connection closed or reset, the
receiving module ended, a head that declares too much, or `ub`. That `RecvMsg` refuses
what `FillMsgCont` allowed would be no excuse, nor is a negative length: such a message
arrives as one without content. `AllArrive` is claimed of the level-triggered receiver
only. At the server, of two messages that arrive for one edge the second stays where it
is; what the server needs of its clients for every request to be answered is in *Server*.

`msg_stream` has two threads with a message each, heads of two bytes with the length in
the first (so that a cut can fall between it and its conversion), tails of one, content
of up to three bytes (two at most from `FillMsgCont`, which wants room for a zero) and
room for six on the way: two frames without content, less than two of the longest. With
`IntMax` 4 the two foreign lengths are 4, which is refused, and 5, which is negative; in
both kinds of `event`. Either
module may be ended, also under its threads (`"late"`, then a destroyed lock is used and
the behaviour ends in `ub`, as Exit leaves `Inited` set), and the connection closed or
reset at any byte. Not in the run: `"together"`, two threads in `SendMsg` on one
connection at a time, which mixes their frames; that the server never does so with
polite clients is `FramesWhole`.

To be noted of the code: a close is counted as a received message, with the length
that is in the head by then (in network order if the head is cut). Calls before Init
succeed without doing anything; main initialises first, so they are not modelled.

**Fairness.** Threads in `SendMsg` and `RecvMsg` take the steps they can, and the
receiver calls `RecvMsg` when its library reports an event. Nothing makes a thread send.

### Proofs

`MsgProofs.tla`, for any senders, number of messages, sizes of head, content and tail,
place of the length in the head, width of an int, foreign lengths and room on the way,
and a receiver called by level or by edge; every `Env` without `"together"`,
with which frames are mixed and the statement is false. `StreamCarriesMessages` is
`Spec => Implements`. That a message arrives whole follows from where its bytes are,
which is the inductive invariant `MsgInv`: there is an assignment of a `start` to every
frame not yet received (`Places`) such that the bytes RecvMsg has are the beginning of
the first (`ReceiverInv`), the stream holds the rest of it and then the others end to
end, cut off where the sender is in the last (`SenderInv`, `OneSends`: only one is in a
frame). Bytes are looked up by place rather than by cutting the stream into frames, so
that no recursion over the frames on the way is needed. `ReasonInv` says that whoever
gives up has one of the reasons in `Broken`: it is here that the check of `ContentLen`
after the conversion and the limit of `FillMsgCont` have to agree. `SwapTwice`
is the lemma about `htonl` and `ntohl` it rests on, for every length a `uint32_t` holds.

Only model-checked: `AllArrive` (liveness).

## Mem

`Mem.tla`, `MemProofs.tla`, `MCMem.tla`. `nodes`, `alloced` and `freed` are the fields
of the slots, `memId` the variables the modules keep their ids in. `MemCalloc` and
`MemFree` are two steps each, since they look at the slot before they take its lock;
the table's operations are one. A block is lost to a module that unregisters.

`mem_table` runs three modules and the main one on exactly three slots (a register can
fail) over two lives of the table, with a block too large for the 31 bits of the prefix:
`OwnSlots` and `VerdictExact` (`MemUnRegister` reports a leak if and only if something
is left). It assumes that a module stops its threads before it unregisters (`"late"`)
and that modules unregister before `MemModuleExit` (`"skip"`), as `MyModuleCommonExit`
arranges; with `"late"` a wiped lock is used (`ub`).

Proved, for any modules, finitely many blocks of any size, any number of slots and
lives: `MemTypes` (types, whatever the callers do), `SlotsOwned` (`OwnSlots` when nobody
skips) and `VerdictsRight` (`VerdictExact` when `Env` is empty, as in the run). `OwnSlots`
is not inductive alone: it needs `NoStaleId`, that between two lives nobody has an id, or
an old id could fit a new table. For the verdict `VerdictInv` says that the two sums of a
module's slot differ by the sizes of the blocks counted in and not yet out (`SumsRight`;
a sum over a set is the number of pairs of a block and one of its bytes), that a
thread between its look at the slot and its lock has the slot the module still has
(`SlotRight`), and that the prefix holds the size (`Fitted`: a block of more than 31 bits
is refused). With `"late"` `SlotRight` fails, and with it the verdict.

## Log

`Log.tla`, `LogProofs.tla`, `MCLog.tla`. A line is the unit of size. `LogPrint` is three
steps: the look at `Inited`, the section under the lock, the look at the size after it;
`LogRotate`, with its shell commands, is a fourth. `printed` and `pruned` are history.

What `tar` does is not looked at and `rm -f` follows: `TarResults` are an archive with the
file, one that is no use, and none (`"tar"`). An archive is named by the second, so that
two rotations in one second have one name (`"burst"`); that is what two threads that
rotate for one overflow normally do, the second with a file that is nearly empty. What
either costs is counted in `lost`, so that `LinesKept` can say that nothing else is: the
lines printed, in their order and none twice, are in removed archives, archives and the
file, but exactly those in `lost`. `rm -f` is taken to succeed.

`log_rotation` has three threads print five lines with a limit of two and one archive
kept, so that all three can rotate for one overflow, with `"tar"` and `"burst"`,
`LogModuleExit` while threads are inside (`"late"`), a second life of the module and a file
that cannot be opened again (`"fopen"`); the last two can lead to a use of a closed or
missing stream, where the behaviour ends (`ub`). `LinesKept`, `FileBounded`,
`ArchivesBounded` hold. Not allowed there: a shell without `pushd` (`"sh"`), with which
`ArchivesBounded` fails.

Proved: `FileStaysBounded`, for every `Env`. The invariant (`SizeInv`) counts the threads
that have printed and not yet looked or rotated: each line from the limit on has one of
them (`Overshoot`), which holds because `LogSize` is right unless the file is empty
(`SizeRight`), so that nobody who looks while the limit is passed goes away without
rotating. `LinesAccountedFor` is `LinesKept`, for every `Env`; `NoLineLost` says that without
`"tar"` and `"burst"` no line is missing at all, and `ArchivesStayFew` is `ArchivesBounded`
if `"sh"` is not in `Env`, which is false otherwise. `LinesKept` speaks of the
archives put end to end (`FlattenSeq`), which is defined by recursion; what it does to a
sequence that is appended to or loses its first elements (`FlattenAppend`,
`FlattenSplit`) is shown with the least index at which it would do otherwise.

## EventWorker

`EventWorker.tla`, `EventWorkerProofs.tla`, `MCEventWorker.tla`; `module` says whether it
is Timer or Health, which differ in how the thread adds its own events (under the lock
or not), in whether adding looks at `IsRunning`, and in that only Timer deletes and has
one-time timers. `armed`, `active`, `calling`, `base` and `stop` are libevent's state,
modelled from its use; each call of it is one step, as the code expects (its comment
calls the base "thread-safe"), though the program enables no locking in libevent.
The list is the pointers themselves (`links`), changed by the operators of `MyList`;
`list` is the sequence they should be. Exit walks them node by node as
`MY_LIST_FOR_EACH` does, under the lock, while the thread may be in a callback.

`event_worker` has three callers, a monitor, callbacks that delete their own timer, a
thread that starts after Init gave up waiting or gets no base, and Exit: `ListRight`,
`DeletedSilent`, `ServesUntilExit`, `ExitReturns`. Two callers' events and one more are
the least with which one is deleted while another is due and a third is being added.
Behaviours end in `ub` where a callback deletes a timer Exit has freed, where
`HealthMonitorAdd` finds no base or the thread inserting, and where Exit tells a base
the thread is freeing. The module is initialised once; adding and deleting after Exit
(`"late"`) is left to the callers' discipline.

**Fairness.** The event thread and the thread in Init or Exit take their steps. The
loop's wait ends because the keepalive bounds it; no other timer is assumed ever to be
due, so `ExitReturns` cannot rest on one.

### Proofs

`EventWorkerProofs.tla`, after the theorems on the macros (see *MyList*), for any callers
and monitors, every `Env`, `"late"` included.
`EventInv` is `TypeOK` and, up to a use of freed memory, `ListRight` (the pointers lead
through exactly the allocated nodes), `Control` (where the threads can be together),
`CallersWait`, `EmptyFirst`, `OwnNodes` (whose node is on the list), `Walk` (where Exit's
loop variables point), `Silent` and `Alive`. `ListRight` needs `Walk`, since the loop has
fetched the next node before it frees this one, and `OwnNodes`, since a delete must find
its node there. From it follow `ListStaysRight`, `DeletedStaySilent` and `ThreadServes`.
`ExitReturns` is liveness and only checked.

## MyList

`MyList.tla` has each macro of `include/myList.h` as an operator from a heap (the two
pointers of every cell) to the heap it leaves, its assignments in their order, and
`IsList(l, h, s)`: the ring through head h is the sequence s, forwards and backwards.
Proved in `EventWorkerProofs.tla`, which rests on it, for lists of any length:
`NodeInitEmpties`, `AddTailAppends`,
`DelNodeRemoves`, `HeadCopyMoves` (also of an empty list, which works because the last
node is read after the first was changed), `NodeInitElsewhere`, `LoopBegins`. These are
what lets the other modules keep sequences: `TPool` its queue and batches, `Server` its
client map. There is no run of `MyList` alone, as it has no behaviour: `event_worker`
runs it.

## Program

`Program.tla`, `ProgramProofs.tla`, `MCProgram.tla`: the server program as processes, from
`server/QinXServerMain.c`, `myUtils/myModuleCommon.c`, `myUtils/CmdLine/myCmdLine.c` and the
pid file's part of `myUtils/myCommonUtil.c`.

**State.** Each process is a start of the program with an argument (`arg`), with its main
thread's place (`pc`). `lock` and `pidFile` are the pid file's. Of the process that became
the server: its modules (`mods`), which one main initialises next (`at`), the server
thread (`thr`), the command thread (`cmd`, `batch`, `cur`), and for the two threads that
may run the exit path how far they are in it (`xpc`, `inside`). The command socket, TCP on
loopback, is `conn` and `inq` per process, epoll's ready list `ready`. Of descriptors
the numbers are kept: that of each process' connection (`fd`), those the command thread
was ever given (`clientFd`) and those other threads have open (`others`). A process and the daemon it forks are
one, as the lock passes to the daemon.

**Actions.** `Start`, `MakeDaemon`, `StartCmdThread`, then `InitModule` in `InitOrder` and
`HealthRegister`; `ServerParseConfFails`, which ends a process before anything is
initialised; `ClientAsks` and `ClientReads` of a process that only sends a command; the
command thread's loop (`CmdEpollWait`, `CmdAccept`, `CmdRecv`, `CmdPeerClosed`,
`CmdRecvFails`) and its handlers (`CmdHandle`, `CmdStop`, `CmdShowCrashes`); commands of
processes that are not followed (`CmdServesAnother`) and the TCP clients of the server
thread (`ServerThreadAccepts`, `ServerThreadCloses`), as far as they take numbers; and the exit
path in `ExitOrder` (`ExitBegins`, `ExitSkips`, `ExitEnds`, `ExitOver`), on the command
thread for a stop, on main when Init fails, or on both at once. What crashed a server
is `fault`, with whether main was still initialising then.

**Descriptors.** `CmdAccept` is given the lowest number that is free and writes it into
`clientFd`, 128 entries on the thread's stack, whose end is not compared and from which
nothing is taken when a connection is closed. One entry too many is `Overflown`: what the
program does from there the code does not say, so the behaviour ends and the liveness
properties are claimed up to it. At its end the command thread closes every number in
`clientFd` (`CmdServerEnd`), also those closed before and given out again, so that it can
close a connection of the server thread's; the run reaches both. What becomes of that
client is not followed further. `accept` is taken to succeed: a failure is skipped by
the code and reported again by epoll.

`program_life` starts three processes, one to start, one to stop or show, one that is a
second start or a command that may find its module not ready; each at any moment of
the others' lives, with modules that fail to start, health callbacks at any time and
commands that are interrupted. Two starts are needed for a race of roles, a third
process to ask meanwhile. `clientFd` has two entries, so that it is full and overflows
with the three that can come; one number is enough for the other threads, as it can be
one that the command thread has given back; and with four numbers, one for each process
and that one, there is always one to accept with. It shows:

- `OneServer`, `PidFileRight`: also when a server starts while another is being killed;
- `ModulesOutliveServerThread`: the server thread is joined before what it uses goes,
  unless a stop came before main was done;
- `FaultsOnlyEarly`: reports and second exits crash only such a server. The exception is
  a health callback while `TPoolModuleExit` runs, which nothing in the code excludes;
- `StopStops`, `CommandAnswered`, `ProcessSettles`: a stop ends the server, a command gets
  its answer or the end of its connection, no process hangs, as long as `clientFd` has
  room: up to and with the last command there is an entry for. Without that exception
  `CommandAnswered` is false.

Kinds of `Env` not in the run: `"listen"` (a port or the socket is taken) and `"stuck"`
(half a message holds `RecvMsg`, and with it the join of `ServerProcExit`, so that
`StopStops` fails). With `"reset"` the command thread ends for all connections when one
is reset, which `StopStops` excepts.

**Fairness.** Threads of a started process go on while they can. Nothing makes a user
start the program or kill it, or a callback run.

**Proofs**, for any number of processes in every `Env`: `ProgramTypes`, `OnlyOneServer`,
`PidFileNamesServer`, `ModulesThereForThread` (`ModulesOutliveServerThread`) and
`CrashesOnlyEarly` (`FaultsOnlyEarly`); the descriptors matter to none of them but the first
(`FdStep`). `RoleInv` says that the lock, the owner of the
threads and the name in the pid file all follow from where the main threads are; the
lock alone does not say who wrote the file. `LifeInv` adds the modules' lives: they are
initialised in their order (`Initialised`), main leaves only if it failed before the last
of them and the command thread only for a stop (`MainLeaves`, `CmdLeaves`), a module that
is being ended has a thread inside its Exit (`Exiting`), main passes CmdLine only when the
command thread has ended or leaves itself (`CmdLineFirst`), and a stop that came in time
is at the server thread's module while that thread runs (`ServerProcFirst`). The last is
what both properties need: it excludes that two threads are in the exit path at once
unless the stop came early.

## Client

`Client.tla`, `ClientProofs.tla`, `MCClient.tla`, from `client/*.c`. `mpc` and `epc` are the
places of the main and the event thread, `xpc` where each is in `ClientExit`, which both
may run at once; `handle`, `base`, `loopexit`, `running`, `fd` are the fields of the
worker, `mods` the modules; a reply arrives in two pieces (`came`, `took`), so that the
thread can be caught between them. The client does not wait for a reply before it sends
the next command (`hasty`), so that two workers of the server can mix theirs (`"mixed"`,
`ServerMixes`): behind the replies that came `whole` RecvMsg then finds heads where there are
none, takes pieces for a message (`Astray`), waits for the rest of one that is none
(`Stranded`), or refuses one (`RecvMsgRefuses`), and on any error the client gives up
the connection, also if it stands. `over` says how the process ended: killed (its own
`killall`, or that of another client of the machine), by SIGPIPE, or by a crash.

`client_run` has up to four lines, an Init that fails or does not wait long enough
(`"fail"`, `"slow"`), input that ends (`"eof"`), replies that mix (`"mixed"`) and other clients
that end (`"others"`). Four lines are two commands, one of no meaning and a disconnect, or
three commands, of which the replies to two can mix behind one that is whole. It shows
`RepliesHaveModules` (no module is ended under a reply that is being received),
`LastWords` (whatever error makes the client give up, every whole reply is printed by
then; and if the user waits for replies the server has ended the connection),
`RepliesPrinted` (of whole replies) and `ClientEnds`, which excepts a thread that is
`Stranded` for good. Not in the run: `"stuck"`, a server that holds back the
rest of a message, with which the join never returns and `ClientEnds` fails.

To be noted of the code: with `"slow"` a client of a reachable server ends without a
word, as main finds `IsRunning` not set yet; the end of the input crashes it (`strchr`
finds no end of line); `killall` of one client ends all of the machine.

**Fairness.** Both threads go on while they can and a message that has begun arrives
whole, as `SendMsg` sees to. Nothing makes the user type or the server answer.

**Proofs**, for any number of lines in every `Env`: `ModulesWhileReceiving`, `NothingUnread`.
`CInv` has `Places` (what the threads' places say of each other), `Pieces` (counts of what
arrived, was taken and printed, for as long as that is messages in their order, and that
only a hasty user's replies mix) and `Apart`: where the modules may have ended, the event
thread is past its loop or no command was ever sent, as main sends none before the
loop has started.

## What is proved and what is only checked

TLC checks the instances above; the theorems hold for all values of the constants under
the assumptions stated by name (ASSUME) in each module, which TLC evaluates in every
run. They are that sets of threads, callers, tasks, blocks and connections are finite,
that limits are numbers of the right sign, that special values are not members of the
sets, and that `Env` is one of the kinds named.

Every invariant and action property of the passing runs, and `Refines` and `Implements`,
is a theorem. Most hold in every `Env`. Those that do not, and what is excluded because
the property is false with it:

| Theorem | Property | `Env` without |
|---|---|---|
| `SuccessMeansRan` | `SyncSuccessRan` | `"spurious"`: the wait is not in a loop |
| `ExitLeavesNothing` | `CleanExit` | `"timeout"`, `"clock"`: the run `tpool_leak` |
| `SlotsOwned`, `VerdictsRight` | `OwnSlots`, `VerdictExact` | `"skip"`; `"late"` too for the second: callers that break the modules' order |
| `NoLineLost` | no line lost (`AllThere`) | `"tar"`, `"burst"`: what they cost is in `LinesKept`, which holds in every `Env` |
| `ArchivesStayFew` | `ArchivesBounded` | `"sh"`: nothing is removed |
| `PoliteReplies`, `PoliteFrames` | `RepliesToSender`, `FramesWhole` | clients that do not wait (`Polite`): the run `server_reuse` |
| `StreamCarriesMessages` | `Implements` | `"together"`: frames are mixed |

Liveness under fairness is out of the prover's reach and only checked: `AcceptedRuns`,
`SyncAnswered`, `RequestAnswered`, `GoneForgotten`, `ExitJoins`, `ExitReturns`, `StopStops`,
`CommandAnswered`, `ProcessSettles`, `RepliesPrinted`, `ClientEnds`, `AllArrive`. So are the
two violations, which are single behaviours.

Where a proof is about sums or recursion the prover's induction theorems, which take a
predicate, cannot be used. Sums are cardinalities of sets that grow or shrink by known
elements (`TPool`, `Log`, `Mem`), and recursion along a sequence is argued from the least
index that would be a counterexample (`LeastNatural` in `LogProofs`).

## Not modelled

- `Lesson1` to `Lesson3`: earlier iterations of this program, superseded by it; the
  kernel demo, one hook that logs; the vendored libraries (libevent, json) and
  environment files. libevent is modelled where it is used.
- The unit tests, which were read for what the modules promise.
- Reports (`...CollectStat`, `ShowModuleStats`) as text: they only read. Where reading
  races an end it is in `Program`.
- Formatting and parsing of configuration, log lines and commands: their outcome is an
  input of the models.
- `CommonUtil` but for the daemon and the pid file (pure helpers), the stub
  `SafetyManager`, the cpu usage that `ServerMonitor` computes, and
  `ServerClientMapFetchByFd`, which nothing calls.
- Failing allocations: `MemCalloc` does not return NULL (see TPool, *Left out*), so the
  callers' tests for it are never taken.
