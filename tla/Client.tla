------------------------------- MODULE Client -------------------------------
(***************************************************************************)
(* The client program: client/QinXClientMain.c, ClientProc.c and           *)
(* ClientMsgHandler.c.  Its main thread reads lines and sends commands; its*)
(* event thread connects, then receives and prints replies in a libevent   *)
(* loop.  The user may leave while the connection is lost: either thread   *)
(* then runs ClientExit, which joins the event thread, ends the modules and*)
(* kills every process of the name.                                        *)
(*                                                                         *)
(* A message arrives in two pieces, so that RecvMsg can be caught in the   *)
(* middle of one.  The client does not wait for a reply before it sends the*)
(* next command, and two workers of the server that send at once mix their *)
(* pieces: RecvMsg then finds heads where there are none.  The server and  *)
(* the kernel (sockets, libevent, killall) are modelled from how the code  *)
(* uses them.                                                              *)
(***************************************************************************)
EXTENDS Naturals

CONSTANTS
    MaxLines,     \* lines the user types at most
    Env           \* what the surroundings may do, a subset of ClientEnvKinds

\* "fail":   the client cannot be initialised, or cannot connect
\* "slow":   connecting takes longer than ClientProcInit waits
\* "eof":    the input may end
\* "stuck":  the rest of a message need not come
\* "mixed":  two workers of the server may send their replies at once
\* "others": another client of the machine may end, which kills this one as well
ClientEnvKinds == {"fail", "slow", "eof", "stuck", "mixed", "others"}

ASSUME ClientAssumption == MaxLines \in Nat /\ Env \subseteq ClientEnvKinds

VARIABLES
    mpc,          \* where the main thread is
    epc,          \* where the event thread is, in _ClientProcFn
    xpc,          \* thread -> where it is in ClientExit
    handle,       \* Thread is not NULL
    base,         \* EventBase is not NULL
    loopexit,     \* event_base_loopexit was called
    running,      \* IsRunning
    fd,           \* ClientFd is open
    mods,         \* the modules: "down", "up", or "ending" since MyModuleCommonExit
    line,         \* the line read last
    lines,        \* how many were read
    sent,         \* the commands sent
    hasty,        \* history: one was sent before the last reply had come whole
    link,         \* the connection: "none", "open", closed by the server: "fin", "rst"
    came,         \* pieces of messages that have arrived
    whole,        \* replies that came whole, before any that were mixed
    took,         \* pieces that RecvMsg took
    printed,      \* messages printed
    over          \* how the process ended: "no", "killed", "sigpipe", "crash"

threadVars == <<mpc, epc, xpc>>
workerVars == <<handle, base, loopexit, running, fd, mods>>
userVars   == <<line, lines, sent, hasty>>
netVars    == <<link, came, whole>>
recvVars   == <<took, printed>>
vars == <<threadVars, workerVars, userVars, netVars, recvVars, over>>

Threads == {"main", "event"}
Lines == {"cmd", "other", "disconnect"}
Lost == link \in {"fin", "rst"}

\* Pieces have come that are no message in their order; RecvMsg has got that far
Mixed == came > 2 * whole + 1
Astray == Mixed /\ took > 2 * whole

Init ==
    /\ mpc = "off" /\ epc = "none" /\ xpc = [x \in Threads |-> "no"]
    /\ handle = FALSE /\ base = FALSE /\ loopexit = FALSE /\ running = FALSE
    /\ fd = FALSE /\ mods = "down"
    /\ line = "other" /\ lines = 0 /\ sent = 0 /\ hasty = FALSE
    /\ link = "none" /\ came = 0 /\ whole = 0 /\ took = 0 /\ printed = 0
    /\ over = "no"

-----------------------------------------------------------------------------
(***************************************************************************)
(* The main thread: main, _ClientInit, ClientProcInit, ClientProcMainLoop. *)
(***************************************************************************)
\* main goes on to ClientExit; _ClientInit that fails cleans up by itself before
MainLeaves(place) == mpc' = place /\ xpc' = [xpc EXCEPT !["main"] = "test"]

\* _ClientParseConf, MyModuleCommonInit
ClientInit ==
    /\ mpc = "off"
    /\ \/ mods' = "up" /\ mpc' = "proc" /\ UNCHANGED xpc
       \/ /\ "fail" \in Env
          /\ mods' \in {"down", "up"} /\ MainLeaves("undo")
    /\ UNCHANGED <<epc, handle, base, loopexit, running, fd, userVars, netVars, recvVars>>

\* The thread's handle is there whether pthread_create succeeds or not
ClientProcInit ==
    /\ mpc = "proc"
    /\ handle' = TRUE
    /\ \/ mpc' = "wait" /\ epc' = "connect" /\ UNCHANGED xpc
       \/ "fail" \in Env /\ MainLeaves("undo") /\ UNCHANGED epc
    /\ UNCHANGED <<base, loopexit, running, fd, mods, userVars, netVars, recvVars>>

\* It waits for IsRunning, but not for long, and succeeds in any case
ClientProcWait ==
    /\ mpc = "wait"
    /\ running \/ epc = "ended" \/ "slow" \in Env
    /\ mpc' = "loop"
    /\ UNCHANGED <<epc, xpc, workerVars, userVars, netVars, recvVars>>

\* The while test
MainLoopEnds ==
    /\ mpc = "loop" /\ ~running
    /\ MainLeaves("leave")
    /\ UNCHANGED <<epc, workerVars, userVars, netVars, recvVars>>

MainLoopTest ==
    /\ mpc = "loop" /\ running
    /\ mpc' = "read"
    /\ UNCHANGED <<epc, xpc, workerVars, userVars, netVars, recvVars>>

\* fgets
UserTypes ==
    /\ mpc = "read" /\ over = "no" /\ lines < MaxLines
    /\ line' \in Lines
    /\ lines' = lines + 1
    /\ mpc' = "line"
    /\ UNCHANGED <<epc, xpc, workerVars, sent, hasty, netVars, recvVars, over>>

Crash == /\ over' = "crash"
         /\ UNCHANGED <<threadVars, workerVars, userVars, netVars, recvVars>>

\* fgets leaves the buffer empty, strchr finds no end of line in it
InputEnds == mpc = "read" /\ over = "no" /\ "eof" \in Env /\ Crash

\* ClientCmdIsExit, ClientCmdSupported; the usage is printed for what is neither
MainLine ==
    /\ mpc = "line" /\ line # "cmd"
    /\ IF line = "disconnect"
       THEN MainLeaves("leave")
       ELSE mpc' = "loop" /\ UNCHANGED xpc
    /\ UNCHANGED <<epc, workerVars, userVars, netVars, recvVars>>

\* ClientHandleCmd: NewMsg, which has no memory once the modules end, FillMsgCont,
\* SendMsg, FreeMsg
ClientHandleCmd ==
    /\ mpc = "line" /\ line = "cmd"
    /\ mpc' = "loop"
    /\ IF mods = "up" /\ fd /\ link # "rst"
       THEN sent' = sent + 1 /\ hasty' = (hasty \/ whole < sent)
       ELSE UNCHANGED <<sent, hasty>>
    /\ UNCHANGED <<epc, xpc, workerVars, line, lines, netVars, recvVars>>

\* send to a server that has reset the connection
ClientHandleCmdKilled ==
    /\ mpc = "line" /\ line = "cmd" /\ fd /\ link = "rst"
    /\ over = "no" /\ over' = "sigpipe"
    /\ UNCHANGED <<threadVars, workerVars, userVars, netVars, recvVars>>

-----------------------------------------------------------------------------
(***************************************************************************)
(* The event thread: _ClientProcFn, _ClientRecvMsg.                        *)
(***************************************************************************)
\* _ClientCreateFd, which gives the descriptor back if it fails
ClientConnect ==
    /\ epc = "connect"
    /\ \/ link' = "open" /\ fd' = TRUE /\ epc' = "setup"
       \/ "fail" \in Env /\ epc' = "clean" /\ UNCHANGED <<link, fd>>
    /\ UNCHANGED <<mpc, xpc, handle, base, loopexit, running, mods, userVars, came, whole, recvVars>>

ClientNewBase ==
    /\ epc = "setup"
    /\ base' = TRUE /\ epc' = "events"
    /\ UNCHANGED <<mpc, xpc, handle, loopexit, running, fd, mods, userVars, netVars, recvVars>>

\* event_new, event_add, then IsRunning
ClientAddEvents ==
    /\ epc = "events"
    /\ running' = TRUE /\ epc' = "dispatch"
    /\ UNCHANGED <<mpc, xpc, handle, base, loopexit, fd, mods, userVars, netVars, recvVars>>

\* The loop looks for loopexit after each round, one a second at least
DispatchEnds ==
    /\ epc = "dispatch" /\ loopexit
    /\ epc' = "clean"
    /\ UNCHANGED <<mpc, xpc, workerVars, userVars, netVars, recvVars>>

\* Variant: without EV_PERSIST the event is heard of once
Pending_Once == took = 0 /\ (came > 0 \/ Lost)
Pending == came > took \/ Lost                      \* EV_READ | EV_PERSIST

\* _ClientRecvMsg calls RecvMsg
RecvMsgBegins ==
    /\ epc = "dispatch" /\ Pending
    /\ epc' = "recv"
    /\ UNCHANGED <<mpc, xpc, workerVars, userVars, netVars, recvVars>>

\* Another piece; any may end a message once the heads are none
RecvMsg ==
    /\ epc = "recv" /\ came > took
    /\ took' = took + 1
    /\ \/ ~Astray /\ epc' = IF took % 2 = 0 THEN "recv" ELSE "handle"
       \/ Astray /\ epc' \in {"recv", "handle"}
    /\ UNCHANGED <<mpc, xpc, workerVars, userVars, netVars, printed>>

ClientHandleMsg ==
    /\ epc = "handle"
    /\ printed' = printed + 1
    /\ epc' = "dispatch"
    /\ UNCHANGED <<mpc, xpc, workerVars, userVars, netVars, took>>

\* Variant: the close is looked at before the data
Drained_Not == TRUE
\* recv reports the close, or the reset, behind everything that has arrived
Drained == came = took

\* _ClientRecvMsg gives up on any error
EventLeaves == epc' = "exit" /\ xpc' = [xpc EXCEPT !["event"] = "test"]

RecvMsgFails ==
    /\ epc = "recv" /\ Lost /\ Drained
    /\ EventLeaves
    /\ UNCHANGED <<mpc, workerVars, userVars, netVars, recvVars>>

\* The ContentLen that RecvMsg finds in a head that is none is too long
RecvMsgRefuses ==
    /\ epc = "recv" /\ came > took /\ Astray
    /\ took' = took + 1
    /\ EventLeaves
    /\ UNCHANGED <<mpc, workerVars, userVars, netVars, printed>>

\* CommonReturn of _ClientProcFn, in its order
ProcFnNotRunning ==
    /\ epc = "clean"
    /\ running' = FALSE /\ epc' = "close"
    /\ UNCHANGED <<mpc, xpc, handle, base, loopexit, fd, mods, userVars, netVars, recvVars>>

ProcFnCloses ==
    /\ epc = "close"
    /\ fd' = FALSE /\ epc' = "free"
    /\ UNCHANGED <<mpc, xpc, handle, base, loopexit, running, mods, userVars, netVars, recvVars>>

ProcFnFrees ==
    /\ epc = "free"
    /\ base' = FALSE /\ epc' = "ended"
    /\ UNCHANGED <<mpc, xpc, handle, loopexit, running, fd, mods, userVars, netVars, recvVars>>

-----------------------------------------------------------------------------
(***************************************************************************)
(* ClientExit, on either thread: ClientProcExit, MyModuleCommonExit,       *)
(* killall.                                                                *)
(***************************************************************************)
At(x, place) == xpc[x] = place
To(x, place) == xpc' = [xpc EXCEPT ![x] = place]

\* Variant: the event thread is not joined
AfterTest_Modules == "modules"
AfterTest == "deref"

ClientProcExit(x) ==
    /\ At(x, "test")
    /\ IF base /\ handle          \* EventBase && Thread
       THEN loopexit' = TRUE /\ To(x, AfterTest)
       ELSE To(x, "modules") /\ UNCHANGED loopexit
    /\ UNCHANGED <<mpc, epc, handle, base, running, fd, mods, userVars, netVars, recvVars>>

\* *Thread, which the other thread may have set to NULL meanwhile
ClientProcJoins(x) ==
    /\ At(x, "deref") /\ handle
    /\ To(x, "join")
    /\ UNCHANGED <<mpc, epc, workerVars, userVars, netVars, recvVars>>

ClientProcDerefsNull(x) == At(x, "deref") /\ ~handle /\ over = "no" /\ Crash

\* Variant: a thread waits for itself
Joined_Self(x) == epc = "ended"
\* The event thread's join of itself returns EDEADLK
Joined(x) == x = "event" \/ epc = "ended"

ClientProcJoined(x) ==
    /\ At(x, "join") /\ Joined(x)
    /\ handle' = FALSE /\ To(x, "modules")
    /\ UNCHANGED <<mpc, epc, base, loopexit, running, fd, mods, userVars, netVars, recvVars>>

\* MyModuleCommonExit; after it _ClientInit returns to main, which calls ClientExit
ModuleCommonExit(x) ==
    /\ At(x, "modules")
    /\ mods' = IF mods = "up" THEN "ending" ELSE mods
    /\ IF x = "main" /\ mpc = "undo"
       THEN mpc' = "leave" /\ To(x, "test")
       ELSE To(x, "kill") /\ UNCHANGED mpc
    /\ UNCHANGED <<epc, handle, base, loopexit, running, fd, userVars, netVars, recvVars>>

Killall(x) ==
    /\ At(x, "kill") /\ over = "no"
    /\ over' = "killed"
    /\ UNCHANGED <<threadVars, workerVars, userVars, netVars, recvVars>>

OtherClientEnds ==
    /\ "others" \in Env /\ mpc # "off" /\ over = "no"
    /\ over' = "killed"
    /\ UNCHANGED <<threadVars, workerVars, userVars, netVars, recvVars>>

-----------------------------------------------------------------------------
(***************************************************************************)
(* The server.  It answers commands, one message each, and may close or    *)
(* reset the connection at any time.                                       *)
(***************************************************************************)
Comes(n) == came' = came + n /\ whole' = IF Mixed THEN whole ELSE (came + n) \div 2

ServerReplies ==
    /\ link = "open" /\ came % 2 = 0 /\ came < 2 * sent /\ came # 2 * whole + 2
    /\ Comes(1) \/ Comes(2)
    /\ UNCHANGED <<threadVars, workerVars, userVars, link, recvVars>>

\* The rest of a reply, or of two that are mixed
ServerRepliesRest ==
    /\ link = "open"
    /\ came % 2 = 1 \/ came = 2 * whole + 2
    /\ Comes(1)
    /\ UNCHANGED <<threadVars, workerVars, userVars, link, recvVars>>

\* A second reply begins when the first has begun
ServerMixes ==
    /\ "mixed" \in Env /\ link = "open"
    /\ ~Mixed /\ whole + 2 <= sent
    /\ came' = 2 * whole + 2
    /\ UNCHANGED <<threadVars, workerVars, userVars, link, whole, recvVars>>

ServerCloses ==
    /\ link = "open"
    /\ link' \in {"fin", "rst"}
    /\ UNCHANGED <<threadVars, workerVars, userVars, came, whole, recvVars>>

-----------------------------------------------------------------------------
\* What a thread does without ending the process
Goes(step) == over = "no" /\ step /\ UNCHANGED over

ExitStep(x) ==
    \/ Goes(\/ ClientProcExit(x) \/ ClientProcJoins(x) \/ ClientProcJoined(x)
            \/ ModuleCommonExit(x))
    \/ ClientProcDerefsNull(x) \/ Killall(x)

MainStep ==
    \/ Goes(\/ ClientInit \/ ClientProcInit \/ ClientProcWait \/ MainLoopEnds
            \/ MainLoopTest \/ MainLine \/ ClientHandleCmd)
    \/ ClientHandleCmdKilled
    \/ ExitStep("main")

EventStep ==
    \/ Goes(\/ ClientConnect \/ ClientNewBase \/ ClientAddEvents \/ DispatchEnds
            \/ RecvMsgBegins \/ RecvMsg \/ ClientHandleMsg \/ RecvMsgFails
            \/ RecvMsgRefuses
            \/ ProcFnNotRunning \/ ProcFnCloses \/ ProcFnFrees)
    \/ ExitStep("event")

Next == \/ MainStep \/ EventStep
        \/ UserTypes \/ InputEnds \/ OtherClientEnds
        \/ Goes(\/ ServerReplies \/ ServerRepliesRest \/ ServerMixes
                \/ ServerCloses)

(***************************************************************************)
(* Both threads go on while they can.  A message that has begun to arrive  *)
(* comes to its end (SendMsg of the server sends it whole) or the          *)
(* connection is closed, unless "stuck".  Nothing makes the user type, or  *)
(* the server answer.                                                      *)
(***************************************************************************)
Fairness ==
    /\ WF_vars(MainStep) /\ WF_vars(EventStep)
    /\ "stuck" \notin Env => WF_vars(Goes(ServerRepliesRest))

Spec == Init /\ [][Next]_vars
FairSpec == Spec /\ Fairness

-----------------------------------------------------------------------------
(***************************************************************************)
(* Properties.                                                             *)
(***************************************************************************)
MainPcs == {"off", "proc", "wait", "loop", "read", "line", "undo", "leave"}
EventPcs == {"none", "connect", "setup", "events", "dispatch", "recv", "handle", "exit",
             "clean", "close", "free", "ended"}

\* Every variable holds a value of its kind.
TypeOK ==
    /\ mpc \in MainPcs /\ epc \in EventPcs
    /\ xpc \in [Threads -> {"no", "test", "deref", "join", "modules", "kill"}]
    /\ handle \in BOOLEAN /\ base \in BOOLEAN /\ loopexit \in BOOLEAN
    /\ running \in BOOLEAN /\ fd \in BOOLEAN /\ mods \in {"down", "up", "ending"}
    /\ line \in Lines /\ lines \in Nat /\ sent \in Nat /\ hasty \in BOOLEAN
    /\ link \in {"none", "open", "fin", "rst"}
    /\ came \in Nat /\ whole \in Nat /\ took \in Nat /\ printed \in Nat
    /\ over \in {"no", "killed", "sigpipe", "crash"}

\* While a reply is received and printed the modules that takes are not ended, neither
\* by a user who leaves meanwhile nor by an Init that has waited too short a time.
RepliesHaveModules ==
    epc = "handle" \/ (epc = "recv" /\ took % 2 = 1) => mods = "up"

\* The client gives up a connection only when it has printed every reply that came
\* whole; and only one the server has closed or reset, as long as the user waits for the
\* reply before the next command: otherwise replies may mix, and RecvMsg refuses a
\* message that is none although the connection stands.
LastWords == epc = "exit" => /\ printed >= whole
                             /\ ~hasty => Lost /\ printed = whole

\* Every reply that comes whole, and before any that are mixed, is printed, unless the
\* process ends first.
RepliesPrinted == \A k \in 1..MaxLines : whole >= k ~> printed >= k \/ over # "no"

\* RecvMsg waits for what the server has already sent in another reply
Stranded == epc = "recv" /\ Mixed /\ came = took /\ ~Lost

\* The process ends when the user types "disconnect", whatever the event thread is doing,
\* when the connection is lost, although main waits for input, and when there was none;
\* only mixed replies may keep the event thread, and with it who joins it, for good.
ClientEnds ==
    (mpc \in {"leave", "undo"} \/ epc = "ended" \/ Lost) ~> (over # "no" \/ []Stranded)
=============================================================================
