------------------------------ MODULE Program ------------------------------
(***************************************************************************)
(* The life of the server program: server/QinXServerMain.c,                *)
(* myUtils/myModuleCommon.c and the command line of                        *)
(* myUtils/CmdLine/myCmdLine.c.  The program is started again and again,   *)
(* each time with one argument.  Whoever gets the lock on the pid file is  *)
(* the server, if the argument is "start": it becomes a daemon, starts a   *)
(* thread that serves commands, and initialises its modules while that     *)
(* thread already runs.  Every other process sends its argument to that    *)
(* thread and prints the reply.  A "stop" ends the modules on the very     *)
(* thread that serves it, then kills every process of the name.            *)
(*                                                                         *)
(* A process and the daemon it forks are one process here: the lock passes *)
(* to the daemon, the parent only exits.  Of a module's Init and Exit it is*)
(* kept whether it was done, is being done, and what it waits for.  The    *)
(* kernel (lock, sockets, epoll, killall) is modelled from its use.        *)
(***************************************************************************)
EXTENDS Naturals, Sequences, FiniteSets, SequencesExt

CONSTANTS
    Procs,        \* the times the program is started
    Given(_),     \* process -> the arguments it may be given, a subset of Args
    MaxClients,   \* MY_MAX_CLIENT_NUM_PER_SERVER, the length of clientFd
    MaxFd,        \* descriptors are numbered 1..MaxFd
    MaxOthers,    \* how many of them the other threads have open at a time
    Env           \* what the surroundings may do, a subset of ProgramEnvKinds

\* "show" is showModuleStat, "set" any of the change commands; "stat" and "warn" are
\* the external commands ShowServerProcStat and SetServerCpuUsageWarningValue, the
\* latter with a value that is refused
Args == {"start", "stop", "help", "show", "set", "stat", "warn"}
External == {"stat", "warn"}

\* "fail":   the configuration is refused, TPoolModuleInit fails (TPoolSize is 0), or a
\*           module gets no thread
\* "listen": a thread cannot bind its port
\* "health": a health callback may run while TPoolModuleExit does
\* "stuck":  a client of the server holds back the rest of a message
\* "reset":  a process that waits for its reply may be killed, unless it is a stop
ProgramEnvKinds == {"fail", "listen", "health", "stuck", "reset"}

None == "none"
Listener == "listener"               \* serverFd of the command thread

ASSUME ProgramAssumption ==
    /\ None \notin Procs /\ Listener \notin Procs
    /\ \A p \in Procs : Given(p) \subseteq Args
    /\ MaxClients \in Nat /\ MaxFd \in Nat /\ MaxOthers \in Nat
    /\ Env \subseteq ProgramEnvKinds

VARIABLES
    arg,          \* process -> its argument, once it is started
    pc,           \* process -> where its main thread is
    lock,         \* the process that holds the lock on the pid file
    pidFile,      \* the process the pid file names
    server,       \* the process the following are the threads and modules of
    mods,         \* module -> "down", "up", "going" (in its Exit), "gone"
    at,           \* the module main initialises next
    thr,          \* the server thread: "none", "runs", "ended"
    cmd,          \* where the command thread is in _CmdServerWorkerProc
    batch,        \* what is left of its waitEvents
    cur,          \* the process whose command it handles
    fd,           \* process -> the number of its open connection, 0 for none
    clientFd,     \* every number the command thread was given by accept
    others,       \* the numbers other threads have open: TCP clients, sockets, files
    xpc,          \* thread -> the module it is to exit next, 0 for none
    inside,       \* thread -> it is inside that module's Exit
    early,        \* a stop came before main was done with Init
    conn,         \* process -> its connection: "none", "backlog", "open", "closed"
    inq,          \* process -> what the command thread can receive of it
    ready,        \* epoll's ready list
    reply,        \* process -> its reply: "no", "sent", "read"
    fault         \* what crashed the last server, and whether that was early

procVars == <<arg, pc, lock, pidFile>>
modVars  == <<server, mods, at, thr>>
fdVars   == <<fd, clientFd, others>>
cmdVars  == <<cmd, batch, cur, fdVars>>
exitVars == <<xpc, inside, early>>
connVars == <<conn, inq, ready, reply>>
vars == <<procVars, modVars, cmdVars, exitVars, connVars, fault>>

InitOrder == <<"Msg", "TPool", "Health", "Timer", "ServerProc">>

\* Variant: CmdLine ends after the modules whose reports it prints
ExitOrder_CmdLineLast ==
    <<"ServerProc", "Msg", "TPool", "Health", "Timer", "CmdLine", "Mem">>
\* _ServerExit, and the end of _ServerInit when it fails
ExitOrder == <<"ServerProc", "CmdLine", "Msg", "TPool", "Health", "Timer", "Mem">>

\* Log is up whenever Mem is, and has no thread: it is left out
Modules == {"ServerProc", "CmdLine", "Msg", "TPool", "Health", "Timer", "Mem"}
Threads == {"main", "cmd"}
AllDown == [m \in Modules |-> "down"]

Init ==
    /\ arg = [p \in Procs |-> None] /\ pc = [p \in Procs |-> "off"] /\ lock = None /\ pidFile = None
    /\ server = None /\ mods = AllDown /\ at = 1 /\ thr = "none"
    /\ cmd = "none" /\ batch = {} /\ cur = None
    /\ fd = [p \in Procs |-> 0] /\ clientFd = <<>> /\ others = {}
    /\ xpc = [x \in Threads |-> 0] /\ inside = [x \in Threads |-> FALSE] /\ early = FALSE
    /\ conn = [p \in Procs |-> "none"] /\ inq = [p \in Procs |-> {}] /\ ready = {}
    /\ reply = [p \in Procs |-> "no"] /\ fault = <<>>

Goto(p, place) == pc' = [pc EXCEPT ![p] = place] /\ UNCHANGED arg
Listening == cmd \in {"poll", "batch", "handle", "exit"}
Connected == {p \in Procs : conn[p] \in {"backlog", "open"}}

\* A connection whose client ends: it is reset if the reply was not read
Farewell(p) == IF reply[p] = "sent" THEN "rst" ELSE "fin"

(***************************************************************************)
(* The processes in S end.  The kernel gives their locks back and closes   *)
(* their connections.                                                      *)
(***************************************************************************)
EndServer ==
    /\ server' = None /\ mods' = AllDown /\ at' = 1 /\ thr' = "none"
    /\ cmd' = "none" /\ batch' = {} /\ cur' = None
    /\ fd' = [p \in Procs |-> 0] /\ clientFd' = <<>> /\ others' = {}
    /\ xpc' = [x \in Threads |-> 0] /\ inside' = [x \in Threads |-> FALSE]
    /\ early' = FALSE
    /\ conn' = [p \in Procs |-> IF p \in Connected THEN "closed" ELSE conn[p]]
    /\ inq' = [p \in Procs |-> {}] /\ ready' = {}

End(S) ==
    /\ pc' = [p \in Procs |-> IF p \in S THEN "ended" ELSE pc[p]]
    /\ lock' = IF lock \in S THEN None ELSE lock
    /\ IF server \in S
       THEN EndServer
       ELSE /\ inq' = [p \in Procs |-> IF p \in S \cap Connected
                                       THEN inq[p] \cup {Farewell(p)} ELSE inq[p]]
            /\ ready' = ready \cup {p \in S : conn[p] = "open"}
            /\ UNCHANGED <<modVars, cmdVars, exitVars, conn>>
    /\ UNCHANGED <<arg, pidFile>>

Crash(what) ==
    /\ fault' = <<what, early \/ pc[server] # "up">>
    /\ End({server})
    /\ UNCHANGED reply

-----------------------------------------------------------------------------
(***************************************************************************)
(* The main thread of a process: main, _ServerInit, MyModuleCommonInit,    *)
(* CmdLineModuleInit.                                                      *)
(***************************************************************************)
\* Variant: the file is opened with O_TRUNC
OpenPidFile_Trunc == pidFile' = None
OpenPidFile == UNCHANGED pidFile

\* Variant: the lock is not looked at
IsProcessRunning_Never == FALSE
IsProcessRunning == lock # None

GivenOne(p) == \E a \in Given(p) : arg' = [arg EXCEPT ![p] = a]

\* Every process reads the configuration first, also one that only sends a command.  If
\* it is refused (a value out of its range, no file) no module was initialised, and what
\* is called to end them does nothing
ServerParseConfFails(p) ==
    /\ "fail" \in Env /\ pc[p] = "off"
    /\ GivenOne(p)
    /\ pc' = [pc EXCEPT ![p] = "ended"]
    /\ UNCHANGED <<lock, pidFile, modVars, cmdVars, exitVars, connVars, fault>>

\* _ServerCmdRegister, _ServerParseConf, Log and Mem, then MyUtil_OpenPidFile and
\* MyUtil_IsProcessRunning, which takes the lock if it can
Start(p) ==
    /\ pc[p] = "off"
    /\ GivenOne(p)
    /\ OpenPidFile
    /\ IF IsProcessRunning
       THEN pc' = [pc EXCEPT ![p] = "client"] /\ UNCHANGED lock
       ELSE pc' = [pc EXCEPT ![p] = "owner"] /\ lock' = p
    /\ UNCHANGED <<modVars, cmdVars, exitVars, connVars, fault>>

\* "help", and what needs a server when there is none: the usage is printed
PrintUsage(p) ==
    /\ <<pc[p], arg[p]>> \in ({"owner"} \X (Args \ {"start"})) \cup {<<"client", "help">>}
    /\ End({p})
    /\ UNCHANGED <<reply, fault>>

\* MyUtil_MakeDaemon, MyUtil_SetPidIntoFile
MakeDaemon(p) ==
    /\ pc[p] = "owner" /\ arg[p] = "start"
    /\ pidFile' = p /\ Goto(p, "daemon")
    /\ UNCHANGED <<lock, modVars, cmdVars, exitVars, connVars, fault>>

\* Exit = FALSE, pthread_create
StartCmdThread(p) ==
    /\ pc[p] = "daemon"
    /\ server' = p /\ Goto(p, "init") /\ cmd' = "new"
    /\ mods' = [AllDown EXCEPT !["Mem"] = "up", !["CmdLine"] = "up"]
    /\ fault' = <<>>
    /\ UNCHANGED <<lock, pidFile, at, thr, batch, cur, fdVars, exitVars, connVars>>

Fail(p) == /\ Goto(p, "failing") /\ xpc' = [xpc EXCEPT !["main"] = 1]
           /\ UNCHANGED <<mods, at, thr>>

\* The rest of MyModuleCommonInit, each module of which registers with Mem, and
\* ServerProcInit, which does not wait for its thread
InitModule(p) ==
    /\ pc[p] = "init" /\ at <= Len(InitOrder)
    /\ LET m == InitOrder[at] IN
       \/ /\ m = "ServerProc" \/ mods["Mem"] = "up"
          /\ mods' = [mods EXCEPT ![m] = "up"] /\ at' = at + 1
          /\ thr' = IF m = "ServerProc" THEN "runs" ELSE thr
          /\ UNCHANGED <<arg, pc, xpc>>
       \/ /\ m # "ServerProc" /\ mods["Mem"] # "up"
          /\ Fail(p)
       \/ /\ m \in {"TPool", "Health", "Timer"} /\ "fail" \in Env
          /\ Fail(p)
    /\ UNCHANGED <<lock, pidFile, server, cmdVars, inside, early, connVars, fault>>

\* _ServerHealthRegister, then main sleeps for ever
HealthRegister(p) ==
    /\ pc[p] = "init" /\ at > Len(InitOrder)
    /\ IF mods["Health"] = "up"
       THEN /\ Goto(p, "up")
            /\ UNCHANGED <<lock, pidFile, modVars, cmdVars, exitVars, connVars, fault>>
       ELSE Crash("add")

\* _CmdClientWorkerProc: a second start ends here, and so does who cannot connect
ClientTurnedAway(p) ==
    /\ pc[p] = "client"
    /\ arg[p] = "start" \/ (arg[p] # "help" /\ ~Listening)
    /\ End({p})
    /\ UNCHANGED <<reply, fault>>

\* connect, send
ClientAsks(p) ==
    /\ pc[p] = "client" /\ arg[p] \notin {"start", "help"} /\ Listening
    /\ Goto(p, "asked")
    /\ conn' = [conn EXCEPT ![p] = "backlog"]
    /\ inq' = [inq EXCEPT ![p] = {"request"}]
    /\ UNCHANGED <<lock, pidFile, modVars, cmdVars, exitVars, ready, reply, fault>>

\* Variant: main calls MyModuleCommonExit here too.  _CmdLineInputIsOk has returned
\* with the lock of the external commands held, which CmdLineModuleExit takes
EndsAtOnce_AfterExit(p) == arg[p] \notin External
EndsAtOnce(p) == TRUE                \* MY_ERR_EXIT_WITH_SUCCESS

\* recv returns the reply, or that there will be none; the process ends
ClientReads(p) ==
    /\ pc[p] = "asked" /\ EndsAtOnce(p)
    /\ reply[p] = "sent" \/ conn[p] = "closed"
    /\ Goto(p, "ended")
    /\ reply' = IF reply[p] = "sent" THEN [reply EXCEPT ![p] = "read"] ELSE reply
    /\ inq' = IF p \in Connected THEN [inq EXCEPT ![p] = @ \cup {"fin"}] ELSE inq
    /\ ready' = IF conn[p] = "open" THEN ready \cup {p} ELSE ready
    /\ UNCHANGED <<lock, pidFile, modVars, cmdVars, exitVars, conn, fault>>

ClientDies(p) ==
    /\ "reset" \in Env /\ pc[p] = "asked" /\ arg[p] # "stop"
    /\ End({p})
    /\ UNCHANGED <<reply, fault>>

-----------------------------------------------------------------------------
(***************************************************************************)
(* The command thread, _CmdServerWorkerProc.                               *)
(***************************************************************************)
Stopping == mods["CmdLine"] # "up"                 \* sg_CmdLineWorker.Exit

CmdServerInit ==
    /\ cmd = "new"
    /\ cmd' \in {"poll"} \cup (IF "listen" \in Env THEN {"ended"} ELSE {})
    /\ UNCHANGED <<procVars, modVars, batch, cur, fdVars, exitVars, connVars, fault>>

\* Close every number accept ever returned, although some were closed before and are
\* somebody else's by now; with the listening socket goes what waits for accept
CmdServerEnd ==
    /\ cmd' = "ended" /\ batch' = {} /\ ready' = {}
    /\ conn' = [p \in Procs |-> IF conn[p] = "backlog" \/ fd[p] \in ToSet(clientFd)
                                THEN "closed" ELSE conn[p]]
    /\ fd' = [p \in Procs |-> IF fd[p] \in ToSet(clientFd) THEN 0 ELSE fd[p]]
    /\ others' = others \ ToSet(clientFd)
    /\ clientFd' = <<>>

CmdEpollWait ==
    /\ cmd = "poll"
    /\ IF Stopping
       THEN CmdServerEnd
       ELSE LET events == {p \in ready : conn[p] = "open" /\ inq[p] # {}}
                            \cup {l \in {Listener} : \E p \in Procs : conn[p] = "backlog"}
            IN /\ batch' = events /\ ready' = {}
               /\ cmd' = IF events = {} THEN "poll" ELSE "batch"
               /\ UNCHANGED <<conn, fdVars>>
    /\ UNCHANGED <<procVars, modVars, cur, exitVars, inq, reply, fault>>

Handled(e) == /\ batch' = batch \ {e}
              /\ cmd' = IF batch \ {e} = {} THEN "poll" ELSE "batch"

\* Variant: an event only for what comes after EPOLL_CTL_ADD
ArrivedAlready_No(p) == FALSE
ArrivedAlready(p) == inq[p] # {}

\* The kernel gives the lowest number that is free
Taken == others \cup {fd[p] : p \in Procs}
Lowest(n) == n \in 1..MaxFd /\ n \notin Taken /\ \A k \in 1..MaxFd : k < n => k \in Taken

\* The number goes behind the others in clientFd, whose length is not compared
CmdAccept ==
    /\ cmd = "batch" /\ Listener \in batch
    /\ \E p \in Procs, n \in 1..MaxFd :
       /\ conn[p] = "backlog" /\ Lowest(n)
       /\ conn' = [conn EXCEPT ![p] = "open"]
       /\ fd' = [fd EXCEPT ![p] = n] /\ clientFd' = Append(clientFd, n)
       /\ ready' = IF ArrivedAlready(p) THEN ready \cup {p} ELSE ready
    /\ Handled(Listener)
    /\ UNCHANGED others
    /\ UNCHANGED <<procVars, modVars, cur, exitVars, inq, reply, fault>>

\* recv takes a command
CmdRecv(p) ==
    /\ cmd = "batch" /\ p \in batch \ {Listener} /\ "request" \in inq[p]
    /\ inq' = [inq EXCEPT ![p] = @ \ {"request"}]
    /\ batch' = batch \ {p} /\ cmd' = "handle" /\ cur' = p
    /\ UNCHANGED <<procVars, modVars, fdVars, exitVars, conn, ready, reply, fault>>

\* close: clientFd keeps the number
Close(p) == /\ conn' = [conn EXCEPT ![p] = "closed"] /\ fd' = [fd EXCEPT ![p] = 0]
            /\ ready' = ready \ {p}
            /\ UNCHANGED <<clientFd, others>>

\* recv returns 0
CmdPeerClosed(p) ==
    /\ cmd = "batch" /\ p \in batch \ {Listener}
    /\ "request" \notin inq[p] /\ "fin" \in inq[p]
    /\ Close(p)
    /\ Handled(p)
    /\ UNCHANGED <<procVars, modVars, cur, exitVars, inq, reply, fault>>

\* recv fails, of one connection: the thread ends, for all of them
CmdRecvFails(p) ==
    /\ cmd = "batch" /\ p \in batch \ {Listener} /\ inq[p] = {"rst"}
    /\ CmdServerEnd
    /\ UNCHANGED <<procVars, modVars, cur, exitVars, inq, reply, fault>>

\* send: a client that has left answers with a reset
Reply(p) ==
    IF pc[p] = "ended"
    THEN /\ inq' = [inq EXCEPT ![p] = @ \cup {"rst"}] /\ UNCHANGED reply
    ELSE /\ reply' = [reply EXCEPT ![p] = "sent"] /\ UNCHANGED inq

\* A report walks a list nobody has initialised, or reads what somebody frees
ShowTooEarly == \E m \in {"Health", "Timer"} : mods[m] = "down"
ShowTooLate == \E m \in {"TPool", "Health", "Timer"} : mods[m] = "going"

\* _CmdServerHandleMsg, but for "stop".  A setter drops a value for a pool that is
\* not there; a handler that fails has its connection closed after the reply
CmdHandle ==
    /\ cmd = "handle" /\ arg[cur] # "stop" /\ ~(arg[cur] = "show" /\ (ShowTooEarly \/ ShowTooLate))
    /\ Reply(cur)
    /\ IF arg[cur] = "warn"
       THEN Close(cur)
       ELSE /\ ready' = IF pc[cur] = "ended" THEN ready \cup {cur} ELSE ready
            /\ UNCHANGED <<conn, fdVars>>
    /\ cmd' = IF batch = {} THEN "poll" ELSE "batch"
    /\ cur' = None
    /\ UNCHANGED <<procVars, modVars, batch, exitVars, fault>>

CmdShowCrashes ==
    /\ cmd = "handle" /\ arg[cur] = "show"
    /\ \/ ShowTooLate /\ Crash("going")
       \/ ShowTooEarly /\ Crash("show")

\* "stop": reply, then call ExitCb, which is _ServerExit
CmdStop ==
    /\ cmd = "handle" /\ arg[cur] = "stop"
    /\ Reply(cur)
    /\ cmd' = "exit" /\ xpc' = [xpc EXCEPT !["cmd"] = 1]
    /\ early' = (pc[server] # "up")
    /\ UNCHANGED <<procVars, modVars, batch, cur, fdVars, inside, conn, ready, fault>>

\* A command of a process that is not followed here, from accept to close
CmdServesAnother ==
    /\ cmd = "poll" /\ ~Stopping
    /\ \E n \in 1..MaxFd : Lowest(n) /\ clientFd' = Append(clientFd, n)
    /\ UNCHANGED <<procVars, modVars, cmd, batch, cur, fd, others, exitVars, connVars, fault>>

\* The server thread accepts a TCP client, or closes its connection
ServerThreadAccepts ==
    /\ thr = "runs" /\ Cardinality(others) < MaxOthers
    /\ \E n \in 1..MaxFd : Lowest(n) /\ others' = others \cup {n}
    /\ UNCHANGED <<procVars, modVars, cmd, batch, cur, fd, clientFd, exitVars, connVars, fault>>

ServerThreadCloses ==
    /\ thr = "runs"
    /\ \E n \in others : others' = others \ {n}
    /\ UNCHANGED <<procVars, modVars, cmd, batch, cur, fd, clientFd, exitVars, connVars, fault>>

-----------------------------------------------------------------------------
(***************************************************************************)
(* ServerProcExit and MyModuleCommonExit, on the thread x: on the command  *)
(* thread for a stop, on main when Init has failed.                        *)
(***************************************************************************)
Leaving(x) == xpc[x] \in 1..Len(ExitOrder)
Module(x) == ExitOrder[xpc[x]]
Pass(x) == xpc' = [xpc EXCEPT ![x] = @ + 1]

\* Modules whose Exit tests a flag that it has not yet reset while it works
NotReentrant == {"TPool", "Health", "Timer"}

ExitBegins(x) ==
    /\ Leaving(x) /\ ~inside[x] /\ mods[Module(x)] = "up"
    /\ mods' = [mods EXCEPT ![Module(x)] = "going"]
    /\ inside' = [inside EXCEPT ![x] = TRUE]
    /\ UNCHANGED <<procVars, server, at, thr, cmdVars, xpc, early, connVars, fault>>

\* The module is not up, or not any more
ExitSkips(x) ==
    /\ Leaving(x) /\ ~inside[x] /\ mods[Module(x)] # "up"
    /\ IF mods[Module(x)] = "going" /\ Module(x) \in NotReentrant
       THEN Crash("exit")
       ELSE /\ Pass(x)
            /\ UNCHANGED <<procVars, modVars, cmdVars, inside, early, connVars, fault>>

\* Variants: the server thread is not joined; a thread waits for itself
Joined_ServerNot(x) == Module(x) = "CmdLine" => x = "cmd" \/ cmd = "ended"
Joined_Self(x) == CASE Module(x) = "ServerProc" -> thr # "runs"
                    [] Module(x) = "CmdLine" -> cmd = "ended"
                    [] OTHER -> TRUE
\* pthread_join; the command thread's join of itself returns EDEADLK
Joined(x) == CASE Module(x) = "ServerProc" -> thr # "runs"
               [] Module(x) = "CmdLine" -> x = "cmd" \/ cmd = "ended"
               [] OTHER -> TRUE

ExitEnds(x) ==
    /\ Leaving(x) /\ inside[x] /\ Joined(x)
    /\ mods' = [mods EXCEPT ![Module(x)] = "gone"]
    /\ inside' = [inside EXCEPT ![x] = FALSE]
    /\ Pass(x)
    /\ UNCHANGED <<procVars, server, at, thr, cmdVars, early, connVars, fault>>

\* killall QinXServer, or the return of main
ExitOver(x) ==
    /\ xpc[x] > Len(ExitOrder)
    /\ End(IF x = "cmd" THEN {p \in Procs : pc[p] # "off"} ELSE {server})
    /\ UNCHANGED <<reply, fault>>

\* _ServerProcFn sees Running, unless it waits for the rest of a message, or cannot
\* bind its port
ServerThreadEnds ==
    /\ thr = "runs"
    /\ \/ mods["ServerProc"] = "going" /\ "stuck" \notin Env
       \/ "listen" \in Env
    /\ thr' = "ended"
    /\ UNCHANGED <<procVars, server, mods, at, cmdVars, exitVars, connVars, fault>>

\* TPoolModuleExit sets the pool to NULL before it says that it is gone
HealthCallbackCrashes ==
    /\ "health" \in Env /\ mods["Health"] = "up" /\ mods["TPool"] = "going"
    /\ Crash("health")

-----------------------------------------------------------------------------
MainStep(p) == \/ PrintUsage(p) \/ MakeDaemon(p) \/ StartCmdThread(p)
               \/ InitModule(p) \/ HealthRegister(p)
               \/ ClientTurnedAway(p) \/ ClientAsks(p) \/ ClientReads(p)

CmdStep == \/ CmdServerInit \/ CmdEpollWait \/ CmdAccept
           \/ \E p \in Procs : CmdRecv(p) \/ CmdPeerClosed(p) \/ CmdRecvFails(p)
           \/ CmdHandle \/ CmdShowCrashes \/ CmdStop

ExitStep(x) == ExitBegins(x) \/ ExitSkips(x) \/ ExitEnds(x) \/ ExitOver(x)

AnyStep == \/ \E p \in Procs : \/ ServerParseConfFails(p) \/ Start(p)
                               \/ ClientDies(p) \/ MainStep(p)
           \/ CmdStep \/ CmdServesAnother
           \/ \E x \in Threads : ExitStep(x)
           \/ ServerThreadEnds \/ HealthCallbackCrashes
           \/ ServerThreadAccepts \/ ServerThreadCloses

\* clientFd was written behind its end, on the stack of the command thread: the code
\* does not say what the program does from there, and nothing is claimed of it
Overflown == Len(clientFd) > MaxClients

Next == ~Overflown /\ AnyStep

(***************************************************************************)
(* The threads of a process that was started take the steps they can; a    *)
(* thread that a stop or a failed Init has turned to Exit is one of them.  *)
(* Nothing makes a user start the program, kill it, or a callback run.     *)
(***************************************************************************)
Fairness ==
    /\ \A p \in Procs : WF_vars(~Overflown /\ MainStep(p))
    /\ WF_vars(~Overflown /\ CmdStep)
    /\ \A x \in Threads : WF_vars(~Overflown /\ ExitStep(x))
    /\ WF_vars(~Overflown /\ ServerThreadEnds)

Spec == Init /\ [][Next]_vars
FairSpec == Spec /\ Fairness

-----------------------------------------------------------------------------
(***************************************************************************)
(* Properties.                                                             *)
(***************************************************************************)
MainPcs == {"off", "owner", "client", "asked", "daemon", "init", "up", "failing",
            "ended"}

FdType == fd \in [Procs -> 0..MaxFd] /\ clientFd \in Seq(1..MaxFd) /\ others \subseteq 1..MaxFd

\* Every variable holds a value of its kind.
TypeOK ==
    /\ arg \in [Procs -> Args \cup {None}] /\ pc \in [Procs -> MainPcs] /\ lock \in Procs \cup {None}
    /\ pidFile \in Procs \cup {None} /\ server \in Procs \cup {None}
    /\ mods \in [Modules -> {"down", "up", "going", "gone"}]
    /\ at \in 1..Len(InitOrder) + 1 /\ thr \in {"none", "runs", "ended"}
    /\ cmd \in {"none", "new", "poll", "batch", "handle", "exit", "ended"}
    /\ batch \subseteq Procs \cup {Listener} /\ cur \in Procs \cup {None}
    /\ FdType /\ xpc \in [Threads -> 0..Len(ExitOrder) + 1] /\ inside \in [Threads -> BOOLEAN]
    /\ early \in BOOLEAN
    /\ conn \in [Procs -> {"none", "backlog", "open", "closed"}]
    /\ inq \in [Procs -> SUBSET {"request", "fin", "rst"}] /\ ready \subseteq Procs
    /\ reply \in [Procs -> {"no", "sent", "read"}]
    /\ fault \in {<<>>} \cup {"add", "show", "going", "exit", "health"} \X BOOLEAN

\* However often, and how close together, the program is started and stopped, at most
\* one process at a time goes on as the server.
Serving(p) == pc[p] \in {"daemon", "init", "up", "failing"}
OneServer == \A p, q \in Procs : Serving(p) /\ Serving(q) => p = q

\* As long as a server takes commands the pid file names it, whatever processes open
\* the file meanwhile or have left in it.
PidFileRight == cmd # "none" => pidFile = server

\* The modules the server thread uses are there until it has ended, also when Init
\* fails; not if a stop comes while main is still initialising them.
ModulesOutliveServerThread ==
    thr = "runs" /\ ~early =>
        \A m \in {"Msg", "TPool", "Mem"} : mods[m] = "up"

\* A report, a module's second Exit or a late HealthMonitorAdd can crash the server
\* only while main is not done with Init, and no report finds a module that is being
\* ended, as the command thread is joined first.
FaultsOnlyEarly ==
    fault # <<>> /\ fault[1] # "health" => fault[2] /\ fault[1] # "going"

\* "stop this program": whoever is given "stop" while the server takes commands stops
\* the server, even if it starts or fails at that moment; unless a connection that was
\* reset has ended the command thread, or one command too many has come.
StopStops ==
    \A p \in {q \in Procs : "stop" \in Given(q)} :
        (pc[p] = "client" /\ arg[p] = "stop" /\ Listening)
            ~> server = None \/ cmd = "ended" \/ Overflown

\* A command is answered, whichever comes with it or before it, as long as the server
\* has room for it: up to the last command that clientFd has an entry for, no process
\* goes on waiting on a connection that nobody serves.
CommandAnswered ==
    \A p \in Procs :
        (pc[p] = "asked" /\ p \in Connected)
            ~> reply[p] # "no" \/ p \notin Connected \/ Overflown

\* A process does not hang: it becomes the server or it ends, with the same exception.
ProcessSettles ==
    \A p \in Procs : pc[p] # "off" ~> pc[p] \in {"up", "ended"} \/ Overflown
=============================================================================
