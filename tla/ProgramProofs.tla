---------------------------- MODULE ProgramProofs ----------------------------
(***************************************************************************)
(* Who the server is, and what its threads find of its modules, proved for *)
(* any number of processes, whatever they are given and in whatever order  *)
(* they are started, fail, crash and are killed.                           *)
(***************************************************************************)
EXTENDS Program, TLAPS

(***************************************************************************)
(* The inductive invariant.  Being the server is a matter of where main is;*)
(* the lock, the owner of the threads and the pid file follow it.          *)
(***************************************************************************)
Holding == {"owner", "daemon", "init", "up", "failing"}
Threaded == {"init", "up", "failing"}

Places == /\ pc \in [Procs -> MainPcs]
          /\ lock \in Procs \cup {None} /\ server \in Procs \cup {None}
LockFollows == \A p \in Procs : pc[p] \in Holding <=> lock = p
ServerFollows == \A p \in Procs : pc[p] \in Threaded <=> server = p
PidFollows == \A p \in Procs : Serving(p) => pidFile = p
CmdHasServer == cmd # "none" => server # None

RoleInv == Places /\ LockFollows /\ ServerFollows /\ PidFollows /\ CmdHasServer

\* The five parts in terms of the variables they read
LEMMA RoleUnchanged ==
    ASSUME RoleInv, UNCHANGED <<pc, lock, pidFile, server>>,
           cmd' # "none" => server # None
    PROVE  RoleInv'
BY DEF RoleInv, Places, LockFollows, ServerFollows, PidFollows, CmdHasServer, Serving

\* Whichever processes end, with what they hold
LEMMA EndKeepsRoles ==
    ASSUME RoleInv, NEW S, End(S)
    PROVE  RoleInv'
<1> USE DEF RoleInv, Places, LockFollows, ServerFollows, PidFollows, CmdHasServer,
            End, EndServer, modVars, cmdVars
<1>1. Places'
  BY DEF MainPcs
<1>2. LockFollows'
  BY ProgramAssumption DEF Holding
<1>3. ServerFollows'
  BY ProgramAssumption DEF Threaded
<1>4. PidFollows'
  BY DEF Serving
<1>5. CmdHasServer'
  OBVIOUS
<1> QED BY <1>1, <1>2, <1>3, <1>4, <1>5

LEMMA CrashKeepsRoles ==
    ASSUME RoleInv, NEW what, Crash(what)
    PROVE  RoleInv'
BY EndKeepsRoles DEF Crash

\* Main moves between places that are alike to the lock, the threads and the pid file
LEMMA GotoKeepsRoles ==
    ASSUME RoleInv, NEW p \in Procs, NEW place \in MainPcs, Goto(p, place),
           UNCHANGED <<lock, pidFile, server, cmd>>,
           pc[p] \in Holding <=> place \in Holding,
           pc[p] \in Threaded <=> place \in Threaded,
           place \in {"daemon"} \cup Threaded => Serving(p)
    PROVE  RoleInv'
BY DEF RoleInv, Places, LockFollows, ServerFollows, PidFollows, CmdHasServer, Goto,
       Serving, Threaded

LEMMA RoleInit == Init => RoleInv
BY ProgramAssumption DEF Init, RoleInv, Places, LockFollows, ServerFollows, PidFollows,
   CmdHasServer, Serving, MainPcs, Holding, Threaded

\* One case per action: those that change who holds what first
LEMMA RoleStep == RoleInv /\ [Next]_vars => RoleInv'
<1> SUFFICES ASSUME RoleInv, [Next]_vars PROVE RoleInv'
  OBVIOUS
<1>1. ASSUME NEW p \in Procs, Start(p) PROVE RoleInv'
  <2>1. pidFile' = pidFile /\ server' = server /\ cmd' = cmd
    BY <1>1 DEF Start, OpenPidFile, modVars, cmdVars
  <2>2. CASE lock # None
    <3>1. pc' = [pc EXCEPT ![p] = "client"] /\ lock' = lock /\ pc[p] = "off"
      BY <1>1, <2>2 DEF Start, IsProcessRunning
    <3> QED BY <2>1, <3>1 DEF RoleInv, Places, LockFollows, ServerFollows, PidFollows,
               CmdHasServer, Serving, MainPcs, Holding, Threaded
  <2>3. CASE lock = None
    <3>1. pc' = [pc EXCEPT ![p] = "owner"] /\ lock' = p /\ pc[p] = "off"
      BY <1>1, <2>3 DEF Start, IsProcessRunning
    <3> QED BY <2>1, <2>3, <3>1, ProgramAssumption DEF RoleInv, Places, LockFollows,
               ServerFollows, PidFollows, CmdHasServer, Serving, MainPcs, Holding, Threaded
  <2> QED BY <2>2, <2>3
<1>2. ASSUME NEW p \in Procs, MakeDaemon(p) PROVE RoleInv'
  <2>1. /\ pc' = [pc EXCEPT ![p] = "daemon"] /\ pc[p] = "owner" /\ pidFile' = p
        /\ UNCHANGED <<lock, server, cmd>>
    BY <1>2 DEF MakeDaemon, Goto, modVars, cmdVars
  <2>2. \A q \in Procs : Serving(q) => q = p
    BY <2>1 DEF RoleInv, LockFollows, Serving, Holding
  <2> QED BY <2>1, <2>2 DEF RoleInv, Places, LockFollows, ServerFollows, PidFollows,
             CmdHasServer, Serving, MainPcs, Holding, Threaded
<1>3. ASSUME NEW p \in Procs, StartCmdThread(p) PROVE RoleInv'
  <2>1. /\ pc' = [pc EXCEPT ![p] = "init"] /\ pc[p] = "daemon" /\ server' = p
        /\ UNCHANGED <<lock, pidFile>>
    BY <1>3 DEF StartCmdThread, Goto
  <2>2. \A q \in Procs : pc[q] \in Threaded => q = p
    BY <2>1 DEF RoleInv, LockFollows, Holding, Threaded
  <2> QED BY <2>1, <2>2, ProgramAssumption DEF RoleInv, Places, LockFollows, ServerFollows,
             PidFollows, CmdHasServer, Serving, MainPcs, Holding, Threaded
<1>4. ASSUME NEW p \in Procs, InitModule(p) PROVE RoleInv'
  <2>1. UNCHANGED <<lock, pidFile, server, cmd>> /\ pc[p] = "init"
    BY <1>4 DEF InitModule, cmdVars
  <2>2. CASE UNCHANGED pc
    BY <2>1, <2>2, RoleUnchanged DEF RoleInv, CmdHasServer
  <2>3. CASE Fail(p)
    BY <2>1, <2>3, GotoKeepsRoles DEF Fail, MainPcs, Holding, Threaded, Serving
  <2> QED BY <1>4, <2>2, <2>3 DEF InitModule
<1>5. ASSUME NEW p \in Procs, HealthRegister(p) PROVE RoleInv'
  <2>1. CASE Crash("add")
    BY <2>1, CrashKeepsRoles
  <2>2. CASE Goto(p, "up") /\ UNCHANGED <<lock, pidFile, modVars, cmdVars>>
    BY <1>5, <2>2, GotoKeepsRoles DEF HealthRegister, modVars, cmdVars, MainPcs, Holding,
       Threaded, Serving
  <2> QED BY <1>5, <2>1, <2>2 DEF HealthRegister
<1>6. ASSUME NEW p \in Procs, ClientAsks(p) PROVE RoleInv'
  BY <1>6, GotoKeepsRoles DEF ClientAsks, modVars, cmdVars, MainPcs, Holding, Threaded
<1>7. ASSUME NEW p \in Procs, ClientReads(p) PROVE RoleInv'
  BY <1>7, GotoKeepsRoles DEF ClientReads, modVars, cmdVars, MainPcs, Holding, Threaded
<1>8. ASSUME NEW p \in Procs, PrintUsage(p) \/ ClientTurnedAway(p) \/ ClientDies(p)
      PROVE RoleInv'
  BY <1>8, EndKeepsRoles DEF PrintUsage, ClientTurnedAway, ClientDies
<1>9. ASSUME CmdStep PROVE RoleInv'
  <2>1. CASE CmdShowCrashes
    BY <2>1, CrashKeepsRoles DEF CmdShowCrashes
  <2>2. CASE ~CmdShowCrashes
    <3>1. UNCHANGED <<pc, lock, pidFile, server>>
      BY <1>9, <2>2 DEF CmdStep, CmdServerInit, CmdEpollWait, CmdAccept, CmdRecv,
         CmdPeerClosed, CmdRecvFails, CmdHandle, CmdStop, procVars, modVars
    <3>2. cmd # "none"
      BY <1>9, <2>2 DEF CmdStep, CmdServerInit, CmdEpollWait, CmdAccept, CmdRecv,
         CmdPeerClosed, CmdRecvFails, CmdHandle, CmdStop
    <3> QED BY <3>1, <3>2, RoleUnchanged DEF RoleInv, CmdHasServer
  <2> QED BY <2>1, <2>2
<1>10. ASSUME NEW x \in Threads, ExitStep(x) PROVE RoleInv'
  <2>1. CASE ExitBegins(x) \/ ExitEnds(x)
    BY <2>1, RoleUnchanged DEF ExitBegins, ExitEnds, procVars, cmdVars, RoleInv, CmdHasServer
  <2>2. CASE ExitSkips(x)
    <3>1. CASE Crash("exit")
      BY <3>1, CrashKeepsRoles
    <3>2. CASE UNCHANGED <<procVars, modVars, cmdVars>>
      BY <3>2, RoleUnchanged DEF procVars, modVars, cmdVars, RoleInv, CmdHasServer
    <3> QED BY <2>2, <3>1, <3>2 DEF ExitSkips
  <2>3. CASE ExitOver(x)
    BY <2>3, EndKeepsRoles DEF ExitOver
  <2> QED BY <1>10, <2>1, <2>2, <2>3 DEF ExitStep
<1>11. ASSUME ServerThreadEnds PROVE RoleInv'
  BY <1>11, RoleUnchanged DEF ServerThreadEnds, procVars, cmdVars, RoleInv, CmdHasServer
<1>12. ASSUME HealthCallbackCrashes PROVE RoleInv'
  BY <1>12, CrashKeepsRoles DEF HealthCallbackCrashes
<1>13. ASSUME NEW p \in Procs, ServerParseConfFails(p) PROVE RoleInv'
  BY <1>13 DEF ServerParseConfFails, RoleInv, Places, LockFollows, ServerFollows, PidFollows,
     CmdHasServer, Serving, MainPcs, Holding, Threaded, modVars, cmdVars
<1>14. ASSUME UNCHANGED vars PROVE RoleInv'
  BY <1>14, RoleUnchanged DEF vars, procVars, modVars, cmdVars, RoleInv, CmdHasServer
<1>15. ASSUME CmdServesAnother \/ ServerThreadAccepts \/ ServerThreadCloses PROVE RoleInv'
  BY <1>15, RoleUnchanged DEF CmdServesAnother, ServerThreadAccepts, ServerThreadCloses,
     procVars, modVars, RoleInv, CmdHasServer
<1> QED BY <1>1, <1>2, <1>3, <1>4, <1>5, <1>6, <1>7, <1>8, <1>9, <1>10, <1>11, <1>12,
           <1>13, <1>14, <1>15 DEF Next, AnyStep, MainStep

LEMMA RolesFollow == Spec => []RoleInv
BY RoleInit, RoleStep, PTL DEF Spec

\* At most one process goes on as the server, however many are started at once: the
\* lock on the pid file passes to the daemon and lasts as long as it does.
THEOREM OnlyOneServer == Spec => []OneServer
<1>1. RoleInv => OneServer
  BY DEF RoleInv, LockFollows, OneServer, Serving, Holding
<1> QED BY <1>1, RolesFollow, PTL

\* While there is a command thread the pid file names its process, although every
\* process opens the file.
THEOREM PidFileNamesServer == Spec => []PidFileRight
<1>1. RoleInv => PidFileRight
  BY DEF RoleInv, Places, ServerFollows, PidFollows, CmdHasServer, PidFileRight, Serving,
     Threaded
<1> QED BY <1>1, RolesFollow, PTL
-----------------------------------------------------------------------------
(***************************************************************************)
(* Types.                                                                  *)
(***************************************************************************)
\* The orders, entry by entry
LEMMA Orders ==
    /\ Len(InitOrder) = 5 /\ InitOrder[1] = "Msg" /\ InitOrder[2] = "TPool"
    /\ InitOrder[3] = "Health" /\ InitOrder[4] = "Timer" /\ InitOrder[5] = "ServerProc"
    /\ Len(ExitOrder) = 7 /\ ExitOrder[1] = "ServerProc" /\ ExitOrder[2] = "CmdLine"
    /\ ExitOrder[3] = "Msg" /\ ExitOrder[4] = "TPool" /\ ExitOrder[5] = "Health"
    /\ ExitOrder[6] = "Timer" /\ ExitOrder[7] = "Mem"
BY DEF InitOrder, ExitOrder

LEMMA OrdersType ==
    /\ \A i \in 1..5 : InitOrder[i] \in Modules \ {"CmdLine", "Mem"}
    /\ \A i, j \in 1..5 : InitOrder[i] = InitOrder[j] => i = j
    /\ \A i \in 1..7 : ExitOrder[i] \in Modules
    /\ \A m \in Modules \ {"CmdLine", "Mem"} : \E i \in 1..5 : m = InitOrder[i]
<1>1. ASSUME NEW i \in 1..5, NEW j \in 1..5
      PROVE  /\ InitOrder[i] \in Modules \ {"CmdLine", "Mem"}
             /\ (InitOrder[i] = InitOrder[j] => i = j)
  <2>1. i \in {1, 2, 3, 4, 5} /\ j \in {1, 2, 3, 4, 5}
    OBVIOUS
  <2> QED BY <2>1, Orders DEF Modules
<1>2. ASSUME NEW i \in 1..7 PROVE ExitOrder[i] \in Modules
  <2>1. i \in {1, 2, 3, 4, 5, 6, 7}
    OBVIOUS
  <2> QED BY <2>1, Orders DEF Modules
<1>3. ASSUME NEW m \in Modules \ {"CmdLine", "Mem"} PROVE \E i \in 1..5 : m = InitOrder[i]
  <2>1. 1 \in 1..5 /\ 2 \in 1..5 /\ 3 \in 1..5 /\ 4 \in 1..5 /\ 5 \in 1..5
    OBVIOUS
  <2> QED BY <2>1, Orders DEF Modules
<1> QED BY <1>1, <1>2, <1>3

\* Without a server there is nothing of one
NoServer == server = None =>
    /\ mods = AllDown /\ at = 1 /\ thr = "none" /\ cmd = "none" /\ ~early
    /\ \A x \in Threads : xpc[x] = 0 /\ ~inside[x]

\* A command that is handled is some process's
Handling == cmd = "handle" => cur \in Procs

Basis == TypeOK /\ Handling /\ NoServer

LEMMA BasisInit == Init => Basis
<1> SUFFICES ASSUME Init PROVE Basis
  OBVIOUS
<1>1. /\ arg \in [Procs -> Args \cup {None}] /\ pc \in [Procs -> MainPcs]
      /\ lock \in Procs \cup {None} /\ pidFile \in Procs \cup {None}
      /\ server \in Procs \cup {None} /\ cur \in Procs \cup {None} /\ Handling /\ NoServer
  BY DEF Init, MainPcs, Handling, NoServer
<1>8. FdType
  BY ProgramAssumption DEF Init, FdType
<1>2. /\ mods \in [Modules -> {"down", "up", "going", "gone"}]
      /\ inside \in [Threads -> BOOLEAN] /\ early \in BOOLEAN
  BY DEF Init, AllDown
<1>7. at \in 1..Len(InitOrder) + 1
  BY Orders DEF Init
<1>5. /\ thr \in {"none", "runs", "ended"}
      /\ cmd \in {"none", "new", "poll", "batch", "handle", "exit", "ended"}
  BY DEF Init
<1>6. xpc \in [Threads -> 0..Len(ExitOrder) + 1]
  <2>1. 0 \in 0..Len(ExitOrder) + 1
    BY Orders
  <2> QED BY <2>1 DEF Init
<1>3. /\ batch \subseteq Procs \cup {Listener} /\ ready \subseteq Procs
      /\ conn \in [Procs -> {"none", "backlog", "open", "closed"}]
      /\ inq \in [Procs -> SUBSET {"request", "fin", "rst"}]
      /\ reply \in [Procs -> {"no", "sent", "read"}]
  BY DEF Init
<1>4. fault \in {<<>>} \cup {"add", "show", "going", "exit", "health"} \X BOOLEAN
  BY DEF Init
<1> QED BY <1>1, <1>2, <1>3, <1>4, <1>5, <1>6, <1>7, <1>8 DEF Basis, TypeOK

\* A number the kernel gives is a number, and only accept lengthens clientFd
LEMMA FdStep == TypeOK /\ [Next]_vars => FdType'
<1> SUFFICES ASSUME FdType, [Next]_vars PROVE FdType'
  BY DEF TypeOK
<1>0. 0 \in 0..MaxFd /\ \A n \in 1..MaxFd : n \in 0..MaxFd
  BY ProgramAssumption
<1>1. CASE UNCHANGED fdVars
  BY <1>1 DEF FdType, fdVars
<1>2. ASSUME EndServer PROVE FdType'
  BY <1>2, ProgramAssumption DEF EndServer, FdType
<1>3. ASSUME NEW S, End(S) PROVE FdType'
  BY <1>1, <1>2, <1>3 DEF End, cmdVars
<1>4. ASSUME NEW what, Crash(what) PROVE FdType'
  BY <1>3, <1>4 DEF Crash
<1>5. ASSUME CmdServerEnd PROVE FdType'
  <2>1. fd' \in [Procs -> 0..MaxFd]
    BY <1>5, ProgramAssumption DEF CmdServerEnd, FdType
  <2>2. clientFd' = <<>> /\ others' \subseteq 1..MaxFd
    BY <1>5 DEF CmdServerEnd, FdType
  <2> QED BY <2>1, <2>2 DEF FdType
<1>6. ASSUME NEW p, Close(p) PROVE FdType'
  <2>1. fd' = [fd EXCEPT ![p] = 0] /\ clientFd' = clientFd /\ others' = others
    BY <1>6 DEF Close
  <2> QED BY <1>0, <2>1 DEF FdType
<1>7. CASE CmdAccept
  <2>1. PICK p \in Procs, n \in 1..MaxFd :
           fd' = [fd EXCEPT ![p] = n] /\ clientFd' = Append(clientFd, n)
    BY <1>7 DEF CmdAccept
  <2>2. others' = others
    BY <1>7 DEF CmdAccept
  <2> QED BY <1>0, <2>1, <2>2 DEF FdType
<1>8. CASE CmdServesAnother
  BY <1>8, ProgramAssumption DEF CmdServesAnother, FdType
<1>9. CASE ServerThreadAccepts \/ ServerThreadCloses
  BY <1>9 DEF ServerThreadAccepts, ServerThreadCloses, FdType
<1>10. ASSUME NEW p \in Procs, ServerParseConfFails(p) \/ Start(p) \/ ClientDies(p) \/ MainStep(p)
       PROVE  FdType'
  BY <1>1, <1>3, <1>4, <1>10 DEF ServerParseConfFails, Start, ClientDies, MainStep, PrintUsage,
     MakeDaemon, StartCmdThread, InitModule, HealthRegister, ClientTurnedAway, ClientAsks,
     ClientReads, cmdVars
<1>11. CASE CmdStep
  <2>1. CASE \E p \in Procs : CmdRecv(p) \/ CmdPeerClosed(p) \/ CmdRecvFails(p)
    BY <1>1, <1>5, <1>6, <2>1 DEF CmdRecv, CmdPeerClosed, CmdRecvFails
  <2>2. CASE CmdServerInit \/ CmdEpollWait
    BY <1>1, <1>5, <2>2 DEF CmdServerInit, CmdEpollWait, fdVars
  <2>3. CASE CmdHandle
    BY <1>1, <1>6, <2>3 DEF CmdHandle
  <2>4. CASE CmdShowCrashes \/ CmdStop
    BY <1>1, <1>4, <2>4 DEF CmdShowCrashes, CmdStop
  <2> QED BY <1>7, <1>11, <2>1, <2>2, <2>3, <2>4 DEF CmdStep
<1>12. ASSUME NEW x \in Threads, ExitStep(x) PROVE FdType'
  BY <1>1, <1>3, <1>4, <1>12 DEF ExitStep, ExitBegins, ExitSkips, ExitEnds, ExitOver, cmdVars
<1>13. CASE ServerThreadEnds \/ HealthCallbackCrashes \/ UNCHANGED vars
  BY <1>1, <1>4, <1>13 DEF ServerThreadEnds, HealthCallbackCrashes, vars, cmdVars
<1> QED BY <1>8, <1>9, <1>10, <1>11, <1>12, <1>13 DEF Next, AnyStep

\* The end of processes, and of the server among them
LEMMA EndType ==
    ASSUME Basis, FdType', NEW S \in SUBSET Procs, End(S), reply' = reply,
           fault' \in {<<>>} \cup {"add", "show", "going", "exit", "health"} \X BOOLEAN
    PROVE  Basis'
<1>1. /\ pc' \in [Procs -> MainPcs] /\ lock' \in Procs \cup {None}
      /\ arg' = arg /\ pidFile' = pidFile
  BY DEF Basis, TypeOK, End, MainPcs
<1>2. CASE server \in S
  <2>1. /\ server' = None /\ mods' = AllDown /\ at' = 1 /\ thr' = "none" /\ cmd' = "none"
        /\ batch' = {} /\ cur' = None /\ xpc' = [x \in Threads |-> 0]
        /\ inside' = [x \in Threads |-> FALSE] /\ early' = FALSE
        /\ conn' = [p \in Procs |-> IF p \in Connected THEN "closed" ELSE conn[p]]
        /\ inq' = [p \in Procs |-> {}] /\ ready' = {}
    BY <1>2 DEF End, EndServer
  <2>2. conn' \in [Procs -> {"none", "backlog", "open", "closed"}]
    BY <2>1 DEF Basis, TypeOK
  <2>3. mods' \in [Modules -> {"down", "up", "going", "gone"}]
    BY <2>1 DEF AllDown
  <2>4. 1 \in 1..Len(InitOrder) + 1 /\ 0 \in 0..Len(ExitOrder) + 1
    BY Orders
  <2> QED BY <1>1, <2>1, <2>2, <2>3, <2>4 DEF Basis, TypeOK, Handling, NoServer
<1>3. CASE server \notin S
  <2>1. /\ UNCHANGED <<server, mods, at, thr, cmd, batch, cur, xpc, inside, early, conn>>
        /\ inq' = [p \in Procs |-> IF p \in S \cap Connected
                                   THEN inq[p] \cup {Farewell(p)} ELSE inq[p]]
        /\ ready' = ready \cup {p \in S : conn[p] = "open"}
    BY <1>3 DEF End, modVars, cmdVars, exitVars
  <2>2. inq' \in [Procs -> SUBSET {"request", "fin", "rst"}]
    BY <2>1 DEF Basis, TypeOK, Farewell
  <2>3. ready' \subseteq Procs
    BY <2>1 DEF Basis, TypeOK
  <2> QED BY <1>1, <2>1, <2>2, <2>3 DEF Basis, TypeOK, Handling, NoServer
<1> QED BY <1>2, <1>3

LEMMA CrashType ==
    ASSUME Basis, FdType', server # None,
           NEW what \in {"add", "show", "going", "exit", "health"}, Crash(what)
    PROVE  Basis'
<1>1. {server} \in SUBSET Procs /\ early \in BOOLEAN
  BY DEF Basis, TypeOK
<1> QED BY <1>1, EndType DEF Crash

\* A reply is sent, or makes a connection reset
LEMMA ReplyType ==
    ASSUME Basis, NEW p \in Procs, Reply(p)
    PROVE  /\ reply' \in [Procs -> {"no", "sent", "read"}]
           /\ inq' \in [Procs -> SUBSET {"request", "fin", "rst"}]
<1>1. CASE pc[p] = "ended"
  BY <1>1 DEF Reply, Basis, TypeOK
<1>2. CASE pc[p] # "ended"
  <2>1. reply' = [reply EXCEPT ![p] = "sent"] /\ inq' = inq
    BY <1>2 DEF Reply
  <2>2. /\ reply \in [Procs -> {"no", "sent", "read"}]
        /\ inq \in [Procs -> SUBSET {"request", "fin", "rst"}]
    BY DEF Basis, TypeOK
  <2> QED BY <2>1, <2>2
<1> QED BY <1>1, <1>2

LEMMA BasisStep == RoleInv /\ Basis /\ [Next]_vars => Basis'
<1> SUFFICES ASSUME RoleInv, Basis, [Next]_vars, FdType' PROVE Basis'
  BY FdStep DEF Basis
<1> USE DEF Basis, Handling, NoServer, procVars, modVars, cmdVars, exitVars, connVars, Goto
<1>1. ASSUME NEW p \in Procs, ServerParseConfFails(p) \/ Start(p) PROVE Basis'
  <2>1. /\ GivenOne(p)
        /\ UNCHANGED <<pidFile, modVars, cmdVars, exitVars, connVars, fault>>
    BY <1>1 DEF ServerParseConfFails, Start, OpenPidFile
  <2>2. arg' \in [Procs -> Args \cup {None}]
    BY <2>1, ProgramAssumption DEF GivenOne, TypeOK
  <2>3. pc' \in [Procs -> MainPcs] /\ lock' \in Procs \cup {None}
    BY <1>1 DEF ServerParseConfFails, Start, MainPcs, TypeOK
  <2> QED BY <2>1, <2>2, <2>3 DEF TypeOK
<1>2. ASSUME NEW p \in Procs, PrintUsage(p) \/ ClientTurnedAway(p) \/ ClientDies(p)
      PROVE Basis'
  <2>1. End({p}) /\ UNCHANGED <<reply, fault>>
    BY <1>2 DEF PrintUsage, ClientTurnedAway, ClientDies
  <2> QED BY <2>1, EndType DEF TypeOK
<1>3. ASSUME NEW p \in Procs, MakeDaemon(p) PROVE Basis'
  BY <1>3 DEF TypeOK, MakeDaemon, MainPcs
<1>4. ASSUME NEW p \in Procs, StartCmdThread(p) PROVE Basis'
  <2>1. mods' \in [Modules -> {"down", "up", "going", "gone"}]
    BY <1>4 DEF StartCmdThread, AllDown, Modules
  <2>2. pc' \in [Procs -> MainPcs] /\ server' \in Procs /\ cmd' = "new" /\ fault' = <<>>
    BY <1>4 DEF StartCmdThread, MainPcs, TypeOK
  <2> QED BY <1>4, <2>1, <2>2, ProgramAssumption DEF TypeOK, StartCmdThread
<1>5. ASSUME NEW p \in Procs, InitModule(p) PROVE Basis'
  <2>1. server = p
    BY <1>5 DEF InitModule, RoleInv, ServerFollows, Threaded
  <2>2. /\ mods' \in [Modules -> {"down", "up", "going", "gone"}]
        /\ thr' \in {"none", "runs", "ended"}
    BY <1>5 DEF InitModule, Fail, TypeOK
  <2>3. at' \in 1..Len(InitOrder) + 1
    BY <1>5, Orders DEF InitModule, Fail, TypeOK
  <2>4. xpc' \in [Threads -> 0..Len(ExitOrder) + 1] /\ pc' \in [Procs -> MainPcs]
    <3>1. 1 \in 0..Len(ExitOrder) + 1
      BY Orders
    <3>2. xpc' = xpc \/ xpc' = [xpc EXCEPT !["main"] = 1]
      BY <1>5 DEF InitModule, Fail
    <3>3. pc' = pc \/ pc' = [pc EXCEPT ![p] = "failing"]
      BY <1>5 DEF InitModule, Fail
    <3> QED BY <3>1, <3>2, <3>3 DEF TypeOK, MainPcs
  <2>5. UNCHANGED <<arg, lock, pidFile, server, cmdVars, inside, early, connVars, fault>>
    BY <1>5 DEF InitModule, Fail
  <2> QED BY <2>1, <2>2, <2>3, <2>4, <2>5, ProgramAssumption DEF TypeOK
<1>6. ASSUME NEW p \in Procs, HealthRegister(p) PROVE Basis'
  <2>1. CASE Crash("add")
    BY <1>6, <2>1, CrashType, ProgramAssumption DEF HealthRegister, RoleInv, ServerFollows, Threaded
  <2>2. CASE ~Crash("add")
    BY <1>6, <2>2 DEF TypeOK, HealthRegister, MainPcs
  <2> QED BY <2>1, <2>2
<1>7. ASSUME NEW p \in Procs, ClientAsks(p) \/ ClientReads(p) PROVE Basis'
  <2>1. /\ UNCHANGED <<arg, lock, pidFile, modVars, cmdVars, exitVars, fault>>
        /\ pc' \in [Procs -> MainPcs]
    BY <1>7 DEF ClientAsks, ClientReads, TypeOK, MainPcs
  <2>2. CASE ClientAsks(p)
    BY <2>1, <2>2 DEF ClientAsks, TypeOK
  <2>3. CASE ClientReads(p)
    <3>1. reply' \in [Procs -> {"no", "sent", "read"}]
      BY <2>3 DEF ClientReads, TypeOK
    <3>2. inq' \in [Procs -> SUBSET {"request", "fin", "rst"}]
      BY <2>3 DEF ClientReads, TypeOK
    <3>3. ready' \subseteq Procs /\ conn' = conn
      BY <2>3 DEF ClientReads, TypeOK
    <3> QED BY <2>1, <3>1, <3>2, <3>3 DEF TypeOK
  <2> QED BY <1>7, <2>2, <2>3
<1>8. ASSUME CmdServerInit \/ CmdEpollWait \/ CmdAccept PROVE Basis'
  <2>1. server # None
    BY <1>8 DEF CmdServerInit, CmdEpollWait, CmdAccept, RoleInv, CmdHasServer
  <2>2. CASE CmdServerInit
    BY <2>1, <2>2 DEF CmdServerInit, TypeOK
  <2>3. CASE CmdEpollWait
    BY <2>1, <2>3 DEF CmdEpollWait, CmdServerEnd, TypeOK
  <2>4. CASE CmdAccept
    BY <2>1, <2>4 DEF CmdAccept, Handled, ArrivedAlready, TypeOK
  <2> QED BY <1>8, <2>2, <2>3, <2>4
<1>9. ASSUME NEW p \in Procs, CmdRecv(p) \/ CmdPeerClosed(p) \/ CmdRecvFails(p)
      PROVE Basis'
  <2>1. server # None
    BY <1>9 DEF CmdRecv, CmdPeerClosed, CmdRecvFails, RoleInv, CmdHasServer
  <2>2. CASE CmdRecv(p)
    BY <2>1, <2>2 DEF CmdRecv, TypeOK
  <2>3. CASE CmdPeerClosed(p)
    <3>1. conn' \in [Procs -> {"none", "backlog", "open", "closed"}] /\ ready' \subseteq Procs
      BY <2>3 DEF CmdPeerClosed, Close, TypeOK
    <3>2. /\ batch' \subseteq Procs \cup {Listener} /\ cmd' \in {"poll", "batch"}
          /\ UNCHANGED <<procVars, modVars, cur, exitVars, inq, reply, fault>>
      BY <2>3 DEF CmdPeerClosed, Handled, TypeOK
    <3> QED BY <2>1, <3>1, <3>2 DEF TypeOK
  <2>4. CASE CmdRecvFails(p)
    BY <2>1, <2>4 DEF CmdRecvFails, CmdServerEnd, TypeOK
  <2> QED BY <1>9, <2>2, <2>3, <2>4
<1>10. ASSUME CmdHandle PROVE Basis'
  <2>1. server # None /\ cur \in Procs
    BY <1>10 DEF CmdHandle, RoleInv, CmdHasServer
  <2>2. /\ reply' \in [Procs -> {"no", "sent", "read"}]
        /\ inq' \in [Procs -> SUBSET {"request", "fin", "rst"}]
    BY <1>10, <2>1, ReplyType DEF CmdHandle
  <2>3. conn' \in [Procs -> {"none", "backlog", "open", "closed"}] /\ ready' \subseteq Procs
    <3>1. CASE Close(cur)
      BY <2>1, <3>1 DEF Close, TypeOK
    <3>2. CASE UNCHANGED conn /\ ready' = IF pc[cur] = "ended" THEN ready \cup {cur} ELSE ready
      BY <2>1, <3>2 DEF TypeOK
    <3> QED BY <1>10, <3>1, <3>2 DEF CmdHandle
  <2> QED BY <1>10, <2>1, <2>2, <2>3 DEF TypeOK, CmdHandle
<1>11. ASSUME CmdShowCrashes PROVE Basis'
  BY <1>11, CrashType DEF CmdShowCrashes, RoleInv, CmdHasServer
<1>12. ASSUME CmdStop PROVE Basis'
  <2>1. server # None /\ cur \in Procs
    BY <1>12 DEF CmdStop, RoleInv, CmdHasServer
  <2>2. xpc' \in [Threads -> 0..Len(ExitOrder) + 1]
    <3>1. 1 \in 0..Len(ExitOrder) + 1
      BY Orders
    <3> QED BY <1>12, <3>1 DEF CmdStop, TypeOK
  <2>3. early' \in BOOLEAN
    BY <1>12 DEF CmdStop
  <2>4. /\ reply' \in [Procs -> {"no", "sent", "read"}]
        /\ inq' \in [Procs -> SUBSET {"request", "fin", "rst"}]
    BY <1>12, <2>1, ReplyType DEF CmdStop
  <2> QED BY <1>12, <2>1, <2>2, <2>3, <2>4 DEF TypeOK, CmdStop
<1>13. ASSUME NEW x \in Threads, ExitStep(x) PROVE Basis'
  <2>1. server # None
    <3>1. xpc[x] # 0
      BY <1>13, Orders DEF ExitStep, ExitBegins, ExitSkips, ExitEnds, ExitOver, Leaving
    <3> QED BY <3>1
  <2>2. CASE ExitBegins(x)
    <3>1. UNCHANGED <<procVars, server, at, thr, cmdVars, xpc, early, connVars, fault>>
      BY <2>2 DEF ExitBegins
    <3>2. /\ mods' \in [Modules -> {"down", "up", "going", "gone"}]
          /\ inside' \in [Threads -> BOOLEAN]
      BY <2>2 DEF ExitBegins, TypeOK
    <3> QED BY <2>1, <3>1, <3>2 DEF TypeOK
  <2>3. ASSUME Pass(x), Leaving(x)
        PROVE  xpc' \in [Threads -> 0..Len(ExitOrder) + 1]
    <3>1. xpc[x] + 1 \in 0..Len(ExitOrder) + 1
      BY <2>3, Orders DEF Leaving
    <3> QED BY <2>3, <3>1 DEF Pass, TypeOK
  <2>4. CASE ExitSkips(x)
    <3>1. CASE Crash("exit")
      BY <2>1, <3>1, CrashType
    <3>2. CASE Pass(x) /\ UNCHANGED <<procVars, modVars, cmdVars, inside, early, connVars, fault>>
      BY <2>1, <2>3, <2>4, <3>2 DEF TypeOK, ExitSkips
    <3> QED BY <2>4, <3>1, <3>2 DEF ExitSkips
  <2>5. CASE ExitEnds(x)
    <3>1. UNCHANGED <<procVars, server, at, thr, cmdVars, early, connVars, fault>>
      BY <2>5 DEF ExitEnds
    <3>2. /\ mods' \in [Modules -> {"down", "up", "going", "gone"}]
          /\ inside' \in [Threads -> BOOLEAN]
      BY <2>5 DEF ExitEnds, TypeOK
    <3> QED BY <2>1, <2>3, <2>5, <3>1, <3>2 DEF TypeOK, ExitEnds
  <2>6. CASE ExitOver(x)
    <3>1. PICK S \in SUBSET Procs : End(S)
      BY <2>1, <2>6 DEF ExitOver, TypeOK
    <3> QED BY <2>6, <3>1, EndType DEF ExitOver, TypeOK
  <2> QED BY <1>13, <2>2, <2>4, <2>5, <2>6 DEF ExitStep
<1>15. ASSUME ServerThreadEnds PROVE Basis'
  BY <1>15 DEF TypeOK, ServerThreadEnds
<1>16. ASSUME HealthCallbackCrashes PROVE Basis'
  <2>1. server # None
    BY <1>16 DEF HealthCallbackCrashes, AllDown, Modules
  <2> QED BY <1>16, <2>1, CrashType DEF HealthCallbackCrashes
<1>17. ASSUME UNCHANGED vars PROVE Basis'
  BY <1>17 DEF TypeOK, vars
<1>18. ASSUME CmdServesAnother \/ ServerThreadAccepts \/ ServerThreadCloses PROVE Basis'
  BY <1>18 DEF TypeOK, CmdServesAnother, ServerThreadAccepts, ServerThreadCloses
<1> QED BY <1>1, <1>2, <1>3, <1>4, <1>5, <1>6, <1>7, <1>8, <1>9, <1>10, <1>11, <1>12,
           <1>13, <1>15, <1>16, <1>17, <1>18 DEF Next, AnyStep, MainStep, CmdStep
-----------------------------------------------------------------------------
(***************************************************************************)
(* What the threads of the server do to its modules.                       *)
(***************************************************************************)
\* Modules are initialised in their order, and never again
Initialised ==
    /\ \A i \in 1..Len(InitOrder) : mods[InitOrder[i]] = "down" <=> i >= at
    /\ server # None => mods["CmdLine"] # "down" /\ mods["Mem"] # "down"
    /\ thr # "none" => at = Len(InitOrder) + 1

\* Main ends the modules if and only if it failed before the last of them ...
MainLeaves == \A p \in Procs : server = p =>
    /\ pc[p] = "failing" <=> xpc["main"] > 0
    /\ pc[p] = "failing" => at < Len(InitOrder)
    /\ pc[p] = "up" => at = Len(InitOrder) + 1

\* ... and the command thread if and only if it serves a stop
CmdLeaves ==
    /\ cmd = "exit" <=> xpc["cmd"] > 0
    /\ early => cmd = "exit"
    /\ xpc["cmd"] > 0 /\ ~early => \E p \in Procs : server = p /\ pc[p] = "up"

\* A module that is being ended has a thread inside its Exit; a module is ended only
\* by who leaves
Exiting ==
    /\ \A x \in Threads : inside[x] => Leaving(x) /\ mods[Module(x)] # "down"
    /\ \A m \in Modules : mods[m] = "going" => \E x \in Threads : inside[x] /\ Module(x) = m
    /\ \A m \in Modules : mods[m] \in {"going", "gone"} => \E x \in Threads : xpc[x] > 0

\* Main is past CmdLine only after the command thread has ended, or is leaving itself
CmdLineFirst ==
    /\ xpc["main"] > 2 => cmd \in {"exit", "ended"}
    /\ mods["CmdLine"] = "gone" => cmd \in {"exit", "ended"}

\* While the server thread runs, a stop that came in time is at its module
ServerProcFirst == thr = "runs" /\ ~early =>
    /\ xpc["cmd"] < 2
    /\ \A m \in Modules \ {"ServerProc"} : mods[m] = "up"
    /\ mods["ServerProc"] # "up" => inside["cmd"]

Life == /\ Initialised /\ MainLeaves /\ CmdLeaves /\ Exiting
        /\ CmdLineFirst /\ ServerProcFirst

LifeInv == RoleInv /\ Basis /\ Life /\ FaultsOnlyEarly

LEMMA LifeInit == Init => LifeInv
<1> SUFFICES ASSUME Init PROVE Life /\ FaultsOnlyEarly
  BY RoleInit, BasisInit DEF LifeInv
<1>1. /\ server = None /\ mods = AllDown /\ at = 1 /\ thr = "none" /\ cmd = "none" /\ ~early
      /\ fault = <<>> /\ \A x \in Threads : xpc[x] = 0 /\ ~inside[x]
  BY DEF Init
<1>2. Initialised
  BY <1>1, Orders, OrdersType DEF Initialised, AllDown
<1>3. MainLeaves /\ CmdLeaves /\ CmdLineFirst /\ ServerProcFirst
  BY <1>1, ProgramAssumption DEF MainLeaves, CmdLeaves, CmdLineFirst, ServerProcFirst, Threads,
     AllDown, Modules
<1>4. Exiting
  BY <1>1 DEF Exiting, AllDown
<1> QED BY <1>1, <1>2, <1>3, <1>4 DEF Life, FaultsOnlyEarly

\* Steps that neither end nor initialise a module, nor begin a stop
LEMMA LifeSame ==
    ASSUME LifeInv, UNCHANGED <<server, mods, at, thr, xpc, inside, early>>,
           server # None => pc'[server] = pc[server],
           \/ cmd' = cmd
           \/ cmd \notin {"exit", "ended"} /\ cmd' # "exit"
    PROVE  Life'
<1> USE DEF LifeInv, Life
<1>1. Initialised'
  BY DEF Initialised
<1>2. MainLeaves'
  BY ProgramAssumption DEF MainLeaves
<1>3. CmdLeaves' /\ CmdLineFirst'
  BY ProgramAssumption DEF CmdLeaves, CmdLineFirst
<1>4. Exiting' /\ ServerProcFirst'
  BY DEF Exiting, ServerProcFirst, Leaving, Module
<1> QED BY <1>1, <1>2, <1>3, <1>4

\* Whichever processes end
LEMMA LifeEnds ==
    ASSUME LifeInv, NEW S, End(S)
    PROVE  Life'
<1>1. CASE server \in S
  <2>1. /\ server' = None /\ mods' = AllDown /\ at' = 1 /\ thr' = "none" /\ cmd' = "none"
        /\ ~early' /\ \A x \in Threads : xpc'[x] = 0 /\ ~inside'[x]
    BY <1>1 DEF End, EndServer
  <2>2. Initialised'
    BY <2>1, Orders, OrdersType DEF Initialised, AllDown
  <2>3. MainLeaves' /\ CmdLeaves' /\ CmdLineFirst' /\ ServerProcFirst'
    BY <2>1, ProgramAssumption DEF MainLeaves, CmdLeaves, CmdLineFirst, ServerProcFirst,
       Threads, AllDown, Modules
  <2>4. Exiting'
    BY <2>1 DEF Exiting, AllDown
  <2> QED BY <2>2, <2>3, <2>4 DEF Life
<1>2. CASE server \notin S
  <2>1. UNCHANGED <<server, mods, at, thr, cmd, xpc, inside, early>>
    BY <1>2 DEF End, modVars, cmdVars, exitVars
  <2>2. server # None => pc'[server] = pc[server]
    BY <1>2 DEF End, LifeInv, Basis, TypeOK
  <2> QED BY <2>1, <2>2, LifeSame
<1> QED BY <1>1, <1>2

LEMMA LifeStep == LifeInv /\ [Next]_vars => Life'
<1> SUFFICES ASSUME LifeInv, [Next]_vars PROVE Life'
  OBVIOUS
<1> USE DEF procVars, modVars, cmdVars, exitVars, connVars
<1>1. ASSUME NEW p \in Procs, ServerParseConfFails(p) \/ Start(p) \/ MakeDaemon(p)
                               \/ ClientAsks(p) \/ ClientReads(p)
      PROVE Life'
  <2>1. UNCHANGED <<server, mods, at, thr, cmd, xpc, inside, early>>
    BY <1>1 DEF ServerParseConfFails, Start, MakeDaemon, ClientAsks, ClientReads
  <2>2. pc[p] \notin Threaded
    BY <1>1 DEF ServerParseConfFails, Start, MakeDaemon, ClientAsks, ClientReads, Threaded
  <2>3. \A q \in Procs : q # p => pc'[q] = pc[q]
    BY <1>1 DEF ServerParseConfFails, Start, MakeDaemon, ClientAsks, ClientReads, Goto,
       LifeInv, Basis, TypeOK
  <2>4. server # None => pc'[server] = pc[server]
    BY <2>2, <2>3 DEF LifeInv, RoleInv, ServerFollows, Places
  <2> QED BY <2>1, <2>4, LifeSame
<1>2. ASSUME NEW p \in Procs, PrintUsage(p) \/ ClientTurnedAway(p) \/ ClientDies(p)
      PROVE Life'
  BY <1>2, LifeEnds DEF PrintUsage, ClientTurnedAway, ClientDies
<1>3. ASSUME NEW p \in Procs, StartCmdThread(p) PROVE Life'
  <2>1. server = None
    BY <1>3 DEF StartCmdThread, LifeInv, RoleInv, Places, LockFollows, ServerFollows, Holding,
       Threaded
  <2>2. /\ at' = 1 /\ thr' = "none" /\ ~early' /\ server' = p /\ pc'[p] = "init" /\ cmd' = "new"
        /\ \A x \in Threads : xpc'[x] = 0 /\ ~inside'[x]
    BY <1>3, <2>1 DEF StartCmdThread, Goto, LifeInv, Basis, NoServer, TypeOK
  <2>3. /\ \A m \in Modules \ {"CmdLine", "Mem"} : mods'[m] = "down"
        /\ mods'["CmdLine"] = "up" /\ mods'["Mem"] = "up"
    BY <1>3 DEF StartCmdThread, AllDown, Modules
  <2>4. Initialised'
    BY <2>2, <2>3, Orders, OrdersType DEF Initialised
  <2>5. MainLeaves' /\ CmdLeaves' /\ CmdLineFirst' /\ ServerProcFirst'
    BY <2>2, <2>3 DEF MainLeaves, CmdLeaves, CmdLineFirst, ServerProcFirst, Threads
  <2>6. Exiting'
    BY <2>2, <2>3 DEF Exiting
  <2> QED BY <2>4, <2>5, <2>6 DEF Life
<1>4. ASSUME NEW p \in Procs, InitModule(p) PROVE Life'
  <2> DEFINE m == InitOrder[at]
  <2>1. /\ server = p /\ p # None /\ pc[p] = "init" /\ at \in 1..5
        /\ UNCHANGED <<server, cmd, inside, early>>
    BY <1>4, Orders, ProgramAssumption
       DEF InitModule, LifeInv, Basis, TypeOK, RoleInv, ServerFollows, Threaded
  <2>2. xpc["main"] = 0 /\ thr = "none" /\ ~inside["main"]
    BY <2>1, Orders DEF LifeInv, Life, Basis, TypeOK, MainLeaves, Initialised, Exiting, Leaving,
       Threads
  <2>3. xpc["cmd"] > 0 => early
    BY <2>1 DEF LifeInv, Life, CmdLeaves
  <2>4. CASE Fail(p) /\ m # "ServerProc"
    <3>1. /\ pc' = [pc EXCEPT ![p] = "failing"] /\ xpc' = [xpc EXCEPT !["main"] = 1]
          /\ UNCHANGED <<mods, at, thr>> /\ at < 5
      BY <2>1, <2>4, Orders DEF Fail, Goto
    <3>2. /\ pc'[p] = "failing" /\ xpc'["main"] = 1 /\ xpc'["cmd"] = xpc["cmd"]
      BY <3>1 DEF LifeInv, Basis, TypeOK, Threads
    <3>3. Initialised' /\ ServerProcFirst'
      <4>1. Initialised'
        BY <2>1, <3>1 DEF LifeInv, Life, Initialised
      <4> QED BY <2>2, <3>1, <4>1 DEF ServerProcFirst
    <3>4. MainLeaves' /\ CmdLeaves' /\ CmdLineFirst'
      BY <2>1, <2>3, <3>1, <3>2, Orders DEF LifeInv, Life, MainLeaves, CmdLeaves, CmdLineFirst
    <3>5. Exiting'
      BY <2>1, <2>2, <3>1, <3>2 DEF LifeInv, Life, Exiting, Leaving, Module, Threads
    <3> QED BY <3>3, <3>4, <3>5 DEF Life
  <2>5. CASE /\ mods' = [mods EXCEPT ![m] = "up"] /\ at' = at + 1
             /\ thr' = IF m = "ServerProc" THEN "runs" ELSE thr
             /\ UNCHANGED <<pc, xpc>>
    <3>1. m \in Modules \ {"CmdLine", "Mem"} /\ (m = "ServerProc" <=> at = 5)
      <4>1. 5 \in 1..5
        OBVIOUS
      <4> QED BY <2>1, <4>1, Orders, OrdersType
    <3>2. mods'[m] = "up" /\ \A n \in Modules : n # m => mods'[n] = mods[n]
      BY <2>5, <3>1 DEF LifeInv, Basis, TypeOK
    <3> HIDE DEF m
    <3>3. Initialised'
      <4>1. ASSUME NEW i \in 1..5 PROVE mods'[InitOrder[i]] = "down" <=> i >= at + 1
        <5>1. CASE i = at
          BY <2>1, <3>2, <5>1 DEF m
        <5>2. CASE i # at
          <6>1. InitOrder[i] # m /\ InitOrder[i] \in Modules
            BY <2>1, <5>2, OrdersType DEF m
          <6> QED BY <2>1, <3>2, <5>2, <6>1, Orders DEF LifeInv, Life, Initialised
        <5> QED BY <5>1, <5>2
      <4> QED BY <2>1, <2>2, <2>5, <3>1, <3>2, <4>1, Orders DEF LifeInv, Life, Initialised, Modules
    <3>4. MainLeaves' /\ CmdLeaves'
      BY <2>1, <2>2, <2>3, <2>5 DEF LifeInv, Life, MainLeaves, CmdLeaves
    <3>5. CmdLineFirst'
      BY <2>1, <2>5, <3>1, <3>2 DEF LifeInv, Life, CmdLineFirst, Modules
    <3>6. Exiting'
      <4>1. \A x \in Threads : Leaving(x) => Module(x) \in Modules
        BY OrdersType, Orders DEF Leaving, Module
      <4> QED BY <2>1, <2>5, <3>1, <3>2, <4>1 DEF LifeInv, Life, Exiting, Leaving, Module
    <3>7. ServerProcFirst'
      <4> SUFFICES ASSUME thr' = "runs", ~early
                   PROVE  xpc["cmd"] < 2 /\ \A n \in Modules : mods'[n] = "up"
        BY <2>1, <2>5 DEF ServerProcFirst, Modules
      <4>1. at = 5 /\ m = "ServerProc"
        BY <2>2, <2>5, <3>1
      <4>2. xpc["cmd"] = 0 /\ \A n \in Modules : mods[n] \notin {"going", "gone"}
        BY <2>2, <2>3 DEF LifeInv, Life, Exiting, Threads, Basis, TypeOK
      <4>3. \A n \in Modules : n # m => mods[n] # "down"
        <5>1. \A i \in 1..5 : InitOrder[i] # m => mods[InitOrder[i]] # "down"
          BY <4>1, Orders DEF LifeInv, Life, Initialised, m
        <5> QED BY <2>1, <5>1, OrdersType, Orders DEF LifeInv, Life, Initialised
      <4>4. \A n \in Modules : n # m => mods[n] = "up"
        BY <4>2, <4>3 DEF LifeInv, Basis, TypeOK
      <4> QED BY <3>2, <4>2, <4>4
    <3> QED BY <3>3, <3>4, <3>5, <3>6, <3>7 DEF Life
  <2> QED BY <1>4, <2>4, <2>5 DEF InitModule
<1>5. ASSUME NEW p \in Procs, HealthRegister(p) PROVE Life'
  <2>1. CASE Crash("add")
    BY <2>1, LifeEnds DEF Crash
  <2>2. CASE ~Crash("add")
    <3>1. /\ pc' = [pc EXCEPT ![p] = "up"] /\ pc[p] = "init" /\ at > 5
          /\ UNCHANGED <<server, mods, at, thr, cmd, xpc, inside, early>>
      BY <1>5, <2>2, Orders DEF HealthRegister, Goto
    <3>2. pc'[p] = "up" /\ server = p /\ at = 6 /\ p # None
      BY <3>1, Orders, ProgramAssumption DEF LifeInv, Basis, TypeOK, RoleInv, ServerFollows, Threaded
    <3>3. xpc["main"] = 0
      BY <3>1, <3>2 DEF LifeInv, Life, MainLeaves, Basis, TypeOK, Threads
    <3> QED BY <3>1, <3>2, <3>3, Orders DEF LifeInv, Life, Initialised, MainLeaves, CmdLeaves,
               Exiting, CmdLineFirst, ServerProcFirst, Leaving, Module
  <2> QED BY <2>1, <2>2
<1>6. ASSUME CmdStep, ~CmdStop PROVE Life'
  <2>1. CASE CmdShowCrashes
    BY <2>1, LifeEnds DEF CmdShowCrashes, Crash
  <2>2. CASE ~CmdShowCrashes
    <3>1. UNCHANGED <<pc, server, mods, at, thr, xpc, inside, early>>
      BY <1>6, <2>2 DEF CmdStep, CmdServerInit, CmdEpollWait, CmdAccept, CmdRecv,
         CmdPeerClosed, CmdRecvFails, CmdHandle
    <3>2. cmd \notin {"exit", "ended"} /\ cmd' # "exit"
      BY <1>6, <2>2 DEF CmdStep, CmdServerInit, CmdEpollWait, CmdServerEnd, CmdAccept, CmdRecv,
         CmdPeerClosed, CmdRecvFails, CmdHandle, Handled
    <3> QED BY <3>1, <3>2, LifeSame
  <2> QED BY <2>1, <2>2
<1>7. ASSUME CmdStop PROVE Life'
  <2>1. /\ cmd = "handle" /\ cmd' = "exit" /\ xpc' = [xpc EXCEPT !["cmd"] = 1]
        /\ early' = (pc[server] # "up") /\ UNCHANGED <<pc, server, mods, at, thr, inside>>
    BY <1>7 DEF CmdStop
  <2>2. server \in Procs
    BY <2>1 DEF LifeInv, RoleInv, CmdHasServer, Places
  <2>3. xpc'["cmd"] = 1 /\ xpc'["main"] = xpc["main"]
    BY <2>1 DEF LifeInv, Basis, TypeOK, Threads
  <2>4. ~early /\ xpc["cmd"] = 0 /\ ~inside["cmd"]
    BY <2>1 DEF LifeInv, Life, CmdLeaves, Exiting, Leaving, Basis, TypeOK, Threads
  <2>5. Initialised' /\ MainLeaves' /\ CmdLineFirst'
    BY <2>1, <2>3 DEF LifeInv, Life, Initialised, MainLeaves, CmdLineFirst
  <2>6. CmdLeaves'
    <3>1. ~early' => pc'[server'] = "up" /\ server' \in Procs
      BY <2>1, <2>2
    <3>2. cmd' = "exit" /\ xpc'["cmd"] > 0
      BY <2>1, <2>3
    <3> QED BY <3>1, <3>2 DEF CmdLeaves
  <2>7. Exiting'
    BY <2>1, <2>3, <2>4 DEF LifeInv, Life, Exiting, Leaving, Module, Threads
  <2>8. ServerProcFirst'
    BY <2>1, <2>3, <2>4 DEF LifeInv, Life, ServerProcFirst
  <2> QED BY <2>5, <2>6, <2>7, <2>8 DEF Life
<1>8. ASSUME NEW x \in Threads, ExitBegins(x) PROVE Life'
  <2> DEFINE m == Module(x)
  <2>1. /\ xpc[x] \in 1..7 /\ m = ExitOrder[xpc[x]] /\ m \in Modules /\ server \in Procs
    <3>1. xpc[x] \in 1..7
      BY <1>8, Orders DEF ExitBegins, Leaving
    <3>2. server # None
      BY <3>1 DEF LifeInv, Basis, NoServer
    <3> QED BY <3>1, <3>2, OrdersType DEF Module, LifeInv, Basis, TypeOK
  <2>2. thr = "runs" => xpc["main"] = 0
    BY <2>1, Orders DEF LifeInv, Life, MainLeaves, Initialised, Basis, TypeOK, Threads
  <2>3. /\ mods[m] = "up" /\ ~inside[x] /\ mods' = [mods EXCEPT ![m] = "going"]
        /\ inside' = [inside EXCEPT ![x] = TRUE]
        /\ UNCHANGED <<pc, server, at, thr, cmd, xpc, early>>
    BY <1>8 DEF ExitBegins
  <2>4. /\ mods'[m] = "going" /\ \A n \in Modules : n # m => mods'[n] = mods[n]
        /\ inside'[x] /\ \A y \in Threads : y # x => inside'[y] = inside[y]
    BY <2>1, <2>3 DEF LifeInv, Basis, TypeOK
  <2>5. \A y \in Threads : /\ Module(y)' = Module(y) /\ Leaving(y)' = Leaving(y)
                           /\ Leaving(y) => Module(y) \in Modules
    BY <2>3, Orders, OrdersType DEF Module, Leaving
  <2>6. Leaving(x)
    BY <1>8 DEF ExitBegins
  <2> HIDE DEF m
  <2>7. Initialised'
    BY <2>1, <2>3, <2>4, Orders, OrdersType DEF LifeInv, Life, Initialised, Modules
  <2>8. MainLeaves' /\ CmdLeaves' /\ CmdLineFirst'
    BY <2>1, <2>3, <2>4 DEF LifeInv, Life, MainLeaves, CmdLeaves, CmdLineFirst, Modules
  <2>9. Exiting'
    <3>1. \A y \in Threads : inside'[y] => Leaving(y) /\ mods'[Module(y)] # "down"
      BY <2>1, <2>3, <2>4, <2>5, <2>6 DEF LifeInv, Life, Exiting, m
    <3>2. \A n \in Modules : mods'[n] = "going" => \E y \in Threads : inside'[y] /\ Module(y) = n
      BY <2>3, <2>4 DEF LifeInv, Life, Exiting, m
    <3>3. \E y \in Threads : xpc[y] > 0
      BY <2>1
    <3> QED BY <2>3, <2>5, <3>1, <3>2, <3>3 DEF Exiting
  <2>10. ServerProcFirst'
    <3> SUFFICES ASSUME thr = "runs", ~early
                 PROVE  /\ xpc["cmd"] < 2
                        /\ \A n \in Modules \ {"ServerProc"} : mods'[n] = "up"
                        /\ mods'["ServerProc"] # "up" => inside'["cmd"]
      BY <2>3 DEF ServerProcFirst
    <3>1. x = "cmd" /\ xpc[x] = 1 /\ m = "ServerProc"
      BY <2>1, <2>2, Orders DEF LifeInv, Life, ServerProcFirst, Threads
    <3> QED BY <2>4, <3>1 DEF LifeInv, Life, ServerProcFirst
  <2> QED BY <2>7, <2>8, <2>9, <2>10 DEF Life
<1>9. ASSUME NEW x \in Threads, ExitSkips(x) PROVE Life'
  <2> DEFINE m == Module(x)
  <2>1. /\ xpc[x] \in 1..7 /\ m = ExitOrder[xpc[x]] /\ m \in Modules /\ server \in Procs
    <3>1. xpc[x] \in 1..7
      BY <1>9, Orders DEF ExitSkips, Leaving
    <3>2. server # None
      BY <3>1 DEF LifeInv, Basis, NoServer
    <3> QED BY <3>1, <3>2, OrdersType DEF Module, LifeInv, Basis, TypeOK
  <2>2. thr = "runs" => xpc["main"] = 0
    BY <2>1, Orders DEF LifeInv, Life, MainLeaves, Initialised, Basis, TypeOK, Threads
  <2>3. CASE Crash("exit")
    BY <2>3, LifeEnds DEF Crash
  <2>4. CASE ~Crash("exit")
    <3>1. /\ mods[m] # "up" /\ ~inside[x] /\ xpc' = [xpc EXCEPT ![x] = @ + 1]
          /\ UNCHANGED <<pc, server, mods, at, thr, cmd, inside, early>>
      BY <1>9, <2>4 DEF ExitSkips, Pass
    <3>2. /\ xpc'[x] = xpc[x] + 1 /\ \A y \in Threads : y # x => xpc'[y] = xpc[y]
      BY <3>1 DEF LifeInv, Basis, TypeOK
    <3>3. \A y \in Threads : y # x => Module(y)' = Module(y) /\ Leaving(y)' = Leaving(y)
      BY <3>2 DEF Module, Leaving
    <3> HIDE DEF m
    <3>4. Initialised'
      BY <3>1 DEF LifeInv, Life, Initialised
    <3>5. MainLeaves' /\ CmdLeaves'
      BY <2>1, <3>1, <3>2 DEF LifeInv, Life, MainLeaves, CmdLeaves, Threads
    <3>6. Exiting'
      <4>1. \A y \in Threads : xpc[y] > 0 => xpc'[y] > 0
        BY <2>1, <3>2
      <4> QED BY <3>1, <3>3, <4>1 DEF LifeInv, Life, Exiting
    <3>7. CmdLineFirst'
      <4>1. CASE x = "main" /\ xpc[x] = 2
        <5>1. mods["CmdLine"] \in {"going", "gone"}
          BY <2>1, <3>1, <4>1, Orders, ProgramAssumption
             DEF LifeInv, Life, Basis, TypeOK, Initialised
        <5>2. CASE mods["CmdLine"] = "going"
          <6>1. PICK y \in Threads : inside[y] /\ Module(y) = "CmdLine"
            BY <5>2 DEF LifeInv, Life, Exiting, Modules
          <6>2. y = "cmd" /\ xpc["cmd"] > 0
            BY <3>1, <4>1, <6>1 DEF Threads, LifeInv, Life, Exiting, Leaving
          <6> QED BY <3>1, <6>2 DEF CmdLineFirst, LifeInv, Life, CmdLeaves
        <5>3. CASE mods["CmdLine"] = "gone"
          BY <3>1, <5>3 DEF CmdLineFirst, LifeInv, Life
        <5> QED BY <5>1, <5>2, <5>3
      <4>2. CASE ~(x = "main" /\ xpc[x] = 2)
        BY <2>1, <3>1, <3>2, <4>2 DEF CmdLineFirst, LifeInv, Life, Threads
      <4> QED BY <4>1, <4>2
    <3>8. ServerProcFirst'
      <4> SUFFICES ASSUME thr = "runs", ~early PROVE FALSE
        BY <3>1 DEF ServerProcFirst
      <4>1. x = "cmd" /\ xpc[x] = 1 /\ m = "ServerProc"
        BY <2>1, <2>2, Orders DEF LifeInv, Life, ServerProcFirst, Threads
      <4> QED BY <3>1, <4>1 DEF LifeInv, Life, ServerProcFirst
    <3> QED BY <3>4, <3>5, <3>6, <3>7, <3>8 DEF Life
  <2> QED BY <2>3, <2>4
<1>10. ASSUME NEW x \in Threads, ExitEnds(x) PROVE Life'
  <2> DEFINE m == Module(x)
  <2>1. /\ xpc[x] \in 1..7 /\ m = ExitOrder[xpc[x]] /\ m \in Modules /\ server \in Procs
    <3>1. xpc[x] \in 1..7
      BY <1>10, Orders DEF ExitEnds, Leaving
    <3>2. server # None
      BY <3>1 DEF LifeInv, Basis, NoServer
    <3> QED BY <3>1, <3>2, OrdersType DEF Module, LifeInv, Basis, TypeOK
  <2>2. thr = "runs" => xpc["main"] = 0
    BY <2>1, Orders DEF LifeInv, Life, MainLeaves, Initialised, Basis, TypeOK, Threads
  <2>3. /\ inside[x] /\ Joined(x) /\ mods' = [mods EXCEPT ![m] = "gone"]
        /\ inside' = [inside EXCEPT ![x] = FALSE] /\ xpc' = [xpc EXCEPT ![x] = @ + 1]
        /\ UNCHANGED <<pc, server, at, thr, cmd, early>>
    BY <1>10 DEF ExitEnds, Pass
  <2>4. /\ mods'[m] = "gone" /\ \A n \in Modules : n # m => mods'[n] = mods[n]
        /\ ~inside'[x] /\ \A y \in Threads : y # x => inside'[y] = inside[y]
        /\ xpc'[x] = xpc[x] + 1 /\ \A y \in Threads : y # x => xpc'[y] = xpc[y]
    BY <2>1, <2>3 DEF LifeInv, Basis, TypeOK
  <2>5. \A y \in Threads : /\ y # x => Module(y)' = Module(y) /\ Leaving(y)' = Leaving(y)
                           /\ Leaving(y) => Module(y) \in Modules
    BY <2>4, Orders, OrdersType DEF Module, Leaving
  <2>6. mods[m] # "down"
    BY <2>3 DEF LifeInv, Life, Exiting
  <2>7. m = "CmdLine" => cmd \in {"exit", "ended"}
    BY <2>1, <2>3 DEF Joined, Threads, LifeInv, Life, CmdLeaves
  <2>8. m = "ServerProc" => thr # "runs"
    BY <2>3 DEF Joined
  <2> HIDE DEF m
  <2>9. Initialised'
    BY <2>1, <2>3, <2>4, <2>6, Orders, OrdersType DEF LifeInv, Life, Initialised, Modules
  <2>10. MainLeaves' /\ CmdLeaves'
    BY <2>1, <2>3, <2>4 DEF LifeInv, Life, MainLeaves, CmdLeaves, Threads
  <2>11. CmdLineFirst'
    <3>1. xpc["main"] = 2 /\ x = "main" => m = "CmdLine"
      BY <2>1, Orders
    <3>2. mods'["CmdLine"] = "gone" => mods["CmdLine"] = "gone" \/ m = "CmdLine"
      BY <2>4 DEF Modules
    <3> QED BY <2>1, <2>3, <2>4, <2>7, <3>1, <3>2 DEF LifeInv, Life, CmdLineFirst, Threads
  <2>12. Exiting'
    <3>1. \A y \in Threads : inside'[y] => y # x /\ Leaving(y) /\ mods'[Module(y)] # "down"
      BY <2>3, <2>4, <2>5 DEF LifeInv, Life, Exiting
    <3>2. \A n \in Modules : mods'[n] = "going" =>
             \E y \in Threads : y # x /\ inside'[y] /\ Module(y) = n
      BY <2>3, <2>4 DEF LifeInv, Life, Exiting, m
    <3>3. xpc'[x] > 0
      BY <2>1, <2>4
    <3> QED BY <2>5, <3>1, <3>2, <3>3 DEF Exiting
  <2>13. ServerProcFirst'
    <3> SUFFICES ASSUME thr = "runs", ~early PROVE FALSE
      BY <2>3 DEF ServerProcFirst
    <3>1. x = "cmd" /\ xpc[x] = 1 /\ m = "ServerProc"
      BY <2>1, <2>2, Orders DEF LifeInv, Life, ServerProcFirst, Threads
    <3> QED BY <2>8, <3>1
  <2> QED BY <2>9, <2>10, <2>11, <2>12, <2>13 DEF Life
<1>11. ASSUME NEW x \in Threads, ExitOver(x) PROVE Life'
  BY <1>11, LifeEnds DEF ExitOver
<1>12. ASSUME ServerThreadEnds PROVE Life'
  <2>1. /\ thr = "runs" /\ thr' = "ended"
        /\ UNCHANGED <<pc, server, mods, at, cmd, xpc, inside, early>>
    BY <1>12 DEF ServerThreadEnds
  <2> QED BY <2>1 DEF LifeInv, Life, Initialised, MainLeaves, CmdLeaves, CmdLineFirst, Exiting,
             ServerProcFirst, Leaving, Module
<1>13. ASSUME HealthCallbackCrashes PROVE Life'
  BY <1>13, LifeEnds DEF HealthCallbackCrashes, Crash
<1>14. ASSUME UNCHANGED vars PROVE Life'
  BY <1>14, LifeSame DEF vars
<1>15. ASSUME CmdServesAnother \/ ServerThreadAccepts \/ ServerThreadCloses PROVE Life'
  BY <1>15, LifeSame DEF CmdServesAnother, ServerThreadAccepts, ServerThreadCloses
<1> QED BY <1>1, <1>2, <1>3, <1>4, <1>5, <1>6, <1>7, <1>8, <1>9, <1>10, <1>11, <1>12,
           <1>13, <1>14, <1>15 DEF Next, AnyStep, MainStep, ExitStep

\* What a crash says of the time at which it came
LEMMA FaultStep == LifeInv /\ [Next]_vars => FaultsOnlyEarly'
<1> SUFFICES ASSUME LifeInv, [Next]_vars PROVE FaultsOnlyEarly'
  OBVIOUS
<1>1. ASSUME NEW what, Crash(what), what \notin {"going", "health"},
             early \/ pc[server] # "up"
      PROVE  FaultsOnlyEarly'
  BY <1>1 DEF Crash, FaultsOnlyEarly
<1>2. CASE UNCHANGED fault
  BY <1>2 DEF LifeInv, FaultsOnlyEarly
<1>3. ASSUME NEW p \in Procs, StartCmdThread(p) PROVE FaultsOnlyEarly'
  BY <1>3 DEF StartCmdThread, FaultsOnlyEarly
<1>4. ASSUME NEW p \in Procs, HealthRegister(p), Crash("add") PROVE FaultsOnlyEarly'
  <2>1. pc[server] = "init"
    BY <1>4, ProgramAssumption DEF HealthRegister, LifeInv, RoleInv, ServerFollows, Threaded
  <2> QED BY <1>1, <1>4, <2>1
<1>5. ASSUME CmdShowCrashes PROVE FaultsOnlyEarly'
  <2>1. cmd = "handle" /\ server \in Procs
    BY <1>5 DEF CmdShowCrashes, LifeInv, RoleInv, CmdHasServer, Places
  <2>2. ~ShowTooLate
    <3> SUFFICES ASSUME NEW m \in {"TPool", "Health", "Timer"}, mods[m] = "going"
                 PROVE  FALSE
      BY DEF ShowTooLate
    <3>1. PICK x \in Threads : inside[x] /\ Module(x) = m
      BY DEF LifeInv, Life, Exiting, Modules
    <3>2. xpc[x] > 2 /\ xpc[x] > 0
      BY <3>1, Orders DEF LifeInv, Life, Exiting, Leaving, Module
    <3> QED BY <2>1, <3>2 DEF LifeInv, Life, CmdLeaves, CmdLineFirst, Threads
  <2>3. CASE ShowTooEarly /\ Crash("show")
    <3>1. PICK m \in {"Health", "Timer"} : mods[m] = "down"
      BY <2>3 DEF ShowTooEarly
    <3>2. \E i \in 1..5 : mods[InitOrder[i]] = "down"
      BY <3>1, OrdersType DEF Modules
    <3>3. at # 6
      BY <3>2, Orders DEF LifeInv, Life, Initialised
    <3>4. pc[server] # "up"
      BY <2>1, <3>3, Orders DEF LifeInv, Life, MainLeaves
    <3> QED BY <1>1, <2>3, <3>4
  <2> QED BY <1>5, <2>2, <2>3 DEF CmdShowCrashes
<1>6. ASSUME NEW x \in Threads, ExitSkips(x), Crash("exit") PROVE FaultsOnlyEarly'
  <2>1. Leaving(x) /\ ~inside[x] /\ (mods[Module(x)] = "going" \/ UNCHANGED fault)
    BY <1>6 DEF ExitSkips
  <2>2. CASE mods[Module(x)] = "going"
    <3>1. Module(x) \in Modules /\ xpc[x] > 0
      BY <2>1, Orders, OrdersType DEF Leaving, Module
    <3>2. PICK y \in Threads : inside[y] /\ Module(y) = Module(x)
      BY <2>2, <3>1 DEF LifeInv, Life, Exiting
    <3>3. xpc[y] > 0 /\ y # x
      BY <2>1, <3>2 DEF LifeInv, Life, Exiting, Leaving
    <3>4. xpc["main"] > 0
      BY <3>1, <3>3 DEF Threads
    <3>5. server \in Procs
      BY <3>4 DEF LifeInv, Basis, NoServer, TypeOK, Threads
    <3>6. pc[server] # "up"
      BY <3>4, <3>5 DEF LifeInv, Life, MainLeaves
    <3> QED BY <1>1, <1>6, <3>6
  <2> QED BY <1>2, <2>1, <2>2
<1>7. ASSUME HealthCallbackCrashes PROVE FaultsOnlyEarly'
  BY <1>7 DEF HealthCallbackCrashes, Crash, FaultsOnlyEarly
<1> USE DEF procVars, modVars, cmdVars, exitVars, connVars
<1>8. ASSUME NEW p \in Procs, HealthRegister(p) PROVE Crash("add") \/ UNCHANGED fault
  BY <1>8 DEF HealthRegister
<1>9. ASSUME NEW x \in Threads, ExitSkips(x) PROVE Crash("exit") \/ UNCHANGED fault
  BY <1>9 DEF ExitSkips
<1>10. ASSUME CmdStep, ~CmdShowCrashes PROVE UNCHANGED fault
  BY <1>10 DEF CmdStep, CmdServerInit, CmdEpollWait, CmdAccept, CmdRecv, CmdPeerClosed,
     CmdRecvFails, CmdHandle, CmdStop
<1>11. ASSUME NEW p \in Procs,
              \/ ServerParseConfFails(p) \/ Start(p) \/ ClientDies(p) \/ PrintUsage(p)
              \/ MakeDaemon(p) \/ InitModule(p) \/ ClientTurnedAway(p) \/ ClientAsks(p)
              \/ ClientReads(p)
       PROVE  UNCHANGED fault
  BY <1>11 DEF ServerParseConfFails, Start, ClientDies, PrintUsage, MakeDaemon, InitModule,
     ClientTurnedAway, ClientAsks, ClientReads
<1>12. ASSUME NEW x \in Threads, ExitBegins(x) \/ ExitEnds(x) \/ ExitOver(x)
       PROVE  UNCHANGED fault
  BY <1>12 DEF ExitBegins, ExitEnds, ExitOver
<1>13. ASSUME \/ ServerThreadEnds \/ CmdServesAnother \/ ServerThreadAccepts
              \/ ServerThreadCloses \/ UNCHANGED vars
       PROVE  UNCHANGED fault
  BY <1>13 DEF ServerThreadEnds, CmdServesAnother, ServerThreadAccepts, ServerThreadCloses, vars
<1> QED BY <1>2, <1>3, <1>4, <1>5, <1>6, <1>7, <1>8, <1>9, <1>10, <1>11, <1>12, <1>13
           DEF Next, AnyStep, MainStep, ExitStep

LEMMA LivesRight == Spec => []LifeInv
<1>1. LifeInv /\ [Next]_vars => LifeInv'
  BY RoleStep, BasisStep, LifeStep, FaultStep DEF LifeInv
<1> QED BY LifeInit, <1>1, PTL DEF Spec

\* The types of the program's variables.
THEOREM ProgramTypes == Spec => []TypeOK
<1>1. LifeInv => TypeOK
  BY DEF LifeInv, Basis
<1> QED BY <1>1, LivesRight, PTL

\* Msg, the thread pool and the accounting are up as long as the server thread runs,
\* whoever ends them, unless a stop overtakes main in Init: _ServerExit and
\* MyModuleCommonExit join the thread first.
THEOREM ModulesThereForThread == Spec => []ModulesOutliveServerThread
<1>1. LifeInv => ModulesOutliveServerThread
  BY DEF LifeInv, Life, ServerProcFirst, ModulesOutliveServerThread, Modules
<1> QED BY <1>1, LivesRight, PTL

\* No report finds a module that is being ended, and no module is ended twice at once
\* or found down by a report or a late HealthMonitorAdd, once main is done with Init.
THEOREM CrashesOnlyEarly == Spec => []FaultsOnlyEarly
<1>1. LifeInv => FaultsOnlyEarly
  BY DEF LifeInv
<1> QED BY <1>1, LivesRight, PTL
=============================================================================
