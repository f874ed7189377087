------------------------------- MODULE Server -------------------------------
(***************************************************************************)
(* The server of server/ServerProc.c with its message handlers             *)
(* (ServerMsgHandler.c) and client map (ServerClientMap.c): one thread     *)
(* accepts clients and receives from them by edge-triggered epoll, the     *)
(* commands it receives are executed by the thread pool, and the worker    *)
(* that executed one sends the reply itself, to a descriptor number it was *)
(* given when the command arrived.                                         *)
(*                                                                         *)
(* A request is <<c, k>>, the k-th message of client connection c.  A      *)
(* frame travels in two pieces, so that RecvMsg can be caught in the       *)
(* middle of one; a reply is the three parts SendMsg sends one after the   *)
(* other.  A piece or part may itself take several recv or send calls:     *)
(* that adds no behaviour the properties tell apart.                       *)
(*                                                                         *)
(* Of the thread pool only what TaskPool promises is used: a command it    *)
(* accepts is started once.  The kernel (sockets, epoll) and the clients   *)
(* are modelled from how the code uses them.                               *)
(***************************************************************************)
EXTENDS Integers, Sequences, FiniteSets, MyList

CONSTANTS
    Conns,        \* client connections
    MaxReqs(_),   \* connection -> requests its client sends at most
    NumFds,       \* descriptors the server may have open for clients
    PoolSize,     \* workers of the thread pool
    Kind(_),      \* request -> what it is, see Kinds
    Env           \* what the surroundings may do, a subset of EnvKinds

Requests == UNION {{c} \X (1..MaxReqs(c)) : c \in Conns}
Fds == 1..NumFds
NoConn == "no connection"
Listener == 0                        \* ServerFd

\* "cmd":   MY_MSG_TYPE_EXEC_CMD, executed by the pool
\* "other": any other type, answered by the server thread itself
\* "short": another type with at most one byte of content: the reply cannot be
\*          filled and is not sent
\* "long":  a content length above the limit: RecvMsg fails
Kinds == {"cmd", "other", "short", "long"}

\* "pipeline": a client sends before its last request was answered
\* "hurry":    a client leaves before its requests were answered
\* "split":    the two pieces of a frame arrive at different times
\* "full":     TPoolAddTask may refuse
\* "popen":    popen may fail
\* "error":    a connection may fail with EPOLLERR
\* "listen":   the listening socket cannot be set up
\* "exit":     ServerProcExit is called
EnvKinds == {"pipeline", "hurry", "split", "full", "popen", "error", "listen", "exit"}

ASSUME ConnsAssumption == IsFiniteSet(Conns) /\ NoConn \notin Conns
ASSUME BoundsAssumption == /\ \A c \in Conns : MaxReqs(c) \in Nat
                           /\ NumFds \in Nat /\ PoolSize \in Nat \ {0}
ASSUME KindAssumption == \A r \in Requests : Kind(r) \in Kinds
ASSUME ServerEnvAssumption == Env \subseteq EnvKinds

VARIABLES
    running,      \* sg_ServerProcWorker.Running
    exitpc,       \* ServerProcExit: "no", "joining", "joined"
    spc,          \* where the server thread is in _ServerProcFn
    batch,        \* what is left of waitEvents, Listener or a descriptor
    cur,          \* the descriptor being received from, or answered to
    clientMap,    \* ClientMap.ClientList: descriptors, oldest first
    job,          \* request -> how far its handling is
    jobFd,        \* request -> the descriptor its reply goes to
    sock,         \* kernel: descriptor -> the connection behind it, or NoConn
    edge,         \* kernel: descriptors on epoll's ready list
    link,         \* connection -> "idle", "backlog", "accepted"
    gone,         \* connections whose client has left
    sent,         \* connection -> pieces its client sent
    recvd,        \* connection -> pieces RecvMsg took
    out,          \* connection -> the parts sent back, as the client sees them
    dead          \* SIGPIPE has ended the process

procVars == <<running, exitpc, spc, batch, cur, clientMap>>
jobVars  == <<job, jobFd>>
kernVars == <<sock, edge>>
netVars  == <<link, gone, sent, recvd, out>>
vars == <<procVars, jobVars, kernVars, netVars, dead>>

Parts == {"head", "cont", "tail"}
JobPcs == {"none", "queued", "done", "failed", "refused"} \cup Parts
Then(part) == CASE part = "head" -> "cont" [] part = "cont" -> "tail"
                [] part = "tail" -> "done"

-----------------------------------------------------------------------------
Readable(c) == recvd[c] < sent[c] \/ c \in gone
FdsOf(c) == {f \in Fds : sock[f] = c}
Answered(r) == <<r, "tail">> \in Range(out[r[1]])
\* The request RecvMsg is at
Current == <<sock[cur], recvd[sock[cur]] \div 2 + 1>>
Settled(c) == \A k \in 1..MaxReqs(c) : 2 * k - 1 <= sent[c] => Answered(<<c, k>>)

\* Data or a close arriving on a connection puts its descriptor on the ready list
Arrives(c) == edge' = edge \cup FdsOf(c)

Init ==
    /\ running = FALSE /\ exitpc = "no" /\ spc = "unborn"
    /\ batch = {} /\ cur = Listener /\ clientMap = <<>>
    /\ job = [r \in Requests |-> "none"] /\ jobFd = [r \in Requests |-> Listener]
    /\ sock = [f \in Fds |-> NoConn] /\ edge = {}
    /\ link = [c \in Conns |-> "idle"] /\ gone = {}
    /\ sent = [c \in Conns |-> 0] /\ recvd = [c \in Conns |-> 0]
    /\ out = [c \in Conns |-> <<>>]
    /\ dead = FALSE

-----------------------------------------------------------------------------
(***************************************************************************)
(* The clients.  The client program sends commands as its user types them  *)
(* and leaves when told to; a user may wait for each reply, or not.        *)
(***************************************************************************)
Open(c) == /\ link[c] = "accepted" => FdsOf(c) # {}
           /\ link[c] # "idle"
           /\ c \notin gone

ClientConnect(c) ==
    /\ link[c] = "idle" /\ spc \notin {"unborn", "setup", "done"}
    /\ link' = [link EXCEPT ![c] = "backlog"]
    /\ UNCHANGED <<procVars, jobVars, kernVars, gone, sent, recvd, out, dead>>

ClientSend(c) ==
    /\ Open(c) /\ sent[c] % 2 = 0 /\ sent[c] < 2 * MaxReqs(c)
    /\ "pipeline" \in Env \/ Settled(c)
    /\ \E n \in {2} \cup (IF "split" \in Env THEN {1} ELSE {}) :
           sent' = [sent EXCEPT ![c] = @ + n]
    /\ Arrives(c)
    /\ UNCHANGED <<procVars, jobVars, sock, link, gone, recvd, out, dead>>

ClientSendsRest(c) ==
    /\ Open(c) /\ sent[c] % 2 = 1
    /\ sent' = [sent EXCEPT ![c] = @ + 1]
    /\ Arrives(c)
    /\ UNCHANGED <<procVars, jobVars, sock, link, gone, recvd, out, dead>>

ClientLeaves(c) ==
    /\ Open(c)
    /\ "hurry" \in Env \/ (sent[c] % 2 = 0 /\ Settled(c))
    /\ gone' = gone \cup {c}
    /\ Arrives(c)
    /\ UNCHANGED <<procVars, jobVars, sock, link, sent, recvd, out, dead>>

-----------------------------------------------------------------------------
(***************************************************************************)
(* The client map: a list under a lock of its own, a node for each accepted*)
(* descriptor, kept as the sequence its pointers stand for (MyList).  Only *)
(* the first node with a number is removed; Exit frees them all and leaves *)
(* the descriptors open.                                                   *)
(***************************************************************************)
ServerClientMapInit == clientMap' = <<>>
ServerClientMapAddNode(f) == clientMap' = Append(clientMap, f)
ServerClientMapDelByFd(f) == clientMap' = Removed(clientMap, f)
ServerClientMapExit == clientMap' = <<>>

-----------------------------------------------------------------------------
(***************************************************************************)
(* ServerProcInit, ServerProcExit and the start of _ServerProcFn.  Init    *)
(* does not wait for the thread, and reports success even if it then fails.*)
(***************************************************************************)
ServerProcInit ==
    /\ ~running /\ spc = "unborn"
    /\ ServerClientMapInit
    /\ running' = TRUE /\ spc' = "setup"
    /\ UNCHANGED <<exitpc, batch, cur, jobVars, kernVars, netVars, dead>>

ServerCreateFd ==
    /\ spc = "setup"
    /\ spc' \in {"poll"} \cup (IF "listen" \in Env THEN {"done"} ELSE {})
    /\ UNCHANGED <<running, exitpc, batch, cur, clientMap, jobVars, kernVars,
                   netVars, dead>>

ServerProcExit ==
    /\ "exit" \in Env /\ running /\ exitpc = "no"
    /\ running' = FALSE /\ exitpc' = "joining"
    /\ UNCHANGED <<spc, batch, cur, clientMap, jobVars, kernVars, netVars, dead>>

\* pthread_join, then ServerClientMapExit
ServerProcJoin ==
    /\ exitpc = "joining" /\ spc = "done"
    /\ exitpc' = "joined"
    /\ ServerClientMapExit
    /\ UNCHANGED <<running, spc, batch, cur, jobVars, kernVars, netVars, dead>>

(***************************************************************************)
(* The loop of _ServerProcFn.                                              *)
(***************************************************************************)
\* Variant: while (1)
Looping_Ever == TRUE
Looping == running                   \* while (sg_ServerProcWorker.Running)

\* The while test; epoll_wait reports those of the ready list that are readable
\* and forgets them all (EPOLLET), and the listener while somebody waits
EpollWait ==
    /\ spc = "poll"
    /\ IF Looping
       THEN LET events == {f \in edge : Readable(sock[f])}
                             \cup {l \in {Listener} : \E c \in Conns : link[c] = "backlog"}
            IN /\ batch' = events
               /\ spc' = IF events = {} THEN "poll" ELSE "batch"
               /\ edge' = {}
       ELSE spc' = "done" /\ UNCHANGED <<batch, edge>>
    /\ UNCHANGED <<running, exitpc, cur, clientMap, jobVars, sock, netVars, dead>>

\* Variant: one event is handled for each epoll_wait
Handled_First(f) == batch' = {} /\ spc' = "poll"

\* Go on with the events that are left
Handled(f) == /\ batch' = batch \ {f}
              /\ spc' = IF batch = {f} THEN "poll" ELSE "batch"

\* accept takes the lowest free descriptor, if there is one; ADD reports what has
\* arrived already
ServerAcceptNewConnect ==
    /\ spc = "batch" /\ Listener \in batch
    /\ Handled(Listener)
    /\ LET free == {f \in Fds : sock[f] = NoConn} IN
       \/ /\ free = {}
          /\ UNCHANGED <<link, sock, edge, clientMap>>
       \/ \E c \in Conns, f \in free :
          /\ link[c] = "backlog" /\ \A g \in free : f <= g
          /\ link' = [link EXCEPT ![c] = "accepted"]
          /\ sock' = [sock EXCEPT ![f] = c]
          /\ edge' = IF Readable(c) THEN edge \cup {f} ELSE edge
          /\ ServerClientMapAddNode(f)
    /\ UNCHANGED <<running, exitpc, cur, jobVars, gone, sent, recvd, out, dead>>

\* Variants: the entry of the client map is left behind, the descriptor stays open
CloseFd_KeepsNode(f) == /\ sock' = [sock EXCEPT ![f] = NoConn]
                        /\ edge' = edge \ {f}
                        /\ UNCHANGED clientMap

CloseFd_Leaks(f) == /\ UNCHANGED sock
                    /\ edge' = edge \ {f}
                    /\ ServerClientMapDelByFd(f)

\* EPOLL_CTL_DEL, close, ServerClientMapDelByFd
CloseFd(f) == /\ sock' = [sock EXCEPT ![f] = NoConn]
              /\ edge' = edge \ {f}
              /\ ServerClientMapDelByFd(f)

\* An event with EPOLLIN: call RecvMsg
RecvBegins(f) ==
    /\ spc = "batch" /\ f \in batch \ {Listener}
    /\ spc' = "recv" /\ cur' = f
    /\ UNCHANGED <<running, exitpc, batch, clientMap, jobVars, kernVars, netVars, dead>>

\* An event without EPOLLIN but with EPOLLERR or EPOLLHUP: close
ErrorEvent(f) ==
    /\ "error" \in Env
    /\ spc = "batch" /\ f \in batch \ {Listener}
    /\ CloseFd(f)
    /\ Handled(f)
    /\ UNCHANGED <<running, exitpc, cur, jobVars, netVars, dead>>

\* Variant: the handler is called after every piece
FrameComplete_Always(c) == TRUE
FrameComplete(c) == recvd[c] % 2 = 1

(***************************************************************************)
(* RecvMsg takes what is there; when there is nothing it tries again, for  *)
(* as long as it takes, so no step is modelled for EAGAIN.  Only one       *)
(* message is received for one event.                                      *)
(***************************************************************************)
Recv == spc = "recv" /\ recvd[sock[cur]] < sent[sock[cur]]
TakePiece == recvd' = [recvd EXCEPT ![sock[cur]] = @ + 1]

RecvPiece ==
    /\ Recv /\ ~FrameComplete(sock[cur]) /\ Kind(Current) # "long"
    /\ TakePiece
    /\ UNCHANGED <<procVars, jobVars, kernVars, link, gone, sent, out, dead>>

\* The head says the content is too long
RecvTooLong ==
    /\ Recv /\ Kind(Current) = "long"
    /\ TakePiece
    /\ CloseFd(cur) /\ Handled(cur)
    /\ job' = [job EXCEPT ![Current] = "refused"]
    /\ UNCHANGED <<running, exitpc, cur, jobFd, link, gone, sent, out, dead>>

NothingMore(c) == recvd[c] = sent[c] /\ c \in gone

\* recv returns 0: nothing more will come
RecvPeerClosed ==
    /\ spc = "recv" /\ NothingMore(sock[cur])
    /\ CloseFd(cur) /\ Handled(cur)
    /\ UNCHANGED <<running, exitpc, cur, jobVars, netVars, dead>>

\* ServerHandleMsg, _ServerMsgExecCmd: hand the command and the number of its
\* descriptor to the pool
ServerMsgExecCmd ==
    /\ Recv /\ FrameComplete(sock[cur]) /\ Kind(Current) = "cmd"
    /\ TakePiece
    /\ \/ /\ job' = [job EXCEPT ![Current] = "queued"]
          /\ jobFd' = [jobFd EXCEPT ![Current] = cur]
       \/ /\ "full" \in Env
          /\ job' = [job EXCEPT ![Current] = "refused"]
          /\ UNCHANGED jobFd
    /\ Handled(cur)
    /\ UNCHANGED <<running, exitpc, cur, clientMap, kernVars, link, gone, sent,
                   out, dead>>

\* ServerHandleMsg, _ServerDefaultMsgHandler: fill the reply and send it
ServerDefaultMsgHandler ==
    /\ Recv /\ FrameComplete(sock[cur]) /\ Kind(Current) \in {"other", "short"}
    /\ TakePiece
    /\ \/ /\ Kind(Current) = "other"
          /\ job' = [job EXCEPT ![Current] = "head"]
          /\ jobFd' = [jobFd EXCEPT ![Current] = cur]
          /\ spc' = "reply" /\ UNCHANGED batch
       \/ /\ Kind(Current) = "short"
          /\ job' = [job EXCEPT ![Current] = "refused"]
          /\ UNCHANGED jobFd
          /\ Handled(cur)
    /\ UNCHANGED <<running, exitpc, cur, clientMap, kernVars, link, gone, sent,
                   out, dead>>

\* ... and come back from SendMsg, however it ended
DefaultMsgHandlerReturns ==
    /\ spc = "reply"
    /\ \A r \in Requests : Kind(r) = "other" => job[r] \notin Parts
    /\ Handled(cur)
    /\ UNCHANGED <<running, exitpc, cur, clientMap, jobVars, kernVars, netVars, dead>>

-----------------------------------------------------------------------------
Goto(r, pc) == job' = [job EXCEPT ![r] = pc]
Busy == {r \in Requests : job[r] \in Parts /\ Kind(r) = "cmd"}

\* _ServerMsgExecCmdFn on a worker of the pool, up to its SendMsg
ServerMsgExecCmdFn(r) ==
    /\ job[r] = "queued" /\ Cardinality(Busy) < PoolSize
    /\ \E pc \in {"head"} \cup (IF "popen" \in Env THEN {"failed"} ELSE {}) : Goto(r, pc)
    /\ UNCHANGED <<procVars, jobFd, kernVars, netVars, dead>>

\* Variant: all commands share one argument block
ReplyFd_Shared(r) == cur
ReplyFd(r) == jobFd[r]               \* cmdArg->Fd, Fd of the default handler

(***************************************************************************)
(* SendMsg, one send: to whatever connection is now behind the number.     *)
(***************************************************************************)
SendPart(r) ==
    /\ job[r] \in Parts
    /\ sock[ReplyFd(r)] \in Conns \ gone
    /\ out' = [out EXCEPT ![sock[ReplyFd(r)]] = Append(@, <<r, job[r]>>)]
    /\ Goto(r, Then(job[r]))
    /\ UNCHANGED <<procVars, jobFd, kernVars, link, gone, sent, recvd, dead>>

\* The descriptor is closed (EBADF), or the peer's reset is reported
SendFails(r) ==
    /\ job[r] \in Parts
    /\ sock[ReplyFd(r)] \notin Conns \ gone
    /\ Goto(r, "failed")
    /\ UNCHANGED <<procVars, jobFd, kernVars, netVars, dead>>

\* The peer has closed but its reset has not arrived: the data is dropped
SendUnseen(r) ==
    /\ job[r] \in Parts
    /\ sock[ReplyFd(r)] \in gone
    /\ Goto(r, Then(job[r]))
    /\ UNCHANGED <<procVars, jobFd, kernVars, netVars, dead>>

\* The reset has arrived: send raises SIGPIPE, which nothing in the program
\* ignores or handles, before it returns EPIPE
SendKills(r) ==
    /\ job[r] \in Parts
    /\ sock[ReplyFd(r)] \in gone
    /\ dead' = TRUE
    /\ UNCHANGED <<procVars, jobVars, kernVars, netVars>>

-----------------------------------------------------------------------------
ServerStep == \/ ServerCreateFd \/ EpollWait \/ ServerAcceptNewConnect
              \/ \E f \in Fds : RecvBegins(f) \/ ErrorEvent(f)
              \/ RecvPiece \/ RecvTooLong \/ RecvPeerClosed
              \/ ServerMsgExecCmd \/ ServerDefaultMsgHandler
              \/ DefaultMsgHandlerReturns

JobStep(r) == \/ ServerMsgExecCmdFn(r)
              \/ SendPart(r) \/ SendFails(r) \/ SendUnseen(r) \/ SendKills(r)

ClientStep(c) == \/ ClientConnect(c) \/ ClientSend(c)
                 \/ ClientSendsRest(c) \/ ClientLeaves(c)

Next ==
    /\ ~dead
    /\ \/ ServerProcInit \/ ServerProcExit \/ ServerProcJoin \/ ServerStep
       \/ \E r \in Requests : JobStep(r)
       \/ \E c \in Conns : ClientStep(c)

(***************************************************************************)
(* Server thread, joining thread and workers are ordinary threads: what    *)
(* they can do they do.  A client sends the rest of a frame it has begun   *)
(* (SendMsg does not stop in the middle); nothing makes it send or leave.  *)
(***************************************************************************)
Fairness ==
    /\ WF_vars(~dead /\ ServerStep)
    /\ WF_vars(~dead /\ ServerProcJoin)
    /\ \A r \in Requests : WF_vars(~dead /\ JobStep(r))
    /\ \A c \in Conns : WF_vars(~dead /\ ClientSendsRest(c))

Spec == Init /\ [][Next]_vars
FairSpec == Spec /\ Fairness

-----------------------------------------------------------------------------
(***************************************************************************)
(* Properties.                                                             *)
(***************************************************************************)
\* Every variable holds a value of its kind.
TypeOK ==
    /\ running \in BOOLEAN /\ exitpc \in {"no", "joining", "joined"}
    /\ spc \in {"unborn", "setup", "poll", "batch", "recv", "reply", "done"}
    /\ batch \subseteq Fds \cup {Listener} /\ cur \in Fds \cup {Listener}
    /\ clientMap \in Seq(Fds)
    /\ job \in [Requests -> JobPcs] /\ jobFd \in [Requests -> Fds \cup {Listener}]
    /\ sock \in [Fds -> Conns \cup {NoConn}] /\ edge \subseteq Fds
    /\ link \in [Conns -> {"idle", "backlog", "accepted"}] /\ gone \subseteq Conns
    /\ sent \in [Conns -> Nat] /\ recvd \in [Conns -> Nat]
    /\ \A c \in Conns : recvd[c] <= sent[c] /\ sent[c] <= 2 * MaxReqs(c)
    /\ out \in [Conns -> Seq(Requests \X Parts)]
    /\ dead \in BOOLEAN

\* The client map, from which the statistics are printed, lists each open client
\* descriptor once, whatever way connections end and numbers are reused.
ClientMapAgrees ==
    exitpc # "joined" => /\ Range(clientMap) = {f \in Fds : sock[f] # NoConn}
                         /\ NoRepeats(clientMap)

\* No request is executed or answered twice: a part of a reply is sent once at
\* most, to anybody.
SentOnce == \A c, d \in Conns : \A i \in DOMAIN out[c], j \in DOMAIN out[d] :
    out[c][i] = out[d][j] => c = d /\ i = j

\* A reply goes to the client that sent the request ("call server to exec this cmd
\* and get reply"), although the worker only has the descriptor's number.
RepliesToSender ==
    \A c \in Conns : \A i \in DOMAIN out[c] : out[c][i][1][1] = c

\* What a client receives is a sequence of whole frames, the last perhaps not
\* complete yet: parts of two replies are not mixed.
FramesWhole ==
    \A c \in Conns : \A i \in DOMAIN out[c] :
        IF i > 1 /\ out[c][i - 1][2] # "tail"
        THEN /\ out[c][i][1] = out[c][i - 1][1]
             /\ <<out[c][i - 1][2], out[c][i][2]>> \in {<<"head", "cont">>, <<"cont", "tail">>}
        ELSE out[c][i][2] = "head"

\* A request that was sent is answered, unless it could not be handled, its client
\* has left or the server is being stopped.
RequestAnswered ==
    \A r \in Requests :
        (link[r[1]] = "accepted" /\ sent[r[1]] >= 2 * r[2])
            ~> \/ Answered(r) \/ job[r] \in {"failed", "refused"} \/ r[1] \in gone
               \/ exitpc # "no"

\* The descriptor of a client that has left is closed in the end.
GoneForgotten ==
    \A c \in Conns :
        (link[c] = "accepted" /\ c \in gone) ~> (FdsOf(c) = {} \/ exitpc # "no")

\* ServerProcExit comes back: the thread it joins sees Running and ends.
ExitJoins == exitpc = "joining" ~> exitpc = "joined"
=============================================================================
