----------------------------- MODULE ServerProofs -----------------------------
(***************************************************************************)
(* The server, proved for any number of clients, descriptors, workers and  *)
(* requests of any kind: the client map and the execution of commands      *)
(* whatever the clients do, the replies for clients that wait for them.    *)
(***************************************************************************)
EXTENDS Server, TLAPS

(***************************************************************************)
(* The sequence without one of its elements.                               *)
(***************************************************************************)
LEMMA FirstIs ==
    ASSUME NEW C, NEW s \in Seq(C), NoRepeats(s), NEW k \in 1..Len(s)
    PROVE  First(s, s[k]) = k
BY DEF First, NoRepeats

LEMMA RemovedIs ==
    ASSUME NEW C, NEW s \in Seq(C), NoRepeats(s), NEW n
    PROVE  \/ /\ \A i \in 1..Len(s) : s[i] # n
              /\ Removed(s, n) = s
           \/ \E k \in 1..Len(s) : s[k] = n /\ Removed(s, n) = Without(s, k)
BY FirstIs DEF Removed

\* It holds the others, each once
LEMMA RemovedHolds ==
    ASSUME NEW C, NEW s \in Seq(C), NoRepeats(s), NEW n
    PROVE  /\ Removed(s, n) \in Seq(C) /\ NoRepeats(Removed(s, n))
           /\ Range(Removed(s, n)) = Range(s) \ {n}
<1>1. CASE \A i \in 1..Len(s) : s[i] # n
  BY <1>1 DEF Removed, Range
<1>2. ASSUME NEW k \in 1..Len(s), s[k] = n, Removed(s, n) = Without(s, k)
      PROVE  /\ Removed(s, n) \in Seq(C) /\ NoRepeats(Removed(s, n))
             /\ Range(Removed(s, n)) = Range(s) \ {n}
  <2> DEFINE t == Without(s, k)
  <2>1. /\ Len(s) \in Nat /\ Len(s) > 0 /\ Len(t) = Len(s) - 1
        /\ \A i \in 1..Len(t) : t[i] = IF i < k THEN s[i] ELSE s[i + 1]
    BY DEF Without
  <2>2. t \in Seq(C)
    BY <2>1 DEF Without
  <2>3. NoRepeats(t)
    BY <2>1 DEF NoRepeats
  <2>4. ASSUME NEW i \in 1..Len(t) PROVE t[i] # n /\ \E j \in 1..Len(s) : s[j] = t[i]
    BY <1>2, <2>1 DEF NoRepeats
  <2>5. ASSUME NEW i \in 1..Len(s), s[i] # n PROVE \E j \in 1..Len(t) : t[j] = s[i]
    <3>1. CASE i < k
      BY <2>1, <3>1
    <3>2. CASE i > k
      <4>1. i - 1 \in 1..Len(t) /\ t[i - 1] = s[i]
        BY <2>1, <3>2
      <4> QED BY <4>1
    <3> QED BY <1>2, <2>5, <3>1, <3>2
  <2> HIDE DEF t
  <2>6. Range(t) = Range(s) \ {n}
    <3>1. \A i \in 1..Len(t) : t[i] \in Range(s) \ {n}
      BY <2>4 DEF Range
    <3>2. \A i \in 1..Len(s) : s[i] # n => s[i] \in Range(t)
      BY <2>2, <2>5 DEF Range
    <3> QED BY <2>2, <3>1, <3>2 DEF Range
  <2> QED BY <1>2, <2>2, <2>3, <2>6 DEF t
<1> QED BY <1>1, <1>2, RemovedIs

(***************************************************************************)
(* The inductive invariant.  What the kernel reports and what is left of it*)
(* are open descriptors; a request has a job only once it was received; a  *)
(* part of a reply was sent only if its job is past it.                    *)
(***************************************************************************)
Taken == {f \in Fds : sock[f] # NoConn}

EventsAreOpen ==
    /\ edge \subseteq Taken /\ batch \ {Listener} \subseteq Taken
    /\ spc = "recv" => cur \in batch \ {Listener}
    /\ spc = "unborn" => Taken = {}
    /\ exitpc = "joined" => spc = "done"

JobsReceived ==
    \A c \in Conns : \A k \in 1..MaxReqs(c) :
        \/ job[<<c, k>>] = "none" \/ recvd[c] >= 2 * k
        \/ Kind(<<c, k>>) = "long" /\ job[<<c, k>>] = "refused"

PastPart(part) == CASE part = "head" -> {"cont", "tail", "done", "failed"}
                    [] part = "cont" -> {"tail", "done", "failed"}
                    [] part = "tail" -> {"done", "failed"}

PartsPast ==
    \A c \in Conns : \A i \in DOMAIN out[c] :
        job[out[c][i][1]] \in PastPart(out[c][i][2])

ServerInv ==
    /\ TypeOK /\ EventsAreOpen /\ ClientMapAgrees
    /\ JobsReceived /\ PartsPast /\ SentOnce

(***************************************************************************)
(* Clients that wait for the reply before they send or leave, on           *)
(* connections that do not fail.                                           *)
(***************************************************************************)
Polite == {"hurry", "pipeline", "error"} \cap Env = {}

Working(r) == job[r] \in {"queued"} \cup Parts

OneFdEach ==
    /\ \A f \in Taken : link[sock[f]] = "accepted"
    /\ \A f, g \in Taken : sock[f] = sock[g] => f = g

FdsStay == \A r \in Requests : Working(r) => jobFd[r] \in Fds /\ sock[jobFd[r]] = r[1]

\* Nobody goes before the last request, or sends another one, but with an answer
Waiting ==
    /\ \A c \in gone : sent[c] % 2 = 0 /\ Settled(c)
    /\ \A c \in Conns : \A k \in 1..MaxReqs(c) : 2 * k < sent[c] => Answered(<<c, k>>)

\* Where a reply that is being sent is
Last(s) == s[Len(s)]
Frames ==
    /\ \A c \in Conns : out[c] # <<>> /\ Last(out[c])[2] # "tail" =>
           job[Last(out[c])[1]] = Then(Last(out[c])[2])
    /\ \A r \in Requests : job[r] \in {"cont", "tail"} =>
           /\ out[r[1]] # <<>> /\ Last(out[r[1]])[1] = r
           /\ Last(out[r[1]])[2] # "tail"

PoliteInv ==
    /\ ServerInv /\ OneFdEach /\ FdsStay /\ Waiting
    /\ RepliesToSender /\ FramesWhole /\ Frames

-----------------------------------------------------------------------------
LEMMA RequestForm ==
    /\ \A r \in Requests : \E c \in Conns : \E k \in 1..MaxReqs(c) : r = <<c, k>>
    /\ \A c \in Conns : \A k \in 1..MaxReqs(c) : <<c, k>> \in Requests
BY DEF Requests

\* What RecvMsg is at is the next request of the connection it receives from
LEMMA CurrentForm ==
    ASSUME TypeOK, EventsAreOpen, Recv
    PROVE  /\ cur \in Fds /\ sock[cur] \in Conns /\ cur \in Taken
           /\ Current \in Requests /\ Current[1] = sock[cur]
           /\ Current[2] \in 1..MaxReqs(sock[cur]) /\ Current = <<Current[1], Current[2]>>
           /\ 2 * Current[2] = recvd[sock[cur]] + (IF FrameComplete(sock[cur]) THEN 1 ELSE 2)
<1> DEFINE c == sock[cur]
           n == recvd[c]
<1>1. cur \in Fds /\ c \in Conns /\ cur \in Taken
  BY DEF EventsAreOpen, Recv, Taken, TypeOK
<1>2. n \in Nat /\ n < sent[c] /\ sent[c] \in Nat /\ sent[c] <= 2 * MaxReqs(c)
      /\ MaxReqs(c) \in Nat
  BY <1>1, BoundsAssumption DEF TypeOK, Recv
<1>3. n \div 2 + 1 \in 1..MaxReqs(c)
      /\ 2 * (n \div 2 + 1) = n + (IF n % 2 = 1 THEN 1 ELSE 2)
  BY <1>2
<1> QED BY <1>1, <1>3, RequestForm DEF Current, FrameComplete

LEMMA CloseFdTypes ==
    ASSUME TypeOK, ClientMapAgrees, exitpc # "joined", NEW f \in Fds, CloseFd(f)
    PROVE  /\ sock' \in [Fds -> Conns \cup {NoConn}] /\ edge' \subseteq Fds
           /\ clientMap' \in Seq(Fds)
BY RemovedHolds DEF TypeOK, ClientMapAgrees, CloseFd, ServerClientMapDelByFd

LEMMA Even ==
    ASSUME NEW n \in Nat, NEW m \in Nat
    PROVE  /\ n % 2 = 0 /\ n < 2 * m => n + 2 <= 2 * m
           /\ n % 2 = 1 /\ n <= 2 * m => n + 1 <= 2 * m
OBVIOUS

\* One case per action: what it changes has its type
LEMMA TypeStep ==
    ASSUME ServerInv, Next
    PROVE  TypeOK'
<1> USE DEF ServerInv
<1>1. CASE ServerProcInit
  BY <1>1 DEF TypeOK, ServerProcInit, ServerClientMapInit, jobVars, kernVars, netVars
<1>2. CASE ServerCreateFd
  BY <1>2 DEF TypeOK, ServerCreateFd, jobVars, kernVars, netVars
<1>3. CASE ServerProcExit
  BY <1>3 DEF TypeOK, ServerProcExit, jobVars, kernVars, netVars
<1>4. CASE ServerProcJoin
  BY <1>4 DEF TypeOK, ServerProcJoin, ServerClientMapExit, jobVars, kernVars, netVars
<1>5. CASE EpollWait
  BY <1>5 DEF TypeOK, EpollWait, jobVars, netVars
<1>6. CASE ServerAcceptNewConnect
  <2>1. /\ spc' \in {"poll", "batch"} /\ batch' \subseteq batch
        /\ UNCHANGED <<running, exitpc, cur, jobVars, gone, sent, recvd, out, dead>>
    BY <1>6 DEF ServerAcceptNewConnect, Handled
  <2>2. CASE UNCHANGED <<link, sock, edge, clientMap>>
    BY <2>1, <2>2 DEF TypeOK, jobVars
  <2>3. ASSUME NEW c \in Conns, NEW f \in Fds,
               link' = [link EXCEPT ![c] = "accepted"], sock' = [sock EXCEPT ![f] = c],
               edge' = IF Readable(c) THEN edge \cup {f} ELSE edge,
               clientMap' = Append(clientMap, f)
        PROVE  TypeOK'
    BY <2>1, <2>3 DEF TypeOK, jobVars
  <2> QED BY <1>6, <2>2, <2>3 DEF ServerAcceptNewConnect, ServerClientMapAddNode
<1>7. ASSUME NEW f \in Fds, RecvBegins(f) PROVE TypeOK'
  BY <1>7 DEF TypeOK, RecvBegins, jobVars, kernVars, netVars
<1>8. ASSUME NEW f \in Fds, ErrorEvent(f) PROVE TypeOK'
  <2>1. spc' \in {"poll", "batch"} /\ batch' \subseteq batch
    BY <1>8 DEF ErrorEvent, Handled
  <2>2. /\ sock' \in [Fds -> Conns \cup {NoConn}] /\ edge' \subseteq Fds
        /\ clientMap' \in Seq(Fds)
    BY <1>8, CloseFdTypes DEF ErrorEvent, EventsAreOpen
  <2>3. UNCHANGED <<running, exitpc, cur, job, jobFd, link, gone, sent, recvd, out, dead>>
    BY <1>8 DEF ErrorEvent, jobVars, netVars
  <2> QED BY <2>1, <2>2, <2>3 DEF TypeOK
<1>9. ASSUME RecvPiece PROVE TypeOK'
  <2>1. recvd' \in [Conns -> Nat] /\ \A c \in Conns : recvd'[c] <= sent[c]
    BY <1>9, CurrentForm DEF TypeOK, RecvPiece, Recv, TakePiece
  <2>2. UNCHANGED <<procVars, jobVars, kernVars, link, gone, sent, out, dead>>
    BY <1>9 DEF RecvPiece
  <2> QED BY <2>1, <2>2 DEF TypeOK, procVars, jobVars, kernVars
<1>10. ASSUME RecvTooLong PROVE TypeOK'
  <2>1. cur \in Fds /\ sock[cur] \in Conns /\ Current \in Requests
    BY <1>10, CurrentForm DEF RecvTooLong
  <2>2. recvd' \in [Conns -> Nat] /\ \A c \in Conns : recvd'[c] <= sent[c]
    BY <1>10, <2>1 DEF TypeOK, RecvTooLong, Recv, TakePiece
  <2>3. /\ sock' \in [Fds -> Conns \cup {NoConn}] /\ edge' \subseteq Fds
        /\ clientMap' \in Seq(Fds)
    BY <1>10, <2>1, CloseFdTypes DEF RecvTooLong, Recv, EventsAreOpen
  <2>4. spc' \in {"poll", "batch"} /\ batch' \subseteq batch
    BY <1>10 DEF RecvTooLong, Handled
  <2>5. job' \in [Requests -> JobPcs]
    <3>1. job' = [job EXCEPT ![Current] = "refused"]
      BY <1>10 DEF RecvTooLong
    <3> QED BY <3>1, <2>1 DEF TypeOK, JobPcs
  <2>6. UNCHANGED <<running, exitpc, cur, jobFd, link, gone, sent, out, dead>>
    BY <1>10 DEF RecvTooLong
  <2> QED BY <2>2, <2>3, <2>4, <2>5, <2>6 DEF TypeOK
<1>11. ASSUME RecvPeerClosed PROVE TypeOK'
  <2>1. cur \in Fds
    BY <1>11 DEF RecvPeerClosed, EventsAreOpen, Taken
  <2>2. /\ sock' \in [Fds -> Conns \cup {NoConn}] /\ edge' \subseteq Fds
        /\ clientMap' \in Seq(Fds)
    BY <1>11, <2>1, CloseFdTypes DEF RecvPeerClosed, EventsAreOpen
  <2>3. spc' \in {"poll", "batch"} /\ batch' \subseteq batch
    BY <1>11 DEF RecvPeerClosed, Handled
  <2>4. UNCHANGED <<running, exitpc, cur, jobVars, netVars, dead>>
    BY <1>11 DEF RecvPeerClosed
  <2> QED BY <2>2, <2>3, <2>4 DEF TypeOK, jobVars, netVars
<1>12. ASSUME ServerMsgExecCmd \/ ServerDefaultMsgHandler PROVE TypeOK'
  <2>1. /\ Recv /\ TakePiece
        /\ UNCHANGED <<running, exitpc, cur, clientMap, kernVars, link, gone, sent, out, dead>>
    BY <1>12 DEF ServerMsgExecCmd, ServerDefaultMsgHandler
  <2>2. /\ cur \in Fds /\ sock[cur] \in Conns /\ Current \in Requests
    BY <2>1, CurrentForm
  <2>3. recvd' \in [Conns -> Nat] /\ \A c \in Conns : recvd'[c] <= sent[c]
    BY <2>1, <2>2 DEF TypeOK, Recv, TakePiece
  <2>4. spc' \in {"poll", "batch", "reply"} /\ batch' \subseteq batch
    BY <1>12 DEF ServerMsgExecCmd, ServerDefaultMsgHandler, Handled
  <2>5. \E pc \in {"queued", "refused", "head"} : job' = [job EXCEPT ![Current] = pc]
    BY <1>12 DEF ServerMsgExecCmd, ServerDefaultMsgHandler
  <2>6. jobFd' = [jobFd EXCEPT ![Current] = cur] \/ jobFd' = jobFd
    BY <1>12 DEF ServerMsgExecCmd, ServerDefaultMsgHandler
  <2>7. job' \in [Requests -> JobPcs] /\ jobFd' \in [Requests -> Fds \cup {Listener}]
    BY <2>2, <2>5, <2>6 DEF TypeOK, JobPcs, Parts
  <2> QED BY <2>1, <2>3, <2>4, <2>7 DEF TypeOK, kernVars
<1>13. CASE DefaultMsgHandlerReturns
  BY <1>13 DEF TypeOK, DefaultMsgHandlerReturns, Handled, jobVars, kernVars, netVars
<1>14. ASSUME NEW r \in Requests, JobStep(r) PROVE TypeOK'
  <2>1. Then(job[r]) \in JobPcs \/ job[r] \notin Parts
    BY DEF Then, Parts, JobPcs
  <2>2. CASE ServerMsgExecCmdFn(r)
    BY <2>2 DEF TypeOK, ServerMsgExecCmdFn, Goto, JobPcs, Parts, procVars, kernVars, netVars
  <2>3. CASE SendPart(r)
    BY <2>1, <2>3 DEF TypeOK, SendPart, Goto, procVars, kernVars
  <2>4. CASE SendFails(r) \/ SendUnseen(r)
    BY <2>1, <2>4 DEF TypeOK, SendFails, SendUnseen, Goto, JobPcs, procVars, kernVars, netVars
  <2>5. CASE SendKills(r)
    BY <2>5 DEF TypeOK, SendKills, procVars, jobVars, kernVars, netVars
  <2> QED BY <1>14, <2>2, <2>3, <2>4, <2>5 DEF JobStep
<1>15. ASSUME NEW c \in Conns, ClientStep(c) PROVE TypeOK'
  <2>1. edge \cup FdsOf(c) \subseteq Fds
    BY DEF TypeOK, FdsOf
  <2>2. CASE ClientConnect(c)
    BY <2>2 DEF TypeOK, ClientConnect, procVars, jobVars, kernVars
  <2>3. CASE ClientSend(c)
    <3>1. sent[c] \in Nat /\ sent[c] + 2 <= 2 * MaxReqs(c) /\ recvd[c] <= sent[c]
      BY <2>3, BoundsAssumption, Even DEF ClientSend, TypeOK
    <3>2. PICK n \in {1, 2} : sent' = [sent EXCEPT ![c] = @ + n]
      BY <2>3 DEF ClientSend
    <3>3. sent' \in [Conns -> Nat] /\ \A d \in Conns : recvd[d] <= sent'[d] /\ sent'[d] <= 2 * MaxReqs(d)
      BY <3>1, <3>2, BoundsAssumption DEF TypeOK
    <3> QED BY <2>1, <2>3, <3>3 DEF TypeOK, ClientSend, Arrives, procVars, jobVars
  <2>4. CASE ClientSendsRest(c)
    <3>1. sent[c] \in Nat /\ sent[c] + 1 <= 2 * MaxReqs(c) /\ recvd[c] <= sent[c]
      <4>1. sent[c] \in Nat /\ MaxReqs(c) \in Nat /\ sent[c] % 2 = 1 /\ sent[c] <= 2 * MaxReqs(c)
        BY <2>4, BoundsAssumption DEF ClientSendsRest, TypeOK
      <4> QED BY <4>1, Even DEF TypeOK
    <3> QED BY <2>1, <2>4, <3>1 DEF TypeOK, ClientSendsRest, Arrives, procVars, jobVars
  <2>5. CASE ClientLeaves(c)
    BY <2>1, <2>5 DEF TypeOK, ClientLeaves, Arrives, procVars, jobVars
  <2> QED BY <1>15, <2>2, <2>3, <2>4, <2>5 DEF ClientStep
<1> QED BY <1>1, <1>2, <1>3, <1>4, <1>5, <1>6, <1>7, <1>8, <1>9, <1>10, <1>11, <1>12,
           <1>13, <1>14, <1>15 DEF Next, ServerStep

\* Descriptors that are reported are open
LEMMA EventsStep ==
    ASSUME ServerInv, Next
    PROVE  EventsAreOpen'
<1> USE DEF ServerInv
<1> DEFINE Same == UNCHANGED <<edge, sock, batch>>
<1>0. /\ Listener \notin Fds /\ NoConn \notin Conns
      /\ \A f \in Fds : sock[f] \in Conns \cup {NoConn}
  BY BoundsAssumption, ConnsAssumption DEF Listener, Fds, TypeOK
<1>1. CASE ServerProcInit
  BY <1>1 DEF EventsAreOpen, Taken, ServerProcInit, kernVars
<1>2. CASE ServerCreateFd \/ ServerProcExit
  BY <1>2 DEF EventsAreOpen, Taken, ServerCreateFd, ServerProcExit, kernVars
<1>3. CASE ServerProcJoin
  BY <1>3 DEF EventsAreOpen, Taken, ServerProcJoin, kernVars
<1>4. CASE EpollWait
  BY <1>4 DEF EventsAreOpen, Taken, EpollWait
<1>5. CASE ServerAcceptNewConnect
  <2>1. /\ spc = "batch" /\ spc' \in {"poll", "batch"} /\ batch' = batch \ {Listener}
        /\ UNCHANGED exitpc
    BY <1>5 DEF ServerAcceptNewConnect, Handled
  <2>2. /\ \A f \in Taken : f \in Taken'
        /\ edge' \subseteq edge \cup Taken' /\ exitpc # "joined"
    BY <1>0, <1>5, <2>1 DEF ServerAcceptNewConnect, Taken, TypeOK, EventsAreOpen
  <2> QED BY <2>1, <2>2 DEF EventsAreOpen
<1>6. ASSUME NEW f \in Fds, RecvBegins(f) PROVE EventsAreOpen'
  BY <1>6 DEF EventsAreOpen, Taken, RecvBegins, kernVars
<1>7. ASSUME NEW f \in Fds, CloseFd(f), Handled(f), UNCHANGED exitpc, spc # "done"
      PROVE  EventsAreOpen'
  BY <1>0, <1>7 DEF EventsAreOpen, Taken, CloseFd, Handled, TypeOK
<1>8. ASSUME NEW f \in Fds, ErrorEvent(f) PROVE EventsAreOpen'
  BY <1>7, <1>8 DEF ErrorEvent
<1>9. CASE RecvTooLong \/ RecvPeerClosed
  <2>1. /\ spc = "recv" /\ CloseFd(cur) /\ Handled(cur) /\ UNCHANGED exitpc
    BY <1>9 DEF RecvTooLong, RecvPeerClosed, Recv
  <2>2. cur \in Fds
    BY <2>1 DEF EventsAreOpen, Taken
  <2> QED BY <1>7, <2>1, <2>2
<1>10. CASE RecvPiece
  BY <1>10 DEF EventsAreOpen, Taken, RecvPiece, procVars, kernVars
<1>11. CASE ServerMsgExecCmd \/ ServerDefaultMsgHandler
  <2>1. /\ spc = "recv" /\ spc' \in {"poll", "batch", "reply"} /\ batch' \subseteq batch
        /\ UNCHANGED <<exitpc, kernVars>>
    BY <1>11 DEF ServerMsgExecCmd, ServerDefaultMsgHandler, Handled, Recv
  <2> QED BY <2>1 DEF EventsAreOpen, Taken, kernVars
<1>12. CASE DefaultMsgHandlerReturns
  BY <1>12 DEF EventsAreOpen, Taken, DefaultMsgHandlerReturns, Handled, kernVars
<1>13. ASSUME NEW r \in Requests, JobStep(r) PROVE EventsAreOpen'
  BY <1>13 DEF EventsAreOpen, Taken, JobStep, ServerMsgExecCmdFn, SendPart, SendFails,
     SendUnseen, SendKills, procVars, kernVars
<1>14. ASSUME NEW c \in Conns, ClientStep(c) PROVE EventsAreOpen'
  <2>1. FdsOf(c) \subseteq Taken
    BY <1>0 DEF FdsOf, Taken
  <2> QED BY <1>14, <2>1 DEF EventsAreOpen, Taken, ClientStep, ClientConnect, ClientSend,
          ClientSendsRest, ClientLeaves, Arrives, procVars, kernVars
<1> QED BY <1>1, <1>2, <1>3, <1>4, <1>5, <1>6, <1>8, <1>9, <1>10, <1>11, <1>12,
           <1>13, <1>14 DEF Next, ServerStep

\* The client map follows accept and close
LEMMA MapStep ==
    ASSUME ServerInv, Next
    PROVE  ClientMapAgrees'
<1> USE DEF ServerInv
<1>0. /\ NoConn \notin Conns /\ clientMap \in Seq(Fds)
      /\ \A f \in Fds : sock[f] \in Conns \cup {NoConn}
  BY ConnsAssumption DEF TypeOK
<1>1. ASSUME UNCHANGED <<exitpc, sock, clientMap>> PROVE ClientMapAgrees'
  BY <1>1 DEF ClientMapAgrees
<1>2. ASSUME NEW f \in Fds, CloseFd(f), UNCHANGED exitpc PROVE ClientMapAgrees'
  <2>1. SUFFICES ASSUME exitpc # "joined"
                 PROVE  Range(clientMap)' = Taken' /\ NoRepeats(clientMap')
    BY <1>2 DEF ClientMapAgrees, Taken
  <2>2. /\ clientMap' \in Seq(Fds) /\ NoRepeats(clientMap')
        /\ Range(clientMap)' = Range(clientMap) \ {f}
    <3>1. NoRepeats(clientMap) /\ clientMap' = Removed(clientMap, f)
      BY <1>2, <2>1 DEF CloseFd, ServerClientMapDelByFd, ClientMapAgrees
    <3> QED BY <1>0, <3>1, RemovedHolds
  <2>3. Taken' = Taken \ {f}
    BY <1>2 DEF CloseFd, Taken, TypeOK
  <2> QED BY <2>1, <2>2, <2>3 DEF ClientMapAgrees, Taken
<1>3. CASE ServerProcInit
  <2>1. clientMap' = <<>> /\ sock' = sock /\ Taken = {}
    BY <1>3 DEF ServerProcInit, ServerClientMapInit, kernVars, EventsAreOpen
  <2> QED BY <2>1 DEF ClientMapAgrees, NoRepeats, Range, Taken
<1>4. CASE ServerProcJoin
  BY <1>4 DEF ServerProcJoin, ClientMapAgrees
<1>5. CASE ServerProcExit
  BY <1>5 DEF ServerProcExit, ClientMapAgrees, kernVars
<1>6. CASE ServerAcceptNewConnect
  <2>1. CASE UNCHANGED <<sock, clientMap>>
    BY <1>1, <1>6, <2>1 DEF ServerAcceptNewConnect
  <2>2. ASSUME NEW c \in Conns, NEW f \in Fds, sock[f] = NoConn,
               sock' = [sock EXCEPT ![f] = c], clientMap' = Append(clientMap, f)
        PROVE  ClientMapAgrees'
    <3>1. exitpc # "joined" /\ exitpc' = exitpc
      BY <1>6 DEF ServerAcceptNewConnect, EventsAreOpen
    <3>2. /\ Len(clientMap') = Len(clientMap) + 1 /\ Len(clientMap) \in Nat
          /\ \A i \in 1..Len(clientMap') :
                clientMap'[i] = IF i <= Len(clientMap) THEN clientMap[i] ELSE f
      BY <1>0, <2>2
    <3>3. \A i \in 1..Len(clientMap) : clientMap[i] # f
      BY <1>0, <2>2, <3>1 DEF ClientMapAgrees, Range
    <3>4. NoRepeats(clientMap')
      BY <3>1, <3>2, <3>3 DEF NoRepeats, ClientMapAgrees
    <3>5. Range(clientMap)' = Range(clientMap) \cup {f}
      <4>1. \A i \in 1..Len(clientMap) : i \in 1..Len(clientMap') /\ clientMap'[i] = clientMap[i]
        BY <3>2
      <4>2. Len(clientMap') \in 1..Len(clientMap') /\ clientMap'[Len(clientMap')] = f
        BY <3>2
      <4> QED BY <1>0, <2>2, <3>2, <4>1, <4>2 DEF Range
    <3>6. Taken' = Taken \cup {f}
      BY <1>0, <2>2 DEF Taken, TypeOK
    <3> QED BY <3>1, <3>4, <3>5, <3>6 DEF ClientMapAgrees, Taken
  <2> QED BY <1>6, <2>1, <2>2 DEF ServerAcceptNewConnect, ServerClientMapAddNode
<1>7. ASSUME NEW f \in Fds, ErrorEvent(f) \/ RecvBegins(f) PROVE ClientMapAgrees'
  BY <1>1, <1>2, <1>7 DEF ErrorEvent, RecvBegins, kernVars
<1>8. CASE RecvTooLong \/ RecvPeerClosed
  <2>1. CloseFd(cur) /\ UNCHANGED exitpc /\ cur \in Fds
    BY <1>8 DEF RecvTooLong, RecvPeerClosed, Recv, EventsAreOpen, Taken
  <2> QED BY <1>2, <2>1
<1>9. CASE ServerCreateFd \/ EpollWait \/ RecvPiece \/ ServerMsgExecCmd
           \/ ServerDefaultMsgHandler \/ DefaultMsgHandlerReturns
  BY <1>1, <1>9 DEF ServerCreateFd, EpollWait, RecvPiece, ServerMsgExecCmd, kernVars,
     ServerDefaultMsgHandler, DefaultMsgHandlerReturns, procVars
<1>10. ASSUME NEW r \in Requests, JobStep(r) PROVE ClientMapAgrees'
  BY <1>1, <1>10 DEF JobStep, ServerMsgExecCmdFn, SendPart, SendFails, SendUnseen, SendKills,
     procVars, kernVars
<1>11. ASSUME NEW c \in Conns, ClientStep(c) PROVE ClientMapAgrees'
  BY <1>1, <1>11 DEF ClientStep, ClientConnect, ClientSend, ClientSendsRest, ClientLeaves,
     procVars, kernVars
<1> QED BY <1>3, <1>4, <1>5, <1>6, <1>7, <1>8, <1>9, <1>10, <1>11 DEF Next, ServerStep

\* Receiving counts before a job begins
LEMMA JobsStep ==
    ASSUME ServerInv, Next
    PROVE  JobsReceived'
<1> USE DEF ServerInv
<1>0. /\ \A c \in Conns : MaxReqs(c) \in Nat /\ recvd[c] \in Nat
      /\ \A c \in Conns : \A k \in 1..MaxReqs(c) : <<c, k>> \in Requests
      /\ job \in [Requests -> JobPcs] /\ recvd \in [Conns -> Nat]
  BY BoundsAssumption, RequestForm DEF TypeOK
<1>1. ASSUME UNCHANGED <<job, recvd>> PROVE JobsReceived'
  BY <1>1 DEF JobsReceived
<1>2. CASE RecvPiece
  <2>1. sock[cur] \in Conns /\ recvd' = [recvd EXCEPT ![sock[cur]] = @ + 1] /\ job' = job
    BY <1>2, CurrentForm DEF RecvPiece, TakePiece, jobVars
  <2>2. \A c \in Conns : recvd'[c] \in Nat /\ recvd'[c] >= recvd[c]
    BY <1>0, <2>1
  <2>3. ASSUME NEW c \in Conns, NEW k \in 1..MaxReqs(c), recvd[c] >= 2 * k
        PROVE  recvd'[c] >= 2 * k
    BY <1>0, <2>2, <2>3
  <2> QED BY <2>1, <2>3 DEF JobsReceived
<1>3. CASE RecvTooLong \/ ServerMsgExecCmd \/ ServerDefaultMsgHandler
  <2> DEFINE d == sock[cur]
             n == Current[2]
  <2>1. /\ Recv /\ recvd' = [recvd EXCEPT ![d] = @ + 1]
        /\ \E pc : job' = [job EXCEPT ![Current] = pc] /\ (RecvTooLong => pc = "refused")
        /\ RecvTooLong => Kind(Current) = "long"
        /\ RecvTooLong \/ FrameComplete(d)
    BY <1>3 DEF RecvTooLong, ServerMsgExecCmd, ServerDefaultMsgHandler, TakePiece
  <2>2. /\ d \in Conns /\ Current = <<d, n>> /\ n \in 1..MaxReqs(d) /\ Current \in Requests
        /\ 2 * n = recvd[d] + (IF FrameComplete(d) THEN 1 ELSE 2)
    BY <2>1, CurrentForm
  <2> HIDE DEF d, n
  <2>3. ASSUME NEW c \in Conns, NEW k \in 1..MaxReqs(c), <<c, k>> # Current
        PROVE  /\ job'[<<c, k>>] = job[<<c, k>>]
               /\ recvd[c] >= 2 * k => recvd'[c] >= 2 * k
    <3>1. job'[<<c, k>>] = job[<<c, k>>]
      BY <1>0, <2>1, <2>3
    <3>2. recvd'[c] \in {recvd[c], recvd[c] + 1}
      BY <1>0, <2>1, <2>2
    <3> QED BY <1>0, <3>1, <3>2
  <2>4. CASE FrameComplete(d)
    <3>1. recvd'[d] >= 2 * n
      BY <1>0, <2>1, <2>2, <2>4
    <3> QED BY <2>2, <2>3, <3>1 DEF JobsReceived
  <2>5. CASE RecvTooLong
    <3>1. job'[<<d, n>>] = "refused" /\ Kind(<<d, n>>) = "long"
      BY <1>0, <2>1, <2>2, <2>5
    <3> QED BY <2>2, <2>3, <3>1 DEF JobsReceived
  <2> QED BY <2>1, <2>4, <2>5
<1>4. ASSUME NEW r \in Requests, JobStep(r) PROVE JobsReceived'
  <2>1. CASE UNCHANGED job
    BY <1>1, <1>4, <2>1 DEF JobStep, ServerMsgExecCmdFn, SendPart, SendFails, SendUnseen,
       SendKills, netVars
  <2>2. CASE ~UNCHANGED job
    <3>1. /\ recvd' = recvd /\ job[r] \notin {"none", "refused"}
          /\ \E pc : job' = [job EXCEPT ![r] = pc]
      BY <1>4, <2>2 DEF JobStep, ServerMsgExecCmdFn, SendPart, SendFails, SendUnseen,
         SendKills, Goto, netVars, jobVars, Parts
    <3> QED BY <1>0, <3>1 DEF JobsReceived
  <2> QED BY <2>1, <2>2
<1>5. ASSUME NEW c \in Conns, ClientStep(c) PROVE JobsReceived'
  BY <1>1, <1>5 DEF ClientStep, ClientConnect, ClientSend, ClientSendsRest, ClientLeaves, jobVars
<1>6. CASE ServerProcInit \/ ServerProcExit \/ ServerProcJoin \/ ServerCreateFd \/ EpollWait
           \/ ServerAcceptNewConnect \/ RecvPeerClosed \/ DefaultMsgHandlerReturns
           \/ \E f \in Fds : RecvBegins(f) \/ ErrorEvent(f)
  BY <1>1, <1>6 DEF ServerProcInit, ServerProcExit, ServerProcJoin, ServerCreateFd, EpollWait,
     ServerAcceptNewConnect, RecvPeerClosed, DefaultMsgHandlerReturns, RecvBegins, ErrorEvent,
     jobVars, netVars
<1> QED BY <1>2, <1>3, <1>4, <1>5, <1>6 DEF Next, ServerStep

LEMMA PartsGoOn ==
    ASSUME ServerInv, NEW r \in Requests, NEW pc, job' = [job EXCEPT ![r] = pc], UNCHANGED out,
           \A part \in Parts : job[r] \in PastPart(part) => pc \in PastPart(part)
    PROVE  PartsPast' /\ SentOnce'
<1>1. \A c \in Conns : \A i \in DOMAIN out[c] : out[c][i][1] \in Requests /\ out[c][i][2] \in Parts
  BY DEF ServerInv, TypeOK
<1> QED BY <1>1 DEF ServerInv, PartsPast, SentOnce, TypeOK

LEMMA Receiving ==
    ASSUME ServerInv, Recv, FrameComplete(sock[cur]) \/ Kind(Current) = "long"
    PROVE  job[Current] \in {"none", "refused"}
<1>1. /\ sock[cur] \in Conns /\ Current[2] \in 1..MaxReqs(sock[cur])
      /\ Current = <<sock[cur], Current[2]>>
      /\ 2 * Current[2] = recvd[sock[cur]] + (IF FrameComplete(sock[cur]) THEN 1 ELSE 2)
  BY CurrentForm DEF ServerInv
<1>2. recvd[sock[cur]] \in Nat /\ MaxReqs(sock[cur]) \in Nat
  BY <1>1, BoundsAssumption DEF ServerInv, TypeOK
<1>3. ~(recvd[sock[cur]] >= 2 * Current[2])
  BY <1>1, <1>2
<1> QED BY <1>1, <1>3 DEF ServerInv, JobsReceived

\* No part is sent but by a job that is at it, and goes on
LEMMA SentStep ==
    ASSUME ServerInv, Next
    PROVE  PartsPast' /\ SentOnce'
<1> USE DEF ServerInv
<1>0. /\ job \in [Requests -> JobPcs] /\ out \in [Conns -> Seq(Requests \X Parts)]
      /\ \A c \in Conns : \A i \in DOMAIN out[c] : out[c][i][1] \in Requests /\ out[c][i][2] \in Parts
  BY DEF TypeOK
<1>1. ASSUME UNCHANGED <<job, out>> PROVE PartsPast' /\ SentOnce'
  BY <1>1 DEF PartsPast, SentOnce
<1>2. CASE RecvTooLong \/ ServerMsgExecCmd \/ ServerDefaultMsgHandler
  <2>1. /\ Recv
        /\ FrameComplete(sock[cur]) \/ Kind(Current) = "long"
        /\ \E pc : job' = [job EXCEPT ![Current] = pc]
        /\ UNCHANGED out
    BY <1>2 DEF RecvTooLong, ServerMsgExecCmd, ServerDefaultMsgHandler
  <2>2. Current \in Requests /\ job[Current] \in {"none", "refused"}
    BY <2>1, CurrentForm, Receiving
  <2>3. \A part \in Parts : job[Current] \notin PastPart(part)
    BY <2>2 DEF Parts, PastPart
  <2> QED BY <2>1, <2>2, <2>3, PartsGoOn
<1>3. ASSUME NEW r \in Requests, ServerMsgExecCmdFn(r) PROVE PartsPast' /\ SentOnce'
  <2>1. \A part \in Parts : job[r] \notin PastPart(part)
    BY <1>3 DEF ServerMsgExecCmdFn, Parts, PastPart
  <2> QED BY <1>3, <2>1, PartsGoOn DEF ServerMsgExecCmdFn, Goto, netVars
<1>4. ASSUME NEW r \in Requests, SendFails(r) \/ SendUnseen(r) PROVE PartsPast' /\ SentOnce'
  <2>1. job[r] \in Parts /\ UNCHANGED out
        /\ \E pc \in {"failed", Then(job[r])} : job' = [job EXCEPT ![r] = pc]
    BY <1>4 DEF SendFails, SendUnseen, Goto, netVars
  <2>2. \A part \in Parts : job[r] \in PastPart(part) =>
            "failed" \in PastPart(part) /\ Then(job[r]) \in PastPart(part)
    BY <2>1 DEF Parts, PastPart, Then
  <2> QED BY <2>1, <2>2, PartsGoOn
<1>5. ASSUME NEW r \in Requests, SendKills(r) PROVE PartsPast' /\ SentOnce'
  BY <1>1, <1>5 DEF SendKills, jobVars, netVars
<1>6. ASSUME NEW r \in Requests, SendPart(r) PROVE PartsPast' /\ SentOnce'
  <2> DEFINE part == job[r]
  <2>1. PICK d \in Conns : out' = [out EXCEPT ![d] = Append(@, <<r, part>>)]
    BY <1>6 DEF SendPart
  <2>2. part \in Parts /\ job' = [job EXCEPT ![r] = Then(part)]
    BY <1>6 DEF SendPart, Goto
  <2>3. /\ Then(part) \in PastPart(part) /\ part \notin PastPart(part)
        /\ \A p \in Parts : part \in PastPart(p) => Then(part) \in PastPart(p)
    BY <2>2 DEF Parts, PastPart, Then
  <2> HIDE DEF part
  <2>4. /\ \A c \in Conns \ {d} : out'[c] = out[c]
        /\ DOMAIN out'[d] = DOMAIN out[d] \cup {Len(out[d]) + 1}
        /\ Len(out[d]) + 1 \notin DOMAIN out[d]
        /\ out'[d][Len(out[d]) + 1] = <<r, part>>
        /\ \A i \in DOMAIN out[d] : out'[d][i] = out[d][i]
    BY <1>0, <2>1
  <2>5. \A c \in Conns : \A i \in DOMAIN out[c] : out[c][i] # <<r, part>>
    BY <2>2, <2>3 DEF PartsPast, part
  <2>6. \A c \in Conns : \A i \in DOMAIN out[c] : job'[out[c][i][1]] \in PastPart(out[c][i][2])
    BY <1>0, <2>2, <2>3 DEF PartsPast, part
  <2>7. job'[r] = Then(part)
    BY <1>0, <2>2
  <2>8. PartsPast'
    BY <2>3, <2>4, <2>6, <2>7 DEF PartsPast
  <2>9. SentOnce'
    BY <2>4, <2>5 DEF SentOnce
  <2> QED BY <2>8, <2>9
<1>7. ASSUME NEW c \in Conns, ClientStep(c) PROVE PartsPast' /\ SentOnce'
  BY <1>1, <1>7 DEF ClientStep, ClientConnect, ClientSend, ClientSendsRest, ClientLeaves, jobVars
<1>8. CASE ServerProcInit \/ ServerProcExit \/ ServerProcJoin \/ ServerCreateFd \/ EpollWait
           \/ ServerAcceptNewConnect \/ RecvPeerClosed \/ DefaultMsgHandlerReturns
           \/ RecvPiece \/ \E f \in Fds : RecvBegins(f) \/ ErrorEvent(f)
  BY <1>1, <1>8 DEF ServerProcInit, ServerProcExit, ServerProcJoin, ServerCreateFd, EpollWait,
     ServerAcceptNewConnect, RecvPeerClosed, DefaultMsgHandlerReturns, RecvPiece, RecvBegins,
     ErrorEvent, jobVars, netVars
<1> QED BY <1>2, <1>3, <1>4, <1>5, <1>6, <1>7, <1>8 DEF Next, ServerStep, JobStep

LEMMA ServerInit == Init => ServerInv
<1> SUFFICES ASSUME Init PROVE ServerInv
  OBVIOUS
<1>1. TypeOK
  <2>1. \A c \in Conns : MaxReqs(c) \in Nat /\ 0 <= 2 * MaxReqs(c)
    BY BoundsAssumption
  <2>2. <<>> \in Seq(Fds) /\ <<>> \in Seq(Requests \X Parts)
    OBVIOUS
  <2>3. /\ clientMap \in Seq(Fds) /\ out \in [Conns -> Seq(Requests \X Parts)]
        /\ job \in [Requests -> JobPcs] /\ jobFd \in [Requests -> Fds \cup {Listener}]
    BY <2>2 DEF Init, JobPcs
  <2>4. /\ sock \in [Fds -> Conns \cup {NoConn}] /\ link \in [Conns -> {"idle", "backlog", "accepted"}]
        /\ sent \in [Conns -> Nat] /\ recvd \in [Conns -> Nat]
        /\ \A c \in Conns : recvd[c] <= sent[c] /\ sent[c] <= 2 * MaxReqs(c)
    BY <2>1 DEF Init
  <2>5. /\ running \in BOOLEAN /\ exitpc \in {"no", "joining", "joined"} /\ dead \in BOOLEAN
        /\ spc \in {"unborn", "setup", "poll", "batch", "recv", "reply", "done"}
        /\ batch \subseteq Fds \cup {Listener} /\ cur \in Fds \cup {Listener}
        /\ edge \subseteq Fds /\ gone \subseteq Conns
    BY DEF Init
  <2> QED BY <2>3, <2>4, <2>5 DEF TypeOK
<1>2. EventsAreOpen /\ ClientMapAgrees
  BY DEF Init, EventsAreOpen, ClientMapAgrees, Taken, NoRepeats, Range
<1>3. JobsReceived
  BY RequestForm DEF Init, JobsReceived
<1>4. PartsPast /\ SentOnce
  BY DEF Init, PartsPast, SentOnce
<1> QED BY <1>1, <1>2, <1>3, <1>4 DEF ServerInv

LEMMA ServerInvHolds == Spec => []ServerInv
<1>1. ServerInv /\ Next => ServerInv'
  BY TypeStep, EventsStep, MapStep, JobsStep, SentStep DEF ServerInv
<1>2. ServerInv /\ UNCHANGED vars => ServerInv'
  BY DEF ServerInv, TypeOK, EventsAreOpen, Taken, ClientMapAgrees, JobsReceived, PartsPast,
     SentOnce, vars, procVars, jobVars, kernVars, netVars
<1> QED BY <1>1, <1>2, ServerInit, PTL DEF Spec

\* Every variable of the server keeps to its kind.
THEOREM ServerTypes == Spec => []TypeOK
BY ServerInvHolds, PTL DEF ServerInv

\* Whichever way connections end, while others are accepted on the same numbers, the
\* client map lists the open descriptors, each once.
THEOREM ClientMapRight == Spec => []ClientMapAgrees
BY ServerInvHolds, PTL DEF ServerInv

\* Whatever the clients do, no request is executed twice and no part of a reply is sent
\* twice, to whomever.
THEOREM NothingSentTwice == Spec => []SentOnce
BY ServerInvHolds, PTL DEF ServerInv

-----------------------------------------------------------------------------
(***************************************************************************)
(* Polite clients.  A request that is worked on is the last its client has *)
(* sent, and the client waits for it: so its descriptor stays.             *)
(***************************************************************************)
LEMMA WorkedOnIsLast ==
    ASSUME ServerInv, Waiting, NEW r \in Requests, Working(r)
    PROVE  /\ r[1] \in Conns /\ r[1] \notin gone /\ r = <<r[1], r[2]>> /\ r[2] \in Nat
           /\ sent[r[1]] = 2 * r[2] /\ recvd[r[1]] = sent[r[1]]
<1> DEFINE c == r[1]
           k == r[2]
<1>1. c \in Conns /\ k \in 1..MaxReqs(c) /\ r = <<c, k>>
  BY RequestForm
<1> HIDE DEF c, k
<1>2. sent[c] \in Nat /\ recvd[c] \in Nat /\ recvd[c] <= sent[c] /\ k \in Nat
  BY <1>1, BoundsAssumption DEF ServerInv, TypeOK
<1>3. recvd[c] >= 2 * k
  BY <1>1 DEF ServerInv, JobsReceived, Working, Parts
<1>4. ~Answered(r)
  <2>1. job[r] \notin PastPart("tail")
    BY DEF Working, Parts, PastPart
  <2> QED BY <1>1, <2>1 DEF Answered, ServerInv, PartsPast, Range, c
<1>5. c \notin gone
  BY <1>1, <1>2, <1>3, <1>4 DEF Waiting, Settled
<1>6. ~(2 * k < sent[c])
  BY <1>1, <1>4 DEF Waiting
<1> QED BY <1>1, <1>2, <1>3, <1>5, <1>6 DEF c, k

LEMMA WorkedOnAlone ==
    ASSUME ServerInv, Waiting, NEW r \in Requests, NEW q \in Requests, Working(r), Working(q),
           r[1] = q[1]
    PROVE  r = q
<1>1. r[2] \in Nat /\ q[2] \in Nat /\ 2 * r[2] = 2 * q[2]
  BY WorkedOnIsLast
<1>2. r[2] = q[2]
  BY <1>1
<1> QED BY <1>2, WorkedOnIsLast

\* The reply of a polite client's request does not fail on the way
LEMMA SendsReach ==
    ASSUME ServerInv, Waiting, FdsStay, NEW r \in Requests, job[r] \in Parts
    PROVE  Working(r) /\ ReplyFd(r) = jobFd[r] /\ sock[ReplyFd(r)] = r[1]
           /\ r[1] \in Conns \ gone
<1>1. Working(r)
  BY DEF Working
<1> QED BY <1>1, WorkedOnIsLast DEF FdsStay, ReplyFd

LEMMA FdsStep ==
    ASSUME Polite, PoliteInv, Next
    PROVE  FdsStay'
<1> USE DEF PoliteInv
<1>0. /\ sock \in [Fds -> Conns \cup {NoConn}] /\ NoConn \notin Conns
      /\ job \in [Requests -> JobPcs] /\ jobFd \in [Requests -> Fds \cup {Listener}]
      /\ \A r \in Requests : r[1] \in Conns
  BY ConnsAssumption, RequestForm DEF ServerInv, TypeOK
<1>1. ASSUME UNCHANGED <<job, jobFd, sock>> PROVE FdsStay'
  BY <1>1 DEF FdsStay, Working
<1>2. ASSUME NEW f \in Fds, CloseFd(f), UNCHANGED jobFd,
             \A r \in Requests : Working(r)' => Working(r) /\ r[1] # sock[f]
      PROVE  FdsStay'
  BY <1>0, <1>2 DEF FdsStay, CloseFd
<1>3. CASE ServerAcceptNewConnect
  <2>1. /\ job' = job /\ jobFd' = jobFd
        /\ \/ UNCHANGED sock
           \/ \E c \in Conns, f \in Fds : sock[f] = NoConn /\ sock' = [sock EXCEPT ![f] = c]
    BY <1>3 DEF ServerAcceptNewConnect, jobVars
  <2>2. ASSUME NEW r \in Requests, Working(r)' PROVE jobFd'[r] \in Fds /\ sock'[jobFd'[r]] = r[1]
    <3>1. r[1] \in Conns /\ r[1] # NoConn
      BY <1>0
    <3>2. Working(r)
      BY <2>1, <2>2 DEF Working
    <3>3. jobFd[r] \in Fds /\ sock[jobFd[r]] = r[1]
      BY <3>2 DEF FdsStay
    <3>4. sock'[jobFd[r]] = sock[jobFd[r]]
      BY <1>0, <2>1, <3>1, <3>3
    <3> QED BY <2>1, <3>3, <3>4
  <2> QED BY <2>2 DEF FdsStay
<1>4. ASSUME NEW f \in Fds, ErrorEvent(f) PROVE FdsStay'
  BY <1>4 DEF ErrorEvent, Polite
<1>5. CASE RecvTooLong
  <2> DEFINE c == sock[cur]
  <2>1. /\ CloseFd(cur) /\ job' = [job EXCEPT ![Current] = "refused"] /\ UNCHANGED jobFd
        /\ recvd[c] < sent[c] /\ Recv
    BY <1>5 DEF RecvTooLong, Recv
  <2>2. cur \in Fds /\ c \in Conns /\ Current \in Requests
    BY <2>1, CurrentForm DEF ServerInv
  <2>3. sent[c] \in Nat /\ recvd[c] # sent[c]
    BY <2>1, <2>2 DEF ServerInv, TypeOK
  <2>4. ASSUME NEW r \in Requests, Working(r)' PROVE Working(r) /\ r[1] # c
    <3>1. Working(r)
      BY <1>0, <2>1, <2>2, <2>4 DEF Working, Parts
    <3> QED BY <2>3, <3>1, WorkedOnIsLast
  <2> QED BY <1>2, <2>1, <2>2, <2>4
<1>6. CASE RecvPeerClosed
  <2>1. CloseFd(cur) /\ cur \in Fds /\ sock[cur] \in gone /\ UNCHANGED jobVars
    BY <1>6 DEF RecvPeerClosed, NothingMore, ServerInv, EventsAreOpen, Taken
  <2>2. ASSUME NEW r \in Requests, Working(r)' PROVE Working(r) /\ r[1] # sock[cur]
    BY <2>1, <2>2, WorkedOnIsLast DEF Working, jobVars
  <2> QED BY <1>2, <2>1, <2>2 DEF jobVars
<1>7. CASE ServerMsgExecCmd \/ ServerDefaultMsgHandler
  <2>1. /\ Recv /\ UNCHANGED sock
        /\ \/ /\ \E pc : job' = [job EXCEPT ![Current] = pc]
              /\ jobFd' = [jobFd EXCEPT ![Current] = cur]
           \/ /\ job' = [job EXCEPT ![Current] = "refused"]
              /\ UNCHANGED jobFd
    BY <1>7 DEF ServerMsgExecCmd, ServerDefaultMsgHandler, kernVars
  <2>2. cur \in Fds /\ Current \in Requests /\ Current[1] = sock[cur]
    BY <2>1, CurrentForm DEF ServerInv
  <2>3. \A r \in Requests \ {Current} : job'[r] = job[r] /\ jobFd'[r] = jobFd[r]
    BY <1>0, <2>1
  <2>4. job'[Current] \in {"queued"} \cup Parts => jobFd'[Current] = cur
    BY <1>0, <2>1, <2>2 DEF Parts
  <2>5. ASSUME NEW r \in Requests, Working(r)' PROVE jobFd'[r] \in Fds /\ sock'[jobFd'[r]] = r[1]
    <3>1. CASE r = Current
      BY <2>1, <2>2, <2>4, <2>5, <3>1 DEF Working
    <3>2. CASE r # Current
      BY <2>1, <2>3, <2>5, <3>2 DEF FdsStay, Working
    <3> QED BY <3>1, <3>2
  <2> QED BY <2>5 DEF FdsStay
<1>8. ASSUME NEW r \in Requests, JobStep(r) PROVE FdsStay'
  <2>1. /\ UNCHANGED <<jobFd, sock>>
        /\ \/ UNCHANGED job
           \/ Working(r) /\ \E pc : job' = [job EXCEPT ![r] = pc]
    BY <1>8 DEF JobStep, ServerMsgExecCmdFn, SendPart, SendFails, SendUnseen, SendKills, Goto,
       Working, kernVars, jobVars
  <2> QED BY <1>0, <2>1 DEF FdsStay, Working
<1>9. ASSUME NEW c \in Conns, ClientStep(c) PROVE FdsStay'
  BY <1>1, <1>9 DEF ClientStep, ClientConnect, ClientSend, ClientSendsRest, ClientLeaves,
     jobVars, kernVars
<1>10. CASE ServerProcInit \/ ServerProcExit \/ ServerProcJoin \/ ServerCreateFd \/ EpollWait
            \/ DefaultMsgHandlerReturns \/ RecvPiece \/ \E f \in Fds : RecvBegins(f)
  BY <1>1, <1>10 DEF ServerProcInit, ServerProcExit, ServerProcJoin, ServerCreateFd, EpollWait,
     DefaultMsgHandlerReturns, RecvPiece, RecvBegins, jobVars, kernVars
<1> QED BY <1>3, <1>4, <1>5, <1>6, <1>7, <1>8, <1>9, <1>10 DEF Next, ServerStep

LEMMA OneFdStep ==
    ASSUME PoliteInv, Next
    PROVE  OneFdEach'
<1> USE DEF PoliteInv
<1>0. /\ sock \in [Fds -> Conns \cup {NoConn}] /\ NoConn \notin Conns
      /\ link \in [Conns -> {"idle", "backlog", "accepted"}]
  BY ConnsAssumption DEF ServerInv, TypeOK
<1>1. ASSUME UNCHANGED <<link, sock>> PROVE OneFdEach'
  BY <1>1 DEF OneFdEach, Taken
<1>2. ASSUME NEW f \in Fds, CloseFd(f), UNCHANGED link PROVE OneFdEach'
  <2>1. Taken' \subseteq Taken /\ \A g \in Taken' : sock'[g] = sock[g]
    BY <1>0, <1>2 DEF CloseFd, Taken
  <2> QED BY <1>2, <2>1 DEF OneFdEach
<1>3. CASE ServerAcceptNewConnect
  <2>1. ASSUME NEW c \in Conns, NEW f \in Fds, link[c] = "backlog", sock[f] = NoConn,
               link' = [link EXCEPT ![c] = "accepted"], sock' = [sock EXCEPT ![f] = c]
        PROVE  OneFdEach'
    <3>1. Taken' = Taken \cup {f} /\ sock'[f] = c /\ \A g \in Taken : sock'[g] = sock[g]
      BY <1>0, <2>1 DEF Taken
    <3>2. ASSUME NEW g \in Taken PROVE sock[g] \in Conns /\ sock[g] # c /\ link'[sock[g]] = "accepted"
      <4>1. g \in Fds /\ sock[g] \in Conns /\ link[sock[g]] = "accepted"
        BY <1>0 DEF OneFdEach, Taken
      <4>2. link[c] # "accepted"
        BY <2>1
      <4> QED BY <1>0, <2>1, <4>1, <4>2
    <3>3. link'[c] = "accepted"
      BY <1>0, <2>1
    <3>4. \A g \in Taken' : link'[sock'[g]] = "accepted"
      BY <3>1, <3>2, <3>3
    <3>5. \A g, h \in Taken' : sock'[g] = sock'[h] => g = h
      BY <3>1, <3>2 DEF OneFdEach
    <3> QED BY <3>4, <3>5 DEF OneFdEach
  <2> QED BY <1>1, <1>3, <2>1 DEF ServerAcceptNewConnect
<1>4. ASSUME NEW f \in Fds, ErrorEvent(f) \/ RecvBegins(f) PROVE OneFdEach'
  BY <1>1, <1>2, <1>4 DEF ErrorEvent, RecvBegins, netVars, kernVars
<1>5. CASE RecvTooLong \/ RecvPeerClosed
  <2>1. CloseFd(cur) /\ UNCHANGED link /\ cur \in Fds
    BY <1>5 DEF RecvTooLong, RecvPeerClosed, Recv, ServerInv, EventsAreOpen, Taken, netVars
  <2> QED BY <1>2, <2>1
<1>6. ASSUME NEW c \in Conns, ClientConnect(c) PROVE OneFdEach'
  <2>1. link[c] = "idle" /\ link' = [link EXCEPT ![c] = "backlog"] /\ sock' = sock
    BY <1>6 DEF ClientConnect, kernVars
  <2> QED BY <1>0, <2>1 DEF OneFdEach, Taken
<1>7. ASSUME NEW c \in Conns, ClientSend(c) \/ ClientSendsRest(c) \/ ClientLeaves(c)
      PROVE  OneFdEach'
  BY <1>1, <1>7 DEF ClientSend, ClientSendsRest, ClientLeaves
<1>8. ASSUME NEW r \in Requests, JobStep(r) PROVE OneFdEach'
  BY <1>1, <1>8 DEF JobStep, ServerMsgExecCmdFn, SendPart, SendFails, SendUnseen, SendKills,
     kernVars, netVars
<1>9. CASE ServerProcInit \/ ServerProcExit \/ ServerProcJoin \/ ServerCreateFd \/ EpollWait
           \/ DefaultMsgHandlerReturns \/ RecvPiece \/ ServerMsgExecCmd
           \/ ServerDefaultMsgHandler
  BY <1>1, <1>9 DEF ServerProcInit, ServerProcExit, ServerProcJoin, ServerCreateFd, EpollWait,
     DefaultMsgHandlerReturns, RecvPiece, ServerMsgExecCmd, ServerDefaultMsgHandler, kernVars,
     netVars
<1> QED BY <1>3, <1>4, <1>5, <1>6, <1>7, <1>8, <1>9 DEF Next, ServerStep, ClientStep

\* A step sends a part of a reply or sends nothing
LEMMA OutSteps ==
    ASSUME Next
    PROVE  UNCHANGED out \/ \E r \in Requests : SendPart(r)
<1>1. ASSUME NEW r \in Requests, JobStep(r) PROVE UNCHANGED out \/ SendPart(r)
  BY <1>1 DEF JobStep, ServerMsgExecCmdFn, SendFails, SendUnseen, SendKills, netVars
<1>2. ASSUME NEW c \in Conns, ClientStep(c) PROVE UNCHANGED out
  BY <1>2 DEF ClientStep, ClientConnect, ClientSend, ClientSendsRest, ClientLeaves
<1>3. ASSUME ServerStep PROVE UNCHANGED out
  BY <1>3 DEF ServerStep, ServerCreateFd, EpollWait, ServerAcceptNewConnect, RecvBegins,
     ErrorEvent, RecvPiece, RecvTooLong, RecvPeerClosed, ServerMsgExecCmd,
     ServerDefaultMsgHandler, DefaultMsgHandlerReturns, netVars
<1>4. CASE ServerProcInit \/ ServerProcExit \/ ServerProcJoin
  BY <1>4 DEF ServerProcInit, ServerProcExit, ServerProcJoin, netVars
<1> QED BY <1>1, <1>2, <1>3, <1>4 DEF Next

\* What was answered stays so
LEMMA AnsweredStays ==
    ASSUME ServerInv, Next, NEW r \in Requests, Answered(r)
    PROVE  Answered(r)'
<1>0. r[1] \in Conns /\ out \in [Conns -> Seq(Requests \X Parts)]
  BY RequestForm DEF ServerInv, TypeOK
<1>1. CASE UNCHANGED out
  BY <1>1 DEF Answered
<1>2. ASSUME NEW q \in Requests, SendPart(q) PROVE Answered(r)'
  <2>1. PICK d \in Conns, part \in Parts : out' = [out EXCEPT ![d] = Append(@, <<q, part>>)]
    BY <1>2 DEF SendPart
  <2>2. PICK i \in DOMAIN out[r[1]] : out[r[1]][i] = <<r, "tail">>
    BY DEF Answered, Range
  <2>3. i \in DOMAIN out'[r[1]] /\ out'[r[1]][i] = <<r, "tail">>
    BY <1>0, <2>1, <2>2
  <2> QED BY <2>3 DEF Answered, Range
<1> QED BY <1>1, <1>2, OutSteps

LEMMA WaitingStep ==
    ASSUME Polite, PoliteInv, Next
    PROVE  Waiting'
<1> USE DEF PoliteInv
<1>0. /\ sent \in [Conns -> Nat] /\ gone \subseteq Conns
      /\ \A c \in Conns : \A k \in 1..MaxReqs(c) :
            k \in Nat /\ (Answered(<<c, k>>) => Answered(<<c, k>>)')
  BY AnsweredStays, RequestForm, BoundsAssumption DEF ServerInv, TypeOK
<1>1. CASE UNCHANGED <<gone, sent>>
  BY <1>0, <1>1 DEF Waiting, Settled
<1>2. ASSUME NEW c \in Conns, ClientSend(c) PROVE Waiting'
  <2>1. PICK n \in {1, 2} : sent' = [sent EXCEPT ![c] = @ + n]
    BY <1>2 DEF ClientSend
  <2>2. Settled(c) /\ c \notin gone /\ gone' = gone
    BY <1>2 DEF ClientSend, Open, Polite
  <2>3. ASSUME NEW k \in 1..MaxReqs(c), 2 * k < sent'[c] PROVE Answered(<<c, k>>)'
    <3>1. k \in Nat /\ sent[c] \in Nat /\ sent'[c] = sent[c] + n
      BY <1>0, <2>1
    <3>2. 2 * k - 1 <= sent[c]
      BY <2>3, <3>1
    <3> QED BY <1>0, <2>2, <3>2 DEF Settled
  <2>4. \A d \in Conns \ {c} : sent'[d] = sent[d]
    BY <1>0, <2>1
  <2>5. \A d \in gone' : sent'[d] % 2 = 0 /\ Settled(d)'
    BY <1>0, <2>2, <2>4 DEF Waiting, Settled
  <2>6. \A d \in Conns : \A k \in 1..MaxReqs(d) : 2 * k < sent'[d] => Answered(<<d, k>>)'
    BY <1>0, <2>3, <2>4 DEF Waiting
  <2> QED BY <2>5, <2>6 DEF Waiting
<1>3. ASSUME NEW c \in Conns, ClientSendsRest(c) PROVE Waiting'
  <2>1. /\ sent' = [sent EXCEPT ![c] = @ + 1] /\ sent[c] % 2 = 1
        /\ c \notin gone /\ gone' = gone
    BY <1>3 DEF ClientSendsRest, Open
  <2>2. ASSUME NEW k \in 1..MaxReqs(c), 2 * k < sent'[c] PROVE Answered(<<c, k>>)'
    <3>1. k \in Nat /\ sent[c] \in Nat /\ sent'[c] = sent[c] + 1
      BY <1>0, <2>1
    <3>2. 2 * k < sent[c]
      BY <2>1, <2>2, <3>1
    <3> QED BY <1>0, <3>2 DEF Waiting
  <2>3. \A d \in Conns \ {c} : sent'[d] = sent[d]
    BY <1>0, <2>1
  <2>4. \A d \in gone' : sent'[d] % 2 = 0 /\ Settled(d)'
    BY <1>0, <2>1, <2>3 DEF Waiting, Settled
  <2>5. \A d \in Conns : \A k \in 1..MaxReqs(d) : 2 * k < sent'[d] => Answered(<<d, k>>)'
    BY <1>0, <2>2, <2>3 DEF Waiting
  <2> QED BY <2>4, <2>5 DEF Waiting
<1>4. ASSUME NEW c \in Conns, ClientLeaves(c) PROVE Waiting'
  <2>1. gone' = gone \cup {c} /\ sent' = sent /\ sent[c] % 2 = 0 /\ Settled(c)
    BY <1>4 DEF ClientLeaves, Polite
  <2> QED BY <1>0, <2>1 DEF Waiting, Settled
<1>5. ASSUME NEW r \in Requests, JobStep(r) PROVE Waiting'
  BY <1>1, <1>5 DEF JobStep, ServerMsgExecCmdFn, SendPart, SendFails, SendUnseen, SendKills,
     netVars
<1>6. ASSUME ServerStep PROVE UNCHANGED <<gone, sent>>
  BY <1>6 DEF ServerStep, ServerCreateFd, EpollWait, ServerAcceptNewConnect, RecvBegins,
     ErrorEvent, RecvPiece, RecvTooLong, RecvPeerClosed, ServerMsgExecCmd,
     ServerDefaultMsgHandler, DefaultMsgHandlerReturns, TakePiece, netVars
<1>7. CASE ServerProcInit \/ ServerProcExit \/ ServerProcJoin
  BY <1>1, <1>7 DEF ServerProcInit, ServerProcExit, ServerProcJoin, netVars
<1>8. ASSUME NEW c \in Conns, ClientConnect(c) PROVE Waiting'
  BY <1>1, <1>8 DEF ClientConnect
<1> QED BY <1>1, <1>2, <1>3, <1>4, <1>5, <1>6, <1>7, <1>8 DEF Next, ClientStep

\* The part that is sent goes to the client that waits for it
LEMMA SendPartTo ==
    ASSUME PoliteInv, NEW r \in Requests, SendPart(r)
    PROVE  /\ r[1] \in Conns /\ job[r] \in Parts
           /\ out' = [out EXCEPT ![r[1]] = Append(@, <<r, job[r]>>)]
           /\ job' = [job EXCEPT ![r] = Then(job[r])]
BY SendsReach DEF PoliteInv, SendPart, Goto

LEMMA RepliesStep ==
    ASSUME PoliteInv, Next
    PROVE  RepliesToSender'
<1> USE DEF PoliteInv
<1>0. out \in [Conns -> Seq(Requests \X Parts)]
  BY DEF ServerInv, TypeOK
<1>1. CASE UNCHANGED out
  BY <1>1 DEF RepliesToSender
<1>2. ASSUME NEW r \in Requests, SendPart(r) PROVE RepliesToSender'
  <2>1. PICK c \in Conns, part \in Parts :
            c = r[1] /\ out' = [out EXCEPT ![c] = Append(@, <<r, part>>)]
    BY <1>2, SendPartTo
  <2>2. ASSUME NEW d \in Conns, NEW i \in DOMAIN out'[d] PROVE out'[d][i][1][1] = d
    BY <1>0, <2>1 DEF RepliesToSender
  <2> QED BY <2>2 DEF RepliesToSender
<1> QED BY <1>1, <1>2, OutSteps

\* Nothing but the sending of a part moves a reply on
LEMMA FramesStay ==
    ASSUME ServerInv, FramesWhole, Frames, UNCHANGED out,
           NEW r \in Requests, NEW pc, job' = [job EXCEPT ![r] = pc],
           job[r] \notin {"cont", "tail"}, pc \notin {"cont", "tail"}
    PROVE  FramesWhole' /\ Frames'
<1>0. /\ job \in [Requests -> JobPcs] /\ out \in [Conns -> Seq(Requests \X Parts)]
      /\ \A q \in Requests : q[1] \in Conns
  BY RequestForm DEF ServerInv, TypeOK
<1>1. \A q \in Requests \ {r} : job'[q] = job[q]
  BY <1>0
<1>2. ASSUME NEW c \in Conns, out[c] # <<>>, Last(out[c])[2] # "tail"
      PROVE  job'[Last(out[c])[1]] = Then(Last(out[c])[2])
  <2>1. Last(out[c]) \in Requests \X Parts
    BY <1>0, <1>2 DEF Last
  <2>2. job[Last(out[c])[1]] = Then(Last(out[c])[2]) /\ Then(Last(out[c])[2]) \in {"cont", "tail"}
    BY <1>2, <2>1 DEF Frames, Then, Parts
  <2> QED BY <1>1, <2>1, <2>2
<1>3. \A q \in Requests : job'[q] \in {"cont", "tail"} => job[q] = job'[q]
  BY <1>0, <1>1
<1> QED BY <1>2, <1>3 DEF FramesWhole, Frames

\* The next part of the reply the client is receiving, or the first of the next reply
LEMMA NextPart ==
    ASSUME PoliteInv, NEW r \in Requests, job[r] \in Parts, NEW c \in Conns, c = r[1]
    PROVE  IF out[c] # <<>> /\ Last(out[c])[2] # "tail"
           THEN /\ Last(out[c])[1] = r
                /\ <<Last(out[c])[2], job[r]>> \in {<<"head", "cont">>, <<"cont", "tail">>}
           ELSE job[r] = "head"
<1> USE DEF PoliteInv
<1>1. CASE out[c] # <<>> /\ Last(out[c])[2] # "tail"
  <2>1. Last(out[c]) \in Requests \X Parts
        /\ Last(out[c])[1][1] = c
    <3>1. out[c] \in Seq(Requests \X Parts) /\ Len(out[c]) \in DOMAIN out[c]
      BY <1>1 DEF ServerInv, TypeOK
    <3> QED BY <3>1 DEF Last, RepliesToSender
  <2>2. job[Last(out[c])[1]] = Then(Last(out[c])[2]) /\ Then(Last(out[c])[2]) \in {"cont", "tail"}
    BY <1>1, <2>1 DEF Frames, Then, Parts
  <2>3. Working(Last(out[c])[1]) /\ Working(r)
    BY <2>2 DEF Working, Parts
  <2>4. Last(out[c])[1] = r
    BY <2>1, <2>3, WorkedOnAlone
  <2>5. Last(out[c])[2] \in {"head", "cont"}
    BY <1>1, <2>1 DEF Parts
  <2> QED BY <1>1, <2>2, <2>4, <2>5 DEF Then
<1>2. CASE ~(out[c] # <<>> /\ Last(out[c])[2] # "tail")
  BY <1>2 DEF Frames, Parts
<1> QED BY <1>1, <1>2

LEMMA FramesStep ==
    ASSUME PoliteInv, Next
    PROVE  FramesWhole' /\ Frames'
<1> USE DEF PoliteInv
<1>0. /\ job \in [Requests -> JobPcs] /\ out \in [Conns -> Seq(Requests \X Parts)]
      /\ \A q \in Requests : q[1] \in Conns
  BY RequestForm DEF ServerInv, TypeOK
<1>1. ASSUME UNCHANGED <<job, out>> PROVE FramesWhole' /\ Frames'
  BY <1>1 DEF FramesWhole, Frames
<1>2. CASE RecvTooLong \/ ServerMsgExecCmd \/ ServerDefaultMsgHandler
  <2>1. /\ Recv
        /\ FrameComplete(sock[cur]) \/ Kind(Current) = "long"
        /\ \E pc \in {"refused", "queued", "head"} : job' = [job EXCEPT ![Current] = pc]
        /\ UNCHANGED out
    BY <1>2 DEF RecvTooLong, ServerMsgExecCmd, ServerDefaultMsgHandler
  <2>2. Current \in Requests /\ job[Current] \in {"none", "refused"}
    BY <2>1, CurrentForm, Receiving DEF ServerInv
  <2> QED BY <2>1, <2>2, FramesStay
<1>3. ASSUME NEW r \in Requests, ServerMsgExecCmdFn(r) PROVE FramesWhole' /\ Frames'
  BY <1>3, FramesStay DEF ServerMsgExecCmdFn, Goto, netVars
<1>4. ASSUME NEW r \in Requests, SendFails(r) \/ SendUnseen(r) \/ SendKills(r) PROVE FALSE
  BY <1>4, SendsReach DEF SendFails, SendUnseen, SendKills
<1>5. ASSUME NEW r \in Requests, SendPart(r) PROVE FramesWhole' /\ Frames'
  <2> DEFINE c == r[1]
             p == job[r]
             n == Len(out[c])
  <2>1. /\ c \in Conns /\ p \in Parts /\ out' = [out EXCEPT ![c] = Append(@, <<r, p>>)]
        /\ job' = [job EXCEPT ![r] = Then(p)]
    BY <1>5, SendPartTo
  <2>2. IF out[c] # <<>> /\ Last(out[c])[2] # "tail"
        THEN Last(out[c])[1] = r /\ <<Last(out[c])[2], p>> \in {<<"head", "cont">>, <<"cont", "tail">>}
        ELSE p = "head"
    BY <2>1, NextPart
  <2>3. \A q \in Requests \ {r} : Working(q) => q[1] # c
    BY <2>1, WorkedOnAlone DEF Working
  <2> HIDE DEF c, p
  <2>4. /\ \A d \in Conns \ {c} : out'[d] = out[d]
        /\ n \in Nat /\ DOMAIN out[c] = 1..n /\ DOMAIN out'[c] = 1..(n + 1)
        /\ \A i \in 1..n : out'[c][i] = out[c][i]
        /\ out'[c][n + 1] = <<r, p>> /\ out'[c] # <<>> /\ Last(out'[c]) = <<r, p>>
    <3>1. out[c] \in Seq(Requests \X Parts) /\ out'[c] = Append(out[c], <<r, p>>)
      BY <1>0, <2>1
    <3>2. /\ n \in Nat /\ DOMAIN out[c] = 1..n /\ DOMAIN out'[c] = 1..(n + 1)
          /\ Len(out'[c]) = n + 1 /\ out'[c][n + 1] = <<r, p>>
          /\ \A i \in 1..n : out'[c][i] = out[c][i]
      BY <3>1
    <3>3. out'[c] # <<>>
      BY <3>2
    <3> QED BY <1>0, <2>1, <3>2, <3>3 DEF Last
  <2>5. \A q \in Requests \ {r} : job'[q] = job[q]
    BY <1>0, <2>1
  <2>6. job'[r] = Then(p)
    BY <1>0, <2>1
  <2> HIDE DEF n
  <2>7. FramesWhole'
    <3>1. ASSUME NEW i \in 1..(n + 1)
          PROVE IF i > 1 /\ out'[c][i - 1][2] # "tail"
                THEN /\ out'[c][i][1] = out'[c][i - 1][1]
                     /\ <<out'[c][i - 1][2], out'[c][i][2]>> \in {<<"head", "cont">>, <<"cont", "tail">>}
                ELSE out'[c][i][2] = "head"
      <4>1. CASE i \in 1..n
        <5>1. i > 1 => i - 1 \in 1..n
          BY <2>4, <4>1
        <5>2. out'[c][i] = out[c][i] /\ (i > 1 => out'[c][i - 1] = out[c][i - 1])
          BY <2>4, <4>1, <5>1
        <5>3. i \in DOMAIN out[c]
          BY <2>4, <4>1
        <5>4. IF i > 1 /\ out[c][i - 1][2] # "tail"
              THEN /\ out[c][i][1] = out[c][i - 1][1]
                   /\ <<out[c][i - 1][2], out[c][i][2]>> \in {<<"head", "cont">>, <<"cont", "tail">>}
              ELSE out[c][i][2] = "head"
          BY <2>1, <5>3 DEF FramesWhole
        <5> QED BY <5>2, <5>4
      <4>2. CASE i = n + 1
        <5>1. CASE n = 0
          <6>1. p = "head"
            BY <1>0, <2>1, <2>2, <5>1 DEF n
          <6> QED BY <2>4, <4>2, <5>1, <6>1
        <5>2. CASE n > 0
          <6>1. out[c] # <<>> /\ Last(out[c]) = out[c][n] /\ out'[c][i - 1] = out[c][n] /\ i > 1
            <7>1. n \in 1..n /\ i - 1 = n /\ i > 1
              BY <2>4, <4>2, <5>2
            <7>2. out[c] # <<>> /\ Last(out[c]) = out[c][n]
              BY <2>4, <7>1 DEF Last, n
            <7> QED BY <2>4, <7>1, <7>2
          <6> QED BY <2>2, <2>4, <4>2, <6>1
        <5> QED BY <2>4, <5>1, <5>2
      <4> QED BY <2>4, <4>1, <4>2
    <3>2. ASSUME NEW d \in Conns \ {c}, NEW i \in DOMAIN out'[d]
          PROVE IF i > 1 /\ out'[d][i - 1][2] # "tail"
                THEN /\ out'[d][i][1] = out'[d][i - 1][1]
                     /\ <<out'[d][i - 1][2], out'[d][i][2]>> \in {<<"head", "cont">>, <<"cont", "tail">>}
                ELSE out'[d][i][2] = "head"
      BY <2>4 DEF FramesWhole
    <3> QED BY <2>4, <3>1, <3>2 DEF FramesWhole
  <2>8. ASSUME NEW d \in Conns, out'[d] # <<>>, Last(out'[d])[2] # "tail"
        PROVE  job'[Last(out'[d])[1]] = Then(Last(out'[d])[2])
    <3>1. CASE d = c
      BY <2>4, <2>6, <3>1
    <3>2. CASE d # c
      <4>1. out'[d] = out[d] /\ out[d] \in Seq(Requests \X Parts)
        BY <1>0, <2>4, <3>2
      <4>2. Len(out[d]) \in DOMAIN out[d]
        BY <2>8, <4>1
      <4>3. Last(out[d]) \in Requests \X Parts /\ Last(out[d])[1][1] = d
        BY <4>1, <4>2 DEF Last, RepliesToSender
      <4> QED BY <2>5, <2>8, <3>2, <4>1, <4>3 DEF Frames, c
    <3> QED BY <3>1, <3>2
  <2>9. ASSUME NEW q \in Requests, job'[q] \in {"cont", "tail"}
        PROVE  /\ out'[q[1]] # <<>> /\ Last(out'[q[1]])[1] = q
               /\ Last(out'[q[1]])[2] # "tail"
    <3>1. CASE q = r
      BY <2>1, <2>4, <2>6, <2>9, <3>1 DEF Then, Parts, c
    <3>2. CASE q # r
      <4>1. job[q] \in {"cont", "tail"} /\ q[1] \in Conns \ {c}
        BY <1>0, <2>3, <2>5, <2>9, <3>2 DEF Working, Parts
      <4> QED BY <2>4, <4>1 DEF Frames
    <3> QED BY <3>1, <3>2
  <2> QED BY <2>7, <2>8, <2>9 DEF Frames
<1>6. ASSUME NEW c \in Conns, ClientStep(c) PROVE FramesWhole' /\ Frames'
  BY <1>1, <1>6 DEF ClientStep, ClientConnect, ClientSend, ClientSendsRest, ClientLeaves, jobVars
<1>7. CASE ServerProcInit \/ ServerProcExit \/ ServerProcJoin \/ ServerCreateFd \/ EpollWait
           \/ ServerAcceptNewConnect \/ RecvPeerClosed \/ DefaultMsgHandlerReturns
           \/ RecvPiece \/ \E f \in Fds : RecvBegins(f) \/ ErrorEvent(f)
  BY <1>1, <1>7 DEF ServerProcInit, ServerProcExit, ServerProcJoin, ServerCreateFd, EpollWait,
     ServerAcceptNewConnect, RecvPeerClosed, DefaultMsgHandlerReturns, RecvPiece, RecvBegins,
     ErrorEvent, jobVars, netVars
<1> QED BY <1>2, <1>3, <1>4, <1>5, <1>6, <1>7 DEF Next, ServerStep, JobStep

LEMMA PoliteInvHolds ==
    ASSUME Polite
    PROVE  Spec => []PoliteInv
<1>1. Init => PoliteInv
  <2> SUFFICES ASSUME Init PROVE PoliteInv
    OBVIOUS
  <2>1. OneFdEach /\ RepliesToSender /\ FramesWhole
    BY DEF Init, OneFdEach, Taken, RepliesToSender, FramesWhole
  <2>2. FdsStay /\ Frames
    BY RequestForm DEF Init, FdsStay, Frames, Working, Parts
  <2>3. Waiting
    <3>1. \A c \in Conns : \A k \in 1..MaxReqs(c) : ~(2 * k < sent[c])
      BY BoundsAssumption DEF Init
    <3> QED BY <3>1 DEF Init, Waiting
  <2> QED BY <2>1, <2>2, <2>3, ServerInit DEF PoliteInv
<1>2. ServerInv /\ Next => ServerInv'
  BY TypeStep, EventsStep, MapStep, JobsStep, SentStep DEF ServerInv
<1>3. PoliteInv /\ Next => PoliteInv'
  BY <1>2, OneFdStep, FdsStep, WaitingStep, RepliesStep, FramesStep DEF PoliteInv
<1>4. PoliteInv /\ UNCHANGED vars => PoliteInv'
  <2> SUFFICES ASSUME PoliteInv, UNCHANGED vars PROVE PoliteInv'
    OBVIOUS
  <2> USE DEF PoliteInv, vars, procVars, jobVars, kernVars, netVars
  <2>1. ServerInv'
    BY DEF ServerInv, TypeOK, EventsAreOpen, Taken, ClientMapAgrees, JobsReceived, PartsPast,
       SentOnce
  <2>2. OneFdEach' /\ FdsStay'
    BY DEF OneFdEach, Taken, FdsStay, Working
  <2>3. Waiting' /\ RepliesToSender'
    BY DEF Waiting, Settled, Answered, RepliesToSender
  <2>4. FramesWhole' /\ Frames'
    BY DEF FramesWhole, Frames
  <2> QED BY <2>1, <2>2, <2>3, <2>4
<1> QED BY <1>1, <1>3, <1>4, PTL DEF Spec

\* Clients that wait get the replies to their own requests and nobody else's, although
\* the workers only hold descriptor numbers and numbers are used again.
THEOREM PoliteReplies ==
    ASSUME Polite
    PROVE  Spec => []RepliesToSender
<1>1. PoliteInv => RepliesToSender
  BY DEF PoliteInv
<1> QED BY <1>1, PoliteInvHolds, PTL

\* ... and what each of them receives is whole frames, never two replies mixed.
THEOREM PoliteFrames ==
    ASSUME Polite
    PROVE  Spec => []FramesWhole
<1>1. PoliteInv => FramesWhole
  BY DEF PoliteInv
<1> QED BY <1>1, PoliteInvHolds, PTL
=============================================================================
