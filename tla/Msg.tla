--------------------------------- MODULE Msg ---------------------------------
(***************************************************************************)
(* One direction of a connection as myUtils/Msg/myMsg.c runs it: threads   *)
(* of the sending process build messages (NewMsg, FillMsgCont,             *)
(* ClearMsgCont) and send them (SendMsg), a thread of the receiving process*)
(* calls RecvMsg for as long as it succeeds.  A message is a head, content *)
(* of the length the head declares, and a tail; the stream between the     *)
(* processes has no boundaries and little room, so that both sides send and*)
(* receive in pieces and try again on EAGAIN.                              *)
(*                                                                         *)
(* A byte is <<m, p>>: the p-th of the frame of message m, which is        *)
(* <<sender, number, ContentLen>>.  The whole ContentLen is in the LenAt-th*)
(* byte of a head, in network order.                                       *)
(***************************************************************************)
EXTENDS Integers, Sequences, FiniteSets

CONSTANTS
    Senders,            \* threads that send
    MaxMsgs,            \* messages each of them sends at most
    HeadLen, TailLen,   \* sizeof(MY_MSG_HEAD), sizeof(MY_MSG_TAIL)
    LenAt,              \* where in the head ContentLen is
    MaxCont,            \* MY_MSG_CONTENT_MAX_LEN, the size of MY_MSG_CONT
    IntMax,             \* the largest int
    Foreign,            \* lengths beyond MaxCont that a head may declare
    Room,               \* bytes the sockets hold
    Env                 \* what the surroundings may do, a subset of MsgEnvKinds

\* "together": threads do not wait for each other's SendMsg to return
\* "shut":     the sending process may close the connection or end
\* "reset":    the connection may fail
\* "exit":     MsgModuleExit is called
\* "late":     ... while its threads are still sending or receiving
MsgEnvKinds == {"together", "shut", "reset", "exit", "late"}

\* The largest uint32_t, the type of ContentLen
UintMax == 2 * IntMax + 1

\* FillMsgCont makes no Foreign lengths, but other programs may, or this one with a stray
\* ContentLen.  In the code MaxCont is 1024 * 1024 and an int has 32 bits.  So have the
\* integers of TLC, which therefore can Swap only what is less than 128
ASSUME MsgSizes == /\ {HeadLen, TailLen, LenAt, Room} \subseteq Nat \ {0}
                   /\ LenAt \in 1..HeadLen /\ MaxMsgs \in Nat
                   /\ MaxCont \in Nat \ {0} /\ IntMax \in Nat
                   /\ MaxCont < IntMax /\ IntMax <= 2147483647
                   /\ Foreign \subseteq MaxCont + 1..UintMax
ASSUME MsgEnvAssumption == IsFiniteSet(Senders) /\ Env \subseteq MsgEnvKinds

VARIABLES
    mod,          \* process -> its module: "down", "up", "ended"
    pc,           \* sender -> "idle", "made", "send", "sent", "failed"
    num,          \* sender -> the number of its message
    len,          \* sender -> Head.ContentLen of its message
    at,           \* sender -> bytes of the frame SendMsg has sent
    link,         \* "open"; closed by the sending process: "shut", or by the receiving
                  \* one: "dropped"; "reset"
    stream,       \* the bytes on the way
    event,        \* when RecvMsg is called: "level", whenever there is something, by the
                  \* client's libevent; or on the edges the server's epoll reports, of
                  \* which there is "none" or "some" to be reported
    rpc,          \* RecvMsg: "idle", "recv", "ok", "closed", "failed"; "off": not called any more
    rmsg,         \* the bytes in RetMsg
    rlen,         \* RetMsg->Head.ContentLen
    counts,       \* MY_MSG_STATS of the two processes
    begun,        \* history: messages whose first byte was sent
    got,          \* history: the bytes of each message received
    ub            \* a destroyed lock was used: nothing can be said any more

sendVars == <<pc, num, len, at>>
recvVars == <<rpc, rmsg, rlen>>
vars == <<mod, sendVars, link, stream, event, recvVars, counts, begun, got, ub>>

Ends == {"sender", "receiver"}
Msgs == Senders \X (1..MaxMsgs) \X (0..UintMax)
MsgOf(s) == <<s, num[s], len[s]>>

\* SendMsg and RecvMsg take the declared length for an int: what is beyond IntMax is
\* negative to them, neither too long nor any content
AsInt(n) == IF n > IntMax THEN n - 2 * (IntMax + 1) ELSE n
TooLong(n) == AsInt(n) > MaxCont
Content(n) == IF AsInt(n) > 0 THEN n ELSE 0
SizeOf(n) == HeadLen + Content(n) + TailLen
Counted(n) == HeadLen + n + TailLen       \* in the statistics, where it is no int
FrameOf(m) == [p \in 1..SizeOf(m[3]) |-> <<m, p>>]

\* htonl and ntohl
Swap(n) == LET byte(i) == (n \div 256^i) % 256
           IN byte(0) * 256^3 + byte(1) * 256^2 + byte(2) * 256 + byte(3)

Init ==
    /\ mod = [e \in Ends |-> "down"]
    /\ pc = [s \in Senders |-> "idle"] /\ num = [s \in Senders |-> 0]
    /\ len = [s \in Senders |-> 0] /\ at = [s \in Senders |-> 0]
    /\ link = "open" /\ stream = <<>> /\ event \in {"level", "none"}
    /\ rpc = "idle" /\ rmsg = <<>> /\ rlen = 0
    /\ counts = [send |-> 0, sendBytes |-> 0, sendFailed |-> 0,
                 recv |-> 0, recvBytes |-> 0, recvFailed |-> 0]
    /\ begun = <<>> /\ got = <<>> /\ ub = FALSE

-----------------------------------------------------------------------------
(***************************************************************************)
(* The module's life in a process.  Init clears the statistics and makes   *)
(* their lock; Exit gives the memory id back and destroys the lock but     *)
(* leaves Inited set, so that later calls go on to the lock.               *)
(***************************************************************************)
InCall(e) == \/ e = "sender" /\ \E s \in Senders : pc[s] # "idle"
             \/ e = "receiver" /\ rpc \notin {"idle", "off"}

MsgModuleInit(e) ==
    /\ mod[e] = "down"
    /\ mod' = [mod EXCEPT ![e] = "up"]
    /\ UNCHANGED <<sendVars, link, stream, event, recvVars, counts, begun, got, ub>>

MsgModuleExit(e) ==
    /\ "exit" \in Env /\ mod[e] = "up"
    /\ "late" \in Env \/ ~InCall(e)
    /\ mod' = [mod EXCEPT ![e] = "ended"]
    /\ UNCHANGED <<sendVars, link, stream, event, recvVars, counts, begun, got, ub>>

Returning(e) == \/ e = "sender" /\ link # "shut" /\ \E s \in Senders : pc[s] \in {"sent", "failed"}
                \/ e = "receiver" /\ rpc \in {"ok", "closed", "failed"}

\* A call that comes back after MsgModuleExit
UsesDestroyedLock(e) ==
    /\ Returning(e) /\ mod[e] = "ended"
    /\ ub' = TRUE
    /\ UNCHANGED <<mod, sendVars, link, stream, event, recvVars, counts, begun, got>>

-----------------------------------------------------------------------------
(***************************************************************************)
(* Building a message.  NewMsg fails once the memory id is gone.           *)
(***************************************************************************)
FreeMsg(s) == pc' = [pc EXCEPT ![s] = "idle"]

NewMsg(s) ==
    /\ mod["sender"] = "up" /\ link # "shut"
    /\ pc[s] = "idle" /\ num[s] < MaxMsgs
    /\ pc' = [pc EXCEPT ![s] = "made"]
    /\ num' = [num EXCEPT ![s] = @ + 1]
    /\ len' = [len EXCEPT ![s] = 0] /\ at' = [at EXCEPT ![s] = 0]
    /\ UNCHANGED <<mod, link, stream, event, recvVars, counts, begun, got, ub>>

\* There is room, also for a terminating zero
Fits(s, n) == n # 0 /\ n < MaxCont - len[s]

\* What does not fit is not added; the caller then drops the message, or, in
\* _ServerMsgExecCmdFn, sends what it has
FillMsgCont(s) ==
    /\ pc[s] = "made"
    /\ \E n \in 0..MaxCont :
       \/ /\ Fits(s, n)
          /\ len' = [len EXCEPT ![s] = @ + n]
          /\ UNCHANGED pc
       \/ /\ ~Fits(s, n)
          /\ FreeMsg(s)
          /\ UNCHANGED len
    /\ UNCHANGED <<mod, num, at, link, stream, event, recvVars, counts, begun, got, ub>>

\* The command that was received makes room for its output
ClearMsgCont(s) ==
    /\ pc[s] = "made" /\ len[s] > 0
    /\ len' = [len EXCEPT ![s] = 0]
    /\ UNCHANGED <<mod, pc, num, at, link, stream, event, recvVars, counts, begun, got, ub>>

-----------------------------------------------------------------------------
(***************************************************************************)
(* SendMsg: three loops, over the head, the content and the tail.          *)
(***************************************************************************)
\* Where the loop ends that a frame of this content length is in
LoopEnd(done, n) == CASE done < HeadLen -> HeadLen
                      [] done >= HeadLen /\ done < HeadLen + Content(n) -> HeadLen + Content(n)
                      [] OTHER -> SizeOf(n)

Alone(s) == \A o \in Senders \ {s} : pc[o] \notin {"send", "sent"}

SendMsg(s) ==
    /\ pc[s] = "made"
    /\ "together" \in Env \/ Alone(s)
    /\ pc' = [pc EXCEPT ![s] = "send"]
    /\ len' \in {len} \cup {[len EXCEPT ![s] = n] : n \in Foreign}
    /\ UNCHANGED <<mod, num, at, link, stream, event, recvVars, counts, begun, got, ub>>

\* Variant: a send that takes less than it was given is taken for a whole one
Advanced_All(s, n) == LoopEnd(at[s], len[s])
Advanced(s, n) == at[s] + n           \* currentLen += sendRet

\* There is something new to be read, which is an edge
Arrives == event' = IF event = "level" THEN event ELSE "some"

\* One send: as much as there is room for, at least a byte
SendBytes(s) ==
    /\ pc[s] = "send" /\ link = "open"
    /\ Arrives
    /\ \E n \in 1..(LoopEnd(at[s], len[s]) - at[s]) :
       /\ Len(stream) + n <= Room
       /\ stream' = stream \o SubSeq(FrameOf(MsgOf(s)), at[s] + 1, at[s] + n)
       /\ at' = [at EXCEPT ![s] = Advanced(s, n)]
       /\ pc' = [pc EXCEPT ![s] = IF Advanced(s, n) = SizeOf(len[s]) THEN "sent" ELSE "send"]
    /\ begun' = IF at[s] = 0 THEN Append(begun, MsgOf(s)) ELSE begun
    /\ UNCHANGED <<mod, num, len, link, recvVars, counts, got, ub>>

\* send reports the reset (that it may raise SIGPIPE first is in Server)
SendFails(s) ==
    /\ pc[s] = "send" /\ link \in {"dropped", "reset"}
    /\ pc' = [pc EXCEPT ![s] = "failed"]
    /\ UNCHANGED <<mod, num, len, at, link, stream, event, recvVars, counts, begun, got, ub>>

\* Count, come back, and FreeMsg by the caller
SendReturns(s) ==
    /\ pc[s] \in {"sent", "failed"} /\ link # "shut" /\ mod["sender"] = "up"
    /\ FreeMsg(s)
    /\ counts' = IF pc[s] = "sent"
                 THEN [counts EXCEPT !.send = @ + 1, !.sendBytes = @ + Counted(len[s])]
                 ELSE [counts EXCEPT !.sendFailed = @ + 1]
    /\ UNCHANGED <<mod, num, len, at, link, stream, event, recvVars, begun, got, ub>>

-----------------------------------------------------------------------------
(***************************************************************************)
(* RecvMsg, called when there is something to read, or the close: once more*)
(* for as long as there is, or once for the edges since the last call.     *)
(***************************************************************************)
RecvMsg ==
    /\ rpc = "idle"
    /\ mod["receiver"] \in {"up"} \cup (IF "late" \in Env THEN {"ended"} ELSE {})
    /\ stream # <<>> \/ link \in {"shut", "reset"}
    /\ event # "none" /\ event' = IF event = "level" THEN event ELSE "none"
    /\ rpc' = "recv" /\ rmsg' = <<>> /\ rlen' = 0
    /\ UNCHANGED <<mod, sendVars, link, stream, counts, begun, got, ub>>

\* Variant: the sender left its ContentLen in the order of the host
OnWire_Host(byte) == {byte[1][3]}
\* What the bytes at the place of ContentLen say; they may be any when the frames of
\* two senders are mixed
OnWire(byte) == IF byte[2] = LenAt THEN {Swap(byte[1][3])}
                                   ELSE {Swap(n) : n \in 0..UintMax}

\* One recv into the part RecvMsg is at; after the head its fields are converted and
\* ContentLen is checked
RecvBytes ==
    /\ rpc = "recv"
    /\ \E n \in 1..(LoopEnd(Len(rmsg), rlen) - Len(rmsg)) :
       /\ n <= Len(stream)
       /\ rmsg' = rmsg \o SubSeq(stream, 1, n)
       /\ stream' = SubSeq(stream, n + 1, Len(stream))
       /\ \E raw \in IF Len(rmsg) < LenAt /\ Len(rmsg') >= LenAt
                     THEN OnWire(rmsg'[LenAt]) ELSE {rlen} :
              rlen' = IF Len(rmsg) < HeadLen /\ Len(rmsg') = HeadLen
                      THEN Swap(raw) ELSE raw
       /\ rpc' = CASE Len(rmsg') = HeadLen /\ TooLong(rlen') -> "failed"
                   [] Len(rmsg') > HeadLen /\ Len(rmsg') = SizeOf(rlen') -> "ok"
                   [] OTHER -> "recv"
    /\ UNCHANGED <<mod, sendVars, link, event, counts, begun, got, ub>>

\* recv returns 0, or the error of the connection
RecvEnds ==
    /\ rpc = "recv" /\ stream = <<>>
    /\ \/ link = "shut" /\ rpc' = "closed"
       \/ link = "reset" /\ rpc' = "failed"
    /\ UNCHANGED <<mod, sendVars, link, stream, event, rmsg, rlen, counts, begun, got, ub>>

\* Count and come back.  A close counts as a message, of the length that was in
\* the head by then.  After a failure both callers close the connection.
RecvReturns ==
    /\ rpc \in {"ok", "closed", "failed"} /\ mod["receiver"] = "up"
    /\ counts' = IF rpc # "failed"
                 THEN [counts EXCEPT !.recv = @ + 1, !.recvBytes = @ + Counted(rlen)]
                 ELSE [counts EXCEPT !.recvFailed = @ + 1]
    /\ \/ /\ rpc = "ok" /\ rpc' = "idle"
          /\ got' = Append(got, rmsg)
          /\ UNCHANGED <<link, stream>>
       \/ /\ rpc # "ok" /\ rpc' = "off"
          /\ link' = IF link = "open" THEN "dropped" ELSE link
          /\ stream' = <<>>
          /\ UNCHANGED got
    /\ UNCHANGED <<mod, sendVars, event, rmsg, rlen, begun, ub>>

-----------------------------------------------------------------------------
\* The sending process closes, or ends with its threads where they are
Shut ==
    /\ "shut" \in Env /\ link = "open"
    /\ link' = "shut" /\ Arrives
    /\ UNCHANGED <<mod, sendVars, stream, recvVars, counts, begun, got, ub>>

\* What has not reached the receiving socket is lost, the rest can still be received
Reset ==
    /\ "reset" \in Env /\ link = "open"
    /\ link' = "reset" /\ Arrives
    /\ \E n \in 0..Len(stream) : stream' = SubSeq(stream, 1, n)
    /\ UNCHANGED <<mod, sendVars, recvVars, counts, begun, got, ub>>

SendStep(s) == SendBytes(s) \/ SendFails(s) \/ SendReturns(s)
RecvStep == RecvMsg \/ RecvBytes \/ RecvEnds \/ RecvReturns

Next ==
    /\ ~ub
    /\ \/ \E e \in Ends : MsgModuleInit(e) \/ MsgModuleExit(e) \/ UsesDestroyedLock(e)
       \/ \E s \in Senders : \/ NewMsg(s) \/ FillMsgCont(s) \/ ClearMsgCont(s)
                             \/ SendMsg(s) \/ SendStep(s)
       \/ RecvStep \/ Shut \/ Reset

(***************************************************************************)
(* Threads in SendMsg and RecvMsg take the steps they can, the loops that  *)
(* repeat on EAGAIN included, and the receiver calls RecvMsg when its      *)
(* library reports an event.  Nothing makes a thread build or send a       *)
(* message.                                                                *)
(***************************************************************************)
Fairness == /\ \A s \in Senders : WF_vars(~ub /\ SendStep(s))
            /\ WF_vars(~ub /\ RecvStep)
            /\ \A e \in Ends : WF_vars(~ub /\ UsesDestroyedLock(e))
            /\ WF_vars(~ub /\ MsgModuleInit("receiver"))

Spec == Init /\ [][Next]_vars
FairSpec == Spec /\ Fairness

-----------------------------------------------------------------------------
(***************************************************************************)
(* Properties.                                                             *)
(***************************************************************************)
\* What a received message is, if it is one
Mangled == <<"no message", 0, 0>>
Meaning(bytes) == LET m == bytes[1][1] IN IF bytes = FrameOf(m) THEN m ELSE Mangled

\* What excuses a message that does not arrive; that RecvMsg refuses one FillMsgCont
\* allowed is no excuse, nor that a length is negative to it
Broken == \/ link \in {"shut", "reset"} \/ mod["receiver"] = "ended" \/ ub
          \/ \E s \in Senders : TooLong(len[s])
          \/ \E i \in DOMAIN begun : TooLong(begun[i][3])

Channel == INSTANCE MsgChannel WITH
    Messages <- Msgs, Size <- LAMBDA m : Counted(m[3]),
    sent <- begun, got <- [i \in DOMAIN got |-> Meaning(got[i])],
    broken <- Broken,
    counts <- [c \in {"send", "sendBytes", "recv", "recvBytes"} |-> counts[c]]

\* Through sends and receives of any part of a frame the connection carries whole
\* messages, in order, each counted once with its bytes: MsgChannel.  A message whose
\* length is negative to both sides is one without content.
Implements == Channel!Spec

\* All of them arrive and are counted, while the connection lasts, at a receiver that is
\* called whenever there is something to read: the client.  Of two messages that arrive
\* for one edge the server's receiver leaves the second where it is.
AllArrive == event = "level" => Channel!Fairness
=============================================================================
