----------------------------- MODULE MsgChannel -----------------------------
(***************************************************************************)
(* What SendMsg and RecvMsg promise for one direction of a connection, with*)
(* no bytes in sight: messages arrive whole and in the order in which they *)
(* were sent, all of them unless the connection breaks, and the statistics *)
(* count them.  Once it is broken a receiver may count what is no message. *)
(***************************************************************************)
EXTENDS Naturals, Sequences

CONSTANTS Messages, Size(_)      \* what can be sent, and how many bytes it takes

VARIABLES sent, got,             \* messages, in order
          broken,                \* nothing more need arrive
          counts                 \* what the statistics say

cvars == <<sent, got, broken, counts>>

Init == /\ sent = <<>> /\ got = <<>> /\ broken = FALSE
        /\ counts = [send |-> 0, sendBytes |-> 0, recv |-> 0, recvBytes |-> 0]

\* A sender need not know yet that the connection is broken
Send == /\ \E m \in Messages : sent' = Append(sent, m)
        /\ UNCHANGED <<got, broken, counts>>

\* SendMsg returns to its caller, who learns of messages in the order of their sending
SendCounted ==
    /\ counts.send < Len(sent)
    /\ counts' = [counts EXCEPT !.send = @ + 1,
                                !.sendBytes = @ + Size(sent[counts.send + 1])]
    /\ UNCHANGED <<sent, got, broken>>

Deliver ==
    /\ Len(got) < Len(sent)
    /\ got' = Append(got, sent[Len(got) + 1])
    /\ counts' = [counts EXCEPT !.recv = @ + 1,
                                !.recvBytes = @ + Size(sent[Len(got) + 1])]
    /\ UNCHANGED <<sent, broken>>

Break == /\ ~broken /\ broken' = TRUE
         /\ UNCHANGED <<sent, got, counts>>

\* RecvMsg returns -MY_ERR_PEER_CLOSED to its caller
CloseCounted ==
    /\ broken
    /\ counts'.recv = counts.recv + 1
    /\ counts'.send = counts.send /\ counts'.sendBytes = counts.sendBytes
    /\ UNCHANGED <<sent, got, broken>>

Next == Send \/ SendCounted \/ Deliver \/ Break \/ CloseCounted

Spec == Init /\ [][Next]_cvars
Fairness == WF_cvars(~broken /\ SendCounted) /\ WF_cvars(~broken /\ Deliver)
=============================================================================
