------------------------------ MODULE MsgProofs ------------------------------
(***************************************************************************)
(* The byte stream carries messages, proved for any number of senders and  *)
(* messages, frames and buffers of any size, and every surrounding but     *)
(* "together": threads wait for each other's SendMsg.                      *)
(***************************************************************************)
EXTENDS Msg, Integers, SequenceTheorems, TLAPS

(***************************************************************************)
(* The inductive invariant.                                                *)
(***************************************************************************)
Bytes == Msgs \X Nat
Counts == [send : Nat, sendBytes : Nat, sendFailed : Nat,
           recv : Nat, recvBytes : Nat, recvFailed : Nat]

TypeOK ==
    /\ mod \in [Ends -> {"down", "up", "ended"}]
    /\ pc \in [Senders -> {"idle", "made", "send", "sent", "failed"}]
    /\ event \in {"level", "none", "some"}
    /\ num \in [Senders -> 0..MaxMsgs] /\ len \in [Senders -> 0..UintMax]
    /\ at \in [Senders -> Nat]
    /\ link \in {"open", "shut", "dropped", "reset"} /\ stream \in Seq(Bytes)
    /\ rpc \in {"idle", "recv", "ok", "closed", "failed", "off"}
    /\ rmsg \in Seq(Bytes) /\ rlen \in Nat
    /\ counts \in Counts /\ begun \in Seq(Msgs) /\ got \in Seq(Seq(Bytes))
    /\ ub \in BOOLEAN

Sends(s) == pc[s] \in {"send", "sent"}
InHand(s) == Sends(s) /\ at[s] > 0
Size(m) == SizeOf(m[3])

\* How far each sender is; the one whose frame is on its way is the one of the last
\* message begun, and the only one not counted yet
OneSends == \A s, o \in Senders : Sends(s) /\ Sends(o) => s = o
SenderInv(s) ==
    /\ pc[s] # "idle" => num[s] > 0
    /\ pc[s] = "made" => len[s] < MaxCont /\ at[s] = 0
    /\ pc[s] = "send" => at[s] < SizeOf(len[s])
    /\ pc[s] = "sent" => at[s] = SizeOf(len[s])
    /\ pc[s] = "failed" => link # "open"
    /\ InHand(s) => Len(begun) = counts.send + 1 /\ begun[Len(begun)] = MsgOf(s)
AllCounted == link = "open" /\ (\A s \in Senders : ~InHand(s)) => Len(begun) = counts.send
SendersInv == OneSends /\ (\A s \in Senders : SenderInv(s)) /\ AllCounted

\* Whoever ends the connection has a reason that excuses what does not arrive
SomeTooLong == \E i \in 1..Len(begun) : TooLong(begun[i][3])
ReasonInv ==
    /\ link = "dropped" => SomeTooLong
    /\ rpc = "failed" => link = "reset" \/ SomeTooLong
    /\ rpc = "closed" => link = "shut"
    /\ \A s \in Senders : TooLong(len[s]) =>
          (pc[s] = "send" /\ at[s] = 0) \/ SomeTooLong \/ link \in {"shut", "reset"}

\* The frame RecvMsg is at, and the bytes it has of it
Receiving == rpc \in {"idle", "recv", "ok"}
Cur == Len(got) + 1
Taken == IF rpc \in {"recv", "ok"} THEN Len(rmsg) ELSE 0

\* RetMsg holds the beginning of that frame
ReceiverInv ==
    rpc \in {"recv", "ok"} =>
    /\ Len(rmsg) > 0 => Cur <= Len(begun)
    /\ \A p \in 1..Len(rmsg) : rmsg[p] = <<begun[Cur], p>>
    /\ LenAt <= Len(rmsg) /\ Len(rmsg) < HeadLen => rlen = Swap(begun[Cur][3])
    /\ HeadLen <= Len(rmsg) => rlen = begun[Cur][3] /\ ~TooLong(rlen)
    /\ rpc = "recv" /\ HeadLen <= Len(rmsg) => Len(rmsg) < SizeOf(rlen)
    /\ rpc = "ok" => HeadLen < Len(rmsg) /\ Len(rmsg) = SizeOf(rlen)

\* Where on the stream the frames are of which bytes are still to be received: the
\* i-th begins after place at[i] (counted from what RecvMsg has already, so that the
\* first may be negative), and a place of the stream holds the byte of its frame
Places(start) ==
    LET N == Len(begun)
    IN /\ Cur <= N + 1
       /\ start[Cur] = 0 - Taken
       /\ \A i \in Cur..N : start[i + 1] = start[i] + Size(begun[i])
       /\ \A i \in Cur..N + 1 : \A j \in i..N + 1 : start[i] <= start[j]
       /\ Len(stream) <= start[N + 1]
       /\ link = "open" =>
            /\ \A s \in Senders : InHand(s) =>
                   Len(stream) + Size(MsgOf(s)) = start[N + 1] + at[s]
            /\ (\A s \in Senders : ~InHand(s)) => Len(stream) = start[N + 1]
       /\ \A i \in Cur..N : \A p \in 1..Size(begun[i]) :
            start[i] + p \in 1..Len(stream) => stream[start[i] + p] = <<begun[i], p>>

StreamInv == Receiving => \E start \in [Nat -> Int] : Places(start)

\* A use of a destroyed lock changes nothing else, so that all of it still holds then
MsgInv == TypeOK /\ SendersInv /\ ReasonInv /\ ReceiverInv /\ StreamInv

LEMMA Sizes ==
    /\ HeadLen \in Nat /\ HeadLen > 0 /\ TailLen \in Nat /\ TailLen > 0
    /\ LenAt \in Nat /\ LenAt > 0 /\ LenAt <= HeadLen /\ Room \in Nat
    /\ MaxCont \in Nat /\ MaxCont > 0 /\ MaxMsgs \in Nat
    /\ UintMax \in Nat /\ MaxCont < UintMax
BY SMT, MsgSizes DEF UintMax

\* A length is taken for an int: what FillMsgCont makes is not too long, and there is
\* never less content than none
LEMMA Lengths ==
    ASSUME NEW n \in Nat
    PROVE  /\ Content(n) \in Nat /\ (n <= MaxCont => ~TooLong(n))
           /\ TooLong(n) \in BOOLEAN
BY SMT, MsgSizes DEF AsInt, Content, TooLong

(***************************************************************************)
(* Swapping the four bytes of a 32-bit number twice gives it back.         *)
(***************************************************************************)
Byte == 0..255
Number(a, b, c, d) == a * 16777216 + b * 65536 + c * 256 + d
Digits(n, a, b, c, d) == /\ (n \div 16777216) % 256 = a /\ (n \div 65536) % 256 = b
                         /\ (n \div 256) % 256 = c /\ n % 256 = d

LEMMA NumberDigits ==
    ASSUME NEW a \in Byte, NEW b \in Byte, NEW c \in Byte, NEW d \in Byte
    PROVE  Number(a, b, c, d) \in Nat /\ Digits(Number(a, b, c, d), a, b, c, d)
<1> DEFINE n == Number(a, b, c, d)
<1> USE DEF Byte
<1>1. n \in Nat /\ n = a * 16777216 + b * 65536 + c * 256 + d
  BY SMT DEF Number
<1> HIDE DEF n
<1>2. n \div 16777216 = a /\ n \div 65536 = a * 256 + b
      /\ n \div 256 = a * 65536 + b * 256 + c /\ n % 256 = d
  BY SMT, <1>1
<1>3. /\ (n \div 16777216) % 256 = a /\ (n \div 65536) % 256 = b
      /\ (n \div 256) % 256 = c
  <2>1. /\ a % 256 = a /\ (a * 256 + b) % 256 = b
        /\ (a * 65536 + b * 256 + c) % 256 = c
    BY SMT
  <2> QED BY SMT, <1>2, <2>1
<1>4. Digits(n, a, b, c, d)
  BY SMT, <1>2, <1>3 DEF Digits
<1> QED BY SMT, <1>1, <1>4 DEF n

LEMMA HasDigits ==
    ASSUME NEW n \in Nat, n < 4294967296
    PROVE  \E a, b, c, d \in Byte : n = Number(a, b, c, d)
<1> DEFINE a == n \div 16777216  b == (n \div 65536) % 256
           c == (n \div 256) % 256  d == n % 256
<1>1. a \in Byte /\ b \in Byte /\ c \in Byte /\ d \in Byte
  BY SMT DEF Byte
<1>2. n = Number(a, b, c, d)
  BY SMT DEF Number
<1> HIDE DEF a, b, c, d
<1> QED BY SMT, <1>1, <1>2

LEMMA SwapIs ==
    ASSUME NEW n \in Nat, NEW a, NEW b, NEW c, NEW d, Digits(n, a, b, c, d)
    PROVE  Swap(n) = Number(d, c, b, a)
<1>1. 256^0 = 1 /\ 256^1 = 256 /\ 256^2 = 65536 /\ 256^3 = 16777216
  BY SMT
<1>2. n \div 1 = n
  BY SMT
<1> QED BY SMT, <1>1, <1>2 DEF Swap, Digits, Number

\* The lengths a head may hold are such numbers
LEMMA SwapTwice ==
    ASSUME NEW n \in 0..UintMax
    PROVE  Swap(n) \in Nat /\ Swap(Swap(n)) = n
<1>1. n \in Nat /\ n < 4294967296
  BY SMT, MsgSizes DEF UintMax
<1>2. PICK a \in Byte, b \in Byte, c \in Byte, d \in Byte : n = Number(a, b, c, d)
  BY SMT, <1>1, HasDigits
<1>3. Swap(n) = Number(d, c, b, a)
  BY SMT, <1>1, <1>2, NumberDigits, SwapIs
<1>4. Number(d, c, b, a) \in Nat /\ Swap(Number(d, c, b, a)) = n
  BY SMT, <1>2, NumberDigits, SwapIs
<1> QED BY SMT, <1>3, <1>4

\* What there is to say of a message and of a frame
LEMMA MessageIs ==
    ASSUME NEW m \in Msgs
    PROVE  /\ m[3] \in 0..UintMax /\ Size(m) \in Nat /\ Size(m) > HeadLen
           /\ Size(m) = HeadLen + Content(m[3]) + TailLen
           /\ FrameOf(m) \in Seq(Bytes) /\ Len(FrameOf(m)) = Size(m)
           /\ \A p \in 1..Size(m) : FrameOf(m)[p] = <<m, p>>
<1>1. m[3] \in 0..UintMax
  BY DEF Msgs
<1>2. Size(m) = HeadLen + Content(m[3]) + TailLen /\ Size(m) \in Nat /\ Size(m) > HeadLen
  <2>1. m[3] \in Nat
    BY <1>1, Sizes
  <2> QED BY <2>1, Lengths, Sizes DEF Size, SizeOf
<1>3. FrameOf(m) = [p \in 1..Size(m) |-> <<m, p>>]
  BY DEF FrameOf, Size
<1>4. FrameOf(m) \in [1..Size(m) -> Bytes]
  BY <1>2, <1>3 DEF Bytes
<1>5. FrameOf(m) \in Seq(Bytes) /\ Len(FrameOf(m)) = Size(m)
  BY <1>2, <1>4
<1> QED BY <1>1, <1>2, <1>3, <1>5

LEMMA OwnMessage ==
    ASSUME TypeOK, NEW s \in Senders
    PROVE  /\ num[s] > 0 => MsgOf(s) \in Msgs
           /\ MsgOf(s)[3] = len[s] /\ Size(MsgOf(s)) = SizeOf(len[s])
           /\ SizeOf(len[s]) \in Nat /\ SizeOf(len[s]) > HeadLen
<1>1. num[s] \in 0..MaxMsgs /\ len[s] \in 0..UintMax
  BY DEF TypeOK
<1>2. SizeOf(len[s]) \in Nat /\ SizeOf(len[s]) > HeadLen
  <2>1. len[s] \in Nat
    BY <1>1, Sizes
  <2> QED BY <2>1, Lengths, Sizes DEF SizeOf
<1>3. num[s] > 0 => num[s] \in 1..MaxMsgs
  BY <1>1, Sizes
<1> QED BY <1>1, <1>2, <1>3 DEF MsgOf, Msgs, Size

\* A loop of SendMsg or RecvMsg ends within the frame
LEMMA LoopBounds ==
    ASSUME NEW n \in Nat, NEW done \in Nat
    PROVE  /\ LoopEnd(done, n) \in Nat /\ SizeOf(n) \in Nat /\ LoopEnd(done, n) <= SizeOf(n)
           /\ done < HeadLen => LoopEnd(done, n) = HeadLen
           /\ HeadLen <= done => HeadLen < LoopEnd(done, n) \/ LoopEnd(done, n) <= done
BY Lengths, Sizes DEF LoopEnd, SizeOf

LEMMA InitInv == Init => MsgInv
<1> SUFFICES ASSUME Init PROVE MsgInv
  OBVIOUS
<1>1. TypeOK
  <2>1. mod \in [Ends -> {"down", "up", "ended"}] /\ counts \in Counts
    BY DEF Init, Counts
  <2>2. /\ stream \in Seq(Bytes) /\ rmsg \in Seq(Bytes) /\ begun \in Seq(Msgs)
        /\ got \in Seq(Seq(Bytes))
    BY DEF Init
  <2>3. num \in [Senders -> 0..MaxMsgs] /\ len \in [Senders -> 0..UintMax]
    BY Sizes DEF Init
  <2> QED BY <2>1, <2>2, <2>3 DEF Init, TypeOK
<1>2. SendersInv /\ ReasonInv /\ ReceiverInv
  <2>1. ~TooLong(0) /\ \A s \in Senders : len[s] = 0 /\ pc[s] = "idle"
    BY Lengths, Sizes DEF Init
  <2>2. SendersInv /\ ReceiverInv
    BY <2>1 DEF Init, SendersInv, OneSends, SenderInv, AllCounted, ReceiverInv, Sends, InHand
  <2>3. ReasonInv
    BY <2>1 DEF Init, ReasonInv
  <2> QED BY <2>2, <2>3
<1>3. StreamInv
  <2>1. /\ Cur = 1 /\ Taken = 0 /\ Len(begun) = 0 /\ Len(stream) = 0
        /\ \A s \in Senders : ~InHand(s)
    BY DEF Init, Cur, Taken, InHand, Sends
  <2>2. Places([i \in Nat |-> 0])
    BY <2>1 DEF Places
  <2>3. [i \in Nat |-> 0] \in [Nat -> Int]
    OBVIOUS
  <2> QED BY <2>2, <2>3 DEF StreamInv
<1> QED BY <1>1, <1>2, <1>3 DEF MsgInv

(***************************************************************************)
(* What a send and a recv do to the stream.                                *)
(***************************************************************************)
LEMMA Sent ==
    ASSUME TypeOK, SendersInv, NEW s \in Senders, SendBytes(s)
    PROVE  \E n \in Nat :
           /\ n > 0 /\ at[s] + n <= SizeOf(len[s])
           /\ at' = [at EXCEPT ![s] = at[s] + n]
           /\ pc' = [pc EXCEPT ![s] = IF at[s] + n = SizeOf(len[s]) THEN "sent" ELSE "send"]
           /\ stream' \in Seq(Bytes) /\ Len(stream') = Len(stream) + n
           /\ \A k \in 1..Len(stream) : stream'[k] = stream[k]
           /\ \A q \in 1..n : stream'[Len(stream) + q] = <<MsgOf(s), at[s] + q>>
<1>1. PICK n \in 1..(LoopEnd(at[s], len[s]) - at[s]) :
        /\ stream' = stream \o SubSeq(FrameOf(MsgOf(s)), at[s] + 1, at[s] + n)
        /\ at' = [at EXCEPT ![s] = at[s] + n]
        /\ pc' = [pc EXCEPT ![s] = IF at[s] + n = SizeOf(len[s]) THEN "sent" ELSE "send"]
  BY DEF SendBytes, Advanced
<1>2. MsgOf(s) \in Msgs /\ SizeOf(len[s]) \in Nat /\ Size(MsgOf(s)) = SizeOf(len[s])
  BY OwnMessage DEF SendBytes, SendersInv, SenderInv
<1>3. at[s] \in Nat /\ len[s] \in Nat /\ stream \in Seq(Bytes)
  BY DEF TypeOK
<1>4. LoopEnd(at[s], len[s]) \in Nat /\ LoopEnd(at[s], len[s]) <= SizeOf(len[s])
  BY <1>3, LoopBounds
<1> DEFINE f == FrameOf(MsgOf(s))
           a == at[s]
           e == LoopEnd(at[s], len[s])
           z == SizeOf(len[s])
<1>5. \A p \in 1..z : f[p] = <<MsgOf(s), p>>
  BY <1>2, MessageIs
<1>6. \A p \in 1..z : <<MsgOf(s), p>> \in Bytes
  BY <1>2 DEF Bytes
<1>7. a \in Nat /\ e \in Nat /\ z \in Nat /\ e <= z /\ n \in 1..(e - a)
  BY <1>2, <1>3, <1>4
<1> HIDE DEF f, a, e, z
<1>8. n \in Nat /\ n > 0 /\ a + n <= z /\ a + 1 \in Int /\ a + n \in Int
  BY <1>7
<1>9. \A i \in a + 1..a + n : i \in 1..z
  BY <1>7, <1>8
<1> DEFINE c == SubSeq(f, a + 1, a + n)
<1>10. c \in Seq(Bytes) /\ Len(c) = n /\ \A q \in 1..n : c[q] = f[a + q]
  <2>1. \A i \in a + 1..a + n : f[i] \in Bytes
    BY <1>5, <1>6, <1>9
  <2>2. /\ c \in Seq(Bytes)
        /\ Len(c) = IF a + 1 <= a + n THEN (a + n) - (a + 1) + 1 ELSE 0
        /\ \A i \in 1..(a + n) - (a + 1) + 1 : c[i] = f[(a + 1) + i - 1]
    BY <1>8, <2>1, SubSeqProperties
  <2> HIDE DEF c
  <2>3. \A i \in 1..n : (a + 1) + i - 1 = a + i
    BY <1>7, <1>8
  <2>4. (a + n) - (a + 1) + 1 = n /\ a + 1 <= a + n
    BY <1>7, <1>8
  <2> QED BY <2>2, <2>3, <2>4
<1>11. \A q \in 1..n : c[q] = <<MsgOf(s), a + q>>
  <2>1. \A q \in 1..n : a + q \in 1..z
    BY <1>7, <1>8
  <2> QED BY <1>5, <1>10, <2>1
<1>12. stream' = stream \o c
  BY <1>1 DEF f, a
<1> HIDE DEF c
<1>13. /\ stream' \in Seq(Bytes) /\ Len(stream') = Len(stream) + n
       /\ \A k \in 1..Len(stream) : stream'[k] = stream[k]
       /\ \A q \in 1..n : stream'[Len(stream) + q] = c[q]
  BY <1>3, <1>8, <1>10, <1>12
<1> QED BY <1>1, <1>8, <1>11, <1>13 DEF a, z

LEMMA Received ==
    ASSUME TypeOK, RecvBytes
    PROVE  \E n \in Nat :
           /\ n > 0 /\ n <= Len(stream) /\ Len(rmsg) + n <= LoopEnd(Len(rmsg), rlen)
           /\ rmsg' \in Seq(Bytes) /\ Len(rmsg') = Len(rmsg) + n
           /\ \A p \in 1..Len(rmsg) : rmsg'[p] = rmsg[p]
           /\ \A q \in 1..n : rmsg'[Len(rmsg) + q] = stream[q]
           /\ stream' \in Seq(Bytes) /\ Len(stream') = Len(stream) - n
           /\ \A k \in 1..Len(stream) - n : stream'[k] = stream[n + k]
<1>1. PICK n \in 1..(LoopEnd(Len(rmsg), rlen) - Len(rmsg)) :
        /\ n <= Len(stream)
        /\ rmsg' = rmsg \o SubSeq(stream, 1, n)
        /\ stream' = SubSeq(stream, n + 1, Len(stream))
  BY DEF RecvBytes
<1>2. stream \in Seq(Bytes) /\ rmsg \in Seq(Bytes) /\ Len(stream) \in Nat /\ Len(rmsg) \in Nat
  BY DEF TypeOK
<1>3. LoopEnd(Len(rmsg), rlen) \in Nat
  BY <1>2, LoopBounds DEF TypeOK
<1>4. n \in Nat /\ n > 0 /\ Len(rmsg) + n <= LoopEnd(Len(rmsg), rlen)
  BY <1>2, <1>3
<1> DEFINE c == SubSeq(stream, 1, n)
<1>5. c \in Seq(Bytes) /\ Len(c) = n /\ \A q \in 1..n : c[q] = stream[q]
  BY <1>1, <1>2, <1>4
<1> HIDE DEF c
<1>6. /\ rmsg' \in Seq(Bytes) /\ Len(rmsg') = Len(rmsg) + n
      /\ \A p \in 1..Len(rmsg) : rmsg'[p] = rmsg[p]
      /\ \A q \in 1..n : rmsg'[Len(rmsg) + q] = c[q]
  <2>1. rmsg' = rmsg \o c
    BY <1>1 DEF c
  <2>2. /\ rmsg' \in Seq(Bytes) /\ Len(rmsg') = Len(rmsg) + Len(c)
        /\ \A i \in 1..Len(rmsg) + Len(c) :
             rmsg'[i] = IF i <= Len(rmsg) THEN rmsg[i] ELSE c[i - Len(rmsg)]
    BY <1>2, <1>5, <2>1, ConcatProperties
  <2> HIDE DEF Bytes
  <2>3. \A q \in 1..n : /\ Len(rmsg) + q \in 1..Len(rmsg) + Len(c)
                        /\ ~(Len(rmsg) + q <= Len(rmsg))
                        /\ (Len(rmsg) + q) - Len(rmsg) = q
    BY <1>2, <1>4, <1>5
  <2>4. \A p \in 1..Len(rmsg) : p \in 1..Len(rmsg) + Len(c) /\ p <= Len(rmsg)
    BY <1>2, <1>4, <1>5
  <2>5. \A q \in 1..n : rmsg'[Len(rmsg) + q] = c[q]
    BY <2>2, <2>3
  <2> QED BY <1>5, <2>2, <2>4, <2>5
<1>7. /\ stream' \in Seq(Bytes) /\ Len(stream') = Len(stream) - n
      /\ \A k \in 1..Len(stream) - n : stream'[k] = stream[n + k]
  BY <1>1, <1>2, <1>4
<1> QED BY <1>1, <1>4, <1>5, <1>6, <1>7

\* The statistics count
LEMMA Counting ==
    ASSUME NEW c \in Counts, NEW n \in Nat
    PROVE  /\ [c EXCEPT !.send = @ + 1, !.sendBytes = @ + n] \in Counts
           /\ [c EXCEPT !.recv = @ + 1, !.recvBytes = @ + n] \in Counts
           /\ [c EXCEPT !.sendFailed = @ + 1] \in Counts
           /\ [c EXCEPT !.recvFailed = @ + 1] \in Counts
<1> USE DEF Counts
<1>1. [c EXCEPT !.sendFailed = @ + 1] \in Counts
  OBVIOUS
<1>2. [c EXCEPT !.recvFailed = @ + 1] \in Counts
  OBVIOUS
<1>3. [c EXCEPT !.send = @ + 1, !.sendBytes = @ + n] \in Counts
  <2>1. c.send + 1 \in Nat /\ c.sendBytes + n \in Nat
    OBVIOUS
  <2>2. \A x, y \in Nat : [c EXCEPT !.send = x, !.sendBytes = y] \in Counts
    OBVIOUS
  <2> QED BY <2>1, <2>2
<1>4. [c EXCEPT !.recv = @ + 1, !.recvBytes = @ + n] \in Counts
  <2>1. c.recv + 1 \in Nat /\ c.recvBytes + n \in Nat
    OBVIOUS
  <2>2. \A x, y \in Nat : [c EXCEPT !.recv = x, !.recvBytes = y] \in Counts
    OBVIOUS
  <2> QED BY <2>1, <2>2
<1> QED BY <1>1, <1>2, <1>3, <1>4

(***************************************************************************)
(* Types.                                                                  *)
(***************************************************************************)
LEMMA TypeStep == TypeOK /\ SendersInv /\ [Next]_vars => TypeOK'
<1> SUFFICES ASSUME TypeOK, SendersInv, [Next]_vars PROVE TypeOK'
  OBVIOUS
<1> USE DEF sendVars, recvVars
<1>1. ASSUME NEW e \in Ends, MsgModuleInit(e) \/ MsgModuleExit(e) PROVE TypeOK'
  BY <1>1 DEF MsgModuleInit, MsgModuleExit, TypeOK
<1>2. ASSUME NEW e \in Ends, UsesDestroyedLock(e) PROVE TypeOK'
  BY <1>2 DEF UsesDestroyedLock, TypeOK
<1>3. ASSUME NEW s \in Senders, NewMsg(s) PROVE TypeOK'
  <2>1. num' \in [Senders -> 0..MaxMsgs] /\ len' \in [Senders -> 0..UintMax]
    BY <1>3, Sizes DEF NewMsg, TypeOK
  <2> QED BY <1>3, <2>1 DEF NewMsg, TypeOK
<1>4. ASSUME NEW s \in Senders, FillMsgCont(s) \/ ClearMsgCont(s) PROVE TypeOK'
  <2>1. len[s] \in 0..UintMax
    BY DEF TypeOK
  <2>2. \A n \in 0..MaxCont : Fits(s, n) => len[s] + n \in 0..UintMax
    BY <2>1, Sizes DEF Fits
  <2>3. len' \in [Senders -> 0..UintMax]
    BY SMTT(20), <1>4, <2>2, Sizes DEF FillMsgCont, ClearMsgCont, TypeOK
  <2>4. pc' \in [Senders -> {"idle", "made", "send", "sent", "failed"}]
    BY <1>4 DEF FillMsgCont, ClearMsgCont, FreeMsg, TypeOK
  <2> QED BY <1>4, <2>3, <2>4 DEF FillMsgCont, ClearMsgCont, TypeOK
<1>5. ASSUME NEW s \in Senders, SendMsg(s) PROVE TypeOK'
  <2>1. \A n \in Foreign : [len EXCEPT ![s] = n] \in [Senders -> 0..UintMax]
    <3>1. \A n \in Foreign : n \in 0..UintMax
      BY Sizes, MsgSizes
    <3> QED BY <3>1 DEF TypeOK
  <2>2. len' = len \/ \E n \in Foreign : len' = [len EXCEPT ![s] = n]
    BY <1>5 DEF SendMsg
  <2>3. len' \in [Senders -> 0..UintMax]
    BY <2>1, <2>2 DEF TypeOK
  <2> QED BY <1>5, <2>3 DEF SendMsg, TypeOK
<1>6. ASSUME NEW s \in Senders, SendBytes(s) PROVE TypeOK'
  <2>1. MsgOf(s) \in Msgs
    BY <1>6, OwnMessage DEF SendBytes, SendersInv, SenderInv
  <2>2. begun' \in Seq(Msgs)
    BY <1>6, <2>1 DEF SendBytes, TypeOK
  <2>3. PICK n \in Nat : /\ at' = [at EXCEPT ![s] = at[s] + n] /\ stream' \in Seq(Bytes)
                         /\ pc' = [pc EXCEPT ![s] = IF at[s] + n = SizeOf(len[s])
                                                    THEN "sent" ELSE "send"]
    BY <1>6, Sent
  <2>4. at' \in [Senders -> Nat]
    <3>1. at[s] + n \in Nat
      BY DEF TypeOK
    <3> QED BY <2>3, <3>1 DEF TypeOK
  <2>5. pc' \in [Senders -> {"idle", "made", "send", "sent", "failed"}]
    BY <2>3 DEF TypeOK
  <2>6. event' \in {"level", "none", "some"}
    BY <1>6 DEF SendBytes, Arrives, TypeOK
  <2> QED BY <1>6, <2>2, <2>3, <2>4, <2>5, <2>6 DEF SendBytes, TypeOK
<1>7. ASSUME NEW s \in Senders, SendFails(s) PROVE TypeOK'
  BY <1>7 DEF SendFails, TypeOK
<1>8. ASSUME NEW s \in Senders, SendReturns(s) PROVE TypeOK'
  <2>1. Counted(len[s]) \in Nat
    BY Sizes DEF TypeOK, Counted
  <2>2. counts \in Counts
    BY DEF TypeOK
  <2>3. counts' \in Counts
    BY <1>8, <2>1, <2>2, Counting DEF SendReturns
  <2> QED BY <1>8, <2>3 DEF SendReturns, FreeMsg, TypeOK
<1>9. CASE RecvMsg
  BY <1>9 DEF RecvMsg, TypeOK
<1>10. CASE RecvBytes
  <2>1. PICK n \in 1..(LoopEnd(Len(rmsg), rlen) - Len(rmsg)) :
          /\ n <= Len(stream)
          /\ rmsg' = rmsg \o SubSeq(stream, 1, n)
          /\ stream' = SubSeq(stream, n + 1, Len(stream))
          /\ \E raw \in IF Len(rmsg) < LenAt /\ Len(rmsg') >= LenAt
                        THEN OnWire(rmsg'[LenAt]) ELSE {rlen} :
                 rlen' = IF Len(rmsg) < HeadLen /\ Len(rmsg') = HeadLen
                         THEN Swap(raw) ELSE raw
    BY <1>10 DEF RecvBytes
  <2>2. rmsg' \in Seq(Bytes) /\ stream' \in Seq(Bytes)
    BY <2>1 DEF TypeOK
  <2>3. \A raw : raw \in Nat => Swap(raw) \in Nat
    BY DEF Swap
  <2>4. Len(rmsg) < LenAt /\ Len(rmsg') >= LenAt => OnWire(rmsg'[LenAt]) \subseteq Nat
    <3> SUFFICES ASSUME Len(rmsg) < LenAt, Len(rmsg') >= LenAt
                 PROVE  OnWire(rmsg'[LenAt]) \subseteq Nat
      OBVIOUS
    <3>1. LenAt \in 1..Len(rmsg')
      BY <2>2, Sizes
    <3>2. PICK b \in Bytes : b = rmsg'[LenAt]
      BY <2>2, <3>1
    <3>3. b[1][3] \in Nat
      BY Sizes DEF Bytes, Msgs
    <3> QED BY <2>3, <3>2, <3>3, Sizes DEF OnWire
  <2>5. rlen' \in Nat
    BY <2>1, <2>3, <2>4 DEF TypeOK
  <2> QED BY <1>10, <2>2, <2>5 DEF RecvBytes, TypeOK
<1>11. CASE RecvEnds
  BY <1>11 DEF RecvEnds, TypeOK
<1>12. CASE RecvReturns
  <2>1. Counted(rlen) \in Nat
    BY Sizes DEF TypeOK, Counted
  <2>2. counts \in Counts
    BY DEF TypeOK
  <2>3. counts' \in Counts
    BY <1>12, <2>1, <2>2, Counting DEF RecvReturns
  <2>4. Append(got, rmsg) \in Seq(Seq(Bytes))
    BY DEF TypeOK
  <2>5. got' \in Seq(Seq(Bytes))
    BY <1>12, <2>4 DEF RecvReturns, TypeOK
  <2>6. stream' = stream \/ stream' = <<>>
    BY <1>12 DEF RecvReturns
  <2>7. stream' \in Seq(Bytes)
    <3>1. stream \in Seq(Bytes) /\ <<>> \in Seq(Bytes)
      BY DEF TypeOK
    <3> QED BY <2>6, <3>1
  <2>8. link' \in {"open", "shut", "dropped", "reset"}
    BY <1>12 DEF RecvReturns, TypeOK
  <2> QED BY <1>12, <2>3, <2>5, <2>7, <2>8 DEF RecvReturns, TypeOK
<1>13. CASE Shut
  BY <1>13 DEF Shut, Arrives, TypeOK
<1>14. CASE Reset
  <2>1. PICK n \in 0..Len(stream) : stream' = SubSeq(stream, 1, n)
    BY <1>14 DEF Reset
  <2>2. stream' \in Seq(Bytes)
    BY <2>1 DEF TypeOK
  <2>3. event' \in {"level", "none", "some"}
    BY <1>14 DEF Reset, Arrives, TypeOK
  <2> QED BY <1>14, <2>2, <2>3 DEF Reset, TypeOK
<1>15. CASE UNCHANGED vars
  BY <1>15 DEF vars, TypeOK
<1> QED BY <1>1, <1>2, <1>3, <1>4, <1>5, <1>6, <1>7, <1>8, <1>9, <1>10, <1>11, <1>12, <1>13,
        <1>14, <1>15 DEF Next, SendStep, RecvStep

(***************************************************************************)
(* The senders: one of them at a time is in SendMsg.                       *)
(***************************************************************************)
SenderStep(s) == NewMsg(s) \/ FillMsgCont(s) \/ ClearMsgCont(s) \/ SendMsg(s) \/ SendStep(s)

\* A step of a sender is none of another's, and leaves the receiver alone
LEMMA OthersRest ==
    ASSUME TypeOK, NEW s \in Senders, SenderStep(s)
    PROVE  /\ UNCHANGED <<mod, link, recvVars, got, ub>>
           /\ \A u \in Senders \ {s} : /\ pc'[u] = pc[u] /\ num'[u] = num[u]
                                       /\ len'[u] = len[u] /\ at'[u] = at[u]
                                       /\ (Sends(u)' <=> Sends(u)) /\ (InHand(u)' <=> InHand(u))
                                       /\ MsgOf(u)' = MsgOf(u)
<1>1. UNCHANGED <<mod, link, recvVars, got, ub>>
  BY DEF SenderStep, NewMsg, FillMsgCont, ClearMsgCont, SendMsg, SendStep, SendBytes, SendFails,
         SendReturns
<1>2. ASSUME NEW u \in Senders, u # s
      PROVE  pc'[u] = pc[u] /\ num'[u] = num[u] /\ len'[u] = len[u] /\ at'[u] = at[u]
  BY <1>2 DEF TypeOK, SenderStep, NewMsg, FillMsgCont, ClearMsgCont, FreeMsg, SendMsg, SendStep,
       SendBytes, SendFails, SendReturns
<1> QED BY <1>1, <1>2 DEF Sends, InHand, MsgOf

\* The other steps leave the senders alone, and the connection does not open again
LEMMA SendersRest ==
    ASSUME [Next]_vars, \A s \in Senders : ~SenderStep(s), TypeOK
    PROVE  /\ UNCHANGED <<pc, num, len, at, begun>>
           /\ counts'.send = counts.send /\ counts'.sendBytes = counts.sendBytes
           /\ link' = "open" => link = "open"
<1> USE DEF sendVars
<1>1. ASSUME NEW e \in Ends, MsgModuleInit(e) \/ MsgModuleExit(e) \/ UsesDestroyedLock(e)
      PROVE  UNCHANGED <<pc, num, len, at, begun, counts, link>>
  BY <1>1 DEF MsgModuleInit, MsgModuleExit, UsesDestroyedLock
<1>2. CASE RecvMsg \/ RecvBytes \/ RecvEnds \/ Shut \/ Reset
  BY <1>2 DEF RecvMsg, RecvBytes, RecvEnds, Shut, Reset
<1>3. CASE RecvReturns
  <2>1. counts'.send = counts.send /\ counts'.sendBytes = counts.sendBytes
    BY <1>3 DEF RecvReturns, TypeOK, Counts
  <2> QED BY <1>3, <2>1 DEF RecvReturns
<1>4. CASE UNCHANGED vars
  BY <1>4 DEF vars
<1> QED BY <1>1, <1>2, <1>3, <1>4 DEF Next, SenderStep, RecvStep

LEMMA SendersStep ==
    ASSUME "together" \notin Env, TypeOK, SendersInv, [Next]_vars
    PROVE  SendersInv'
<1>1. ASSUME \A s \in Senders : ~SenderStep(s) PROVE SendersInv'
  BY <1>1, SendersRest DEF SendersInv, OneSends, SenderInv, AllCounted, Sends, InHand, MsgOf
<1>2. ASSUME NEW s \in Senders, SenderStep(s) PROVE SendersInv'
  <2>1. /\ link' = link
        /\ \A u \in Senders \ {s} : /\ pc'[u] = pc[u] /\ num'[u] = num[u]
                                    /\ len'[u] = len[u] /\ at'[u] = at[u]
                                    /\ (Sends(u)' <=> Sends(u)) /\ (InHand(u)' <=> InHand(u))
                                    /\ MsgOf(u)' = MsgOf(u)
    BY <1>2, OthersRest
  <2>2. SenderInv(s) /\ len[s] \in 0..UintMax /\ at[s] \in Nat /\ num[s] \in Nat
        /\ counts.send \in Nat /\ begun \in Seq(Msgs) /\ Len(begun) \in Nat
    BY Sizes DEF SendersInv, TypeOK, Counts
  <2>3. ASSUME begun' = begun, counts'.send = counts.send, InHand(s)' <=> InHand(s),
               Sends(s)' => Sends(s), SenderInv(s)'
        PROVE  SendersInv'
    <3>1. OneSends' /\ AllCounted'
      BY <2>1, <2>3 DEF SendersInv, OneSends, AllCounted
    <3>2. ASSUME NEW u \in Senders, u # s PROVE SenderInv(u)'
      BY <2>1, <2>3, <3>2 DEF SendersInv, SenderInv
    <3> QED BY <2>3, <3>1, <3>2 DEF SendersInv
  <2>4. CASE NewMsg(s)
    <3>1. /\ begun' = begun /\ counts' = counts /\ pc'[s] = "made" /\ pc[s] = "idle"
          /\ num'[s] = num[s] + 1 /\ len'[s] = 0 /\ at'[s] = 0
      BY <2>4 DEF NewMsg, TypeOK
    <3>2. ~InHand(s) /\ ~InHand(s)' /\ ~Sends(s)'
      BY <3>1 DEF InHand, Sends
    <3>3. SenderInv(s)'
      BY <2>2, <3>1, <3>2, Sizes DEF SenderInv
    <3> QED BY <2>3, <3>1, <3>2, <3>3
  <2>5. CASE FillMsgCont(s) \/ ClearMsgCont(s)
    <3>1. /\ begun' = begun /\ counts' = counts /\ pc[s] = "made" /\ pc'[s] \in {"made", "idle"}
          /\ num' = num /\ at' = at
      BY <2>5 DEF FillMsgCont, ClearMsgCont, FreeMsg, TypeOK
    <3>2. ~InHand(s) /\ ~InHand(s)' /\ ~Sends(s)'
      BY <3>1 DEF InHand, Sends
    <3>3. len'[s] < MaxCont
      <4>1. ASSUME NEW n \in 0..MaxCont, Fits(s, n) PROVE len[s] + n < MaxCont
        BY <2>2, <4>1, Sizes DEF Fits
      <4>2. len[s] < MaxCont
        BY <2>2, <3>1 DEF SenderInv
      <4> QED BY <2>5, <4>1, <4>2, Sizes DEF FillMsgCont, ClearMsgCont, TypeOK
    <3>4. SenderInv(s)'
      BY <2>2, <3>1, <3>2, <3>3, Sizes DEF SenderInv
    <3> QED BY <2>3, <3>1, <3>2, <3>4
  <2>6. CASE SendMsg(s)
    <3>1. /\ begun' = begun /\ counts' = counts /\ pc[s] = "made" /\ pc'[s] = "send"
          /\ num' = num /\ at' = at
          /\ \A o \in Senders \ {s} : ~Sends(o)
      BY <2>6 DEF SendMsg, TypeOK, Alone, Sends
    <3>2. ~InHand(s) /\ ~InHand(s)' /\ at[s] = 0
      BY <2>2, <3>1 DEF InHand, Sends, SenderInv
    <3>3. len'[s] \in Nat
      <4>1. len' \in [Senders -> 0..UintMax]
        BY TypeStep DEF TypeOK
      <4> QED BY <4>1, Sizes
    <3>4. SenderInv(s)'
      <4>1. SizeOf(len'[s]) \in Nat /\ 0 < SizeOf(len'[s])
        BY <3>3, Lengths, Sizes DEF SizeOf
      <4> QED BY <2>2, <3>1, <3>2, <4>1 DEF SenderInv
    <3>5. OneSends' /\ AllCounted'
      BY <2>1, <3>1, <3>2 DEF SendersInv, OneSends, AllCounted
    <3>6. ASSUME NEW u \in Senders, u # s PROVE SenderInv(u)'
      BY <2>1, <3>1, <3>6 DEF SendersInv, SenderInv
    <3> QED BY <3>4, <3>5, <3>6 DEF SendersInv
  <2>7. CASE SendBytes(s)
    <3>1. PICK n \in Nat :
            /\ n > 0 /\ at[s] + n <= SizeOf(len[s])
            /\ at' = [at EXCEPT ![s] = at[s] + n]
            /\ pc' = [pc EXCEPT ![s] = IF at[s] + n = SizeOf(len[s]) THEN "sent" ELSE "send"]
      BY <2>7, Sent
    <3>2. /\ num' = num /\ len' = len /\ counts' = counts /\ link = "open" /\ pc[s] = "send"
          /\ begun' = IF at[s] = 0 THEN Append(begun, MsgOf(s)) ELSE begun
      BY <2>7 DEF SendBytes
    <3>3. /\ at'[s] = at[s] + n
          /\ pc'[s] = IF at[s] + n = SizeOf(len[s]) THEN "sent" ELSE "send"
      BY <3>1 DEF TypeOK
    <3>4. SizeOf(len[s]) \in Nat /\ MsgOf(s)' = MsgOf(s)
      BY <3>2, OwnMessage DEF MsgOf
    <3>5. Sends(s) /\ Sends(s)' /\ InHand(s)'
      BY <2>2, <3>1, <3>2, <3>3 DEF Sends, InHand
    <3>6. \A u \in Senders \ {s} : ~Sends(u) /\ ~Sends(u)' /\ ~InHand(u) /\ ~InHand(u)'
      BY <2>1, <3>5 DEF SendersInv, OneSends, InHand
    <3>7. Len(begun') = counts.send + 1 /\ begun'[Len(begun')] = MsgOf(s)
      <4>1. CASE at[s] = 0
        <5>1. Len(begun) = counts.send
          BY <3>2, <3>6, <4>1 DEF SendersInv, AllCounted, InHand
        <5> QED BY <2>2, <3>2, <4>1, <5>1
      <4>2. CASE at[s] # 0
        <5>1. InHand(s)
          BY <2>2, <3>5, <4>2 DEF InHand
        <5> QED BY <2>2, <3>2, <4>2, <5>1 DEF SenderInv
      <4> QED BY <4>1, <4>2
    <3>8. SenderInv(s)'
      <4>1. num'[s] > 0
        BY <2>1, <3>2 DEF SendersInv, SenderInv
      <4>2. at[s] + n \in Nat /\ at[s] + n <= SizeOf(len'[s]) /\ SizeOf(len'[s]) \in Nat
        BY <2>2, <3>1, <3>2, <3>4
      <4> QED BY <3>2, <3>3, <3>4, <3>7, <4>1, <4>2 DEF SenderInv
    <3>9. ASSUME NEW u \in Senders, u # s PROVE SenderInv(u)'
      BY <2>1, <3>2, <3>6, <3>9 DEF SendersInv, SenderInv
    <3>10. OneSends' /\ AllCounted'
      BY <3>5, <3>6 DEF OneSends, AllCounted
    <3> QED BY <3>8, <3>9, <3>10 DEF SendersInv
  <2>8. CASE SendFails(s)
    <3>1. /\ num' = num /\ len' = len /\ at' = at /\ counts' = counts /\ link # "open"
          /\ begun' = begun /\ pc[s] = "send" /\ pc'[s] = "failed"
      BY <2>8 DEF SendFails, TypeOK
    <3>2. ~Sends(s)' /\ ~InHand(s)'
      BY <3>1 DEF Sends, InHand
    <3>3. SenderInv(s)'
      BY <2>1, <2>2, <3>1, <3>2 DEF SenderInv
    <3>4. ASSUME NEW u \in Senders, u # s PROVE SenderInv(u)'
      BY <2>1, <3>1, <3>4 DEF SendersInv, SenderInv
    <3>5. OneSends' /\ AllCounted'
      BY <2>1, <3>1, <3>2 DEF SendersInv, OneSends, AllCounted
    <3> QED BY <3>3, <3>4, <3>5 DEF SendersInv
  <2>9. CASE SendReturns(s)
    <3>1. /\ num' = num /\ len' = len /\ at' = at /\ pc'[s] = "idle" /\ begun' = begun
          /\ pc[s] \in {"sent", "failed"}
          /\ counts'.send = IF pc[s] = "sent" THEN counts.send + 1 ELSE counts.send
      BY <2>9 DEF SendReturns, FreeMsg, TypeOK, Counts
    <3>2. ~Sends(s)' /\ ~InHand(s)'
      BY <3>1 DEF Sends, InHand
    <3>3. SenderInv(s)'
      BY <3>1, <3>2 DEF SenderInv
    <3>4. CASE pc[s] = "failed"
      <4>1. ~Sends(s) /\ ~InHand(s)
        BY <3>4 DEF Sends, InHand
      <4> QED BY <2>3, <3>1, <3>2, <3>3, <3>4, <4>1
    <3>5. CASE pc[s] = "sent"
      <4>1. Sends(s) /\ at[s] > 0 /\ InHand(s)
        <5>1. SizeOf(len[s]) \in Nat /\ SizeOf(len[s]) > HeadLen
          BY OwnMessage
        <5> QED BY <2>2, <3>5, <5>1, Sizes DEF SenderInv, InHand, Sends
      <4>2. \A u \in Senders \ {s} : ~Sends(u) /\ ~Sends(u)' /\ ~InHand(u) /\ ~InHand(u)'
        BY <2>1, <4>1 DEF SendersInv, OneSends, InHand
      <4>3. Len(begun') = counts'.send
        BY <2>2, <3>1, <3>5, <4>1 DEF SenderInv
      <4>4. OneSends' /\ AllCounted'
        BY <3>2, <4>2, <4>3 DEF OneSends, AllCounted
      <4>5. ASSUME NEW u \in Senders, u # s PROVE SenderInv(u)'
        BY <2>1, <3>1, <4>2, <4>5 DEF SendersInv, SenderInv
      <4> QED BY <3>3, <4>4, <4>5 DEF SendersInv
    <3> QED BY <3>1, <3>4, <3>5
  <2> QED BY <1>2, <2>4, <2>5, <2>6, <2>7, <2>8, <2>9 DEF SenderStep, SendStep
<1> QED BY <1>1, <1>2

(***************************************************************************)
(* The receiver: a recv continues the frame RecvMsg is at.                 *)
(***************************************************************************)
LEMMA FrameContinues ==
    ASSUME TypeOK, ReceiverInv, StreamInv, RecvBytes
    PROVE  \E n \in Nat :
           /\ n > 0 /\ n <= Len(stream)
           /\ Len(rmsg') = Len(rmsg) + n
           /\ Len(stream') = Len(stream) - n
           /\ \A k \in 1..Len(stream) - n : stream'[k] = stream[n + k]
           /\ Cur <= Len(begun) /\ begun[Cur] \in Msgs /\ Len(rmsg') <= Size(begun[Cur])
           /\ Len(rmsg) < HeadLen => Len(rmsg') <= HeadLen
           /\ \A p \in 1..Len(rmsg') : rmsg'[p] = <<begun[Cur], p>>
<1>1. PICK n \in Nat :
           /\ n > 0 /\ n <= Len(stream) /\ Len(rmsg) + n <= LoopEnd(Len(rmsg), rlen)
           /\ rmsg' \in Seq(Bytes) /\ Len(rmsg') = Len(rmsg) + n
           /\ \A p \in 1..Len(rmsg) : rmsg'[p] = rmsg[p]
           /\ \A q \in 1..n : rmsg'[Len(rmsg) + q] = stream[q]
           /\ stream' \in Seq(Bytes) /\ Len(stream') = Len(stream) - n
           /\ \A k \in 1..Len(stream) - n : stream'[k] = stream[n + k]
  BY Received
<1>2. rpc = "recv"
  BY DEF RecvBytes
<1>3. PICK start \in [Nat -> Int] : Places(start)
  BY <1>2 DEF StreamInv, Receiving
<1> DEFINE r == Len(rmsg)
           N == Len(begun)
<1>4. r \in Nat /\ N \in Nat /\ Cur \in Nat /\ Len(stream) \in Nat /\ rlen \in Nat /\ Cur > 0
      /\ begun \in Seq(Msgs)
  BY DEF TypeOK, Cur
<1>5. Taken = r
  BY <1>2 DEF Taken
<1>6. Cur <= N
  <2>1. Cur <= N + 1 /\ start[Cur] = 0 - r /\ Len(stream) <= start[N + 1]
    BY <1>3, <1>5 DEF Places
  <2>2. CASE Cur = N + 1
    BY <1>1, <1>4, <2>1, <2>2
  <2> QED BY <1>4, <2>1, <2>2
<1>7. Cur \in 1..N /\ begun[Cur] \in Msgs
  BY <1>4, <1>6
<1> DEFINE m == begun[Cur]
<1>8. m \in Msgs /\ Size(m) \in Nat /\ Size(m) = SizeOf(m[3]) /\ Size(m) > HeadLen
  BY <1>7, MessageIs DEF Size
<1>9. /\ HeadLen <= r => rlen = m[3]
      /\ \A p \in 1..r : rmsg[p] = <<m, p>>
  BY <1>2 DEF ReceiverInv
<1> HIDE DEF m, r, N
<1>10. r + n <= Size(m) /\ (r < HeadLen => r + n <= HeadLen)
  <2>1. CASE r < HeadLen
    <3>1. r + n <= HeadLen
      BY <1>1, <1>4, <2>1, LoopBounds DEF r
    <3>2. HeadLen < Size(m) /\ HeadLen \in Nat /\ Size(m) \in Nat
      BY <1>8, Sizes
    <3>3. r + n <= Size(m)
      BY <1>4, <3>1, <3>2
    <3> QED BY <3>1, <3>3
  <2>2. CASE HeadLen <= r
    <3>1. r + n <= SizeOf(rlen)
      <4>1. LoopEnd(r, rlen) \in Nat /\ LoopEnd(r, rlen) <= SizeOf(rlen) /\ SizeOf(rlen) \in Nat
        BY <1>4, LoopBounds
      <4>2. r + n <= LoopEnd(r, rlen)
        BY <1>1 DEF r
      <4> QED BY <1>4, <4>1, <4>2
    <3>2. Size(m) = SizeOf(rlen)
      BY <1>8, <1>9, <2>2
    <3>3. ~(r < HeadLen)
      BY <1>4, <2>2, Sizes
    <3> QED BY <3>1, <3>2, <3>3
  <2> QED BY <1>4, <2>1, <2>2, Sizes
<1>11. \A q \in 1..n : stream[q] = <<m, r + q>>
  <2> SUFFICES ASSUME NEW q \in 1..n PROVE stream[q] = <<m, r + q>>
    OBVIOUS
  <2>1. \A p \in 1..Size(m) : start[Cur] + p \in 1..Len(stream) =>
                              stream[start[Cur] + p] = <<m, p>>
    <3>1. Cur \in Cur..N
      BY <1>4, <1>6
    <3> QED BY <1>3, <3>1 DEF Places, m, N
  <2>2. start[Cur] = 0 - r
    BY <1>3, <1>5 DEF Places
  <2>3. PICK p \in 1..Size(m) : p = r + q
    <3>1. Size(m) \in Nat /\ r + n <= Size(m)
      BY <1>8, <1>10
    <3>2. r + q \in 1..Size(m)
      BY <1>4, <3>1
    <3> QED BY <3>2
  <2>4. start[Cur] + p = q /\ q \in 1..Len(stream)
    BY <1>1, <1>4, <2>2, <2>3
  <2> QED BY <2>1, <2>3, <2>4
<1>12. \A p \in 1..r + n : rmsg'[p] = <<m, p>>
  <2> SUFFICES ASSUME NEW p \in 1..r + n PROVE rmsg'[p] = <<m, p>>
    OBVIOUS
  <2>1. CASE p <= r
    <3>1. p \in 1..r
      BY <1>4, <2>1
    <3> QED BY <1>1, <1>9, <3>1 DEF r
  <2>2. CASE p > r
    <3>1. PICK q \in 1..n : p = r + q
      <4>1. p - r \in 1..n /\ p = r + (p - r)
        BY <1>1, <1>4, <2>2
      <4> QED BY <4>1
    <3>2. rmsg'[r + q] = stream[q]
      BY <1>1 DEF r
    <3> QED BY <1>11, <3>1, <3>2
  <2> QED BY <1>4, <2>1, <2>2
<1> QED BY <1>1, <1>6, <1>7, <1>10, <1>12 DEF m, r, N

\* The length is converted twice, and checked
LEMMA LengthRead ==
    ASSUME TypeOK, ReceiverInv, StreamInv, RecvBytes
    PROVE  /\ LenAt <= Len(rmsg') /\ Len(rmsg') < HeadLen => rlen' = Swap(begun[Cur][3])
           /\ HeadLen <= Len(rmsg') => rlen' = begun[Cur][3]
           /\ rpc' = "failed" => TooLong(rlen') /\ Len(rmsg') = HeadLen
           /\ rpc' = "ok" => HeadLen < Len(rmsg') /\ Len(rmsg') = SizeOf(rlen')
           /\ rpc' = "recv" /\ Len(rmsg') = HeadLen => ~TooLong(rlen')
           /\ rpc' = "recv" /\ HeadLen < Len(rmsg') => Len(rmsg') # SizeOf(rlen')
           /\ rpc' \in {"failed", "ok", "recv"}
<1>1. PICK n \in Nat :
           /\ n > 0 /\ Len(rmsg') = Len(rmsg) + n
           /\ Cur <= Len(begun) /\ begun[Cur] \in Msgs
           /\ Len(rmsg) < HeadLen => Len(rmsg') <= HeadLen
           /\ \A p \in 1..Len(rmsg') : rmsg'[p] = <<begun[Cur], p>>
  BY FrameContinues
<1>2. rpc = "recv" /\ Len(rmsg) \in Nat
  BY DEF RecvBytes, TypeOK
<1> DEFINE r == Len(rmsg)
           x == Len(rmsg')
           l == begun[Cur][3]
<1>3. l \in 0..UintMax
  BY <1>1, MessageIs
<1>4. PICK raw \in IF r < LenAt /\ x >= LenAt THEN OnWire(rmsg'[LenAt]) ELSE {rlen} :
          rlen' = IF r < HeadLen /\ x = HeadLen THEN Swap(raw) ELSE raw
  BY DEF RecvBytes
<1>5. x >= LenAt => rmsg'[LenAt] = <<begun[Cur], LenAt>>
  BY <1>1, <1>2, Sizes
<1>6. r < LenAt /\ x >= LenAt => raw = Swap(l)
  BY <1>4, <1>5 DEF OnWire
<1>7. /\ LenAt <= r /\ r < HeadLen => rlen = Swap(l)
      /\ HeadLen <= r => rlen = l
  BY <1>2 DEF ReceiverInv
<1>8. r \in Nat /\ x = r + n /\ (r < HeadLen => x <= HeadLen)
  BY <1>1, <1>2
<1> HIDE DEF r, x, l
<1>9. LenAt <= x /\ x < HeadLen => rlen' = Swap(l)
  <2> SUFFICES ASSUME LenAt <= x, x < HeadLen PROVE rlen' = Swap(l)
    OBVIOUS
  <2>1. rlen' = raw
    BY <1>1, <1>4, <1>8, Sizes
  <2>2. CASE r < LenAt
    BY <1>6, <1>8, <2>1, <2>2, Sizes
  <2>3. CASE LenAt <= r
    BY <1>1, <1>4, <1>7, <1>8, <2>1, <2>3, Sizes
  <2> QED BY <1>8, <2>2, <2>3, Sizes
<1>10. HeadLen <= x => rlen' = l
  <2> SUFFICES ASSUME HeadLen <= x PROVE rlen' = l
    OBVIOUS
  <2>1. CASE r < HeadLen
    <3>1. x = HeadLen
      BY <1>1, <1>8, <2>1, Sizes
    <3>2. rlen' = Swap(raw)
      BY <1>4, <2>1, <3>1
    <3>3. raw = Swap(l)
      <4>1. CASE r < LenAt
        BY <1>6, <3>1, <4>1, Sizes
      <4>2. CASE LenAt <= r
        <5>1. ~(r < LenAt) /\ raw = rlen
          BY <1>4, <1>8, <4>2, Sizes
        <5> QED BY <1>7, <2>1, <4>2, <5>1
      <4> QED BY <1>8, <4>1, <4>2, Sizes
    <3> QED BY <1>3, <3>2, <3>3, SwapTwice
  <2>2. CASE HeadLen <= r
    <3>1. ~(r < LenAt) /\ ~(r < HeadLen)
      BY <1>8, <2>2, Sizes
    <3> QED BY <1>4, <1>7, <2>2, <3>1
  <2> QED BY <1>8, <2>1, <2>2, Sizes
<1>11. /\ rpc' = CASE x = HeadLen /\ TooLong(rlen') -> "failed"
                   [] x > HeadLen /\ x = SizeOf(rlen') -> "ok"
                   [] OTHER -> "recv"
  BY DEF RecvBytes, x
<1>12. x \in Nat /\ HeadLen \in Nat
  BY <1>8, Sizes
<1> QED BY <1>9, <1>10, <1>11, <1>12 DEF x, l

\* Messages are only added to those begun
LEMMA BegunGrows ==
    ASSUME TypeOK, SendersInv, [Next]_vars
    PROVE  /\ begun' = begun \/ \E m \in Msgs : begun' = Append(begun, m)
           /\ Len(begun') \in Nat /\ Len(begun) <= Len(begun')
           /\ \A i \in 1..Len(begun) : begun'[i] = begun[i]
           /\ SomeTooLong => SomeTooLong'
<1>1. begun' = begun \/ \E m \in Msgs : begun' = Append(begun, m)
  <2>1. ASSUME NEW s \in Senders, SenderStep(s), ~SendBytes(s) PROVE begun' = begun
    BY <2>1 DEF SenderStep, NewMsg, FillMsgCont, ClearMsgCont, SendMsg, SendStep, SendFails,
         SendReturns
  <2>2. ASSUME NEW s \in Senders, SendBytes(s)
        PROVE  MsgOf(s) \in Msgs /\ (begun' = begun \/ begun' = Append(begun, MsgOf(s)))
    BY <2>2, OwnMessage DEF SendBytes, SendersInv, SenderInv
  <2>3. (\A s \in Senders : ~SenderStep(s)) => begun' = begun
    BY SendersRest
  <2> QED BY <2>1, <2>2, <2>3
<1>2. begun \in Seq(Msgs) /\ Len(begun) \in Nat
  BY DEF TypeOK
<1>3. /\ Len(begun') \in Nat /\ Len(begun) <= Len(begun')
      /\ \A i \in 1..Len(begun) : begun'[i] = begun[i]
  BY <1>1, <1>2
<1>4. SomeTooLong => SomeTooLong'
  <2>1. \A i \in 1..Len(begun) : i \in 1..Len(begun')
    BY <1>2, <1>3
  <2> QED BY <1>3, <2>1 DEF SomeTooLong
<1> QED BY <1>1, <1>3, <1>4

LEMMA ReceiverStep ==
    ASSUME TypeOK, SendersInv, ReceiverInv, StreamInv, [Next]_vars
    PROVE  ReceiverInv'
<1>1. ASSUME UNCHANGED <<rpc, rmsg, rlen, got>> PROVE ReceiverInv'
  <2> SUFFICES ASSUME rpc \in {"recv", "ok"} PROVE ReceiverInv'
    BY <1>1 DEF ReceiverInv
  <2>1. Cur' = Cur /\ Cur \in Nat /\ Cur > 0 /\ Len(rmsg) \in Nat /\ Len(begun) \in Nat
    BY <1>1 DEF Cur, TypeOK
  <2>2. CASE Len(rmsg) = 0
    BY <1>1, <2>1, <2>2, Sizes DEF ReceiverInv
  <2>3. CASE Len(rmsg) > 0
    <3>1. Cur <= Len(begun)
      BY <2>3 DEF ReceiverInv
    <3>2. begun'[Cur] = begun[Cur] /\ Cur <= Len(begun')
      BY <2>1, <3>1, BegunGrows
    <3> QED BY <1>1, <2>1, <3>1, <3>2 DEF ReceiverInv
  <2> QED BY <2>1, <2>2, <2>3
<1>2. ASSUME NEW s \in Senders, SenderStep(s) PROVE ReceiverInv'
  BY <1>1, <1>2, OthersRest DEF recvVars
<1>3. ASSUME NEW e \in Ends, MsgModuleInit(e) \/ MsgModuleExit(e) \/ UsesDestroyedLock(e)
      PROVE  ReceiverInv'
  BY <1>1, <1>3 DEF MsgModuleInit, MsgModuleExit, UsesDestroyedLock, recvVars
<1>4. CASE RecvMsg
  <2>1. rpc' = "recv" /\ Len(rmsg') = 0
    BY <1>4 DEF RecvMsg
  <2> QED BY <2>1, Sizes DEF ReceiverInv
<1>5. CASE RecvBytes
  <2>1. PICK n \in Nat :
           /\ n > 0 /\ Len(rmsg') = Len(rmsg) + n
           /\ Cur <= Len(begun) /\ begun[Cur] \in Msgs /\ Len(rmsg') <= Size(begun[Cur])
           /\ \A p \in 1..Len(rmsg') : rmsg'[p] = <<begun[Cur], p>>
    BY <1>5, FrameContinues
  <2>2. begun' = begun /\ Cur' = Cur
    BY <1>5 DEF RecvBytes, sendVars, Cur
  <2>3. Len(rmsg') \in Nat
    BY <2>1 DEF TypeOK
  <2>4. HeadLen <= Len(rmsg') => rlen' = begun[Cur][3]
    BY <1>5, LengthRead
  <2>5. begun[Cur][3] \in Nat /\ Size(begun[Cur]) = SizeOf(begun[Cur][3])
        /\ Size(begun[Cur]) \in Nat /\ Size(begun[Cur]) > HeadLen
    BY <2>1, MessageIs, Sizes DEF Size
  <2>6. rpc' = "ok" => HeadLen < Len(rmsg') /\ Len(rmsg') = SizeOf(rlen')
    BY <1>5, LengthRead
  <2>7. rpc' \in {"recv", "ok"} /\ HeadLen <= Len(rmsg') => ~TooLong(rlen')
    <3>1. CASE Len(rmsg') = HeadLen
      BY <1>5, <2>4, <2>5, <3>1, LengthRead, Sizes
    <3>2. CASE HeadLen < Len(rmsg')
      <4>1. ~(Len(rmsg) < HeadLen)
        BY <1>5, <2>3, <3>2, FrameContinues, Sizes
      <4>2. HeadLen <= Len(rmsg)
        BY <4>1, Sizes DEF TypeOK
      <4>3. rlen = begun[Cur][3] /\ ~TooLong(rlen)
        BY <1>5, <4>2 DEF ReceiverInv, RecvBytes
      <4> QED BY <2>3, <2>4, <3>2, <4>3, Sizes
    <3> QED BY <2>3, <3>1, <3>2, Sizes
  <2>8. rpc' = "recv" /\ HeadLen <= Len(rmsg') => Len(rmsg') < SizeOf(rlen')
    <3>1. CASE Len(rmsg') = HeadLen
      BY <2>4, <2>5, <3>1, Sizes
    <3>2. CASE HeadLen < Len(rmsg')
      <4>1. rpc' = "recv" => Len(rmsg') # SizeOf(rlen')
        BY <1>5, <3>2, LengthRead
      <4>2. rlen' = begun[Cur][3] /\ Size(begun[Cur]) = SizeOf(rlen')
        BY <2>3, <2>4, <2>5, <3>2, Sizes
      <4>3. Len(rmsg') <= SizeOf(rlen') /\ SizeOf(rlen') \in Nat
        BY <2>1, <2>5, <4>2
      <4> QED BY <2>3, <4>1, <4>3
    <3> QED BY <2>3, <3>1, <3>2, Sizes
  <2>9. LenAt <= Len(rmsg') /\ Len(rmsg') < HeadLen => rlen' = Swap(begun[Cur][3])
    BY <1>5, LengthRead
  <2> QED BY <2>1, <2>2, <2>4, <2>6, <2>7, <2>8, <2>9 DEF ReceiverInv
<1>6. CASE RecvEnds
  BY <1>6 DEF RecvEnds, ReceiverInv
<1>7. CASE RecvReturns
  BY <1>7 DEF RecvReturns, ReceiverInv
<1>8. CASE Shut \/ Reset \/ UNCHANGED vars
  BY <1>1, <1>8 DEF Shut, Reset, vars, recvVars
<1> QED BY <1>2, <1>3, <1>4, <1>5, <1>6, <1>7, <1>8 DEF Next, SenderStep, RecvStep

(***************************************************************************)
(* Whatever ends the connection excuses what does not arrive.              *)
(***************************************************************************)
LEMMA ReasonStep ==
    ASSUME TypeOK, SendersInv, SendersInv', ReasonInv, ReceiverInv, StreamInv, [Next]_vars
    PROVE  ReasonInv'
<1>1. SomeTooLong => SomeTooLong'
  BY BegunGrows
<1>2. ASSUME NEW s \in Senders, SenderStep(s) PROVE ReasonInv'
  <2>1. /\ link' = link /\ rpc' = rpc
        /\ \A u \in Senders \ {s} : pc'[u] = pc[u] /\ len'[u] = len[u] /\ at'[u] = at[u]
    BY <1>2, OthersRest DEF recvVars
  <2>2. ASSUME TooLong(len'[s])
        PROVE  (pc'[s] = "send" /\ at'[s] = 0) \/ SomeTooLong' \/ link' \in {"shut", "reset"}
    <3>1. CASE NewMsg(s)
      <4>1. len'[s] = 0
        BY <3>1 DEF NewMsg, TypeOK
      <4> QED BY <2>2, <4>1, Lengths, Sizes
    <3>2. CASE FillMsgCont(s) \/ ClearMsgCont(s)
      <4>1. pc[s] = "made" /\ pc'[s] \in {"made", "idle"}
            /\ (pc'[s] = "idle" => len'[s] = len[s])
        BY <3>2 DEF FillMsgCont, ClearMsgCont, FreeMsg, TypeOK
      <4>2. len'[s] < MaxCont
        BY <4>1 DEF SendersInv, SenderInv
      <4>3. len'[s] \in Nat
        BY <1>2, TypeStep, Sizes DEF TypeOK, Next, SenderStep
      <4> QED BY <2>2, <4>2, <4>3, Lengths, Sizes
    <3>3. CASE SendMsg(s)
      BY <3>3 DEF SendMsg, TypeOK, SendersInv, SenderInv
    <3>4. CASE SendBytes(s)
      <4>1. PICK n \in Nat : /\ n > 0 /\ at' = [at EXCEPT ![s] = at[s] + n]
                             /\ pc' = [pc EXCEPT ![s] = IF at[s] + n = SizeOf(len[s])
                                                        THEN "sent" ELSE "send"]
        BY <3>4, Sent
      <4>2. InHand(s)'
        BY <4>1 DEF InHand, Sends, TypeOK
      <4>3. begun'[Len(begun')] = MsgOf(s)' /\ Len(begun') = counts'.send + 1
        BY <4>2 DEF SendersInv, SenderInv
      <4>4. counts' = counts /\ counts.send \in Nat
        BY <3>4 DEF SendBytes, TypeOK, Counts
      <4>5. Len(begun') \in 1..Len(begun') /\ begun'[Len(begun')][3] = len'[s]
        BY <4>3, <4>4 DEF MsgOf
      <4> QED BY <2>2, <4>5 DEF SomeTooLong
    <3>5. CASE SendFails(s)
      BY <1>1, <3>5 DEF SendFails, ReasonInv
    <3>6. CASE SendReturns(s)
      BY <1>1, <2>2, <3>6 DEF SendReturns, ReasonInv
    <3> QED BY <1>2, <3>1, <3>2, <3>3, <3>4, <3>5, <3>6 DEF SenderStep, SendStep
  <2> QED BY <1>1, <2>1, <2>2 DEF ReasonInv
<1>3. ASSUME UNCHANGED <<pc, len, at>>,
             link' = link \/ (link = "open" /\ link' \in {"shut", "reset"}),
             rpc' = rpc \/ rpc' \notin {"failed", "closed"}
                        \/ (rpc' = "failed" /\ (link = "reset" \/ SomeTooLong))
                        \/ (rpc' = "closed" /\ link = "shut")
      PROVE  ReasonInv'
  BY <1>1, <1>3 DEF ReasonInv
<1> USE DEF sendVars
<1>4. ASSUME NEW e \in Ends, MsgModuleInit(e) \/ MsgModuleExit(e) \/ UsesDestroyedLock(e)
      PROVE  ReasonInv'
  BY <1>3, <1>4 DEF MsgModuleInit, MsgModuleExit, UsesDestroyedLock, recvVars
<1>5. CASE RecvMsg
  BY <1>3, <1>5 DEF RecvMsg
<1>6. CASE RecvBytes
  <2>1. rpc' \in {"failed", "ok", "recv"} /\ (rpc' = "failed" => SomeTooLong)
    <3>1. /\ rpc' = "failed" => TooLong(rlen') /\ Len(rmsg') = HeadLen
          /\ HeadLen <= Len(rmsg') => rlen' = begun[Cur][3]
          /\ rpc' \in {"failed", "ok", "recv"}
      BY <1>6, LengthRead
    <3>2. Cur \in 1..Len(begun)
      <4>1. Cur <= Len(begun)
        BY <1>6, FrameContinues
      <4> QED BY <4>1 DEF Cur, TypeOK
    <3> QED BY <3>1, <3>2, Sizes DEF SomeTooLong
  <2> QED BY <1>3, <1>6, <2>1 DEF RecvBytes
<1>7. CASE RecvEnds
  BY <1>3, <1>7 DEF RecvEnds
<1>8. CASE RecvReturns
  <2>1. /\ UNCHANGED <<pc, len, at>> /\ rpc' \in {"idle", "off"}
        /\ link' = link \/ (link = "open" /\ link' = "dropped" /\ rpc \in {"closed", "failed"})
    BY <1>8 DEF RecvReturns
  <2> QED BY <1>1, <2>1 DEF ReasonInv
<1>9. CASE Shut \/ Reset \/ UNCHANGED vars
  BY <1>3, <1>9 DEF Shut, Reset, vars, recvVars
<1> QED BY <1>2, <1>4, <1>5, <1>6, <1>7, <1>8, <1>9 DEF Next, SenderStep, RecvStep

(***************************************************************************)
(* The stream: frames follow each other where they should.                 *)
(***************************************************************************)
\* Steps that move no byte and end no send
LEMMA PlacesStay ==
    ASSUME NEW start \in [Nat -> Int], Places(start),
           begun' = begun, stream' = stream, Cur' = Cur, Taken' = Taken,
           link' = "open" => link = "open",
           \A u \in Senders : /\ InHand(u)' <=> InHand(u)
                              /\ InHand(u) => at'[u] = at[u] /\ MsgOf(u)' = MsgOf(u)
    PROVE  Places(start)'
BY DEF Places, Size

LEMMA StreamStaysFor ==
    ASSUME StreamInv,
           Receiving' => Receiving,
           begun' = begun, stream' = stream, Cur' = Cur, Taken' = Taken,
           link' = "open" => link = "open",
           \A u \in Senders : /\ InHand(u)' <=> InHand(u)
                              /\ InHand(u) => at'[u] = at[u] /\ MsgOf(u)' = MsgOf(u)
    PROVE  StreamInv'
<1> SUFFICES ASSUME Receiving' PROVE \E start \in [Nat -> Int] : Places(start)'
  BY DEF StreamInv
<1>1. PICK start \in [Nat -> Int] : Places(start)
  BY DEF StreamInv
<1>2. Places(start)'
  BY <1>1, PlacesStay
<1> QED BY <1>2

\* A send puts the next bytes of the last frame at the end
LEMMA StreamSends ==
    ASSUME TypeOK, SendersInv, SendersInv', StreamInv, NEW s \in Senders, SendBytes(s)
    PROVE  StreamInv'
<1> SUFFICES ASSUME Receiving' PROVE \E start \in [Nat -> Int] : Places(start)'
  BY DEF StreamInv
<1>1. PICK n \in Nat :
           /\ n > 0 /\ at[s] + n <= SizeOf(len[s])
           /\ at' = [at EXCEPT ![s] = at[s] + n]
           /\ pc' = [pc EXCEPT ![s] = IF at[s] + n = SizeOf(len[s]) THEN "sent" ELSE "send"]
           /\ stream' \in Seq(Bytes) /\ Len(stream') = Len(stream) + n
           /\ \A k \in 1..Len(stream) : stream'[k] = stream[k]
           /\ \A q \in 1..n : stream'[Len(stream) + q] = <<MsgOf(s), at[s] + q>>
  BY Sent
<1>2. /\ num' = num /\ len' = len /\ link = "open" /\ link' = "open" /\ pc[s] = "send"
      /\ begun' = IF at[s] = 0 THEN Append(begun, MsgOf(s)) ELSE begun
      /\ UNCHANGED <<rpc, rmsg, got>>
  BY DEF SendBytes, recvVars
<1>3. Receiving /\ Cur' = Cur /\ Taken' = Taken /\ MsgOf(s)' = MsgOf(s)
  BY <1>2 DEF Receiving, Cur, Taken, MsgOf
<1>4. PICK old \in [Nat -> Int] : Places(old)
  BY <1>3 DEF StreamInv
<1> DEFINE N == Len(begun)
           M == Len(begun')
           L == Len(stream)
           a == at[s]
           z == SizeOf(len[s])
<1>5. /\ N \in Nat /\ M \in Nat /\ L \in Nat /\ a \in Nat /\ Cur \in Nat /\ Taken \in Nat
      /\ Cur > 0 /\ begun \in Seq(Msgs)
  <2>1. N \in Nat /\ L \in Nat /\ a \in Nat /\ Cur \in Nat /\ Taken \in Nat /\ Cur > 0
    BY DEF TypeOK, Cur, Taken
  <2>2. begun \in Seq(Msgs)
    BY DEF TypeOK
  <2> QED BY <1>2, <2>1, <2>2
<1>6. MsgOf(s) \in Msgs /\ Size(MsgOf(s)) = z /\ z \in Nat /\ z > 0
  <2>1. MsgOf(s) \in Msgs /\ Size(MsgOf(s)) = z /\ z \in Nat /\ z > HeadLen
    BY <1>2, OwnMessage DEF SendersInv, SenderInv
  <2> QED BY <2>1, Sizes
<1>7. /\ at'[s] = a + n /\ InHand(s)' /\ Sends(s)
      /\ \A u \in Senders \ {s} : ~InHand(u) /\ ~InHand(u)'
  <2>1. at'[s] = a + n /\ InHand(s)' /\ Sends(s) /\ Sends(s)'
    BY SMTT(20), <1>1, <1>2, <1>5 DEF TypeOK, InHand, Sends
  <2> QED BY <2>1 DEF SendersInv, OneSends, InHand
<1>8. /\ M > 0 /\ begun'[M] = MsgOf(s) /\ N <= M
      /\ \A i \in 1..N : begun'[i] = begun[i]
      /\ M = IF a = 0 THEN N + 1 ELSE N
  <2>1. begun'[M] = MsgOf(s)
    BY <1>3, <1>7 DEF SendersInv, SenderInv
  <2>2. a # 0 => N > 0
    <3>1. a # 0 => InHand(s)
      BY <1>5, <1>7 DEF InHand
    <3> QED BY <3>1 DEF SendersInv, SenderInv, TypeOK, Counts
  <2> QED BY <1>2, <1>5, <1>6, <2>1, <2>2
<1>9. /\ Cur <= N + 1 /\ old[Cur] = 0 - Taken
      /\ \A i \in Cur..N : old[i + 1] = old[i] + Size(begun[i])
      /\ \A i \in Cur..N + 1 : \A j \in i..N + 1 : old[i] <= old[j]
      /\ L <= old[N + 1]
      /\ \A i \in Cur..N : \A p \in 1..Size(begun[i]) :
           old[i] + p \in 1..L => stream[old[i] + p] = <<begun[i], p>>
  BY <1>4 DEF Places
<1>10. a = 0 => L = old[N + 1]
  BY <1>2, <1>4, <1>7 DEF Places, InHand
<1>11. a # 0 => L + z = old[N + 1] + a
  <2> SUFFICES ASSUME a # 0 PROVE L + z = old[N + 1] + a
    OBVIOUS
  <2>1. InHand(s)
    BY <1>5, <1>7 DEF InHand
  <2>2. L + Size(MsgOf(s)) = old[N + 1] + a
    BY <1>2, <1>4, <2>1 DEF Places
  <2> QED BY <1>6, <2>2
<1>12. a + n <= z /\ n > 0
  BY <1>1
<1>12a. /\ N \in Nat /\ M \in Nat /\ L \in Nat /\ a \in Nat /\ Cur \in Nat /\ Cur > 0
        /\ (a = 0 /\ M = N + 1) \/ (a > 0 /\ M = N)
  BY <1>5, <1>8
<1> HIDE DEF N, M, L, a, z
\* The last frame was not received whole, as it was not sent whole
<1>13. Cur <= M
  <2>1. CASE a = 0
    BY <1>5, <1>8, <1>9, <2>1
  <2>2. CASE a # 0
    <3>1. Cur # N + 1
      <4> SUFFICES ASSUME Cur = N + 1 PROVE FALSE
        OBVIOUS
      <4>1. L + z = (0 - Taken) + a
        BY <1>9, <1>11, <2>2
      <4> QED BY <1>5, <1>6, <1>12, <4>1
    <3> QED BY <1>5, <1>8, <1>9, <2>2, <3>1
  <2> QED BY <2>1, <2>2
<1>14. PICK new \in [Nat -> Int] :
          /\ \A i \in Cur..N + 1 : new[i] = old[i]
          /\ a = 0 => new[N + 2] = old[N + 1] + z
  <2>1. CASE a = 0
    <3> DEFINE with == [old EXCEPT ![N + 2] = old[N + 1] + z]
    <3>1. N + 2 \in Nat /\ old[N + 1] + z \in Int
      BY <1>5, <1>6
    <3>2. \A i \in Cur..N + 1 : i \in Nat /\ i # N + 2
      BY <1>5
    <3>3. with \in [Nat -> Int] /\ with[N + 2] = old[N + 1] + z
          /\ \A i \in Cur..N + 1 : with[i] = old[i]
      BY <3>1, <3>2
    <3> QED BY <3>3
  <2>2. CASE a # 0
    BY <2>2
  <2> QED BY <2>1, <2>2
<1>15. new[Cur] = 0 - Taken /\ \A i \in Cur..M : new[i + 1] = new[i] + Size(begun'[i])
  <2>1. Cur \in Cur..N + 1
    BY <1>5, <1>9
  <2>2. ASSUME NEW i \in Cur..N
        PROVE  new[i + 1] = new[i] + Size(begun'[i])
    <3>1. i \in Cur..N + 1 /\ i + 1 \in Cur..N + 1 /\ i \in 1..N
      BY <1>5
    <3> QED BY <1>8, <1>9, <1>14, <3>1
  <2>3. a = 0 => new[N + 2] = new[N + 1] + Size(begun'[N + 1])
    <3>1. N + 1 \in Cur..N + 1
      BY <1>5, <1>9
    <3> QED BY <1>6, <1>8, <1>14, <3>1
  <2>4. ASSUME NEW i \in Cur..M PROVE i \in Cur..N \/ (a = 0 /\ i = N + 1)
    BY <1>5, <1>8
  <2>5. (N + 1) + 1 = N + 2
    BY <1>5
  <2> QED BY <1>9, <1>14, <2>1, <2>2, <2>3, <2>4, <2>5
<1>16. Len(stream') + z = new[M + 1] + (a + n) /\ Len(stream') <= new[M + 1] /\ new[M] + a = L
       /\ new[M + 1] = new[M] + z
  <2>1. M \in Cur..M /\ begun'[M] = MsgOf(s)
    BY <1>5, <1>8, <1>13
  <2>2. new[M + 1] = new[M] + z
    BY <1>6, <1>15, <2>1
  <2>3. PICK x \in Int : x = new[M]
    BY <1>5
  <2>4. x + a = L
    <3>1. CASE a = 0
      <4>1. M = N + 1 /\ N + 1 \in Cur..N + 1
        BY <1>5, <1>8, <1>9, <3>1
      <4>2. x = L
        BY <1>10, <1>14, <2>3, <3>1, <4>1
      <4> QED BY <3>1, <4>2
    <3>2. CASE a # 0
      <4>1. M = N /\ N + 1 \in Cur..N + 1
        BY <1>5, <1>8, <1>9, <3>2
      <4>2. old[N + 1] = x + z
        BY <1>14, <2>2, <2>3, <4>1
      <4>3. L + z = (x + z) + a
        BY <1>11, <3>2, <4>2
      <4> QED BY <1>5, <1>6, <4>3
    <3> QED BY <3>1, <3>2
  <2>5. Len(stream') = L + n
    BY <1>1 DEF L
  <2>6. L + n + z = (x + z) + (a + n) /\ L + n <= x + z
    BY <1>5, <1>6, <1>12, <2>4
  <2> QED BY <2>2, <2>3, <2>4, <2>5, <2>6
<1>17. \A i \in Cur..M + 1 : \A j \in i..M + 1 : new[i] <= new[j]
  <2> SUFFICES ASSUME NEW i \in Cur..M + 1, NEW j \in i..M + 1 PROVE new[i] <= new[j]
    OBVIOUS
  <2>1. CASE j \in Cur..N + 1
    <3>1. i \in Cur..N + 1 /\ j \in i..N + 1
      BY <1>12a, <2>1
    <3>2. old[i] <= old[j]
      BY <1>9, <3>1
    <3> QED BY <1>14, <2>1, <3>1, <3>2
  <2>2. CASE i = N + 2 /\ j = N + 2
    <3>1. PICK x \in Int : x = new[N + 2]
      BY <1>5
    <3> QED BY <2>2, <3>1
  <2>3. CASE a = 0 /\ i \in Cur..N + 1 /\ j = N + 2
    <3>1. N + 1 \in i..N + 1 /\ N + 1 \in Nat /\ i \in Nat
      BY <1>5, <2>3
    <3>2. PICK x \in Int, y \in Int : x = old[i] /\ y = old[N + 1]
      BY <3>1
    <3>3. x <= y /\ new[i] = x /\ new[j] = y + z
      BY <1>9, <1>14, <2>3, <3>1, <3>2
    <3>4. x <= y + z
      BY <1>6, <3>3
    <3> QED BY <3>3, <3>4
  <2>4. j \in Cur..N + 1 \/ (i = N + 2 /\ j = N + 2)
        \/ (a = 0 /\ i \in Cur..N + 1 /\ j = N + 2)
    BY <1>12a
  <2> QED BY <2>1, <2>2, <2>3, <2>4
<1>18. ASSUME NEW i \in Cur..M, NEW p \in 1..Size(begun'[i]), new[i] + p \in 1..Len(stream')
       PROVE  stream'[new[i] + p] = <<begun'[i], p>>
  <2>1. Len(stream') = L + n
    BY <1>1 DEF L
  <2>2. CASE i = M
    <3>1. begun'[i] = MsgOf(s) /\ p \in 1..z
      BY <1>6, <1>8, <2>2
    <3>2. new[i] = L - a
      <4>1. PICK x \in Int : x = new[M]
        BY <1>5
      <4>2. x + a = L
        BY <1>16, <4>1
      <4>3. x = L - a
        BY <1>5, <4>2
      <4> QED BY <2>2, <4>1, <4>3
    <3>3. CASE p <= a
      <4>1. M = N /\ N \in Cur..N /\ N \in 1..N /\ a # 0
        <5>1. z \in Nat /\ p \in 1..z
          BY <1>6, <3>1
        <5> QED BY <1>12a, <1>13, <3>3, <5>1
      <4>2. begun[N] = MsgOf(s) /\ new[N] = old[N]
        <5>1. N \in Cur..N + 1
          BY <1>5, <4>1
        <5> QED BY <1>8, <1>14, <4>1, <5>1
      <4>3. old[N] + p \in 1..L
        BY <1>5, <1>18, <2>1, <2>2, <3>1, <3>2, <3>3, <4>1, <4>2
      <4>4. stream[old[N] + p] = <<begun[N], p>>
        BY <1>6, <1>9, <3>1, <4>1, <4>2, <4>3
      <4> QED BY <1>1, <2>2, <3>1, <4>1, <4>2, <4>3, <4>4 DEF L
    <3>4. CASE p > a
      <4>1. PICK q \in 1..n : p = a + q
        <5>1. p - a \in 1..n
          BY <1>5, <1>18, <2>1, <3>1, <3>2, <3>4
        <5>2. p = a + (p - a)
          BY <1>5, <3>1
        <5> QED BY <5>1, <5>2
      <4>2. new[i] + p = L + q
        BY <1>5, <3>2, <4>1
      <4>3. stream'[L + q] = <<MsgOf(s), a + q>>
        BY <1>1 DEF L, a
      <4> QED BY <3>1, <4>1, <4>2, <4>3
    <3>5. p <= a \/ p > a
      BY <1>5, <1>6, <3>1
    <3> QED BY <3>3, <3>4, <3>5
  <2>3. CASE i # M
    <3>1. i \in Cur..N /\ i \in 1..N /\ i \in Cur..N + 1 /\ i \in Nat
      BY <1>12a, <2>3
    <3>2. begun'[i] = begun[i] /\ new[i] = old[i]
      BY <1>8, <1>14, <3>1
    \* It ends before the last frame does
    <3>3. old[i] + p \in 1..L
      <4>1. /\ i + 1 \in Cur..N + 1 /\ M \in i + 1..N + 1 /\ M \in Cur..N + 1
            /\ i \in Cur..N + 1
        <5>1. Cur <= N + 1
          BY <1>9
        <5> QED BY <1>12a, <1>13, <2>3, <3>1, <5>1
      <4>2. old[i] + Size(begun[i]) <= old[M] /\ old[M] = new[M]
        BY <1>9, <1>14, <3>1, <4>1
      <4>3. begun[i] \in Msgs /\ Size(begun[i]) \in Nat
        <5>1. begun[i] \in Msgs
          BY <1>5, <3>1 DEF N
        <5> QED BY <5>1, MessageIs
      <4>4. PICK x \in Int, y \in Int : x = old[i] /\ y = new[M]
        BY <1>5, <3>1
      <4>5. p \in 1..Size(begun[i]) /\ x + p > 0
        BY <1>18, <3>2, <4>4
      <4>6. x + Size(begun[i]) <= y /\ y + a = L
        BY <1>16, <4>2, <4>4
      <4>7. x + p \in 1..L
        <5>1. PICK d \in Nat : d = Size(begun[i])
          BY <4>3
        <5>2. p \in 1..d /\ x + d <= y /\ y + a = L
          BY <4>5, <4>6, <5>1
        <5> QED BY <1>12a, <4>5, <5>2
      <4> QED BY <4>4, <4>7
    <3>4. stream[old[i] + p] = <<begun[i], p>>
      BY <1>9, <1>18, <3>1, <3>2, <3>3
    <3> QED BY <1>1, <3>2, <3>3, <3>4 DEF L
  <2> QED BY <2>2, <2>3
<1>19. Places(new)'
  <2>1. \A u \in Senders : InHand(u)' => u = s
    BY <1>7
  <2>2. Len(stream') + Size(MsgOf(s)') = new[M + 1] + at'[s]
    BY <1>3, <1>6, <1>7, <1>16
  <2>3. Cur' <= M + 1
    BY <1>3, <1>5, <1>13
  <2> QED BY <1>3, <1>7, <1>15, <1>16, <1>17, <1>18, <2>1, <2>2, <2>3 DEF Places, M
<1> QED BY <1>19

\* When SendMsg returns all of the frame is on its way
LEMMA StreamReturns ==
    ASSUME TypeOK, SendersInv, StreamInv, NEW s \in Senders, SendReturns(s)
    PROVE  StreamInv'
<1> SUFFICES ASSUME Receiving' PROVE \E start \in [Nat -> Int] : Places(start)'
  BY DEF StreamInv
<1>1. /\ UNCHANGED <<num, len, at, link, stream, rpc, rmsg, begun, got>>
      /\ pc[s] \in {"sent", "failed"} /\ pc'[s] = "idle"
      /\ \A u \in Senders \ {s} : pc'[u] = pc[u]
  BY DEF SendReturns, FreeMsg, recvVars, TypeOK
<1>2. Receiving /\ Cur' = Cur /\ Taken' = Taken
  BY <1>1 DEF Receiving, Cur, Taken
<1>3. PICK start \in [Nat -> Int] : Places(start)
  BY <1>2 DEF StreamInv
<1>4. CASE link # "open"
  BY <1>1, <1>2, <1>3, <1>4 DEF Places
<1>5. CASE link = "open"
  <2>1. pc[s] = "sent" /\ at[s] = SizeOf(len[s])
    BY <1>1, <1>5 DEF SendersInv, SenderInv
  <2>2. SizeOf(len[s]) \in Nat /\ SizeOf(len[s]) > HeadLen /\ Size(MsgOf(s)) = SizeOf(len[s])
    BY OwnMessage
  <2>3. InHand(s) /\ Sends(s)
    BY <2>1, <2>2, Sizes DEF InHand, Sends
  <2>4. \A u \in Senders : ~InHand(u)'
    <3>1. ~InHand(s)'
      BY <1>1 DEF InHand, Sends
    <3>2. \A u \in Senders \ {s} : ~Sends(u)'
      BY <1>1, <2>3 DEF SendersInv, OneSends, Sends
    <3> QED BY <3>1, <3>2 DEF InHand
  <2>5. Len(stream) = start[Len(begun) + 1]
    <3>1. Len(stream) + SizeOf(len[s]) = start[Len(begun) + 1] + SizeOf(len[s])
      BY <1>3, <1>5, <2>1, <2>2, <2>3 DEF Places
    <3>2. PICK x \in Int : x = start[Len(begun) + 1]
      <4>1. Len(begun) + 1 \in Nat
        BY DEF TypeOK
      <4> QED BY <4>1
    <3>3. Len(stream) \in Nat
      BY DEF TypeOK
    <3> QED BY <2>2, <3>1, <3>2, <3>3
  <2>6. Places(start)'
    BY <1>1, <1>2, <1>3, <2>4, <2>5 DEF Places
  <2> QED BY <2>6
<1> QED BY <1>4, <1>5

\* A recv moves everything on
LEMMA StreamReceives ==
    ASSUME TypeOK, ReceiverInv, StreamInv, RecvBytes
    PROVE  StreamInv'
<1> SUFFICES ASSUME Receiving' PROVE \E start \in [Nat -> Int] : Places(start)'
  BY DEF StreamInv
<1>1. PICK n \in Nat :
           /\ n > 0 /\ n <= Len(stream)
           /\ Len(rmsg') = Len(rmsg) + n
           /\ Len(stream') = Len(stream) - n
           /\ \A k \in 1..Len(stream) - n : stream'[k] = stream[n + k]
  BY FrameContinues
<1>2. /\ UNCHANGED <<pc, num, len, at, link, begun, got>> /\ rpc = "recv"
  BY DEF RecvBytes, sendVars
<1>3. rpc' \in {"recv", "ok"}
  BY LengthRead DEF Receiving
<1>4. /\ Cur' = Cur /\ Taken = Len(rmsg) /\ Taken' = Len(rmsg) + n
      /\ \A u \in Senders : (InHand(u)' <=> InHand(u)) /\ MsgOf(u)' = MsgOf(u)
  BY <1>1, <1>2, <1>3 DEF Cur, Taken, InHand, Sends, MsgOf
<1>5. PICK old \in [Nat -> Int] : Places(old)
  BY <1>2 DEF StreamInv, Receiving
<1>6. PICK new \in [Nat -> Int] : \A i \in Nat : new[i] = old[i] - n
  <2> DEFINE f == [i \in Nat |-> old[i] - n]
  <2>1. f \in [Nat -> Int] /\ \A i \in Nat : f[i] = old[i] - n
    OBVIOUS
  <2> QED BY <2>1
<1> DEFINE N == Len(begun)
           L == Len(stream)
<1>7. N \in Nat /\ L \in Nat /\ Cur \in Nat /\ Len(rmsg) \in Nat /\ begun \in Seq(Msgs) /\ Cur > 0
  BY DEF TypeOK, Cur
<1>8. \A i \in Cur..N + 1 : i \in Nat
  BY <1>7
<1>9. Cur <= N + 1 /\ Cur \in Cur..N + 1 /\ N + 1 \in Cur..N + 1
  BY <1>5, <1>7 DEF Places
<1>10. new[Cur] = 0 - (Len(rmsg) + n)
  <2>1. old[Cur] = 0 - Len(rmsg)
    BY <1>4, <1>5 DEF Places
  <2> QED BY <1>6, <1>7, <2>1
<1>11. \A i \in Cur..N : new[i + 1] = new[i] + Size(begun[i])
  <2> SUFFICES ASSUME NEW i \in Cur..N PROVE new[i + 1] = new[i] + Size(begun[i])
    OBVIOUS
  <2>1. i \in 1..N /\ i \in Nat /\ i + 1 \in Nat
    BY <1>7
  <2>2. Size(begun[i]) \in Nat
    <3>1. begun[i] \in Msgs
      BY <1>7, <2>1
    <3> QED BY <3>1, MessageIs
  <2>3. old[i + 1] = old[i] + Size(begun[i])
    BY <1>5 DEF Places
  <2>4. new[i + 1] = old[i + 1] - n /\ new[i] = old[i] - n /\ old[i] \in Int
    BY <1>6, <2>1
  <2>5. PICK x \in Int, k \in Nat : x = old[i] /\ k = Size(begun[i])
    BY <2>2, <2>4
  <2>6. (x + k) - n = (x - n) + k
    OBVIOUS
  <2> QED BY <2>3, <2>4, <2>5, <2>6
<1>12. \A i \in Cur..N + 1 : \A j \in i..N + 1 : new[i] <= new[j]
  <2> SUFFICES ASSUME NEW i \in Cur..N + 1, NEW j \in i..N + 1 PROVE new[i] <= new[j]
    OBVIOUS
  <2>1. i \in Nat /\ j \in Nat
    BY <1>7
  <2>2. PICK x \in Int, y \in Int : x = old[i] /\ y = old[j]
    BY <2>1
  <2>3. x <= y
    BY <1>5, <2>2 DEF Places
  <2>4. new[i] = x - n /\ new[j] = y - n
    BY <1>6, <2>1, <2>2
  <2> QED BY <2>3, <2>4
<1>13. new[N + 1] = old[N + 1] - n /\ old[N + 1] \in Int
  <2>1. N + 1 \in Nat
    BY <1>7
  <2> QED BY <1>6, <2>1
<1>14. L - n <= new[N + 1]
  <2>1. L <= old[N + 1]
    BY <1>5 DEF Places
  <2> QED BY <1>7, <1>13, <2>1
<1>15. ASSUME link = "open", NEW u \in Senders, InHand(u)
       PROVE  (L - n) + Size(MsgOf(u)) = new[N + 1] + at[u]
  <2>1. L + Size(MsgOf(u)) = old[N + 1] + at[u]
    BY <1>5, <1>15 DEF Places
  <2>2. at[u] \in Nat /\ Size(MsgOf(u)) \in Nat
    BY OwnMessage DEF TypeOK
  <2>3. PICK d \in Nat : d = Size(MsgOf(u))
    BY <2>2
  <2>4. PICK y \in Int : y = old[N + 1]
    BY <1>13
  <2>5. L + d = y + at[u] /\ new[N + 1] = y - n
    BY <1>13, <2>1, <2>3, <2>4
  <2>6. PICK l \in Nat, w \in Nat : l = L /\ w = at[u]
    BY <1>7, <2>2
  <2>7. l + d = y + w
    BY <2>5, <2>6
  <2>8. (l - n) + d = (y - n) + w
    BY <2>7
  <2> QED BY <2>3, <2>5, <2>6, <2>8
<1>16. ASSUME link = "open", \A u \in Senders : ~InHand(u) PROVE L - n = new[N + 1]
  <2>1. L = old[N + 1]
    BY <1>5, <1>16 DEF Places
  <2> QED BY <1>7, <1>13, <2>1
<1>17. ASSUME NEW i \in Cur..N, NEW p \in 1..Size(begun[i]), new[i] + p \in 1..L - n
       PROVE  stream'[new[i] + p] = <<begun[i], p>>
  <2>1. i \in 1..N /\ i \in Nat
    BY <1>7
  <2>2. PICK x \in Int : x = old[i]
    BY <2>1
  <2>3. new[i] = x - n
    BY <1>6, <2>1, <2>2
  <2>4. Size(begun[i]) \in Nat
    <3>1. begun[i] \in Msgs
      BY SMTT(20), <1>7, <2>1
    <3> QED BY <3>1, MessageIs
  <2>5. p \in Nat
    BY <2>4
  <2>6. x + p \in 1..L /\ n + (new[i] + p) = x + p
    BY <1>7, <1>17, <2>3, <2>5
  <2>7. stream[x + p] = <<begun[i], p>>
    BY <1>5, <2>2, <2>6 DEF Places
  <2>8. stream'[new[i] + p] = stream[n + (new[i] + p)]
    BY <1>1, <1>17
  <2> QED BY <2>6, <2>7, <2>8
<1>18. Places(new)'
  <2> HIDE DEF N, L
  <2>1. Len(begun') = N /\ Len(stream') = L - n
    BY <1>1, <1>2 DEF N, L
  <2> QED BY <1>2, <1>4, <1>9, <1>10, <1>11, <1>12, <1>14, <1>15, <1>16, <1>17, <2>1
          DEF Places, Size
<1> QED BY <1>18

\* When RecvMsg returns a message the next frame is at the beginning of the stream
LEMMA StreamDelivers ==
    ASSUME TypeOK, ReceiverInv, StreamInv, RecvReturns
    PROVE  StreamInv'
<1> SUFFICES ASSUME Receiving' PROVE \E start \in [Nat -> Int] : Places(start)'
  BY DEF StreamInv
<1>1. /\ UNCHANGED <<pc, num, len, at, link, stream, begun>>
      /\ rpc = "ok" /\ rpc' = "idle" /\ got' = Append(got, rmsg)
  BY DEF RecvReturns, Receiving, sendVars
<1>2. PICK start \in [Nat -> Int] : Places(start)
  BY <1>1 DEF StreamInv, Receiving
<1>3. /\ Cur \in Nat /\ Cur > 0 /\ Cur' = Cur + 1 /\ Taken' = 0 /\ Taken = Len(rmsg)
      /\ Len(begun) \in Nat /\ Len(rmsg) \in Nat /\ begun \in Seq(Msgs)
  BY <1>1 DEF Cur, Taken, TypeOK
<1>4. Cur <= Len(begun) /\ Size(begun[Cur]) = Len(rmsg)
  <2>1. HeadLen < Len(rmsg) /\ Len(rmsg) = SizeOf(rlen)
    BY <1>1 DEF ReceiverInv
  <2>2. HeadLen <= Len(rmsg) /\ Len(rmsg) > 0
    BY <1>3, <2>1, Sizes
  <2>3. rlen = begun[Cur][3] /\ Cur <= Len(begun)
    BY <1>1, <2>2 DEF ReceiverInv
  <2> QED BY <2>1, <2>3 DEF Size
<1>5. start[Cur + 1] = 0
  <2>1. Cur \in Cur..Len(begun)
    BY <1>3, <1>4
  <2>2. start[Cur + 1] = start[Cur] + Size(begun[Cur]) /\ start[Cur] = 0 - Len(rmsg)
    BY <1>2, <1>3, <2>1 DEF Places
  <2> QED BY <1>3, <1>4, <2>2
<1>6. /\ Cur + 1 <= Len(begun) + 1
      /\ \A i \in Cur + 1..Len(begun) : i \in Cur..Len(begun)
      /\ \A i \in Cur + 1..Len(begun) + 1 : i \in Cur..Len(begun) + 1
  BY <1>3, <1>4
<1>7. /\ link = "open" =>
           /\ \A u \in Senders : InHand(u)' => Len(stream) + Size(MsgOf(u)') = start[Len(begun) + 1] + at[u]
           /\ (\A u \in Senders : ~InHand(u)') => Len(stream) = start[Len(begun) + 1]
  BY <1>1, <1>2 DEF Places, InHand, Sends, MsgOf
<1>8. /\ \A i \in Cur + 1..Len(begun) : start[i + 1] = start[i] + Size(begun[i])
      /\ \A i \in Cur + 1..Len(begun) + 1 : \A j \in i..Len(begun) + 1 : start[i] <= start[j]
      /\ Len(stream) <= start[Len(begun) + 1]
      /\ \A i \in Cur + 1..Len(begun) : \A p \in 1..Size(begun[i]) :
           start[i] + p \in 1..Len(stream) => stream[start[i] + p] = <<begun[i], p>>
  BY <1>2, <1>6 DEF Places
<1>9. start[Cur + 1] = 0 - Taken'
  BY <1>3, <1>5
<1>10. Places(start)'
  <2> HIDE DEF Cur, Taken
  <2> QED BY <1>1, <1>3, <1>6, <1>7, <1>8, <1>9 DEF Places, Size
<1> QED BY <1>10

LEMMA StreamStep ==
    ASSUME TypeOK, SendersInv, SendersInv', ReceiverInv, StreamInv, [Next]_vars
    PROVE  StreamInv'
<1>1. ASSUME NEW s \in Senders, NewMsg(s) \/ FillMsgCont(s) \/ ClearMsgCont(s) \/ SendMsg(s)
      PROVE  StreamInv'
  <2>1. SenderStep(s) /\ begun' = begun /\ stream' = stream
    BY <1>1 DEF SenderStep, NewMsg, FillMsgCont, ClearMsgCont, SendMsg
  <2>2. /\ link' = link /\ Receiving' = Receiving /\ Cur' = Cur /\ Taken' = Taken
        /\ \A u \in Senders \ {s} : /\ InHand(u)' <=> InHand(u)
                                    /\ at'[u] = at[u] /\ MsgOf(u)' = MsgOf(u)
    BY <2>1, OthersRest DEF recvVars, Receiving, Cur, Taken
  <2>3. ~InHand(s) /\ ~InHand(s)'
    <3>1. pc[s] \in {"idle", "made"} /\ (pc'[s] = "send" => at'[s] = at[s] /\ at[s] = 0)
          /\ pc'[s] # "sent"
      BY <1>1 DEF NewMsg, FillMsgCont, ClearMsgCont, FreeMsg, SendMsg, TypeOK, SendersInv, SenderInv
    <3> QED BY <3>1 DEF InHand, Sends
  <2> QED BY <2>1, <2>2, <2>3, StreamStaysFor
<1>2. ASSUME NEW s \in Senders, SendFails(s) PROVE StreamInv'
  <2>1. link' = link /\ link # "open" /\ UNCHANGED <<begun, stream, rpc, rmsg, got>>
    BY <1>2 DEF SendFails, recvVars
  <2>2. Receiving' = Receiving /\ Cur' = Cur /\ Taken' = Taken
    BY <2>1 DEF Receiving, Cur, Taken
  <2> SUFFICES ASSUME Receiving' PROVE \E start \in [Nat -> Int] : Places(start)'
    BY DEF StreamInv
  <2>3. PICK start \in [Nat -> Int] : Places(start)
    BY <2>2 DEF StreamInv
  <2>4. Places(start)'
    BY <2>1, <2>2, <2>3 DEF Places
  <2> QED BY <2>4
<1>3. ASSUME UNCHANGED <<pc, num, len, at, begun, stream, rpc, rmsg, got>>,
             link' = "open" => link = "open"
      PROVE  StreamInv'
  BY <1>3, StreamStaysFor DEF Receiving, Cur, Taken, InHand, Sends, MsgOf
<1> USE DEF sendVars, recvVars
<1>4. ASSUME NEW e \in Ends, MsgModuleInit(e) \/ MsgModuleExit(e) \/ UsesDestroyedLock(e)
      PROVE  StreamInv'
  BY <1>3, <1>4 DEF MsgModuleInit, MsgModuleExit, UsesDestroyedLock
<1>5. CASE RecvMsg
  <2>1. /\ UNCHANGED <<pc, num, len, at, begun, stream, link, got>>
        /\ rpc = "idle" /\ rpc' = "recv" /\ rmsg' = <<>>
    BY <1>5 DEF RecvMsg
  <2> QED BY <2>1, StreamStaysFor DEF Receiving, Cur, Taken, InHand, Sends, MsgOf
<1>6. CASE RecvEnds
  BY <1>6 DEF RecvEnds, StreamInv, Receiving
<1>7. CASE Shut \/ UNCHANGED vars
  BY <1>3, <1>7 DEF Shut, vars
<1>8. CASE Reset
  <2> SUFFICES ASSUME Receiving' PROVE \E start \in [Nat -> Int] : Places(start)'
    BY DEF StreamInv
  <2>1. link' # "open" /\ UNCHANGED <<begun, rpc, rmsg, got>>
    BY <1>8 DEF Reset
  <2>2. Receiving' = Receiving /\ Cur' = Cur /\ Taken' = Taken
    BY <2>1 DEF Receiving, Cur, Taken
  <2>3. PICK start \in [Nat -> Int] : Places(start)
    BY <2>2 DEF StreamInv
  <2>4. PICK n \in 0..Len(stream) : stream' = SubSeq(stream, 1, n)
    BY <1>8 DEF Reset
  <2>5. /\ Len(stream') = n /\ n <= Len(stream) /\ \A k \in 1..n : stream'[k] = stream[k]
        /\ \A k \in 1..n : k \in 1..Len(stream)
    <3>1. stream \in Seq(Bytes) /\ Len(stream) \in Nat
      BY DEF TypeOK
    <3> QED BY <2>4, <3>1
  <2>6. Len(stream') <= start[Len(begun) + 1]
    <3>1. Len(stream) <= start[Len(begun) + 1] /\ start[Len(begun) + 1] \in Int
      BY <2>3 DEF Places, TypeOK
    <3>2. n \in Nat /\ Len(stream) \in Nat
      BY DEF TypeOK
    <3> QED BY <2>5, <3>1, <3>2
  <2>7. Places(start)'
    BY <2>1, <2>2, <2>3, <2>5, <2>6 DEF Places
  <2> QED BY <2>7
<1> QED BY <1>1, <1>2, <1>4, <1>5, <1>6, <1>7, <1>8, StreamSends, StreamReturns, StreamReceives,
        StreamDelivers DEF Next, SendStep, RecvStep

LEMMA InvStep ==
    ASSUME "together" \notin Env, MsgInv, [Next]_vars
    PROVE  MsgInv'
<1>1. TypeOK'
  BY TypeStep DEF MsgInv
<1>2. SendersInv'
  BY SendersStep DEF MsgInv
<1>3. ReceiverInv'
  BY ReceiverStep DEF MsgInv
<1>4. ReasonInv'
  BY <1>2, ReasonStep DEF MsgInv
<1>5. StreamInv'
  BY <1>2, StreamStep DEF MsgInv
<1> QED BY <1>1, <1>2, <1>3, <1>4, <1>5 DEF MsgInv

LEMMA Invariance ==
    ASSUME "together" \notin Env
    PROVE  Spec => []MsgInv
<1>1. MsgInv /\ [Next]_vars => MsgInv'
  BY InvStep
<1> QED BY <1>1, InitInv, PTL DEF Spec

(***************************************************************************)
(* Refinement.                                                             *)
(***************************************************************************)
absGot == [i \in DOMAIN got |-> Meaning(got[i])]
absCounts == [c \in {"send", "sendBytes", "recv", "recvBytes"} |-> counts[c]]

LEMMA BrokenIs ==
    ASSUME TypeOK
    PROVE  Broken <=> \/ link \in {"shut", "reset"} \/ mod["receiver"] = "ended" \/ ub
                      \/ \E s \in Senders : TooLong(len[s])
                      \/ SomeTooLong
<1>1. DOMAIN begun = 1..Len(begun)
  BY DEF TypeOK
<1> QED BY <1>1 DEF Broken, SomeTooLong, TooLong

\* What excused a missing message goes on excusing it
LEMMA BrokenStays ==
    ASSUME TypeOK, TypeOK', SendersInv, ReasonInv, [Next]_vars, ~ub, Broken
    PROVE  Broken'
<1>1. link \in {"shut", "reset"} => link' = link
  <2>1. ASSUME NEW s \in Senders, SenderStep(s) PROVE link' = link
    BY <2>1, OthersRest
  <2>2. (\A s \in Senders : ~SenderStep(s)) => link' = link \/ link = "open" 
    BY DEF Next, SenderStep, RecvStep, MsgModuleInit, MsgModuleExit, UsesDestroyedLock, RecvMsg,
         RecvBytes, RecvEnds, RecvReturns, Shut, Reset, vars
  <2> QED BY <2>1, <2>2
<1>2. mod["receiver"] = "ended" => mod'["receiver"] = "ended"
  <2>1. ASSUME NEW s \in Senders, SenderStep(s) PROVE mod' = mod
    BY <2>1, OthersRest
  <2>2. ASSUME NEW e \in Ends, MsgModuleInit(e) \/ MsgModuleExit(e), mod["receiver"] = "ended"
        PROVE  mod'["receiver"] = "ended"
    BY <2>2 DEF MsgModuleInit, MsgModuleExit, TypeOK, Ends
  <2>3. ASSUME RecvStep \/ Shut \/ Reset \/ (\E e \in Ends : UsesDestroyedLock(e)) \/ UNCHANGED vars
        PROVE  mod' = mod
    BY <2>3 DEF RecvStep, UsesDestroyedLock, RecvMsg, RecvBytes, RecvEnds, RecvReturns, Shut,
         Reset, vars
  <2> QED BY <2>1, <2>2, <2>3 DEF Next, SenderStep
<1>3. SomeTooLong => SomeTooLong'
  BY BegunGrows
<1>4. ASSUME NEW s \in Senders, TooLong(len[s])
      PROVE  \/ SomeTooLong \/ link \in {"shut", "reset"}
             \/ pc[s] = "send" /\ len'[s] = len[s]
  <2> SUFFICES ASSUME pc[s] = "send" PROVE len'[s] = len[s]
    BY <1>4 DEF ReasonInv
  <2>1. ASSUME NEW u \in Senders, SenderStep(u), u # s PROVE len'[s] = len[s]
    BY <2>1, OthersRest
  <2>2. ASSUME SenderStep(s) PROVE len'[s] = len[s]
    BY <2>2 DEF SenderStep, NewMsg, FillMsgCont, ClearMsgCont, SendMsg, SendStep, SendBytes,
         SendFails, SendReturns
  <2>3. (\A u \in Senders : ~SenderStep(u)) => len' = len
    BY SendersRest
  <2> QED BY <2>1, <2>2, <2>3
<1>5. \/ link' \in {"shut", "reset"} \/ mod'["receiver"] = "ended"
      \/ (\E s \in Senders : TooLong(len'[s])) \/ SomeTooLong'
      => Broken'
  BY DEF Broken, SomeTooLong, TypeOK
<1>6. CASE \E s \in Senders : TooLong(len[s])
  <2>1. PICK s \in Senders : TooLong(len[s])
    BY <1>6
  <2> QED BY <1>1, <1>3, <1>4, <1>5, <2>1
<1> QED BY <1>1, <1>2, <1>3, <1>6, <1>5, BrokenIs

\* A step that is none of the channel's but may break it
LEMMA StutterOrBreak ==
    ASSUME Broken => Broken', begun' = begun, absGot' = absGot, absCounts' = absCounts
    PROVE  Channel!Next \/ UNCHANGED Channel!cvars
<1>1. Broken \in BOOLEAN /\ Broken' \in BOOLEAN
  BY DEF Broken
<1>2. CASE Broken' = Broken
  BY <1>2 DEF Channel!cvars, absGot, absCounts
<1>3. CASE ~Broken /\ Broken'
  <2>1. Broken' = TRUE
    BY <1>1, <1>3
  <2>2. Channel!Break
    BY <1>3, <2>1 DEF Channel!Break, absGot, absCounts
  <2> QED BY <2>2 DEF Channel!Next
<1> QED BY <1>1, <1>2, <1>3

LEMMA SameCounts ==
    ASSUME counts'.send = counts.send, counts'.sendBytes = counts.sendBytes,
           counts'.recv = counts.recv, counts'.recvBytes = counts.recvBytes
    PROVE  absCounts' = absCounts
BY DEF absCounts

\* What RecvMsg returns is the message whose turn it is
LEMMA Delivered ==
    ASSUME TypeOK, ReceiverInv, rpc = "ok"
    PROVE  /\ Cur <= Len(begun) /\ Meaning(rmsg) = begun[Cur]
           /\ begun[Cur][3] = rlen
<1>1. HeadLen < Len(rmsg) /\ Len(rmsg) = SizeOf(rlen) /\ Len(rmsg) \in Nat
  BY DEF ReceiverInv, TypeOK
<1>2. HeadLen <= Len(rmsg) /\ Len(rmsg) > 0
  BY <1>1, Sizes
<1>3. /\ rlen = begun[Cur][3] /\ Cur <= Len(begun)
      /\ \A p \in 1..Len(rmsg) : rmsg[p] = <<begun[Cur], p>>
  BY <1>2 DEF ReceiverInv
<1>4. begun[Cur] \in Msgs
  <2>1. Cur \in 1..Len(begun)
    BY <1>3 DEF Cur, TypeOK
  <2> QED BY <2>1 DEF TypeOK
<1> DEFINE m == begun[Cur]
<1>5. Size(m) = SizeOf(rlen)
  BY <1>3 DEF Size
<1> HIDE DEF m
<1>6. rmsg = FrameOf(m)
  <2>1. /\ FrameOf(m) \in Seq(Bytes) /\ Len(FrameOf(m)) = Size(m)
        /\ \A p \in 1..Size(m) : FrameOf(m)[p] = <<m, p>>
    BY <1>4, MessageIs DEF m
  <2>2. rmsg \in Seq(Bytes) /\ Len(rmsg) = Size(m) /\ \A p \in 1..Len(rmsg) : rmsg[p] = <<m, p>>
    BY <1>1, <1>3, <1>5 DEF TypeOK, m
  <2> QED BY <2>1, <2>2, SeqEqual
<1>7. rmsg[1][1] = m
  <2>1. 1 \in 1..Len(rmsg)
    BY <1>1, <1>2
  <2> QED BY <1>3, <2>1 DEF m
<1> QED BY <1>3, <1>5, <1>6, <1>7 DEF Meaning, m

LEMMA StepRefines ==
    ASSUME MsgInv, MsgInv', [Next]_vars
    PROVE  Channel!Next \/ UNCHANGED Channel!cvars
<1>1. CASE UNCHANGED vars
  <2>1. Broken' = Broken /\ begun' = begun /\ got' = got /\ counts' = counts
    BY <1>1 DEF vars, Broken, sendVars
  <2> QED BY <2>1, StutterOrBreak DEF absGot, absCounts
<1>2. CASE Next
  <2>0. ~ub /\ (Broken => Broken') /\ TypeOK /\ TypeOK'
    BY <1>2, BrokenStays DEF Next, MsgInv
  <2>1. ASSUME begun' = begun, got' = got, counts' = counts
        PROVE  Channel!Next \/ UNCHANGED Channel!cvars
    BY <2>0, <2>1, StutterOrBreak DEF absGot, absCounts
  <2>2. ASSUME NEW s \in Senders, SendBytes(s), at[s] = 0
        PROVE  Channel!Next
    <3>1. /\ begun' = Append(begun, MsgOf(s)) /\ MsgOf(s) \in Msgs /\ MsgOf(s)[3] = len[s]
          /\ UNCHANGED <<mod, len, link, counts, got, ub>>
      BY <2>0, <2>2, OwnMessage DEF SendBytes, MsgInv, SendersInv, SenderInv
    <3>2. Broken' => Broken
      <4>1. SomeTooLong' => SomeTooLong \/ TooLong(len[s])
        <5>1. ASSUME NEW i \in 1..Len(begun')
              PROVE  begun'[i] = MsgOf(s) \/ (i \in 1..Len(begun) /\ begun'[i] = begun[i])
          BY <2>0, <3>1 DEF TypeOK
        <5> QED BY <3>1, <5>1 DEF SomeTooLong
      <4>2. Broken' => \/ link \in {"shut", "reset"} \/ mod["receiver"] = "ended" \/ ub
                       \/ (\E u \in Senders : TooLong(len[u])) \/ SomeTooLong'
        <5>1. DOMAIN begun' = 1..Len(begun')
          BY <2>0 DEF TypeOK
        <5> QED BY <3>1, <5>1 DEF Broken, SomeTooLong
      <4> QED BY <2>0, <4>1, <4>2, BrokenIs
    <3>3. Broken \in BOOLEAN /\ Broken' \in BOOLEAN
      BY DEF Broken
    <3>4. Broken' = Broken
      BY <2>0, <3>2, <3>3
    <3>5. Channel!Send
      BY <3>1, <3>4 DEF Channel!Send
    <3> QED BY <3>5 DEF Channel!Next
  <2>3. ASSUME NEW s \in Senders, SendBytes(s), at[s] # 0
        PROVE  Channel!Next \/ UNCHANGED Channel!cvars
    BY <2>1, <2>3 DEF SendBytes
  <2>4. ASSUME NEW s \in Senders, SendReturns(s)
        PROVE  Channel!Next \/ UNCHANGED Channel!cvars
    <3>1. UNCHANGED <<mod, len, link, begun, got, ub>>
      BY <2>4 DEF SendReturns
    <3>2. CASE pc[s] = "failed"
      <4>1. counts' = [counts EXCEPT !.sendFailed = @ + 1]
        BY <2>4, <3>2 DEF SendReturns
      <4>2. absCounts' = absCounts
        BY <2>0, <4>1, SameCounts DEF TypeOK, Counts
      <4> QED BY <2>0, <3>1, <4>2, StutterOrBreak DEF absGot
    <3>3. CASE pc[s] = "sent"
      <4>1. /\ counts'.send = counts.send + 1 /\ counts'.recv = counts.recv
            /\ counts'.sendBytes = counts.sendBytes + Counted(len[s])
            /\ counts'.recvBytes = counts.recvBytes
        BY <2>0, <2>4, <3>3 DEF SendReturns, TypeOK, Counts
      <4>2. /\ Len(begun) = counts.send + 1 /\ begun[Len(begun)] = MsgOf(s)
            /\ MsgOf(s)[3] = len[s]
        <5>1. Size(MsgOf(s)) = SizeOf(len[s]) /\ SizeOf(len[s]) \in Nat /\ SizeOf(len[s]) > HeadLen
          BY <2>0, OwnMessage
        <5>2. InHand(s) /\ SenderInv(s)
          BY <3>3, <5>1, Sizes DEF MsgInv, SendersInv, SenderInv, InHand, Sends
        <5> QED BY <2>0, <5>2, OwnMessage DEF SenderInv
      <4>3. counts.send < Len(begun) /\ Counted(begun[counts.send + 1][3]) = Counted(len[s])
        <5>1. counts.send \in Nat
          BY <2>0 DEF TypeOK, Counts
        <5>2. counts.send < Len(begun) /\ begun[counts.send + 1] = MsgOf(s)
          BY <5>1, <4>2
        <5> QED BY <5>2, <4>2
      <4>4. absCounts' = [absCounts EXCEPT !.send = @ + 1,
                              !.sendBytes = @ + Counted(begun[absCounts.send + 1][3])]
        BY <4>1, <4>3 DEF absCounts
      <4>5. Broken' = Broken
        BY <3>1 DEF Broken
      <4>6. Channel!SendCounted
        BY <3>1, <4>3, <4>4, <4>5 DEF Channel!SendCounted, absCounts, absGot
      <4> QED BY <4>6 DEF Channel!Next
    <3> QED BY <2>4, <3>2, <3>3 DEF SendReturns
  <2>5. CASE RecvReturns
    <3>1. UNCHANGED <<mod, len, begun, ub>>
      BY <2>5 DEF RecvReturns, sendVars
    <3>2. CASE rpc = "failed"
      <4>1. counts' = [counts EXCEPT !.recvFailed = @ + 1] /\ got' = got
        BY <2>5, <3>2 DEF RecvReturns
      <4>2. absCounts' = absCounts
        BY <2>0, <4>1, SameCounts DEF TypeOK, Counts
      <4> QED BY <2>0, <3>1, <4>1, <4>2, StutterOrBreak DEF absGot
    <3>3. CASE rpc = "closed"
      <4>1. /\ counts'.send = counts.send /\ counts'.recv = counts.recv + 1
            /\ counts'.sendBytes = counts.sendBytes
            /\ got' = got
        BY <2>0, <2>5, <3>3 DEF RecvReturns, TypeOK, Counts
      <4>2. Broken /\ Broken' = Broken
        <5>1. link = "shut" /\ link' = "shut"
          BY <2>5, <3>3 DEF RecvReturns, MsgInv, ReasonInv
        <5>2. Broken /\ Broken' /\ Broken \in BOOLEAN /\ Broken' \in BOOLEAN
          BY <5>1 DEF Broken
        <5> QED BY <5>2
      <4>3. Channel!CloseCounted
        BY <3>1, <4>1, <4>2 DEF Channel!CloseCounted
      <4> QED BY <4>3 DEF Channel!Next
    <3>4. CASE rpc = "ok"
      <4>1. /\ counts'.send = counts.send /\ counts'.recv = counts.recv + 1
            /\ counts'.sendBytes = counts.sendBytes
            /\ counts'.recvBytes = counts.recvBytes + Counted(rlen)
            /\ got' = Append(got, rmsg) /\ link' = link
        BY <2>0, <2>5, <3>4 DEF RecvReturns, TypeOK, Counts
      <4>2. /\ Len(got) + 1 <= Len(begun) /\ Meaning(rmsg) = begun[Len(got) + 1]
            /\ begun[Len(got) + 1][3] = rlen
        BY <2>0, <3>4, Delivered DEF MsgInv, Cur
      <4>3. Len(absGot) = Len(got) /\ absGot' = Append(absGot, Meaning(rmsg))
        <5>1. got \in Seq(Seq(Bytes)) /\ Len(got) \in Nat
          BY <2>0 DEF TypeOK
        <5>2. absGot = [i \in 1..Len(got) |-> Meaning(got[i])]
          BY <5>1 DEF absGot
        <5>3. /\ DOMAIN got' = 1..Len(got) + 1 /\ got'[Len(got) + 1] = rmsg
              /\ \A i \in 1..Len(got) : got'[i] = got[i]
          BY <4>1, <5>1
        <5>4. absGot' = [i \in 1..Len(got) + 1 |-> Meaning(got'[i])]
          BY <5>3 DEF absGot
        <5>5. Len(absGot) = Len(got)
          BY <5>1, <5>2
        <5>6. absGot' = Append(absGot, Meaning(rmsg))
          BY <5>1, <5>2, <5>3, <5>4, <5>5
        <5> QED BY <5>5, <5>6
      <4>4. Len(absGot) < Len(begun)
        BY <2>0, <4>2, <4>3 DEF TypeOK
      <4>5. absCounts' = [absCounts EXCEPT !.recv = @ + 1,
                              !.recvBytes = @ + Counted(begun[Len(absGot) + 1][3])]
        BY <4>1, <4>2, <4>3 DEF absCounts
      <4>6. Broken' = Broken
        BY <3>1, <4>1 DEF Broken
      <4>7. Channel!Deliver
        BY <3>1, <4>2, <4>3, <4>4, <4>5, <4>6 DEF Channel!Deliver, absGot, absCounts
      <4> QED BY <4>7 DEF Channel!Next
    <3> QED BY <2>5, <3>2, <3>3, <3>4 DEF RecvReturns
  <2>6. ASSUME NEW s \in Senders,
               NewMsg(s) \/ FillMsgCont(s) \/ ClearMsgCont(s) \/ SendMsg(s) \/ SendFails(s)
        PROVE  Channel!Next \/ UNCHANGED Channel!cvars
    BY <2>1, <2>6 DEF NewMsg, FillMsgCont, ClearMsgCont, SendMsg, SendFails
  <2>7. ASSUME NEW e \in Ends, MsgModuleInit(e) \/ MsgModuleExit(e) \/ UsesDestroyedLock(e)
        PROVE  Channel!Next \/ UNCHANGED Channel!cvars
    BY <2>1, <2>7 DEF MsgModuleInit, MsgModuleExit, UsesDestroyedLock
  <2>8. CASE RecvMsg \/ RecvBytes \/ RecvEnds \/ Shut \/ Reset
    BY <2>1, <2>8 DEF RecvMsg, RecvBytes, RecvEnds, Shut, Reset
  <2> QED BY <1>2, <2>2, <2>3, <2>4, <2>5, <2>6, <2>7, <2>8 DEF Next, SendStep, RecvStep
<1> QED BY <1>1, <1>2

LEMMA InitRefines == Init => Channel!Init
<1> SUFFICES ASSUME Init PROVE Channel!Init
  OBVIOUS
<1>1. /\ begun = <<>> /\ got = <<>> /\ link = "open" /\ ub = FALSE /\ DOMAIN begun = {}
      /\ mod["receiver"] = "down" /\ \A s \in Senders : len[s] = 0
  BY DEF Init, Ends
<1>2. Broken = FALSE
  BY <1>1, Lengths, Sizes DEF Broken
<1>3. absGot = <<>>
  BY <1>1 DEF absGot
<1>4. absCounts = [send |-> 0, sendBytes |-> 0, recv |-> 0, recvBytes |-> 0]
  BY DEF Init, absCounts
<1> QED BY <1>1, <1>2, <1>3, <1>4 DEF Channel!Init, absGot, absCounts

\* Whatever parts of a frame are sent and received at a time, whoever closes or breaks the
\* connection when, with however many messages on the way and whatever lengths their heads
\* declare, those included that are negative to SendMsg and RecvMsg: as long as threads wait for
\* each other's SendMsg the connection carries whole messages, in order, and both ends
\* count them, each with its bytes.
THEOREM StreamCarriesMessages ==
    ASSUME "together" \notin Env
    PROVE  Spec => Implements
<1>1. MsgInv /\ MsgInv' /\ [Next]_vars => [Channel!Next]_(Channel!cvars)
  BY StepRefines
<1> QED BY <1>1, InitRefines, Invariance, PTL DEF Spec, Implements, Channel!Spec

\* Every variable keeps its type.
THEOREM MsgTypes ==
    ASSUME "together" \notin Env
    PROVE  Spec => []TypeOK
<1>1. MsgInv => TypeOK
  BY DEF MsgInv
<1> QED BY <1>1, Invariance, PTL
=============================================================================
