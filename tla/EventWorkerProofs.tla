-------------------------- MODULE EventWorkerProofs --------------------------
(***************************************************************************)
(* The macros of MyList on lists of any length, and the event thread that  *)
(* keeps its list with them, for any callers, monitors and surroundings,   *)
(* also when events are added and deleted during Exit.                     *)
(***************************************************************************)
EXTENDS EventWorker, TLAPS

(***************************************************************************)
(* The macros of include/myList.h do to a list's pointers what their users *)
(* take them to do to a sequence, for lists of any length.                 *)
(***************************************************************************)
\* A heap has both pointers of each of the cells C
Heaps(C) == [next : [C -> C \cup {NULL}], prev : [C -> C \cup {NULL}]]

\* MY_LIST_NODE_INIT makes a head an empty list, and leaves every other list alone.
THEOREM NodeInitEmpties ==
    ASSUME NEW C, NEW l \in Heaps(C), NEW h \in C
    PROVE  /\ IsList(NodeInit(l, h), h, <<>>) /\ IsEmpty(NodeInit(l, h), h)
           /\ NodeInit(l, h) \in Heaps(C)
BY DEF NodeInit, IsList, IsRing, NoRepeats, At, IsEmpty, Heaps

\* MY_LIST_ADD_TAIL of a node that is not in the list appends it.
THEOREM AddTailAppends ==
    ASSUME NEW C, NEW l \in Heaps(C), NEW h \in C, NEW s \in Seq(C), NEW n \in C,
           IsList(l, h, s), n # h, \A i \in 1..Len(s) : s[i] # n
    PROVE  IsList(AddTail(l, n, h), h, Append(s, n)) /\ AddTail(l, n, h) \in Heaps(C)
<1> DEFINE t == Append(s, n)
           m == AddTail(l, n, h)
           last == At(s, h, Len(s))
<1>1. Len(s) \in Nat /\ Len(t) = Len(s) + 1 /\ t[Len(s) + 1] = n
      /\ \A i \in 1..Len(s) : t[i] = s[i]
  OBVIOUS
<1>2. l.prev[h] = last /\ last \in C
  BY <1>1 DEF IsList, IsRing, At
<1>3. /\ m.next = [l.next EXCEPT ![last] = n, ![n] = h]
      /\ m.prev = [l.prev EXCEPT ![n] = last, ![h] = n]
  BY <1>2 DEF AddTail
<1>4. m \in Heaps(C)
  BY <1>2 DEF AddTail, Heaps
<1>5. NoRepeats(t) /\ \A i \in 1..Len(t) : t[i] # h
  BY <1>1 DEF IsList, NoRepeats
<1>6. ASSUME NEW i \in 0..Len(t)
      PROVE  m.next[At(t, h, i)] = At(t, h, i + 1) /\ m.prev[At(t, h, i + 1)] = At(t, h, i)
  <2>1. CASE i < Len(s)
    <3>1. At(t, h, i) = At(s, h, i) /\ At(t, h, i + 1) = At(s, h, i + 1)
      BY <1>1, <2>1 DEF At
    <3>2. /\ At(s, h, i) # last /\ At(s, h, i) # n /\ At(s, h, i) \in C
          /\ At(s, h, i + 1) # h /\ At(s, h, i + 1) # n /\ At(s, h, i + 1) \in C
      BY <1>1, <2>1 DEF At, IsList, NoRepeats
    <3>3. l.next[At(s, h, i)] = At(s, h, i + 1) /\ l.prev[At(s, h, i + 1)] = At(s, h, i)
      BY <1>1, <2>1 DEF IsList, IsRing
    <3> QED BY <1>3, <3>1, <3>2, <3>3 DEF Heaps
  <2>2. CASE i = Len(s)
    <3>1. At(t, h, i) = last /\ At(t, h, i + 1) = n
      BY <1>1, <2>2 DEF At
    <3>2. last # n
      BY <1>1 DEF At
    <3> QED BY <1>2, <1>3, <3>1, <3>2 DEF Heaps
  <2>3. CASE i = Len(s) + 1
    <3>1. At(t, h, i) = n /\ At(t, h, i + 1) = h
      BY <1>1, <2>3 DEF At
    <3> QED BY <1>3, <3>1 DEF Heaps
  <2> QED BY <1>1, <2>1, <2>2, <2>3
<1> QED BY <1>4, <1>5, <1>6 DEF IsList, IsRing

\* MY_LIST_DEL_NODE of a node in the list removes it from where it is.
THEOREM DelNodeRemoves ==
    ASSUME NEW C, NEW l \in Heaps(C), NEW h \in C, NEW s \in Seq(C), NEW k \in 1..Len(s),
           IsList(l, h, s)
    PROVE  IsList(DelNode(l, s[k]), h, Without(s, k)) /\ DelNode(l, s[k]) \in Heaps(C)
<1> DEFINE t == Without(s, k)
           m == DelNode(l, s[k])
           before == At(s, h, k - 1)
           after == At(s, h, k + 1)
<1>1. Len(s) \in Nat /\ Len(t) = Len(s) - 1 /\ s[k] \in C
      /\ \A i \in 1..Len(t) : t[i] = IF i < k THEN s[i] ELSE s[i + 1]
  BY DEF Without
<1>2. l.prev[s[k]] = before /\ l.next[s[k]] = after /\ before \in C /\ after \in C
  <2> HIDE DEF before, after
  <2>1. PICK j \in 0..Len(s) : j = k - 1
    BY <1>1
  <2>2. l.next[At(s, h, k)] = At(s, h, k + 1) /\ At(s, h, k) = s[k]
    BY <1>1 DEF IsList, IsRing, At
  <2>3. l.prev[At(s, h, j + 1)] = At(s, h, j) /\ At(s, h, j + 1) = s[k]
    BY <1>1, <2>1 DEF IsList, IsRing, At
  <2>4. before = At(s, h, j) /\ after = At(s, h, k + 1)
    BY <2>1 DEF before, after
  <2>5. At(s, h, j) \in C /\ At(s, h, k + 1) \in C
    BY <1>1, <2>1 DEF At
  <2> QED BY <2>2, <2>3, <2>4, <2>5
<1>3. /\ m.next = [l.next EXCEPT ![before] = after]
      /\ m.prev = [l.prev EXCEPT ![after] = before]
  BY <1>2 DEF DelNode
<1>4. m \in Heaps(C)
  BY <1>2 DEF DelNode, Heaps
<1>5. NoRepeats(t) /\ \A i \in 1..Len(t) : t[i] # h
  BY SMTT(20), <1>1 DEF IsList, NoRepeats
<1>6. ASSUME NEW i \in 0..Len(t)
      PROVE  m.next[At(t, h, i)] = At(t, h, i + 1) /\ m.prev[At(t, h, i + 1)] = At(t, h, i)
  <2>1. CASE i < k - 1
    <3>1. At(t, h, i) = At(s, h, i) /\ At(t, h, i + 1) = At(s, h, i + 1)
      BY <1>1, <2>1 DEF At
    <3>2. At(s, h, i) # before /\ At(s, h, i + 1) # after
          /\ At(s, h, i) \in C /\ At(s, h, i + 1) \in C
      BY <1>1, <2>1 DEF At, IsList, NoRepeats
    <3>3. l.next[At(s, h, i)] = At(s, h, i + 1) /\ l.prev[At(s, h, i + 1)] = At(s, h, i)
      BY <1>1, <2>1 DEF IsList, IsRing
    <3> QED BY <1>3, <3>1, <3>2, <3>3 DEF Heaps
  <2>2. CASE i = k - 1
    <3>1. At(t, h, i) = before /\ At(t, h, i + 1) = after
      BY <1>1, <2>2 DEF At
    <3> QED BY <1>2, <1>3, <3>1 DEF Heaps
  <2>3. CASE i > k - 1
    <3>1. At(t, h, i) = At(s, h, i + 1) /\ At(t, h, i + 1) = At(s, h, i + 2)
      BY <1>1, <2>3 DEF At
    <3>2. At(s, h, i + 1) # before /\ At(s, h, i + 2) # after
          /\ At(s, h, i + 1) \in C /\ At(s, h, i + 2) \in C
      BY <1>1, <2>3 DEF At, IsList, NoRepeats
    <3>3. l.next[At(s, h, i + 1)] = At(s, h, (i + 1) + 1)
          /\ l.prev[At(s, h, (i + 1) + 1)] = At(s, h, i + 1)
      BY <1>1, <2>3 DEF IsList, IsRing
    <3> QED BY <1>1, <1>3, <3>1, <3>2, <3>3 DEF Heaps
  <2> QED BY <1>1, <2>1, <2>2, <2>3
<1> QED BY <1>4, <1>5, <1>6 DEF IsList, IsRing

\* MY_LIST_HEAD_COPY gives the whole list to another head, also an empty one.
THEOREM HeadCopyMoves ==
    ASSUME NEW C, NEW l \in Heaps(C), NEW h \in C, NEW s \in Seq(C), NEW new \in C,
           IsList(l, h, s), new # h, \A i \in 1..Len(s) : s[i] # new
    PROVE  IsList(HeadCopy(l, new, h), new, s) /\ HeadCopy(l, new, h) \in Heaps(C)
<1> DEFINE m == HeadCopy(l, new, h)
           first == At(s, h, 1)
           last == At(s, new, Len(s))
<1>1. Len(s) \in Nat /\ \A i \in 1..Len(s) : s[i] \in C
  OBVIOUS
<1>2. l.next[h] = first /\ first \in C /\ l.prev[h] = At(s, h, Len(s)) /\ last \in C
  BY <1>1 DEF IsList, IsRing, At
<1>3. [l.prev EXCEPT ![first] = new][h] = last
  BY <1>1, <1>2 DEF At, IsList, Heaps
<1>4. /\ m.next = [l.next EXCEPT ![new] = first, ![last] = new]
      /\ m.prev = [[l.prev EXCEPT ![first] = new] EXCEPT ![new] = last]
  BY <1>2, <1>3 DEF HeadCopy
<1>5. m \in Heaps(C)
  BY <1>2, <1>4 DEF HeadCopy, Heaps
<1>6. ASSUME NEW i \in 0..Len(s)
      PROVE  m.next[At(s, new, i)] = At(s, new, i + 1) /\ m.prev[At(s, new, i + 1)] = At(s, new, i)
  <2>1. CASE Len(s) = 0
    BY <1>1, <1>2, <1>4, <2>1 DEF At, Heaps
  <2>2. CASE Len(s) > 0
    <3>1. first = s[1] /\ last = s[Len(s)] /\ first # new /\ last # new
      BY <1>1, <2>2 DEF At
    <3>2. CASE i = 0
      BY <1>1, <1>2, <1>4, <2>2, <3>1, <3>2 DEF At, Heaps
    <3>3. CASE i = Len(s)
      BY <1>1, <1>2, <1>4, <2>2, <3>1, <3>3 DEF At, Heaps
    <3>4. CASE i > 0 /\ i < Len(s)
      <4>1. /\ At(s, new, i) = s[i] /\ At(s, new, i + 1) = s[i + 1]
            /\ s[i] # last /\ s[i] # new /\ s[i + 1] # first /\ s[i + 1] # new
        BY <1>1, <3>1, <3>4 DEF At, IsList, NoRepeats
      <4>2. l.next[s[i]] = s[i + 1] /\ l.prev[s[i + 1]] = s[i]
        BY <1>1, <3>4 DEF IsList, IsRing, At
      <4> QED BY <1>1, <1>4, <3>4, <4>1, <4>2 DEF Heaps
    <3> QED BY <1>1, <3>2, <3>3, <3>4
  <2> QED BY <1>1, <2>1, <2>2
<1>7. NoRepeats(s) /\ \A i \in 1..Len(s) : s[i] # new
  BY DEF IsList
<1> QED BY <1>5, <1>6, <1>7 DEF IsList, IsRing

\* A head that is not the list's own can be initialised, as _TPoolProcFn does to the
\* pool's head after it has copied it: the list is as it was.
THEOREM NodeInitElsewhere ==
    ASSUME NEW C, NEW l \in Heaps(C), NEW h \in C, NEW s \in Seq(C), NEW n \in C,
           IsList(l, h, s), n # h, \A i \in 1..Len(s) : s[i] # n
    PROVE  IsList(NodeInit(l, n), h, s)
<1>1. \A i \in 0..Len(s) + 1 : At(s, h, i) # n /\ At(s, h, i) \in C
  BY DEF At
<1> QED BY <1>1 DEF NodeInit, IsList, IsRing, Heaps

\* MY_LIST_FOR_EACH begins with the first node, if there is one, and has the second, or
\* the head behind the last, in hand before the first can be freed.
THEOREM LoopBegins ==
    ASSUME NEW C, NEW l \in Heaps(C), NULL \notin C, NEW h \in C, NEW s \in Seq(C),
           IsList(l, h, s)
    PROVE  /\ LoopOver(LoopFirst(l, h), h) <=> s = <<>>
           /\ s # <<>> => /\ LoopFirst(l, h) = s[1]
                          /\ LoopNext(l, s[1]) = At(s, h, 2)
           /\ s = <<>> => LoopNext(l, h) = NULL
<1>1. Len(s) \in Nat /\ \A i \in 1..Len(s) : s[i] \in C
  OBVIOUS
<1>2. CASE s = <<>>
  <2>1. l.next[h] = h
    BY <1>2 DEF IsList, IsRing, At
  <2> QED BY <1>2, <2>1 DEF LoopFirst, LoopOver, LoopNext, Entry
<1>3. CASE s # <<>>
  <2>1. Len(s) > 0
    BY <1>1, <1>3
  <2>2. l.next[h] = s[1] /\ l.next[s[1]] = At(s, h, 2) /\ l.next[h] # h
    BY <1>1, <2>1 DEF IsList, IsRing, At
  <2>3. l.next[s[1]] # s[1]
    BY <1>1, <2>1, <2>2 DEF IsList, NoRepeats, At
  <2>4. l.next[At(s, h, 2)] # At(s, h, 2)
    <3>1. CASE Len(s) = 1
      BY <2>2, <3>1 DEF At
    <3>2. CASE Len(s) > 1
      <4>1. At(s, h, 2) = s[2] /\ l.next[s[2]] = At(s, h, 3)
        BY <1>1, <3>2 DEF IsList, IsRing, At
      <4> QED BY <1>1, <3>2, <4>1 DEF IsList, NoRepeats, At
    <3>3. Len(s) = 1 \/ Len(s) > 1
      <4>1. PICK n \in Nat : n = Len(s)
        BY <1>1
      <4>2. n > 0 => n = 1 \/ n > 1
        OBVIOUS
      <4> QED BY <2>1, <4>1, <4>2
    <3> QED BY <3>1, <3>2, <3>3
  <2> QED BY <1>1, <1>3, <2>1, <2>2, <2>3, <2>4 DEF LoopFirst, LoopOver, LoopNext, Entry, IsList
<1> QED BY <1>2, <1>3

(***************************************************************************)
(* The sequence without one of its elements.                               *)
(***************************************************************************)
LEMMA FirstIs ==
    ASSUME NEW C, NEW s \in Seq(C), NoRepeats(s), NEW k \in 1..Len(s)
    PROVE  First(s, s[k]) = k
BY DEF First, NoRepeats

LEMMA RemovedIs ==
    ASSUME NEW C, NEW s \in Seq(C), NoRepeats(s), NEW n
    PROVE  \/ /\ \A i \in 1..Len(s) : s[i] # n
              /\ Removed(s, n) = s
           \/ \E k \in 1..Len(s) : s[k] = n /\ Removed(s, n) = Without(s, k)
BY FirstIs DEF Removed

\* It holds the others, each once
LEMMA RemovedHolds ==
    ASSUME NEW C, NEW s \in Seq(C), NoRepeats(s), NEW n
    PROVE  /\ Removed(s, n) \in Seq(C) /\ NoRepeats(Removed(s, n))
           /\ Range(Removed(s, n)) = Range(s) \ {n}
<1>1. CASE \A i \in 1..Len(s) : s[i] # n
  BY <1>1 DEF Removed, Range
<1>2. ASSUME NEW k \in 1..Len(s), s[k] = n, Removed(s, n) = Without(s, k)
      PROVE  /\ Removed(s, n) \in Seq(C) /\ NoRepeats(Removed(s, n))
             /\ Range(Removed(s, n)) = Range(s) \ {n}
  <2> DEFINE t == Without(s, k)
  <2>1. /\ Len(s) \in Nat /\ Len(s) > 0 /\ Len(t) = Len(s) - 1
        /\ \A i \in 1..Len(t) : t[i] = IF i < k THEN s[i] ELSE s[i + 1]
    BY DEF Without
  <2>2. t \in Seq(C)
    BY <2>1 DEF Without
  <2>3. NoRepeats(t)
    BY <2>1 DEF NoRepeats
  <2>4. ASSUME NEW i \in 1..Len(t) PROVE t[i] # n /\ \E j \in 1..Len(s) : s[j] = t[i]
    BY <1>2, <2>1 DEF NoRepeats
  <2>5. ASSUME NEW i \in 1..Len(s), s[i] # n PROVE \E j \in 1..Len(t) : t[j] = s[i]
    <3>1. CASE i < k
      BY <2>1, <3>1
    <3>2. CASE i > k
      <4>1. i - 1 \in 1..Len(t) /\ t[i - 1] = s[i]
        BY <2>1, <3>2
      <4> QED BY <4>1
    <3> QED BY <1>2, <2>5, <3>1, <3>2
  <2> HIDE DEF t
  <2>6. Range(t) = Range(s) \ {n}
    <3>1. \A i \in 1..Len(t) : t[i] \in Range(s) \ {n}
      BY <2>4 DEF Range
    <3>2. \A i \in 1..Len(s) : s[i] # n => s[i] \in Range(t)
      BY <2>2, <2>5 DEF Range
    <3> QED BY <2>2, <3>1, <3>2 DEF Range
  <2> QED BY <1>2, <2>2, <2>3, <2>6 DEF t
<1> QED BY <1>1, <1>2, RemovedIs

(***************************************************************************)
(* The inductive invariant.                                                *)
(***************************************************************************)
Exiting == {"clear", "walk", "loopexit", "joining", "done"}
Looping == {"loop", "wait", "call", "callback"}
Entered == Looping \cup {"end", "free", "null", "gone"}

\* How far the event thread is when the one of Init and Exit is where it is
Control ==
    /\ ipc = "none" => tpc = "unborn"
    /\ running \/ ipc \in Exiting => tpc \in Entered
    /\ tpc \in {"unborn", "new"} => base = "none"
    /\ tpc \in {"add", "insert", "ready"} \cup Looping => base = "up"
    /\ stop => ipc \in {"joining", "done"}
    /\ tpc = "insert" => module = "health"

\* Nobody adds a timer before the thread runs, nor anything after Exit if not "late"
CallersWait ==
    /\ ipc = "none" \/ (module = "timer" /\ tpc \in {"unborn", "new", "add", "ready"}) =>
           \A c \in Callers : cpc[c] = "idle"
    /\ "late" \notin Env /\ ipc \in Exiting => \A c \in Callers : cpc[c] # "add"

\* The list is empty before the base is there, and before Timer's keepalive
EmptyFirst ==
    tpc \in {"unborn", "new"} \/ (module = "timer" /\ tpc = "add") =>
        list = <<>> /\ \A n \in Nodes : node[n] # "live"

OwnNodes == \A c \in Callers :
    /\ cpc[c] \in {"idle", "add", "addonce", "once"} => node[c] = "none"
    /\ cpc[c] = "added" => node[c] # "none"

\* Exit's loop is at the first node that is left, and has the next in hand
Walk == ipc = "walk" =>
    IF list = <<>> THEN loop = EventList
    ELSE loop = list[1] /\ tmp = At(list, EventList, 2)

Silent == \A c \in over : cpc[c] \in {"deleted", "once"} /\ c \notin armed \cup active

Alive ==
    /\ tpc \in {"ready"} \cup Looping /\ ipc \in {"waiting", "up"} => Keepalive \in armed
    /\ tpc = "end" /\ running => ipc \notin {"waiting", "up"}

ListInv == ListRight /\ Control /\ CallersWait /\ EmptyFirst /\ OwnNodes /\ Walk /\ Silent /\ Alive
EventInv == TypeOK /\ (~ub => ListInv)

-----------------------------------------------------------------------------
(***************************************************************************)
(* The list.                                                               *)
(***************************************************************************)
Linked == IsList(links, EventList, list) /\ Range(list) = {n \in Nodes : node[n] = "live"}

LEMMA CellsFacts ==
    /\ EventList \in Cells /\ EventList \notin Nodes /\ NULL \notin Cells
    /\ Nodes \subseteq Cells /\ Keepalive \in Nodes /\ Keepalive \notin Callers
    /\ Callers \subseteq Nodes /\ Monitors \subseteq Nodes /\ None \notin Nodes
    /\ Callers \cap Monitors = {}
BY EventAssumption DEF Cells, Nodes, EventList, NULL, None

\* What is done to a cell that is not in the list does not matter to it
LEMMA ForgottenElsewhere ==
    ASSUME NEW C, NEW l \in Heaps(C), NEW h \in C, NEW s \in Seq(C), NEW n \in C,
           IsList(l, h, s), n # h, \A i \in 1..Len(s) : s[i] # n
    PROVE  IsList(Forgotten(l, n), h, s) /\ Forgotten(l, n) \in Heaps(C)
<1>1. \A i \in 0..Len(s) + 1 : At(s, h, i) # n /\ At(s, h, i) \in C
  BY DEF At
<1>2. IsList(Forgotten(l, n), h, s)
  BY <1>1 DEF Forgotten, IsList, IsRing, Heaps
<1> QED BY <1>2 DEF Forgotten, Heaps

LEMMA AddLinks ==
    ASSUME TypeOK, Linked, NEW n \in Nodes, node[n] # "live", Add(n)
    PROVE  /\ Linked' /\ links' \in Heaps(Cells) /\ list' \in Seq(Nodes)
           /\ Len(list') = Len(list) + 1
           /\ Range(list)' = Range(list) \cup {n}
<1>1. /\ links \in Heaps(Cells) /\ list \in Seq(Nodes) /\ list \in Seq(Cells)
      /\ node \in [Nodes -> {"none", "live", "freed"}]
  BY CellsFacts DEF TypeOK, Heaps
<1>2. /\ links' = AddTail(links, n, EventList) /\ list' = Append(list, n)
      /\ node' = [node EXCEPT ![n] = "live"]
  BY DEF Add
<1>3. \A i \in 1..Len(list) : list[i] # n
  BY <1>1 DEF Linked, Range
<1>4. IsList(links', EventList, list') /\ links' \in Heaps(Cells)
  BY <1>1, <1>2, <1>3, CellsFacts, AddTailAppends DEF Linked
<1>5. list' \in Seq(Nodes) /\ Len(list') = Len(list) + 1
  BY <1>1, <1>2
<1>6. Range(list)' = Range(list) \cup {n}
  <2>1. /\ DOMAIN list = 1..Len(list) /\ DOMAIN list' = 1..(Len(list) + 1)
        /\ Len(list) \in Nat /\ list'[Len(list) + 1] = n
        /\ \A i \in 1..Len(list) : list'[i] = list[i]
    BY <1>1, <1>2
  <2> QED BY <2>1 DEF Range
<1>7. {m \in Nodes : node'[m] = "live"} = {m \in Nodes : node[m] = "live"} \cup {n}
  BY <1>1, <1>2
<1> QED BY <1>4, <1>5, <1>6, <1>7 DEF Linked

LEMMA UnlinkLinks ==
    ASSUME TypeOK, Linked, NEW n \in Nodes, node[n] = "live", Unlink(n)
    PROVE  /\ Linked' /\ links' \in Heaps(Cells) /\ list' \in Seq(Nodes)
           /\ Len(list') = Len(list) - 1
           /\ Range(list)' = Range(list) \ {n}
           /\ \E k \in 1..Len(list) : list[k] = n /\ list' = Without(list, k)
<1>1. /\ links \in Heaps(Cells) /\ list \in Seq(Nodes) /\ list \in Seq(Cells)
      /\ node \in [Nodes -> {"none", "live", "freed"}] /\ NoRepeats(list)
  BY CellsFacts DEF TypeOK, Heaps, Linked, IsList
<1>2. /\ links' = Forgotten(DelNode(links, n), n) /\ list' = Removed(list, n)
      /\ node' = [node EXCEPT ![n] = "freed"]
  BY DEF Unlink
<1>3. PICK k \in 1..Len(list) : list[k] = n /\ list' = Without(list, k)
  <2>1. n \in Range(list)
    BY DEF Linked
  <2>2. \E i \in 1..Len(list) : list[i] = n
    BY <1>1, <2>1 DEF Range
  <2> QED BY <1>1, <1>2, <2>2, RemovedIs
<1>4. list' \in Seq(Nodes) /\ list' \in Seq(Cells) /\ Range(list)' = Range(list) \ {n}
  BY <1>1, <1>2, RemovedHolds, CellsFacts
<1>5. IsList(DelNode(links, n), EventList, list') /\ DelNode(links, n) \in Heaps(Cells)
  BY <1>1, <1>3, CellsFacts, DelNodeRemoves DEF Linked
<1>6. IsList(links', EventList, list') /\ links' \in Heaps(Cells)
  <2>1. \A i \in 1..Len(list') : list'[i] # n
    BY <1>4 DEF Range
  <2>2. n \in Cells /\ n # EventList
    BY CellsFacts
  <2> QED BY <1>2, <1>4, <1>5, <2>1, <2>2, CellsFacts, ForgottenElsewhere
<1>7. Len(list') = Len(list) - 1
  BY <1>1, <1>3 DEF Without
<1>8. {m \in Nodes : node'[m] = "live"} = {m \in Nodes : node[m] = "live"} \ {n}
  BY <1>1, <1>2
<1> QED BY <1>3, <1>4, <1>6, <1>7, <1>8 DEF Linked

LEMMA LoopTypes ==
    ASSUME NEW l \in Heaps(Cells), NEW n \in Cells \cup {NULL}
    PROVE  LoopFirst(l, EventList) \in Cells \cup {NULL} /\ LoopNext(l, n) \in Cells \cup {NULL}
BY CellsFacts DEF LoopFirst, LoopNext, Entry, Heaps

\* What Exit's loop is at is a node on the list
LEMMA WalksNodes ==
    ASSUME EventInv, ~ub, ipc = "walk", ~LoopOver(loop, EventList)
    PROVE  /\ list # <<>> /\ loop \in Nodes /\ node[loop] = "live" /\ Linked
           /\ loop = list[1] /\ tmp = At(list, EventList, 2)
<1>1. /\ list # <<>> /\ loop = list[1] /\ tmp = At(list, EventList, 2) /\ Linked
  BY DEF EventInv, ListInv, Walk, LoopOver, ListRight, Linked
<1>2. list[1] \in Range(list)
  BY <1>1 DEF EventInv, TypeOK, Range
<1> QED BY <1>1, <1>2 DEF Linked

\* The steps that change the list are taken after ModuleInit
LEMMA ChangesInList ==
    ASSUME EventInv, ~ub, ipc # "none"
    PROVE  Linked
BY DEF EventInv, ListInv, ListRight, Linked

LEMMA Adds ==
    ASSUME EventInv, ~ub, NEW n \in Nodes,
           \/ EntryKeepalive /\ n = Keepalive
           \/ EntryInserted(n)
           \/ n \in Callers /\ AddLoops(n)
    PROVE  /\ Add(n) /\ Linked /\ node[n] # "live" /\ ipc # "none" /\ ipc' = ipc /\ ipc # "walk"
           /\ UNCHANGED <<module, running, base, stop, calling, over>>
<1> USE DEF EventInv, ListInv
<1>1. CASE EntryKeepalive /\ n = Keepalive
  BY <1>1, ChangesInList DEF EntryKeepalive, Control, Exiting, Entered, Looping, EmptyFirst
<1>2. CASE EntryInserted(n)
  BY <1>2, ChangesInList DEF EntryInserted, Control, Exiting, Entered, Looping
<1>3. CASE n \in Callers /\ AddLoops(n)
  <2>1. cpc[n] = "add" /\ node[n] = "none" /\ ipc # "none"
    BY <1>3 DEF AddLoops, OwnNodes, CallersWait
  <2> QED BY <1>3, <2>1, ChangesInList DEF AddLoops, Unlocked
<1> QED BY <1>1, <1>2, <1>3

\* A timer that is deleted is on the list, if it is not freed memory that is used
LEMMA Deletes ==
    ASSUME EventInv, ~ub, NEW c \in Callers, Delete(c), ~ub'
    PROVE  /\ Unlink(c) /\ Linked /\ node[c] = "live" /\ ipc # "walk" /\ ipc # "none"
           /\ listLen' = listLen - 1 /\ Disarmed(c)
<1> USE DEF EventInv, ListInv
<1>1. node[c] # "freed" /\ Unlink(c) /\ ipc # "walk" /\ cpc[c] = "added"
      /\ listLen' = listLen - 1 /\ Disarmed(c)
  BY DEF Delete, Unlocked, LenAfterDel
<1>2. node[c] = "live" /\ ipc # "none"
  BY <1>1, CellsFacts DEF OwnNodes, CallersWait, TypeOK
<1> QED BY <1>1, <1>2, ChangesInList

-----------------------------------------------------------------------------
(***************************************************************************)
(* Each part of the invariant is kept.                                     *)
(***************************************************************************)
LEMMA TypeStep ==
    ASSUME EventInv, Next
    PROVE  TypeOK'
<1> USE DEF EventInv, listVars, baseVars
<1>0. ~ub /\ links \in Heaps(Cells)
  BY DEF Next, TypeOK, Heaps
<1>1. CASE EntryNewBase
  BY <1>1 DEF TypeOK, EntryNewBase
<1>2. ASSUME NEW n \in Nodes, (EntryKeepalive /\ n = Keepalive) \/ EntryInserted(n) PROVE TypeOK'
  <2>1. /\ Add(n) /\ links' \in Heaps(Cells) /\ list' \in Seq(Nodes)
        /\ UNCHANGED <<module, running, base, stop, calling, over>>
    BY <1>0, <1>2, Adds, AddLinks
  <2>2. /\ active' \subseteq Nodes /\ tpc' \in {"add", "ready"}
        /\ UNCHANGED <<ipc, cpc, ub>>
    BY <1>2 DEF EntryKeepalive, EntryInserted, TypeOK
  <2> QED BY <2>1, <2>2 DEF TypeOK, Add, Heaps
<1>3a. CASE EntryInserts
  BY <1>3a DEF TypeOK, EntryInserts
<1>3b. CASE EntryRuns
  BY <1>3b DEF TypeOK, EntryRuns
<1>3c. CASE LoopTop
  BY <1>3c DEF TypeOK, LoopTop
<1>3d. CASE LoopRound
  BY <1>3d DEF TypeOK, LoopRound
<1>3e. CASE EntryEnds
  BY ZenonT(60), <1>3e DEF TypeOK, EntryEnds
<1>3f. CASE EntryGone
  BY <1>3f DEF TypeOK, EntryGone
<1>4. ASSUME NEW n \in Nodes, LoopCalls(n) PROVE TypeOK'
  <2>1. over' \subseteq Callers
    BY <1>4 DEF LoopCalls, OneTime, TypeOK
  <2> QED BY <1>4, <2>1 DEF TypeOK, LoopCalls
<1>5. CASE LoopWakes \/ LoopCalled \/ EntryFreesBase
  BY <1>5 DEF TypeOK, LoopWakes, LoopCalled, EntryFreesBase
<1>6. CASE ModuleInit
  <2>1. links' \in Heaps(Cells)
    BY <1>0, <1>6, CellsFacts, NodeInitEmpties DEF ModuleInit
  <2> QED BY <1>6, <2>1 DEF TypeOK, ModuleInit, Heaps
<1>7a. CASE InitReturns
  BY <1>7a DEF TypeOK, InitReturns
<1>7b. CASE ModuleExit
  BY <1>7b DEF TypeOK, ModuleExit
<1>7c. CASE ExitLoopOver
  BY <1>7c DEF TypeOK, ExitLoopOver
<1>7d. CASE ExitLoopexit
  BY <1>7d DEF TypeOK, ExitLoopexit, Told
<1>7e. CASE ExitJoins
  BY <1>7e DEF TypeOK, ExitJoins
<1>8. CASE ExitBeginsLoop
  <2>1. loop' \in Cells \cup {NULL} /\ tmp' \in Cells \cup {NULL}
    BY <1>0, <1>8, LoopTypes DEF ExitBeginsLoop, TypeOK
  <2> QED BY <1>8, <2>1 DEF TypeOK, ExitBeginsLoop
<1>9. CASE ExitFreesNode
  <2>1. /\ ipc = "walk" /\ ~LoopOver(loop, EventList) /\ Unlink(loop)
        /\ armed' = armed \ {loop} /\ active' = active \ {loop}
        /\ loop' = tmp /\ tmp' = LoopNext(links', tmp)
        /\ UNCHANGED <<module, running, base, stop, calling, listLen, tpc, ipc, cpc, over, ub>>
    BY <1>9 DEF ExitFreesNode
  <2>2. loop \in Nodes /\ node[loop] = "live" /\ Linked
    BY <1>0, <2>1, WalksNodes
  <2>3. links' \in Heaps(Cells) /\ list' \in Seq(Nodes)
    BY <2>1, <2>2, UnlinkLinks
  <2>4. loop' \in Cells \cup {NULL} /\ tmp' \in Cells \cup {NULL}
    BY <2>1, <2>3, LoopTypes DEF TypeOK
  <2> QED BY ZenonT(60), <2>1, <2>3, <2>4 DEF TypeOK, Unlink, Heaps
<1>10a. ASSUME NEW c \in Callers, AddBegins(c) PROVE TypeOK'
  BY <1>10a DEF TypeOK, AddBegins
<1>10b. ASSUME NEW c \in Callers, AddOnce(c) PROVE TypeOK'
  BY <1>10b, CellsFacts DEF TypeOK, AddOnce
<1>11. ASSUME NEW c \in Callers, AddLoops(c) PROVE TypeOK'
  <2>1. /\ Add(c) /\ links' \in Heaps(Cells) /\ list' \in Seq(Nodes)
        /\ UNCHANGED <<module, running, base, stop, calling, over>>
    BY <1>0, <1>11, CellsFacts, Adds, AddLinks
  <2>2. /\ cpc' = [cpc EXCEPT ![c] = "added"] /\ ub' \in BOOLEAN
        /\ UNCHANGED <<active, tpc, ipc>>
    BY <1>11 DEF AddLoops
  <2> QED BY <2>1, <2>2, CellsFacts DEF TypeOK, Add, Heaps
<1>12. ASSUME NEW c \in Callers, Delete(c) PROVE TypeOK'
  <2>1. /\ links' \in Heaps(Cells) /\ list' \in Seq(Nodes) /\ ub' \in BOOLEAN
        /\ node' \in [Nodes -> {"none", "live", "freed"}]
    <3>1. CASE ub'
      <4>1. node[c] = "freed"
        BY <1>0, <1>12, <3>1 DEF Delete
      <4> QED BY <1>0, <1>12, <4>1 DEF Delete, TypeOK
    <3>2. CASE ~ub'
      <4>1. Unlink(c) /\ Linked /\ node[c] = "live"
        BY <1>0, <1>12, <3>2, Deletes
      <4>2. links' \in Heaps(Cells) /\ list' \in Seq(Nodes)
        BY <4>1, CellsFacts, UnlinkLinks
      <4>3. ub' \in BOOLEAN
        BY <1>12 DEF Delete, TypeOK
      <4> QED BY <4>1, <4>2, <4>3 DEF Unlink, TypeOK
    <3> QED BY <3>1, <3>2
  <2>2. /\ listLen' = listLen - 1 /\ armed' = armed \ {c} /\ active' = active \ {c}
        /\ cpc' = [cpc EXCEPT ![c] = "deleted"] /\ over' = over \cup {c}
        /\ UNCHANGED <<module, running, base, stop, calling, loop, tmp, tpc, ipc>>
    BY <1>12 DEF Delete, LenAfterDel, Disarmed
  <2> QED BY <2>1, <2>2 DEF TypeOK, Heaps
<1> QED BY <1>1, <1>2, <1>3a, <1>3b, <1>3c, <1>3d, <1>3e, <1>3f, <1>4, <1>5, <1>6, <1>7a,
           <1>7b, <1>7c, <1>7d, <1>7e, <1>8, <1>9, <1>10a, <1>10b, <1>11, <1>12, CellsFacts
        DEF Next, EventThread, TimerDel, CallbackDeletes

LEMMA ControlStep ==
    ASSUME EventInv, Next
    PROVE  Control'
<1> USE DEF EventInv, ListInv, Exiting, Entered, Looping, baseVars
<1>0. ~ub /\ Control
  BY DEF Next
<1>1. CASE EventThread
  BY <1>0, <1>1 DEF Control, EventThread, EntryNewBase, EntryKeepalive, EntryInserts, EntryRuns,
     EntryInserted, LoopCalls, LoopTop, LoopWakes, LoopCalled, LoopRound, EntryEnds,
     EntryFreesBase, EntryGone
<1>2. CASE ModuleInit \/ InitReturns \/ ModuleExit \/ ExitBeginsLoop \/ ExitFreesNode
           \/ ExitLoopOver \/ ExitLoopexit \/ ExitJoins
  BY <1>0, <1>2 DEF Control, ModuleInit, InitReturns, ModuleExit, ExitBeginsLoop, ExitFreesNode,
     ExitLoopOver, ExitLoopexit, ExitJoins
<1>3. ASSUME NEW c \in Callers, AddBegins(c) \/ AddLoops(c) \/ AddOnce(c) \/ Delete(c)
      PROVE  Control'
  BY <1>0, <1>3 DEF Control, AddBegins, AddLoops, AddOnce, Delete
<1> QED BY <1>1, <1>2, <1>3 DEF Next, TimerDel, CallbackDeletes

LEMMA CallersStep ==
    ASSUME EventInv, Next
    PROVE  CallersWait'
<1> USE DEF EventInv, ListInv, baseVars
<1>0. ~ub /\ Control /\ CallersWait
  BY DEF Next
<1>1. CASE EventThread
  <2>1. /\ cpc' = cpc /\ ipc' = ipc /\ module' = module
        /\ tpc' \in {"unborn", "new", "add", "ready"} =>
               tpc \in {"unborn", "new", "add", "ready"} \/ tpc = "insert"
    BY <1>1 DEF EventThread, EntryNewBase, EntryKeepalive, EntryInserts, EntryRuns,
     EntryInserted, LoopCalls, LoopTop, LoopWakes, LoopCalled, LoopRound, EntryEnds,
     EntryFreesBase, EntryGone
  <2> QED BY <1>0, <2>1 DEF CallersWait, Control
<1>2. CASE ModuleInit \/ InitReturns \/ ModuleExit \/ ExitBeginsLoop \/ ExitFreesNode
           \/ ExitLoopOver \/ ExitLoopexit \/ ExitJoins
  BY <1>0, <1>2 DEF CallersWait, Control, ModuleInit, InitReturns, ModuleExit, ExitBeginsLoop,
     ExitFreesNode, ExitLoopOver, ExitLoopexit, ExitJoins, Exiting
<1>3. ASSUME NEW c \in Callers, AddBegins(c) \/ AddLoops(c) \/ AddOnce(c) \/ Delete(c)
      PROVE  CallersWait'
  BY <1>0, <1>3 DEF CallersWait, Control, AddBegins, AddLoops, AddOnce, Delete, Usable, Exiting,
     Entered, Looping, TypeOK
<1> QED BY <1>1, <1>2, <1>3 DEF Next, TimerDel, CallbackDeletes

LEMMA EmptyStep ==
    ASSUME EventInv, Next, ~ub'
    PROVE  EmptyFirst'
<1> USE DEF EventInv, ListInv, listVars, baseVars
<1>0. ~ub /\ Control /\ EmptyFirst
  BY DEF Next
<1>1. CASE EventThread
  BY <1>0, <1>1 DEF EmptyFirst, Control, EventThread, EntryNewBase, EntryKeepalive, EntryInserts,
     EntryRuns, EntryInserted, LoopCalls, LoopTop, LoopWakes, LoopCalled, LoopRound, EntryEnds,
     EntryFreesBase, EntryGone
<1>2. CASE ModuleInit \/ InitReturns \/ ModuleExit \/ ExitBeginsLoop \/ ExitLoopOver
           \/ ExitLoopexit \/ ExitJoins
  BY <1>0, <1>2 DEF EmptyFirst, Control, ModuleInit, InitReturns, ModuleExit, ExitBeginsLoop,
     ExitLoopOver, ExitLoopexit, ExitJoins
<1>3. CASE ExitFreesNode
  BY <1>0, <1>3 DEF EmptyFirst, Control, ExitFreesNode, Exiting, Entered, Looping
<1>4. ASSUME NEW c \in Callers, AddBegins(c) \/ AddOnce(c) PROVE EmptyFirst'
  BY <1>0, <1>4 DEF EmptyFirst, AddBegins, AddOnce
<1>5. ASSUME NEW c \in Callers, AddLoops(c) PROVE EmptyFirst'
  BY <1>0, <1>5 DEF EmptyFirst, AddLoops, Control, CallersWait
<1>6. ASSUME NEW c \in Callers, Delete(c) PROVE EmptyFirst'
  <2>1. node[c] = "live" /\ c \in Nodes /\ UNCHANGED <<module, tpc>>
    BY <1>0, <1>6, Deletes, CellsFacts DEF Delete
  <2> QED BY <1>0, <2>1 DEF EmptyFirst
<1> QED BY <1>1, <1>2, <1>3, <1>4, <1>5, <1>6 DEF Next, TimerDel, CallbackDeletes

LEMMA OwnStep ==
    ASSUME EventInv, Next, ~ub'
    PROVE  OwnNodes'
<1> USE DEF EventInv, ListInv, listVars, baseVars
<1>0. /\ ~ub /\ OwnNodes /\ Callers \subseteq Nodes /\ Keepalive \notin Callers
      /\ Callers \cap Monitors = {}
      /\ node \in [Nodes -> {"none", "live", "freed"}]
      /\ cpc \in [Callers -> {"idle", "add", "addonce", "added", "once", "deleted"}]
  BY CellsFacts DEF Next, TypeOK
<1>1. ASSUME UNCHANGED <<node, cpc>> PROVE OwnNodes'
  BY <1>0, <1>1 DEF OwnNodes
<1>2. CASE EventThread
  <2>1. UNCHANGED cpc /\ (UNCHANGED node \/ \E n \in {Keepalive} \cup Monitors : Add(n))
    BY <1>2 DEF EventThread, EntryNewBase, EntryKeepalive, EntryInserts,
     EntryRuns, EntryInserted, LoopCalls, LoopTop, LoopWakes, LoopCalled, LoopRound, EntryEnds,
     EntryFreesBase, EntryGone
  <2> QED BY <1>0, <2>1 DEF OwnNodes, Add
<1>3. CASE ModuleInit \/ InitReturns \/ ModuleExit \/ ExitBeginsLoop \/ ExitLoopOver
           \/ ExitLoopexit \/ ExitJoins
  BY <1>1, <1>3 DEF ModuleInit, InitReturns, ModuleExit, ExitBeginsLoop, ExitLoopOver,
     ExitLoopexit, ExitJoins
<1>4. CASE ExitFreesNode
  <2>1. loop \in Nodes /\ node[loop] = "live" /\ node' = [node EXCEPT ![loop] = "freed"]
        /\ cpc' = cpc
    BY <1>0, <1>4, WalksNodes DEF ExitFreesNode, Unlink
  <2> QED BY <1>0, <2>1 DEF OwnNodes
<1>5. ASSUME NEW c \in Callers, AddBegins(c) \/ AddOnce(c) PROVE OwnNodes'
  BY <1>0, <1>5 DEF OwnNodes, AddBegins, AddOnce
<1>6. ASSUME NEW c \in Callers, AddLoops(c) PROVE OwnNodes'
  BY <1>0, <1>6 DEF OwnNodes, AddLoops, Add
<1>7. ASSUME NEW c \in Callers, Delete(c) PROVE OwnNodes'
  <2>1. node' = [node EXCEPT ![c] = "freed"] /\ cpc' = [cpc EXCEPT ![c] = "deleted"]
    BY <1>0, <1>7, Deletes DEF Delete, Unlink
  <2> QED BY <1>0, <2>1 DEF OwnNodes
<1> QED BY <1>2, <1>3, <1>4, <1>5, <1>6, <1>7 DEF Next, TimerDel, CallbackDeletes

\* The loop of Exit goes through the list, whose second node it knew, and only it walks
LEMMA WalkStep ==
    ASSUME EventInv, Next, ~ub'
    PROVE  Walk'
<1> USE DEF EventInv, ListInv, listVars, baseVars
<1>0. /\ ~ub /\ Control /\ Walk /\ list \in Seq(Nodes) /\ list \in Seq(Cells)
      /\ links \in Heaps(Cells)
  BY CellsFacts DEF Next, TypeOK, Heaps
<1>1. ASSUME UNCHANGED <<ipc, list, loop, tmp>> PROVE Walk'
  BY <1>0, <1>1 DEF Walk
<1>2. ASSUME ipc' # "walk" PROVE Walk'
  BY <1>2 DEF Walk
<1>3. CASE EventThread
  <2>1. UNCHANGED <<ipc, loop, tmp>> /\ (UNCHANGED list \/ tpc \notin Entered)
    BY <1>3 DEF EventThread, EntryNewBase, EntryKeepalive, EntryInserts,
     EntryRuns, EntryInserted, LoopCalls, LoopTop, LoopWakes, LoopCalled, LoopRound, EntryEnds,
     EntryFreesBase, EntryGone, Add, Entered, Looping
  <2> QED BY <1>0, <1>1, <1>2, <2>1 DEF Control, Exiting
<1>4. CASE ModuleInit \/ InitReturns \/ ModuleExit \/ ExitLoopOver \/ ExitLoopexit \/ ExitJoins
  BY <1>2, <1>4 DEF ModuleInit, InitReturns, ModuleExit, ExitLoopOver, ExitLoopexit, ExitJoins
<1>5. CASE ExitBeginsLoop
  <2>1. CASE IsEmpty(links, EventList)
    BY <1>2, <1>5, <2>1 DEF ExitBeginsLoop
  <2>2. CASE ~IsEmpty(links, EventList)
    <3>1. /\ loop' = LoopFirst(links, EventList) /\ tmp' = LoopNext(links, loop')
          /\ UNCHANGED list /\ ipc = "clear"
      BY <1>5, <2>2 DEF ExitBeginsLoop
    <3>2. IsList(links, EventList, list)
      BY <1>0, <3>1, ChangesInList DEF Linked
    <3>3. list # <<>>
      BY <2>2, <3>2 DEF IsEmpty, IsList, IsRing, At
    <3>4. LoopFirst(links, EventList) = list[1] /\ LoopNext(links, list[1]) = At(list, EventList, 2)
      BY <1>0, <3>2, <3>3, CellsFacts, LoopBegins
    <3> QED BY <3>1, <3>3, <3>4 DEF Walk
  <2> QED BY <2>1, <2>2
<1>6. CASE ExitFreesNode
  <2>1. ipc = "walk" /\ ~LoopOver(loop, EventList) /\ Unlink(loop)
        /\ loop' = tmp /\ tmp' = LoopNext(links', tmp)
    BY <1>6 DEF ExitFreesNode
  <2>2. /\ list # <<>> /\ loop \in Nodes /\ node[loop] = "live" /\ Linked
        /\ loop = list[1] /\ tmp = At(list, EventList, 2)
    BY <1>0, <2>1, WalksNodes
  <2>3. /\ Linked' /\ links' \in Heaps(Cells) /\ list' \in Seq(Nodes)
        /\ \E k \in 1..Len(list) : list[k] = loop /\ list' = Without(list, k)
    BY <2>1, <2>2, UnlinkLinks
  <2>4. list' = Without(list, 1) /\ Len(list) > 0 /\ Len(list) \in Nat
    BY <1>0, <2>2, <2>3 DEF Linked, IsList, NoRepeats
  <2>5. Len(list') = Len(list) - 1 /\ \A i \in 1..Len(list') : list'[i] = list[i + 1]
    BY <2>4 DEF Without
  <2>6. CASE Len(list) = 1
    BY <2>1, <2>2, <2>4, <2>5, <2>6 DEF Walk, At, Without
  <2>7. CASE Len(list) # 1
    <3>1. list' # <<>> /\ list'[1] = tmp
      BY <2>2, <2>4, <2>5, <2>7 DEF At
    <3>2. list' \in Seq(Cells)
      BY <2>3, CellsFacts
    <3>3. LoopNext(links', list'[1]) = At(list', EventList, 2)
      BY <2>3, <3>1, <3>2, CellsFacts, LoopBegins DEF Linked
    <3> QED BY <2>1, <3>1, <3>3 DEF Walk
  <2> QED BY <2>6, <2>7
<1>7. ASSUME NEW c \in Callers, AddBegins(c) \/ AddOnce(c) PROVE Walk'
  BY <1>1, <1>7 DEF AddBegins, AddOnce
<1>8. ASSUME NEW c \in Callers, AddLoops(c) \/ Delete(c) PROVE Walk'
  BY <1>2, <1>8 DEF AddLoops, Delete, Unlocked
<1> QED BY <1>3, <1>4, <1>5, <1>6, <1>7, <1>8 DEF Next, TimerDel, CallbackDeletes

LEMMA ListStep ==
    ASSUME EventInv, Next
    PROVE  ListRight'
<1> USE DEF EventInv, ListInv, listVars, baseVars
<1>0. /\ ~ub /\ Control /\ CallersWait /\ EmptyFirst /\ OwnNodes
      /\ list \in Seq(Nodes) /\ Callers \subseteq Nodes /\ armed \subseteq Nodes
  BY CellsFacts DEF Next, TypeOK
<1> SUFFICES ASSUME ~ub', ipc' # "none"
             PROVE  /\ Linked'
                    /\ listLen' = IF ipc' = "walk" THEN 0 ELSE Len(list')
                    /\ base' = "up" => Range(list)' \subseteq armed'
                    /\ ipc' \in {"loopexit", "joining", "done"} /\ "late" \notin Env => list' = <<>>
  BY DEF ListRight, Linked
<1> DEFINE Goal == /\ Linked'
                   /\ listLen' = IF ipc' = "walk" THEN 0 ELSE Len(list')
                   /\ base' = "up" => Range(list)' \subseteq armed'
                   /\ ipc' \in {"loopexit", "joining", "done"} /\ "late" \notin Env => list' = <<>>
<1>1. ipc # "none" => /\ Linked
                      /\ listLen = IF ipc = "walk" THEN 0 ELSE Len(list)
                      /\ base = "up" => Range(list) \subseteq armed
                      /\ ipc \in {"loopexit", "joining", "done"} /\ "late" \notin Env => list = <<>>
  BY <1>0 DEF ListRight, Linked
<1>2. ASSUME UNCHANGED <<ipc, links, list, listLen, node>>,
             base' = "up" => base = "up" /\ Range(list) \cap armed \subseteq armed'
      PROVE  Goal
  BY <1>1, <1>2 DEF Linked
<1>3. ASSUME NEW n \in Nodes, (EntryKeepalive /\ n = Keepalive) \/ EntryInserted(n)
      PROVE  Goal
  <2>1. /\ Add(n) /\ Linked /\ node[n] # "live" /\ ipc # "none" /\ ipc' = ipc
        /\ base' = base /\ tpc \notin Entered
    BY <1>0, <1>3, Adds DEF EntryKeepalive, EntryInserted, Entered, Looping
  <2>2. ipc \notin Exiting
    BY <1>0, <2>1 DEF Control
  <2>3. Linked' /\ Len(list') = Len(list) + 1 /\ Range(list)' = Range(list) \cup {n}
    BY <2>1, AddLinks
  <2> QED BY <1>1, <2>1, <2>2, <2>3 DEF Exiting, Add
<1>4. CASE EntryNewBase
  <2>1. /\ list = <<>> /\ UNCHANGED <<ipc, links, list, node>>
        /\ listLen' = 0 \/ listLen' = listLen
    BY <1>0, <1>4 DEF EntryNewBase, EmptyFirst
  <2>2. ipc # "walk" /\ Range(list) = {} /\ Len(list) = 0
    BY <1>0, <1>4, <2>1 DEF EntryNewBase, Control, Exiting, Entered, Looping, Range
  <2> QED BY <1>1, <2>1, <2>2 DEF Linked
<1>5. ASSUME NEW n \in Nodes, LoopCalls(n) PROVE Goal
  <2>1. /\ UNCHANGED <<ipc, links, list, listLen, node, base>>
        /\ armed' = armed \/ (armed' = armed \ {n} /\ n \in Callers /\ cpc[n] = "once")
    BY <1>5 DEF LoopCalls, Persists, OneTime
  <2>2. n \in Callers /\ cpc[n] = "once" => node[n] # "live"
    BY <1>0 DEF OwnNodes
  <2>3. ipc # "none" => Range(list) \cap armed \subseteq armed'
    BY <1>1, <2>1, <2>2 DEF Linked
  <2> QED BY <1>2, <2>1, <2>3
<1>6. CASE EntryInserts \/ EntryRuns \/ LoopTop \/ LoopWakes \/ LoopCalled \/ LoopRound
           \/ EntryEnds \/ EntryFreesBase \/ EntryGone
  BY <1>2, <1>6 DEF EntryInserts, EntryRuns, LoopTop, LoopWakes, LoopCalled, LoopRound,
     EntryEnds, EntryFreesBase, EntryGone
<1>7. CASE ModuleInit
  <2>1. /\ links' = NodeInit(links, EventList) /\ list' = list /\ node' = node /\ listLen' = 0
        /\ base' = base /\ ipc = "none" /\ ipc' = "waiting"
    BY <1>7 DEF ModuleInit
  <2>2. list = <<>> /\ (\A n \in Nodes : node[n] # "live") /\ base = "none"
    BY <1>0, <2>1 DEF Control, EmptyFirst
  <2>3. IsList(links', EventList, list')
    BY <2>1, <2>2, CellsFacts, NodeInitEmpties DEF TypeOK, Heaps
  <2>4. Range(list)' = {} /\ Len(list') = 0
    BY <2>1, <2>2 DEF Range
  <2> QED BY <2>1, <2>2, <2>3, <2>4 DEF Linked
<1>8. ASSUME ipc # "none", UNCHANGED <<links, list, listLen, node, base, armed>>,
             ipc' # "walk", ipc # "walk",
             ipc' \in {"loopexit", "joining", "done"} => ipc \in {"loopexit", "joining"}
      PROVE  Goal
  BY <1>1, <1>8 DEF Linked
<1>9. CASE InitReturns \/ ModuleExit \/ ExitLoopexit \/ ExitJoins
  BY <1>8, <1>9 DEF InitReturns, ModuleExit, ExitLoopexit, ExitJoins
<1>10. CASE ExitBeginsLoop
  <2>1. /\ ipc = "clear" /\ ipc' \in {"walk", "loopexit"} /\ listLen' = 0
        /\ ipc' = "loopexit" => IsEmpty(links, EventList)
        /\ UNCHANGED <<links, list, node, base, armed>>
    BY <1>10 DEF ExitBeginsLoop
  <2>2. IsEmpty(links, EventList) => list = <<>>
    <3>1. list # <<>> => Len(list) > 0 /\ Len(list) \in Nat
      BY <1>0
    <3> QED BY <1>1, <2>1, <3>1 DEF Linked, IsList, IsRing, At, IsEmpty
  <2>3. list = <<>> => Len(list) = 0
    OBVIOUS
  <2> QED BY <1>1, <2>1, <2>2, <2>3 DEF Linked
<1>11. CASE ExitFreesNode
  <2>1. /\ ipc = "walk" /\ ipc' = ipc /\ ~LoopOver(loop, EventList) /\ Unlink(loop)
        /\ armed' = armed \ {loop} /\ UNCHANGED <<listLen, base>>
    BY <1>11 DEF ExitFreesNode
  <2>2. loop \in Nodes /\ node[loop] = "live" /\ Linked
    BY <1>0, <2>1, WalksNodes
  <2>3. Linked' /\ Range(list)' = Range(list) \ {loop}
    BY <2>1, <2>2, UnlinkLinks
  <2> QED BY <1>1, <2>1, <2>3
<1>12. CASE ExitLoopOver
  <2>1. /\ ipc = "walk" /\ ipc' = "loopexit" /\ LoopOver(loop, EventList)
        /\ UNCHANGED <<links, list, listLen, node, base, armed>>
    BY <1>12 DEF ExitLoopOver
  <2>2. list = <<>>
    <3>1. list # <<>> => list[1] \in Nodes
      BY <1>0
    <3> QED BY <1>0, <2>1, <3>1, CellsFacts DEF Walk, LoopOver, Cells
  <2>3. Len(list) = 0
    BY <2>2
  <2> QED BY <1>1, <2>1, <2>2, <2>3 DEF Linked
<1>13. ASSUME NEW c \in Callers, AddBegins(c) \/ AddOnce(c) PROVE Goal
  <2>1. UNCHANGED <<ipc, links, list, listLen, node, base>> /\ armed \subseteq armed'
    BY <1>13 DEF AddBegins, AddOnce
  <2> QED BY <1>2, <2>1
<1>14. ASSUME NEW c \in Callers, AddLoops(c) PROVE Goal
  <2>1. /\ Add(c) /\ Linked /\ node[c] # "live" /\ ipc # "none" /\ ipc' = ipc /\ ipc # "walk"
        /\ UNCHANGED base
    BY <1>0, <1>14, Adds
  <2>2. Linked' /\ Len(list') = Len(list) + 1 /\ Range(list)' = Range(list) \cup {c}
    BY <1>0, <2>1, AddLinks
  <2>3. ipc \in Exiting => "late" \in Env
    BY <1>0, <1>14 DEF AddLoops, CallersWait
  <2> QED BY <1>1, <2>1, <2>2, <2>3 DEF Exiting, Add
<1>15. ASSUME NEW c \in Callers, Delete(c) PROVE Goal
  <2>1. /\ Unlink(c) /\ Linked /\ node[c] = "live" /\ ipc # "walk" /\ ipc # "none"
        /\ listLen' = listLen - 1 /\ armed' = armed \ {c} /\ UNCHANGED <<ipc, base>>
    BY <1>0, <1>15, Deletes DEF Delete, Disarmed
  <2>2. /\ Linked' /\ Len(list') = Len(list) - 1 /\ Range(list)' = Range(list) \ {c}
        /\ \E k \in 1..Len(list) : list[k] = c
    BY <1>0, <2>1, UnlinkLinks
  <2>3. list # <<>>
    BY <1>0, <2>2
  <2> QED BY <1>1, <2>1, <2>2, <2>3
<1> QED BY <1>3, <1>4, <1>5, <1>6, <1>7, <1>9, <1>10, <1>11, <1>12, <1>13, <1>14, <1>15,
           CellsFacts DEF Next, EventThread, TimerDel, CallbackDeletes

\* What is over is off the base and is not put on it again
LEMMA SilentStep ==
    ASSUME EventInv, Next
    PROVE  Silent'
<1> USE DEF EventInv, ListInv, listVars, baseVars
<1>0. /\ ~ub /\ Silent /\ over \subseteq Callers /\ Keepalive \notin Callers
      /\ Callers \cap Monitors = {}
      /\ cpc \in [Callers -> {"idle", "add", "addonce", "added", "once", "deleted"}]
  BY CellsFacts DEF Next, TypeOK
<1>1. ASSUME over' = over, cpc' = cpc, armed' \cup active' \subseteq armed \cup active
      PROVE  Silent'
  BY <1>0, <1>1 DEF Silent
<1>2. ASSUME NEW n \in Nodes, (EntryKeepalive /\ n = Keepalive) \/ EntryInserted(n) PROVE Silent'
  <2>1. /\ armed' \cup active' \subseteq armed \cup active \cup {n} /\ n \notin Callers
        /\ UNCHANGED <<over, cpc>>
    BY <1>0, <1>2 DEF EntryKeepalive, EntryInserted, Add
  <2> QED BY <1>0, <2>1 DEF Silent
<1>3. ASSUME NEW n \in Nodes, LoopCalls(n) PROVE Silent'
  BY <1>0, <1>3 DEF Silent, LoopCalls, Persists, OneTime
<1>4. CASE EntryNewBase \/ EntryInserts \/ EntryRuns \/ LoopTop \/ LoopWakes \/ LoopCalled
           \/ LoopRound \/ EntryEnds \/ EntryFreesBase \/ EntryGone
  BY <1>1, <1>4 DEF EntryNewBase, EntryInserts, EntryRuns, LoopTop, LoopWakes, LoopCalled,
     LoopRound, EntryEnds, EntryFreesBase, EntryGone
<1>5. CASE ModuleInit \/ InitReturns \/ ModuleExit \/ ExitBeginsLoop \/ ExitFreesNode
           \/ ExitLoopOver \/ ExitLoopexit \/ ExitJoins
  BY <1>1, <1>5 DEF ModuleInit, InitReturns, ModuleExit, ExitBeginsLoop, ExitFreesNode,
     ExitLoopOver, ExitLoopexit, ExitJoins
<1>6. ASSUME NEW c \in Callers, AddBegins(c) \/ AddOnce(c) \/ AddLoops(c) PROVE Silent'
  <2>1. /\ cpc[c] \in {"idle", "addonce", "add"} /\ UNCHANGED <<over, active>>
        /\ \E pc \in {"add", "addonce", "once", "added"} : cpc' = [cpc EXCEPT ![c] = pc]
        /\ armed' \subseteq armed \cup {c}
    BY <1>6 DEF AddBegins, AddOnce, AddLoops, Add
  <2>2. c \notin over
    BY <1>0, <2>1 DEF Silent
  <2> QED BY <1>0, <2>1, <2>2 DEF Silent
<1>7. ASSUME NEW c \in Callers, Delete(c) PROVE Silent'
  BY <1>0, <1>7 DEF Silent, Delete, Disarmed
<1> QED BY <1>2, <1>3, <1>4, <1>5, <1>6, <1>7, CellsFacts
        DEF Next, EventThread, TimerDel, CallbackDeletes

\* The keepalive is armed before the loop begins, and until Exit clears the list
LEMMA AliveStep ==
    ASSUME EventInv, Next
    PROVE  Alive'
<1> USE DEF EventInv, ListInv, listVars, baseVars, Looping
<1>0. /\ ~ub /\ Control /\ Alive /\ Keepalive \notin Callers /\ Keepalive \in Nodes
  BY CellsFacts DEF Next
<1>1. ASSUME UNCHANGED <<tpc, running>>, Keepalive \in armed => Keepalive \in armed',
             ipc' \in {"waiting", "up"} => ipc \in {"waiting", "up"}
      PROVE  Alive'
  BY <1>0, <1>1 DEF Alive
<1>2. ASSUME NEW n \in Nodes, (EntryKeepalive /\ n = Keepalive) \/ EntryInserted(n) PROVE Alive'
  <2>1. Add(n) /\ ipc # "none" /\ base = "up" /\ tpc' \in {"ready", "add"}
        /\ (n = Keepalive \/ node[Keepalive] = "live")
    BY <1>0, <1>2, Adds DEF EntryKeepalive, EntryInserted, Control
  <2>2. Keepalive \in armed'
    BY <1>0, <2>1 DEF Add, ListRight
  <2> QED BY <2>1, <2>2 DEF Alive
<1>3. ASSUME NEW n \in Nodes, LoopCalls(n) PROVE Alive'
  BY <1>0, <1>3 DEF Alive, LoopCalls, Persists, OneTime
<1>4. CASE EntryNewBase
  BY <1>0, <1>4 DEF Alive, EntryNewBase, Control, Entered
<1>5. CASE LoopTop
  BY <1>0, <1>5 DEF Alive, LoopTop, Done, Control
<1>6. CASE EntryInserts \/ EntryRuns \/ LoopWakes \/ LoopCalled
           \/ LoopRound \/ EntryEnds \/ EntryFreesBase \/ EntryGone
  BY <1>0, <1>6 DEF Alive, EntryInserts, EntryRuns, LoopWakes, LoopCalled,
     LoopRound, EntryEnds, EntryFreesBase, EntryGone
<1>7. CASE ModuleInit
  BY <1>7 DEF Alive, ModuleInit
<1>8. CASE InitReturns \/ ModuleExit \/ ExitBeginsLoop \/ ExitLoopOver \/ ExitLoopexit
           \/ ExitJoins
  BY <1>1, <1>8 DEF InitReturns, ModuleExit, ExitBeginsLoop, ExitLoopOver, ExitLoopexit,
     ExitJoins
<1>9. CASE ExitFreesNode
  BY <1>9 DEF Alive, ExitFreesNode
<1>10. ASSUME NEW c \in Callers, AddBegins(c) \/ AddOnce(c) \/ AddLoops(c) \/ Delete(c)
       PROVE  Alive'
  BY <1>0, <1>1, <1>10 DEF AddBegins, AddOnce, AddLoops, Add, Delete, Disarmed
<1> QED BY <1>2, <1>3, <1>4, <1>5, <1>6, <1>7, <1>8, <1>9, <1>10, CellsFacts
        DEF Next, EventThread, TimerDel, CallbackDeletes

-----------------------------------------------------------------------------
LEMMA EventInit == Init => EventInv
<1> SUFFICES ASSUME Init PROVE EventInv
  OBVIOUS
<1>1. TypeOK
  <2>1. links \in [next : [Cells -> Cells \cup {NULL}], prev : [Cells -> Cells \cup {NULL}]]
    BY DEF Init
  <2>2. list \in Seq(Nodes) /\ node \in [Nodes -> {"none", "live", "freed"}]
        /\ cpc \in [Callers -> {"idle", "add", "addonce", "added", "once", "deleted"}]
    BY DEF Init
  <2>3. /\ running = FALSE /\ stop = FALSE /\ ub = FALSE
        /\ base = "none" /\ module \in {"timer", "health"} /\ listLen = 0
    BY DEF Init
  <2>4. /\ loop = NULL /\ tmp = NULL /\ calling = None /\ armed = {} /\ active = {}
        /\ over = {} /\ tpc = "unborn" /\ ipc = "none"
    BY DEF Init
  <2>5. /\ running \in BOOLEAN /\ stop \in BOOLEAN /\ ub \in BOOLEAN
        /\ base \in {"none", "up", "freed"}
        /\ loop \in Cells \cup {NULL} /\ tmp \in Cells \cup {NULL}
    BY <2>3, <2>4, Zenon
  <2>6. /\ armed \subseteq Nodes /\ active \subseteq Nodes /\ calling \in Nodes \cup {None}
        /\ over \subseteq Callers
    BY <2>4
  <2> QED BY <2>1, <2>2, <2>3, <2>4, <2>5, <2>6 DEF TypeOK
<1>2. ListRight /\ Control /\ CallersWait /\ EmptyFirst
  BY DEF Init, ListRight, Control, CallersWait, EmptyFirst, Exiting, Looping
<1>3. OwnNodes /\ Walk /\ Silent /\ Alive
  BY CellsFacts DEF Init, OwnNodes, Walk, Silent, Alive, Looping
<1> QED BY <1>1, <1>2, <1>3 DEF EventInv, ListInv

LEMMA EventInvHolds == Spec => []EventInv
<1>1. EventInv /\ Next => EventInv'
  BY TypeStep, ControlStep, CallersStep, EmptyStep, OwnStep, WalkStep, ListStep, SilentStep,
     AliveStep DEF EventInv, ListInv, Next
<1>2. EventInv /\ UNCHANGED vars => EventInv'
  <2> SUFFICES ASSUME EventInv, UNCHANGED vars PROVE EventInv'
    OBVIOUS
  <2> USE DEF EventInv, ListInv, vars, listVars, baseVars
  <2>1. TypeOK' /\ (~ub => ListRight' /\ Walk')
    BY DEF TypeOK, ListRight, Walk
  <2>2. ~ub => Control' /\ CallersWait' /\ EmptyFirst'
    BY DEF Control, CallersWait, EmptyFirst
  <2>3. ~ub => OwnNodes' /\ Silent' /\ Alive'
    BY DEF OwnNodes, Silent, Alive
  <2> QED BY <2>1, <2>2, <2>3
<1> QED BY <1>1, <1>2, EventInit, PTL DEF Spec

\* However many threads add and delete events, and while Exit frees node by node, the
\* list's pointers are a list of exactly the nodes that are allocated.
THEOREM ListStaysRight == Spec => []ListRight
BY EventInvHolds, PTL DEF EventInv, ListInv, ListRight

\* A timer that was deleted is not called again, nor a one-time timer twice, whatever was
\* due when it was.
THEOREM DeletedStaySilent == Spec => DeletedSilent
<1>1. EventInv /\ [Next]_vars => [\A n \in over : calling' = n => calling = n]_vars
  <2> SUFFICES ASSUME EventInv, Next PROVE \A n \in over : calling' = n => calling = n
    OBVIOUS
  <2>0. ~ub /\ over \subseteq Callers /\ None \notin Callers
    BY CellsFacts DEF Next, EventInv, TypeOK
  <2>1. ASSUME NEW m \in Nodes, LoopCalls(m) PROVE m \notin over /\ calling' = m
    BY <2>0, <2>1 DEF LoopCalls, EventInv, ListInv, Silent
  <2>2. CASE LoopCalled
    BY <2>0, <2>2 DEF LoopCalled
  <2>3. CASE UNCHANGED calling
    BY <2>3
  <2>4. CASE EntryNewBase \/ EntryKeepalive \/ EntryInserts \/ EntryRuns
             \/ (\E n \in Nodes : EntryInserted(n)) \/ LoopTop \/ LoopWakes \/ LoopRound
             \/ EntryEnds \/ EntryFreesBase \/ EntryGone
    BY <2>4 DEF EntryNewBase, EntryKeepalive, EntryInserts, EntryRuns, EntryInserted, LoopTop,
       LoopWakes, LoopRound, EntryEnds, EntryFreesBase, EntryGone, baseVars
  <2>5. CASE ModuleInit \/ InitReturns \/ ModuleExit \/ ExitBeginsLoop \/ ExitFreesNode
             \/ ExitLoopOver \/ ExitLoopexit \/ ExitJoins
    BY <2>5 DEF ModuleInit, InitReturns, ModuleExit, ExitBeginsLoop, ExitFreesNode,
       ExitLoopOver, ExitLoopexit, ExitJoins, baseVars
  <2>6. ASSUME NEW c \in Callers, AddBegins(c) \/ AddOnce(c) \/ AddLoops(c) \/ Delete(c)
        PROVE  UNCHANGED calling
    BY <2>6 DEF AddBegins, AddOnce, AddLoops, Delete, baseVars
  <2> QED BY <2>1, <2>2, <2>3, <2>4, <2>5, <2>6 DEF Next, EventThread, TimerDel, CallbackDeletes
<1> QED BY <1>1, EventInvHolds, PTL DEF Spec, DeletedSilent

\* The thread does not end before Exit, whatever is added and deleted.
THEOREM ThreadServes == Spec => ServesUntilExit
<1>1. EventInv /\ [Next]_vars => [running /\ ~running' => ipc \notin {"waiting", "up"}]_vars
  <2> SUFFICES ASSUME EventInv, Next, running, ~running' PROVE ipc \notin {"waiting", "up"}
    OBVIOUS
  <2>0. ~ub
    BY DEF Next
  <2>1. CASE EventThread
    <3>1. tpc = "end"
      BY <2>1 DEF EventThread, EntryNewBase, EntryKeepalive, EntryInserts, EntryRuns,
         EntryInserted, LoopCalls, LoopTop, LoopWakes, LoopCalled, LoopRound, EntryEnds,
         EntryFreesBase, EntryGone
    <3> QED BY <2>0, <3>1 DEF EventInv, ListInv, Alive
  <2>2. CASE ModuleInit \/ InitReturns \/ ModuleExit \/ ExitBeginsLoop \/ ExitFreesNode
             \/ ExitLoopOver \/ ExitLoopexit \/ ExitJoins
    BY <2>2 DEF ModuleInit, InitReturns, ModuleExit, ExitBeginsLoop, ExitFreesNode,
       ExitLoopOver, ExitLoopexit, ExitJoins
  <2>3. ASSUME NEW c \in Callers, AddBegins(c) \/ AddOnce(c) \/ AddLoops(c) \/ Delete(c)
        PROVE  FALSE
    BY <2>3 DEF AddBegins, AddOnce, AddLoops, Delete
  <2> QED BY <2>1, <2>2, <2>3 DEF Next, TimerDel, CallbackDeletes
<1> QED BY <1>1, EventInvHolds, PTL DEF Spec, ServesUntilExit
=============================================================================
