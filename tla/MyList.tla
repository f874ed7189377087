-------------------------------- MODULE MyList --------------------------------
(***************************************************************************)
(* The intrusive doubly linked list of include/myList.h.  A heap l holds   *)
(* the two pointers of every MY_LIST_NODE: l.next and l.prev are functions *)
(* on the cells, which are list heads and the nodes in them.  A macro is an*)
(* operator from a heap to the heap it leaves; its assignments take effect *)
(* one after the other, as in the code.                                    *)
(***************************************************************************)
EXTENDS Integers, Sequences, Functions

NULL == "NULL"

\* MY_LIST_NODE_INIT
NodeInit(l, n) == [next |-> [l.next EXCEPT ![n] = n], prev |-> [l.prev EXCEPT ![n] = n]]

\* MY_LIST_IS_EMPTY
IsEmpty(l, h) == l.prev[h] = h /\ l.next[h] = h

\* MY_LIST_ADD_TAIL
AddTail(l, n, h) ==
    LET last == l.prev[h]
    IN  [next |-> [l.next EXCEPT ![last] = n, ![n] = h],
         prev |-> [l.prev EXCEPT ![n] = last, ![h] = n]]

\* MY_LIST_DEL_NODE: the node's own pointers are left
DelNode(l, n) ==
    LET before == l.prev[n]
        after  == l.next[n]
    IN  [next |-> [l.next EXCEPT ![before] = after],
         prev |-> [l.prev EXCEPT ![after] = before]]

\* MY_LIST_HEAD_COPY: the last node is looked for after the first has been changed,
\* which is how it comes out right for an empty list; the old head is left
HeadCopy(l, new, old) ==
    LET first == l.next[old]
        prev  == [l.prev EXCEPT ![first] = new]
        last  == prev[old]
    IN  [next |-> [l.next EXCEPT ![new] = first, ![last] = new],
         prev |-> [prev EXCEPT ![new] = last]]

\* MY_LIST_ENTRY: a node that points to itself is taken for an empty list's head
Entry(l, n) == IF l.next[n] # n THEN n ELSE NULL

\* MY_LIST_FOR_EACH: the loop variable, the next one, and whether the loop is over
LoopFirst(l, h) == Entry(l, l.next[h])
LoopNext(l, loop) == IF loop = NULL THEN NULL ELSE Entry(l, l.next[loop])
LoopOver(loop, h) == loop \in {NULL, h}

-----------------------------------------------------------------------------
(***************************************************************************)
(* What a list is to its users: the heap l holds the nodes of the sequence *)
(* s, in its order, in a ring through the head h, forwards and backwards.  *)
(***************************************************************************)
At(s, h, i) == IF i \in 1..Len(s) THEN s[i] ELSE h

IsRing(l, h, s) ==
    \A i \in 0..Len(s) : /\ l.next[At(s, h, i)] = At(s, h, i + 1)
                         /\ l.prev[At(s, h, i + 1)] = At(s, h, i)

NoRepeats(s) == \A i, j \in 1..Len(s) : s[i] = s[j] => i = j

IsList(l, h, s) ==
    /\ IsRing(l, h, s)
    /\ NoRepeats(s) /\ \A i \in 1..Len(s) : s[i] # h

\* The sequence without its k-th element; without the first n, if there is one
Without(s, k) == [i \in 1..Len(s) - 1 |-> IF i < k THEN s[i] ELSE s[i + 1]]
First(s, n) == CHOOSE k \in 1..Len(s) : s[k] = n /\ \A j \in 1..k - 1 : s[j] # n
Removed(s, n) == IF \E k \in 1..Len(s) : s[k] = n THEN Without(s, First(s, n)) ELSE s
=============================================================================
