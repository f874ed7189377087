----------------------------- MODULE EventWorker -----------------------------
(***************************************************************************)
(* The event thread that myUtils/Timer/myTimer.c and                       *)
(* myUtils/Health/myModuleHealth.c share the shape of: a thread dispatches *)
(* a libevent base, other threads add (and, in Timer, delete) periodic     *)
(* events, Exit clears the list of events, stops the loop and joins.  A    *)
(* keepalive event of one second keeps the loop from ending for lack of    *)
(* events, and wakes it, as nothing else would, to see what has changed.   *)
(*                                                                         *)
(* An event is named by the caller that adds it.  libevent is modelled from*)
(* how the code uses it, a call of it as one step; the program enables no  *)
(* locking in it.  Critical sections are one step, but for that of Exit,   *)
(* which walks the list while the thread may be calling its events.  The   *)
(* list is the pointers of MyList; the sequence it should be is kept beside*)
(* them.  The module is initialised once.                                  *)
(***************************************************************************)
EXTENDS Integers, Sequences, FiniteSets, MyList

CONSTANTS
    Callers,      \* threads that add one event each
    Monitors,     \* the events _HealthModuleEntry adds for the modules
    Keepalive,    \* the keepalive event
    Env           \* what the surroundings may do, a subset of EventEnvKinds

\* "slow":   Init's wait of 10 ms may end before the thread runs
\* "nobase": event_base_new may fail
\* "self":   a callback may delete its own timer
\* "late":   events are added and deleted during and after Exit
\* "exit":   Exit is called
EventEnvKinds == {"slow", "nobase", "self", "late", "exit"}

Nodes == Callers \cup Monitors \cup {Keepalive}
None == "no event"
EventList == "EventList"             \* the list's head
Cells == Nodes \cup {EventList}

ASSUME EventAssumption ==
    /\ IsFiniteSet(Nodes) /\ {None, EventList, NULL} \cap Nodes = {}
    /\ Keepalive \notin Callers \cup Monitors
    /\ Callers \cap Monitors = {}
    /\ Env \subseteq EventEnvKinds

VARIABLES
    module,       \* "timer" or "health"
    running,      \* IsRunning
    base,         \* EventBase: "none" (NULL), "up", "freed" (dangling)
    stop,         \* event_base_loopexit was called
    links,        \* EventList and the nodes on it: their pointers
    list,         \* what EventList should be: a sequence of events
    listLen,      \* EventListLen
    loop, tmp,    \* of Exit's MY_LIST_FOR_EACH
    node,         \* event -> its node: "none", "live", "freed"
    armed,        \* events added to the base
    active,       \* events that are due, in the round the loop is at
    calling,      \* the event whose callback runs
    tpc,          \* where the event thread is
    ipc,          \* where the thread is that calls Init and Exit
    cpc,          \* caller -> where it is with its event
    over,         \* events deleted, and one-time events that have been called
    ub            \* freed memory was used, or the list by two threads at once

listVars == <<links, list, listLen, loop, tmp, node>>
baseVars == <<base, stop, armed, active, calling>>
vars == <<module, running, baseVars, listVars, tpc, ipc, cpc, over, ub>>

Init ==
    /\ module \in {"timer", "health"}
    /\ running = FALSE /\ base = "none" /\ stop = FALSE
    /\ links = [next |-> [n \in Cells |-> NULL], prev |-> [n \in Cells |-> NULL]]
    /\ list = <<>> /\ listLen = 0 /\ loop = NULL /\ tmp = NULL
    /\ node = [n \in Nodes |-> "none"]
    /\ armed = {} /\ active = {} /\ calling = None
    /\ tpc = "unborn" /\ ipc = "none" /\ cpc = [c \in Callers |-> "idle"]
    /\ over = {} /\ ub = FALSE

\* event_assign, event_add, MY_LIST_ADD_TAIL, EventListLen ++
Add(n) ==
    /\ node' = [node EXCEPT ![n] = "live"]
    /\ armed' = armed \cup {n}
    /\ links' = AddTail(links, n, EventList) /\ list' = Append(list, n)
    /\ listLen' = listLen + 1
    /\ UNCHANGED <<loop, tmp>>

\* MY_LIST_DEL_NODE, event_del, free; what is in freed memory is not known
Forgotten(l, n) == [next |-> [l.next EXCEPT ![n] = NULL], prev |-> [l.prev EXCEPT ![n] = NULL]]

Unlink(n) ==
    /\ links' = Forgotten(DelNode(links, n), n) /\ list' = Removed(list, n)
    /\ node' = [node EXCEPT ![n] = "freed"]

-----------------------------------------------------------------------------
(***************************************************************************)
(* The event thread: _TimerModuleEntry, _HealthModuleEntry.                *)
(***************************************************************************)
EntryNewBase ==
    /\ tpc = "new"
    /\ \/ /\ base' = "up" /\ tpc' = "add"
          /\ listLen' = IF module = "timer" THEN 0 ELSE listLen
       \/ /\ "nobase" \in Env
          /\ tpc' = "end" /\ UNCHANGED <<base, listLen>>
    /\ UNCHANGED <<module, running, stop, links, list, loop, tmp, node, armed, active,
                   calling, ipc, cpc, over, ub>>

\* Timer's keepalive is added under the lock, and is due at once
EntryKeepalive ==
    /\ module = "timer" /\ tpc = "add"
    /\ Add(Keepalive)
    /\ active' = {Keepalive}
    /\ tpc' = "ready"
    /\ UNCHANGED <<module, running, base, stop, calling, ipc, cpc, over, ub>>

\* Health adds its events without the lock: the insertion is two steps
EntryInserts ==
    /\ module = "health" /\ tpc = "add"
    /\ tpc' = "insert"
    /\ UNCHANGED <<module, running, baseVars, listVars, ipc, cpc, over, ub>>

EntryInserted(n) ==
    /\ tpc = "insert" /\ n \in Monitors \cup {Keepalive} /\ node[n] = "none"
    /\ n = Keepalive \/ node[Keepalive] = "live"
    /\ Add(n)
    /\ active' = active \cup ({n} \cap {Keepalive})
    /\ tpc' = IF \A i \in Monitors : node[i] = "live" \/ i = n THEN "ready" ELSE "add"
    /\ UNCHANGED <<module, running, base, stop, calling, ipc, cpc, over, ub>>

EntryRuns ==
    /\ tpc = "ready"
    /\ running' = TRUE /\ tpc' = "loop"
    /\ UNCHANGED <<module, baseVars, listVars, ipc, cpc, over, ub>>

\* event_base_dispatch ends when it was told to (in fact after the round in which
\* it learns so: an Exit one step later), or when no event is left
Done == stop \/ (armed = {} /\ active = {})

LoopTop ==
    /\ tpc = "loop"
    /\ tpc' = IF Done THEN "end" ELSE IF active = {} THEN "wait" ELSE "call"
    /\ UNCHANGED <<module, running, baseVars, listVars, ipc, cpc, over, ub>>

\* The wait ends with the first timeout it was begun with; some events are due
LoopWakes ==
    /\ tpc = "wait"
    /\ active' \in SUBSET armed
    /\ tpc' = "call"
    /\ UNCHANGED <<module, running, base, stop, armed, calling, listVars, ipc, cpc,
                   over, ub>>

OneTime(n) == n \in Callers /\ cpc[n] = "once"

\* Variant: the keepalive event is not EV_PERSIST
Persists_NotKeepalive(n) == n # Keepalive /\ ~OneTime(n)
Persists(n) == ~OneTime(n)           \* EV_PERSIST

LoopCalls(n) ==
    /\ tpc = "call" /\ n \in active
    /\ calling' = n /\ active' = active \ {n}
    /\ armed' = IF Persists(n) THEN armed ELSE armed \ {n}
    /\ over' = IF OneTime(n) THEN over \cup {n} ELSE over
    /\ tpc' = "callback"
    /\ UNCHANGED <<module, running, base, stop, listVars, ipc, cpc, ub>>

LoopCalled ==
    /\ tpc = "callback"
    /\ calling' = None /\ tpc' = "call"
    /\ UNCHANGED <<module, running, base, stop, armed, active, listVars, ipc, cpc, over, ub>>

LoopRound ==
    /\ tpc = "call" /\ active = {}
    /\ tpc' = "loop"
    /\ UNCHANGED <<module, running, baseVars, listVars, ipc, cpc, over, ub>>

EntryEnds ==
    /\ tpc = "end"
    /\ running' = FALSE /\ tpc' = "free"
    /\ UNCHANGED <<module, baseVars, listVars, ipc, cpc, over, ub>>

\* event_base_free, with the one-time events it still holds ...
EntryFreesBase ==
    /\ tpc = "free"
    /\ base' = IF base = "up" THEN "freed" ELSE base
    /\ armed' = {} /\ active' = {}
    /\ tpc' = "null"
    /\ UNCHANGED <<module, running, stop, calling, listVars, ipc, cpc, over, ub>>

\* ... and EventBase = NULL
EntryGone ==
    /\ tpc = "null"
    /\ base' = "none" /\ tpc' = "gone"
    /\ UNCHANGED <<module, running, stop, armed, active, calling, listVars, ipc, cpc,
                   over, ub>>

EventThread ==
    \/ EntryNewBase \/ EntryKeepalive \/ EntryInserts \/ EntryRuns
    \/ \E n \in Nodes : EntryInserted(n) \/ LoopCalls(n)
    \/ LoopTop \/ LoopWakes \/ LoopCalled \/ LoopRound
    \/ EntryEnds \/ EntryFreesBase \/ EntryGone

-----------------------------------------------------------------------------
(***************************************************************************)
(* TimerModuleInit and TimerModuleExit, HealthModuleInit and               *)
(* HealthModuleExit.                                                       *)
(***************************************************************************)
ModuleInit ==
    /\ ipc = "none"
    /\ links' = NodeInit(links, EventList) /\ listLen' = 0
    /\ ipc' = "waiting" /\ tpc' = "new"
    /\ UNCHANGED <<module, running, baseVars, list, loop, tmp, node, cpc, over, ub>>

\* The bounded wait; success either way
InitReturns ==
    /\ ipc = "waiting"
    /\ running \/ "slow" \in Env
    /\ ipc' = "up"
    /\ UNCHANGED <<module, running, baseVars, listVars, tpc, cpc, over, ub>>

\* Exit does nothing when the thread does not run
ModuleExit ==
    /\ "exit" \in Env /\ ipc = "up"
    /\ "late" \in Env \/ \A c \in Callers : cpc[c] \notin {"add", "addonce"}
    /\ ipc' = IF running THEN "clear" ELSE "skipped"
    /\ UNCHANGED <<module, running, baseVars, listVars, tpc, cpc, over, ub>>

\* Exit takes the lock, and holds it until the loop is over
ExitBeginsLoop ==
    /\ ipc = "clear"
    /\ listLen' = 0
    /\ IF IsEmpty(links, EventList)
       THEN ipc' = "loopexit" /\ UNCHANGED <<loop, tmp>>
       ELSE /\ ipc' = "walk"
            /\ loop' = LoopFirst(links, EventList) /\ tmp' = LoopNext(links, loop')
    /\ UNCHANGED <<module, running, baseVars, links, list, node, tpc, cpc, over, ub>>

\* The body, for one node, and on to the next, which was found before
ExitFreesNode ==
    /\ ipc = "walk" /\ ~LoopOver(loop, EventList)
    /\ Unlink(loop)
    /\ armed' = armed \ {loop} /\ active' = active \ {loop}
    /\ loop' = tmp /\ tmp' = LoopNext(links', tmp)
    /\ UNCHANGED <<module, running, base, stop, calling, listLen, tpc, ipc, cpc, over, ub>>

ExitLoopOver ==
    /\ ipc = "walk" /\ LoopOver(loop, EventList)
    /\ loop' = NULL /\ tmp' = NULL
    /\ ipc' = "loopexit"
    /\ UNCHANGED <<module, running, baseVars, links, list, listLen, node, tpc, cpc, over, ub>>

\* Variant: the loop is not told, it has no events any more
Told_Never == FALSE
Told == base = "up"                  \* event_base_loopexit of NULL does nothing

\* The thread may have ended meanwhile for lack of events
ExitLoopexit ==
    /\ ipc = "loopexit"
    /\ stop' = Told
    /\ ub' = (base = "freed")
    /\ ipc' = "joining"
    /\ UNCHANGED <<module, running, base, armed, active, calling, listVars, tpc, cpc, over>>

\* pthread_join, MemUnRegister
ExitJoins ==
    /\ ipc = "joining" /\ tpc = "gone"
    /\ ipc' = "done"
    /\ UNCHANGED <<module, running, baseVars, listVars, tpc, cpc, over, ub>>

-----------------------------------------------------------------------------
(***************************************************************************)
(* TimerAdd, TimerDel, HealthMonitorAdd.                                   *)
(***************************************************************************)
Usable == ipc = "up" \/ ("late" \in Env /\ ipc \notin {"none", "waiting"})

Unlocked == ipc # "walk"

\* TimerAdd looks at IsRunning, HealthMonitorAdd does not
AddBegins(c) ==
    /\ Usable /\ cpc[c] = "idle"
    /\ module = "timer" => running
    /\ \E pc \in {"add"} \cup (IF module = "timer" THEN {"addonce"} ELSE {}) :
          cpc' = [cpc EXCEPT ![c] = pc]
    /\ UNCHANGED <<module, running, baseVars, listVars, tpc, ipc, over, ub>>

\* A periodic event, under the lock
AddLoops(c) ==
    /\ cpc[c] = "add" /\ Unlocked
    /\ Add(c)
    /\ cpc' = [cpc EXCEPT ![c] = "added"]
    /\ ub' = (base # "up" \/ tpc = "insert")
    /\ UNCHANGED <<module, running, base, stop, active, calling, tpc, ipc, over>>

\* event_base_once; what it returns is not looked at
AddOnce(c) ==
    /\ cpc[c] = "addonce"
    /\ cpc' = [cpc EXCEPT ![c] = "once"]
    /\ armed' = IF base = "up" THEN armed \cup {c} ELSE armed
    /\ ub' = (base = "freed")
    /\ UNCHANGED <<module, running, base, stop, active, calling, listVars, tpc, ipc, over>>

\* Variants: the length is left; the event is freed without event_del
LenAfterDel_Left == listLen
LenAfterDel == listLen - 1

Disarmed_Not(c) == UNCHANGED <<armed, active>>
Disarmed(c) == armed' = armed \ {c} /\ active' = active \ {c}

\* Under the lock: unlink, event_del, free; the handle may be that of a node which
\* Exit has freed
Delete(c) ==
    /\ module = "timer" /\ cpc[c] = "added" /\ Unlocked
    /\ IF node[c] = "freed"
       THEN ub' = TRUE /\ UNCHANGED <<links, list, node>>
       ELSE Unlink(c) /\ UNCHANGED ub
    /\ listLen' = LenAfterDel
    /\ Disarmed(c)
    /\ cpc' = [cpc EXCEPT ![c] = "deleted"]
    /\ over' = over \cup {c}
    /\ UNCHANGED <<module, running, base, stop, calling, loop, tmp, tpc, ipc>>

TimerDel(c) == Usable /\ Delete(c)

CallbackDeletes(c) ==
    /\ "self" \in Env /\ tpc = "callback" /\ calling = c
    /\ Delete(c)

Next ==
    /\ ~ub
    /\ \/ EventThread
       \/ ModuleInit \/ InitReturns \/ ModuleExit
       \/ ExitBeginsLoop \/ ExitFreesNode \/ ExitLoopOver \/ ExitLoopexit \/ ExitJoins
       \/ \E c \in Callers : \/ AddBegins(c) \/ AddLoops(c) \/ AddOnce(c)
                             \/ TimerDel(c) \/ CallbackDeletes(c)

(***************************************************************************)
(* The threads take the steps their program has for them.  The loop's wait *)
(* ends, since it was begun with the keepalive's timeout among others; no  *)
(* other event is assumed ever to be due.                                  *)
(***************************************************************************)
Fairness ==
    /\ WF_vars(~ub /\ EventThread)
    /\ WF_vars(~ub /\ InitReturns)
    /\ WF_vars(~ub /\ (\/ ExitBeginsLoop \/ ExitFreesNode \/ ExitLoopOver
                       \/ ExitLoopexit \/ ExitJoins))

Spec == Init /\ [][Next]_vars
FairSpec == Spec /\ Fairness

-----------------------------------------------------------------------------
\* Every variable holds a value of its kind.
TypeOK ==
    /\ module \in {"timer", "health"} /\ running \in BOOLEAN
    /\ base \in {"none", "up", "freed"} /\ stop \in BOOLEAN /\ ub \in BOOLEAN
    /\ links \in [next : [Cells -> Cells \cup {NULL}], prev : [Cells -> Cells \cup {NULL}]]
    /\ list \in Seq(Nodes) /\ listLen \in Int
    /\ loop \in Cells \cup {NULL} /\ tmp \in Cells \cup {NULL}
    /\ node \in [Nodes -> {"none", "live", "freed"}]
    /\ armed \subseteq Nodes /\ active \subseteq Nodes /\ calling \in Nodes \cup {None}
    /\ tpc \in {"unborn", "new", "add", "insert", "ready", "loop", "wait", "call",
                "callback", "end", "free", "null", "gone"}
    /\ ipc \in {"none", "waiting", "up", "clear", "walk", "loopexit", "joining", "done", "skipped"}
    /\ cpc \in [Callers -> {"idle", "add", "addonce", "added", "once", "deleted"}]
    /\ over \subseteq Callers

\* However its nodes were added and deleted, and whatever Exit has still to free, the
\* list's pointers lead through the nodes that are allocated, each once, forwards and
\* backwards; its length is kept right; a node on it is armed; and Exit leaves none.
ListRight ==
    ~ub /\ ipc # "none" =>
        /\ IsList(links, EventList, list)
        /\ Range(list) = {n \in Nodes : node[n] = "live"}
        /\ listLen = IF ipc = "walk" THEN 0 ELSE Len(list)
        /\ base = "up" => Range(list) \subseteq armed
        /\ ipc \in {"loopexit", "joining", "done"} /\ "late" \notin Env => list = <<>>

\* A timer that was deleted is not called again, even if it was due already, nor is
\* a one-time timer called twice.
DeletedSilent == [][\A n \in over : calling' = n => calling = n]_vars

\* Once the thread runs it goes on until Exit, whatever is added and deleted: the
\* keepalive keeps it alive.
ServesUntilExit == [][running /\ ~running' => ipc \notin {"waiting", "up"}]_vars

\* An Exit that has found the thread running comes back, even if a timer that is
\* never due is left, and even if the thread ends before it is told to.
ExitReturns == ipc = "clear" ~> (ipc = "done" \/ ub)
=============================================================================
