------------------------------ MODULE TaskPool ------------------------------
(***************************************************************************)
(* What the thread pool promises to its callers, with no queue, worker or  *)
(* lock in sight: a task that is accepted is started at most once, ends at *)
(* most once, and can expire only before it starts; an asynchronous call   *)
(* is answered when its task is accepted, a synchronous one when its task  *)
(* is done or its time is up.                                              *)
(***************************************************************************)
CONSTANTS AsyncTasks, SyncTasks,
          TrueWakeups    \* no wait for an answer ends without its cause

VARIABLES state,     \* task -> "new", "accepted", "started", "done", "expired"
          answer     \* task -> "none", "refused", "ok", "late"

avars == <<state, answer>>
All == AsyncTasks \cup SyncTasks

Init == /\ state = [t \in All |-> "new"]
        /\ answer = [t \in All |-> "none"]

Move(t, from, to) == state[t] = from /\ state' = [state EXCEPT ![t] = to]
Answer(t, a) == answer[t] = "none" /\ answer' = [answer EXCEPT ![t] = a]

Refuse(t) == state[t] = "new" /\ Answer(t, "refused") /\ UNCHANGED state

AcceptAsync(t) == t \in AsyncTasks /\ Move(t, "new", "accepted") /\ Answer(t, "ok")

AcceptSync(t) == /\ t \in SyncTasks /\ answer[t] = "none"
                 /\ Move(t, "new", "accepted")
                 /\ UNCHANGED answer

Start(t) == Move(t, "accepted", "started") /\ UNCHANGED answer
Finish(t) == Move(t, "started", "done") /\ UNCHANGED answer

Expire(t) == t \in SyncTasks /\ Move(t, "accepted", "expired") /\ UNCHANGED answer

AnswerOk(t) == /\ t \in SyncTasks /\ Answer(t, "ok") /\ UNCHANGED state
               /\ state[t] # "new" /\ (TrueWakeups => state[t] = "done")

AnswerLate(t) == /\ t \in SyncTasks /\ Answer(t, "late") /\ UNCHANGED state
                 /\ state[t] \in {"started", "done", "expired"}

Next == \E t \in All :
            \/ Refuse(t) \/ AcceptAsync(t) \/ AcceptSync(t)
            \/ Start(t) \/ Finish(t) \/ Expire(t) \/ AnswerOk(t) \/ AnswerLate(t)

Spec == Init /\ [][Next]_avars
=============================================================================
