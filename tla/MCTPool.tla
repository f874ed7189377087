------------------------------ MODULE MCTPool ------------------------------
(***************************************************************************)
(* The thread pool on small instances, with the invariant of the proofs.   *)
(***************************************************************************)
EXTENDS TPoolProofs, TLC

\* Threads and tasks of a kind can be swapped (not for the liveness runs)
Symmetry == Permutations(Workers) \cup Permutations(AsyncTasks)
                \cup Permutations(SyncTasks)
=============================================================================
