---------------------------- MODULE MCEventWorker ----------------------------
(***************************************************************************)
(* The event thread on a small instance.                                   *)
(***************************************************************************)
EXTENDS EventWorker, TLC

CONSTANTS c1, c2, c3, m1
=============================================================================
