-------------------------------- MODULE MCMem --------------------------------
(***************************************************************************)
(* The memory accounting on a small instance.                              *)
(***************************************************************************)
EXTENDS Mem, TLC

CONSTANTS u1, u2, u3, b1, b2, b3

\* The last is larger than MaxSize
SmallOrHuge(b) == CASE b = b1 -> 1 [] b = b2 -> 2 [] b = b3 -> 4
=============================================================================
