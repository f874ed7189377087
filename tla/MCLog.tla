-------------------------------- MODULE MCLog --------------------------------
(***************************************************************************)
(* The log on a small instance.                                            *)
(***************************************************************************)
EXTENDS Log, TLC

CONSTANTS w1, w2, w3

Symmetry == Permutations(Writers)
=============================================================================
