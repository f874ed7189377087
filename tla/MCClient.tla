------------------------------- MODULE MCClient -------------------------------
(***************************************************************************)
(* The client program on small instances.                                  *)
(***************************************************************************)
EXTENDS Client, TLC
=============================================================================
