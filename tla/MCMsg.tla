-------------------------------- MODULE MCMsg --------------------------------
(***************************************************************************)
(* Two threads that send one message after the other, through sockets that *)
(* hold two messages without content, but not two with all they may have.  *)
(***************************************************************************)
EXTENDS Msg

MCEnv == {"shut", "reset", "exit", "late"}
\* One is refused, the next is negative
MCForeign == {4, 5}
=============================================================================
