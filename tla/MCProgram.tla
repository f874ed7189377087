------------------------------ MODULE MCProgram ------------------------------
(***************************************************************************)
(* The server program on small instances.                                  *)
(***************************************************************************)
EXTENDS Program, TLC

CONSTANTS start, stop, other

\* A start; a stop, or a report; and a second start, which may be turned away or follow
\* the stop, or a command that can find its module not ready, or one that is refused
\* ("set" and "stat" are just answered, and "help" is not asked of the server)
GivenTo(p) == CASE p = start -> {"start"}
                [] p = stop -> {"stop", "show"}
                [] p = other -> {"start", "show", "warn"}
=============================================================================
