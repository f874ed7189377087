------------------------------ MODULE MCServer ------------------------------
(***************************************************************************)
(* The server on small instances.                                          *)
(***************************************************************************)
EXTENDS Server, TLC

CONSTANTS c1, c2, c3

\* Every client has the pool execute a command, then asks the server itself
CmdOther(r) == IF r[2] = 1 THEN "cmd" ELSE "other"

\* One client sends commands, the other what the server turns down
CmdOrBad(r) == IF r[1] = c1 THEN "cmd" ELSE IF r[2] = 1 THEN "short" ELSE "long"

\* The third client only comes and goes
TwoAndNone(c) == IF c = c3 THEN 0 ELSE 2
OneEach(c) == 1

AllCmds(r) == "cmd"
=============================================================================
