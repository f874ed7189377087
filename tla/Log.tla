--------------------------------- MODULE Log ---------------------------------
(***************************************************************************)
(* The log of myUtils/Log/myLogIO.c: any thread prints lines to one file   *)
(* and, when the file has grown too large, packs it into an archive, starts*)
(* a new one and removes the oldest archives.  A thread decides to rotate  *)
(* from a size it reads after it has given up the lock, so that several may*)
(* rotate for one overflow.                                                *)
(*                                                                         *)
(* Lines are the unit of size.  What is done under the lock is one step,   *)
(* the shell commands of LogRotate included.  The line "Lograting!" ends   *)
(* every archive and is left out.                                          *)
(***************************************************************************)
EXTENDS Integers, Sequences, FiniteSets, SequencesExt

CONSTANTS
    Writers,      \* threads that print
    LogMaxSize,   \* size from which the file is rotated
    LogMaxNum,    \* archives kept
    MaxLines,     \* bound: lines printed to the file
    Lives,        \* bound: calls of LogModuleInit
    Env           \* what the surroundings may do, a subset of LogEnvKinds

\* "late":  LogModuleExit is called while a thread is inside LogPrint
\* "burst": two rotations may fall into the same second, the archives' names, as those
\*          of two threads that rotate for one overflow will
\* "tar":   tar may fail, which LogRotate does not look at
\* "fopen": the file cannot be opened again by LogRotate
\* "sh":    the shell of system() has no pushd, so nothing is removed
LogEnvKinds == {"late", "burst", "tar", "fopen", "sh"}

ASSUME LogAssumption ==
    /\ IsFiniteSet(Writers)
    /\ LogMaxSize \in Nat \ {0} /\ LogMaxNum \in Nat \ {0}
    /\ MaxLines \in Nat /\ Lives \in Nat
    /\ Env \subseteq LogEnvKinds

VARIABLES
    inited,       \* sg_LogWorker.Inited
    exiting,      \* LogModuleExit is between its first and its last line
    fp,           \* sg_LogWorker.Fp: "none", "open", "closed", "null"
    logSize,      \* sg_LogWorker.Stats.LogSize
    wpc,          \* writer -> where it is in LogPrint
    file,         \* lines in the log file
    archives,     \* archive files, oldest first, each the lines it holds
    lives,        \* calls of LogModuleInit so far
    printed,      \* history: all lines printed to the file, in their order
    pruned,       \* history: lines of the archives that were removed
    lost,         \* history: lines a failed tar or an overwritten archive has cost
    ub            \* a closed or missing stream, or the destroyed lock, was used

vars == <<inited, exiting, fp, logSize, wpc, file, archives, lives, printed, pruned, lost, ub>>

Init ==
    /\ inited = FALSE /\ exiting = FALSE /\ fp = "none" /\ logSize = 0
    /\ wpc = [w \in Writers |-> "idle"]
    /\ file = <<>> /\ archives = <<>>
    /\ lives = 0 /\ printed = <<>> /\ pruned = <<>> /\ lost = {}
    /\ ub = FALSE

\* The file is opened to be appended to; Stats are those of the last time
LogModuleInit ==
    /\ ~inited /\ ~exiting /\ lives < Lives
    /\ inited' = TRUE /\ fp' = "open" /\ lives' = lives + 1
    /\ UNCHANGED <<exiting, logSize, wpc, file, archives, printed, pruned, lost, ub>>

\* Inited is reset first ...
LogModuleExitBegins ==
    /\ inited
    /\ "late" \in Env \/ \A w \in Writers : wpc[w] = "idle"
    /\ inited' = FALSE /\ exiting' = TRUE
    /\ UNCHANGED <<fp, logSize, wpc, file, archives, lives, printed, pruned, lost, ub>>

\* ... then the lock is taken once and destroyed, and the file closed
LogModuleExitEnds ==
    /\ exiting
    /\ exiting' = FALSE /\ fp' = "closed"
    /\ ub' = (fp = "null")
    /\ UNCHANGED <<inited, logSize, wpc, file, archives, lives, printed, pruned, lost>>

-----------------------------------------------------------------------------
Goto(w, pc) == wpc' = [wpc EXCEPT ![w] = pc]

\* LogPrint goes to the screen when the module is not up
LogPrint(w) ==
    /\ wpc[w] = "idle" /\ inited /\ Len(printed) < MaxLines
    /\ Goto(w, "print")
    /\ UNCHANGED <<inited, exiting, fp, logSize, file, archives, lives, printed, pruned, lost, ub>>

\* Under the lock: write the line and note where the file ends
LogPrintLocked(w) ==
    /\ wpc[w] = "print" /\ fp = "open"
    /\ LET line == <<w, Len(printed)>> IN
          file' = Append(file, line) /\ printed' = Append(printed, line)
    /\ logSize' = Len(file) + 1
    /\ Goto(w, "check")
    /\ UNCHANGED <<inited, exiting, fp, archives, lives, pruned, lost, ub>>

\* Variant: one line more
TooLarge_Past == logSize > LogMaxSize
TooLarge == logSize >= LogMaxSize

\* After the unlock: is it too large by now?
LogPrintChecks(w) ==
    /\ wpc[w] = "check"
    /\ Goto(w, IF TooLarge THEN "rotate" ELSE "idle")
    /\ UNCHANGED <<inited, exiting, fp, logSize, file, archives, lives, printed, pruned, lost, ub>>

\* Archives tar leaves alone: one whose name is made of the same second is overwritten
Others(same) == IF same THEN Front(archives) ELSE archives

\* Variant: the file is removed before it is packed
Packed_Late(same, tar) == Append(Others(same), <<>>)
\* tar: it packs the file, or leaves an archive that is no use, or none
Packed(same, tar) ==
    CASE tar = "packed" -> Append(Others(same), file)
      [] tar = "broken" -> Append(Others(same), <<>>)
      [] tar = "none" -> archives
TarResults == {"packed"} \cup (IF "tar" \in Env THEN {"broken", "none"} ELSE {})

\* Lines that are in no archive afterwards, as rm follows whatever tar has done
Cost(same, tar) ==
    (IF same /\ tar # "none" THEN ToSet(Last(archives)) ELSE {})
        \cup (IF tar # "packed" THEN ToSet(file) ELSE {})

\* Variant: one archive more is kept
Keep_More == LogMaxNum + 1
Keep == LogMaxNum                    \* tail -n +(LogMaxNum + 1)

\* ls -t | tail | xargs rm: how many of so many archives are removed
Surplus(n) == IF "sh" \in Env \/ n <= Keep THEN 0 ELSE n - Keep

\* Under the lock again: pack, remove, prune, open.  LogSize is left as it is
LogRotate(w) ==
    /\ wpc[w] = "rotate" /\ fp = "open"
    /\ \E same \in {FALSE} \cup {"burst" \in Env /\ archives # <<>>}, tar \in TarResults :
       LET all == Packed(same, tar)
           n == Surplus(Len(all))
       IN /\ pruned' = pruned \o FlattenSeq(SubSeq(all, 1, n))
          /\ archives' = SubSeq(all, n + 1, Len(all))
          /\ lost' = lost \cup Cost(same, tar)
    /\ file' = <<>>
    /\ fp' \in {"open"} \cup (IF "fopen" \in Env THEN {"null"} ELSE {})
    /\ Goto(w, "idle")
    /\ UNCHANGED <<inited, exiting, logSize, lives, printed, ub>>

\* The module has been ended meanwhile, or the file could not be opened again
LogFaults(w) ==
    /\ wpc[w] \in {"print", "rotate"} /\ fp # "open"
    /\ ub' = TRUE
    /\ UNCHANGED <<inited, exiting, fp, logSize, wpc, file, archives, lives, printed, pruned, lost>>

LogPrintStep(w) == \/ LogPrint(w) \/ LogPrintLocked(w) \/ LogPrintChecks(w)
                   \/ LogRotate(w) \/ LogFaults(w)

Next ==
    /\ ~ub
    /\ \/ LogModuleInit \/ LogModuleExitBegins \/ LogModuleExitEnds
       \/ \E w \in Writers : LogPrintStep(w)

Spec == Init /\ [][Next]_vars

-----------------------------------------------------------------------------
\* Every variable holds a value of its kind.
TypeOK ==
    /\ inited \in BOOLEAN /\ exiting \in BOOLEAN /\ ub \in BOOLEAN
    /\ fp \in {"none", "open", "closed", "null"}
    /\ logSize \in Nat /\ lives \in Nat
    /\ wpc \in [Writers -> {"idle", "print", "check", "rotate"}]
    /\ file \in Seq(Writers \X Nat) /\ printed \in Seq(Writers \X Nat)
    /\ archives \in Seq(Seq(Writers \X Nat)) /\ pruned \in Seq(Writers \X Nat)
    /\ lost \subseteq Writers \X Nat

\* What was printed is, in its order and none of it twice, in removed archives, in
\* archives and in the file, however many threads rotate for the same overflow and
\* however often the module is ended and started; all but the lines that a tar which
\* failed, or two rotations in one second, have cost, and those are in none of them.
Remaining == pruned \o FlattenSeq(archives) \o file
InOrder(s) == \A i, j \in DOMAIN s : i < j => s[i][2] < s[j][2]
LinesKept == InOrder(Remaining) /\ ToSet(Remaining) = ToSet(printed) \ lost

\* The file passes its limit by at most a line of every other thread, although the
\* test is made without the lock on a size rotation does not reset.
FileBounded == Len(file) <= LogMaxSize + Cardinality(Writers) - 1

\* There are never more archives than configured.
ArchivesBounded == Len(archives) <= LogMaxNum
=============================================================================
