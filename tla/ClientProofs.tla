----------------------------- MODULE ClientProofs -----------------------------
(***************************************************************************)
(* What the client keeps to while its two threads run, and end it, in any  *)
(* order: proved for any number of lines and every Env.                    *)
(***************************************************************************)
EXTENDS Client, TLAPS

(***************************************************************************)
(* The inductive invariant.  Places says what the threads' places tell of  *)
(* each other; Pieces counts what has arrived, and RecvMsg and the handler *)
(* have dealt with, for as long as RecvMsg is at pieces in their order,    *)
(* and says that two replies that mix take a hasty user; Apart says that   *)
(* once the modules may end there is no message to receive: the event      *)
(* thread is past its loop, or no command was ever sent, as main sends     *)
(* none before the loop has been started.                                  *)
(***************************************************************************)
Based == {"events", "dispatch", "recv", "handle", "exit"}
Started == {"dispatch", "recv", "handle", "exit", "clean", "close", "free", "ended"}
Past == {"none", "exit", "clean", "close", "free", "ended"}

Places ==
    /\ xpc["event"] # "no" => epc = "exit"
    /\ xpc["main"] # "no" => mpc \in {"undo", "leave"}
    /\ mpc \in {"off", "proc"} => epc = "none" /\ mods # "ending"
    /\ mpc = "proc" \/ epc # "none" => mods # "down"
    /\ epc \in Based => base
    /\ ~handle => epc \in {"none", "exit", "ended"}
    /\ running \/ mpc \in {"read", "line"} \/ sent > 0 => epc \in Started

InOrder ==
    /\ epc = "handle" => took = 2 * printed + 2
    /\ epc \in {"recv", "exit"} => took \in {2 * printed, 2 * printed + 1}
    /\ epc \notin {"handle", "recv", "exit"} => took = 2 * printed
    /\ epc = "exit" => Lost /\ took = came

Pieces ==
    /\ took <= came /\ came <= 2 * sent /\ 2 * whole <= came
    /\ took <= 2 * whole + 1 => InOrder
    /\ took > 2 * whole + 1 => printed >= whole
    /\ Mixed => whole + 2 <= sent
    /\ ~hasty => sent <= whole + 1

Apart == xpc["main"] \in {"modules", "kill"} \/ mods = "ending" => epc \in Past \/ sent = 0

CInv == TypeOK /\ Places /\ Pieces /\ Apart

LEMMA CInvInit == Init => CInv
<1> SUFFICES ASSUME Init PROVE CInv
  OBVIOUS
<1> USE DEF Init
<1>1. TypeOK
  BY DEF TypeOK, MainPcs, EventPcs, Lines
<1>2. Places
  BY DEF Places, Threads, Based
<1>3. Pieces
  BY DEF Pieces, InOrder, Mixed
<1>4. Apart
  BY DEF Apart
<1> QED BY <1>1, <1>2, <1>3, <1>4 DEF CInv

\* A step that leaves the messages alone, and a thread inside RecvMsg where it is
LEMMA SamePieces ==
    ASSUME Pieces, UNCHANGED <<sent, hasty, link, came, whole, took, printed>>,
           \/ epc' = epc
           \/ epc \notin {"handle", "recv", "exit"} /\ epc' \notin {"handle", "recv", "exit"}
    PROVE  Pieces'
<1>1. InOrder => InOrder'
  BY DEF InOrder, Lost
<1>2. Mixed' = Mixed
  BY DEF Mixed
<1> HIDE DEF InOrder, Mixed
<1> QED BY <1>1, <1>2 DEF Pieces

\* An action of the main thread
LEMMA MainKeeps ==
    ASSUME CInv,
           \/ ClientInit \/ ClientProcInit \/ ClientProcWait \/ MainLoopEnds
           \/ MainLoopTest \/ MainLine \/ ClientHandleCmd \/ UserTypes,
           UNCHANGED over
    PROVE  CInv'
<1>1. TypeOK'
  <2> USE DEF CInv, TypeOK, MainPcs, MainLeaves, workerVars, userVars, netVars, recvVars
  <2>1. CASE ClientInit
    BY <2>1 DEF ClientInit
  <2>2. CASE ClientProcInit
    BY <2>2 DEF ClientProcInit, EventPcs
  <2>3. CASE ClientProcWait \/ MainLoopEnds \/ MainLoopTest \/ MainLine
    BY <2>3 DEF ClientProcWait, MainLoopEnds, MainLoopTest, MainLine
  <2>4. CASE ClientHandleCmd
    BY <2>4 DEF ClientHandleCmd
  <2>5. CASE UserTypes
    BY <2>5 DEF UserTypes
  <2> QED BY <2>1, <2>2, <2>3, <2>4, <2>5
<1> USE DEF CInv, Places, Apart, MainLeaves, workerVars, userVars, netVars, recvVars,
            Based, Started, Past
<1>2. CASE ClientInit
  <2>1. Places' /\ Apart'
    BY <1>1, <1>2 DEF ClientInit, TypeOK, Threads
  <2>2. Pieces'
    BY <1>2, SamePieces DEF ClientInit
  <2> QED BY <1>1, <2>1, <2>2
<1>3. CASE ClientProcInit
  <2>1. Places' /\ Apart'
    BY <1>1, <1>3 DEF ClientProcInit, TypeOK, Threads
  <2>2. Pieces'
    BY <1>3, SamePieces DEF ClientProcInit
  <2> QED BY <1>1, <2>1, <2>2
<1>4. CASE ClientProcWait \/ MainLoopEnds \/ MainLoopTest
  <2>1. UNCHANGED <<epc, handle, base, running, mods, sent>>
    BY <1>4 DEF ClientProcWait, MainLoopEnds, MainLoopTest
  <2>2. /\ xpc'["event"] = xpc["event"]
        /\ mpc \in {"wait", "loop"} /\ mpc' \in {"loop", "leave", "read"}
        /\ xpc'["main"] = xpc["main"] \/ (mpc' = "leave" /\ xpc'["main"] = "test")
        /\ mpc' = "read" => running
    BY <1>4 DEF ClientProcWait, MainLoopEnds, MainLoopTest, TypeOK, Threads
  <2>3. Places'
    BY <2>1, <2>2
  <2>4. Apart'
    BY <2>1, <2>2
  <2>5. Pieces'
    BY <1>4, <2>1, SamePieces DEF ClientProcWait, MainLoopEnds, MainLoopTest
  <2> QED BY <1>1, <2>3, <2>4, <2>5
<1>5. CASE MainLine \/ UserTypes
  <2>1. Places' /\ Apart'
    BY <1>1, <1>5 DEF MainLine, UserTypes, TypeOK, Threads
  <2>2. UNCHANGED <<epc, sent, hasty, link, came, whole, took, printed>>
    BY <1>5 DEF MainLine, UserTypes
  <2>3. Pieces'
    BY <2>2, SamePieces
  <2> QED BY <1>1, <2>1, <2>3
<1>6. CASE ClientHandleCmd
  <2>1. Places' /\ Apart'
    BY <1>1, <1>6 DEF ClientHandleCmd, TypeOK, Threads
  <2>2. UNCHANGED <<epc, link, came, whole, took, printed>>
    BY <1>6 DEF ClientHandleCmd
  <2>3. \/ sent' = sent /\ (~hasty' => ~hasty)
        \/ sent' = sent + 1 /\ (~hasty' => ~(whole < sent))
    BY ZenonT(60), <1>6 DEF ClientHandleCmd
  <2>4. sent \in Nat /\ whole \in Nat /\ came \in Nat /\ hasty \in BOOLEAN
    BY DEF TypeOK
  <2>5. Mixed' = Mixed /\ InOrder' = InOrder
    BY <2>2 DEF Mixed, InOrder, Lost
  <2>6. /\ came' <= 2 * sent' /\ (Mixed' => whole' + 2 <= sent')
        /\ ~hasty' => sent' <= whole' + 1
    <3>1. /\ came <= 2 * sent /\ (Mixed => whole + 2 <= sent)
          /\ ~hasty => sent <= whole + 1
      BY DEF Pieces
    <3>2. CASE sent' = sent /\ (~hasty' => ~hasty)
      BY <2>2, <2>4, <2>5, <3>1, <3>2
    <3>3. CASE sent' = sent + 1 /\ (~hasty' => ~(whole < sent))
      BY <2>2, <2>4, <2>5, <3>1, <3>3
    <3> QED BY <2>3, <3>2, <3>3
  <2>7. Pieces'
    BY <2>2, <2>5, <2>6 DEF Pieces
  <2> QED BY <1>1, <2>1, <2>7
<1> QED BY <1>2, <1>3, <1>4, <1>5, <1>6

\* An action of the event thread
LEMMA EventKeeps ==
    ASSUME CInv,
           \/ ClientConnect \/ ClientNewBase \/ ClientAddEvents \/ DispatchEnds
           \/ RecvMsgBegins \/ RecvMsg \/ ClientHandleMsg \/ RecvMsgFails
           \/ RecvMsgRefuses \/ ProcFnNotRunning \/ ProcFnCloses \/ ProcFnFrees,
           UNCHANGED over
    PROVE  CInv'
<1>1. TypeOK'
  <2> USE DEF CInv, TypeOK, EventPcs, workerVars, userVars, netVars, recvVars
  <2>1. CASE ClientConnect
    BY ZenonT(60), <2>1 DEF ClientConnect
  <2>2. CASE ClientNewBase
    BY <2>2 DEF ClientNewBase
  <2>3. CASE ClientAddEvents
    BY <2>3 DEF ClientAddEvents
  <2>4. CASE \/ DispatchEnds \/ RecvMsgBegins \/ RecvMsg \/ ClientHandleMsg
              \/ RecvMsgFails \/ RecvMsgRefuses
    BY <2>4 DEF DispatchEnds, RecvMsgBegins, RecvMsg, ClientHandleMsg, RecvMsgFails,
         RecvMsgRefuses, EventLeaves
  <2>5. CASE ProcFnNotRunning
    BY <2>5 DEF ProcFnNotRunning
  <2>6. CASE ProcFnCloses
    BY <2>6 DEF ProcFnCloses
  <2>7. CASE ProcFnFrees
    BY ZenonT(60), <2>7 DEF ProcFnFrees
  <2> QED BY <2>1, <2>2, <2>3, <2>4, <2>5, <2>6, <2>7
<1> USE DEF CInv, Places, Apart, workerVars, userVars, netVars, recvVars, Based, Started, Past
<1>2. CASE ClientConnect \/ ClientNewBase \/ ClientAddEvents
  <2>1. Places' /\ Apart'
    BY <1>1, <1>2 DEF ClientConnect, ClientNewBase, ClientAddEvents, TypeOK, Threads
  <2>2. CASE ClientNewBase \/ ClientAddEvents
    <3>1. Pieces'
      BY <2>2, SamePieces DEF ClientNewBase, ClientAddEvents
    <3> QED BY <1>1, <2>1, <3>1
  <2>3. CASE ClientConnect
    <3>1. InOrder => InOrder'
      BY <2>3 DEF ClientConnect, InOrder
    <3>2. UNCHANGED <<sent, hasty, came, whole, took, printed>>
      BY <2>3 DEF ClientConnect
    <3>3. Pieces'
      BY <3>1, <3>2 DEF Pieces, Mixed
    <3> QED BY <1>1, <2>1, <3>3
  <2> QED BY <1>2, <2>2, <2>3
<1>3. CASE DispatchEnds \/ RecvMsgBegins
  <2>1. Places' /\ Apart'
    BY <1>1, <1>3 DEF DispatchEnds, RecvMsgBegins, TypeOK, Threads
  <2>2. CASE DispatchEnds
    <3>1. Pieces'
      BY <2>2, SamePieces DEF DispatchEnds
    <3> QED BY <1>1, <2>1, <3>1
  <2>3. CASE RecvMsgBegins
    <3>1. InOrder => InOrder'
      BY <2>3 DEF RecvMsgBegins, InOrder
    <3>2. UNCHANGED <<sent, hasty, came, whole, took, printed>>
      BY <2>3 DEF RecvMsgBegins
    <3>3. Pieces'
      BY <3>1, <3>2 DEF Pieces, Mixed
    <3> QED BY <1>1, <2>1, <3>3
  <2> QED BY <1>3, <2>2, <2>3
<1>10. /\ sent \in Nat /\ came \in Nat /\ whole \in Nat /\ took \in Nat /\ printed \in Nat
       /\ xpc \in [Threads -> {"no", "test", "deref", "join", "modules", "kill"}]
  BY DEF TypeOK
<1>4. CASE RecvMsg
  <2>1. Places' /\ Apart'
    BY <1>1, <1>4 DEF RecvMsg, TypeOK, Threads
  <2>2. Pieces'
    BY <1>4, <1>10 DEF RecvMsg, Astray, Pieces, InOrder, Mixed
  <2> QED BY <1>1, <2>1, <2>2
<1>5. CASE ClientHandleMsg
  <2>1. Places' /\ Apart'
    BY <1>1, <1>5 DEF ClientHandleMsg, TypeOK, Threads
  <2>2. Pieces'
    BY <1>5, <1>10 DEF ClientHandleMsg, Pieces, InOrder, Mixed
  <2> QED BY <1>1, <2>1, <2>2
<1>6. CASE RecvMsgFails
  <2>1. Places' /\ Apart'
    BY <1>1, <1>6, <1>10 DEF RecvMsgFails, EventLeaves, Threads
  <2>2. Pieces'
    BY <1>6, <1>10 DEF RecvMsgFails, EventLeaves, Drained, Lost, Pieces, InOrder, Mixed
  <2> QED BY <1>1, <2>1, <2>2
<1>7. CASE RecvMsgRefuses
  <2>1. Places' /\ Apart'
    BY <1>1, <1>7, <1>10 DEF RecvMsgRefuses, EventLeaves, Threads
  <2>2. Pieces'
    BY <1>7, <1>10 DEF RecvMsgRefuses, EventLeaves, Astray, Pieces, InOrder, Mixed
  <2> QED BY <1>1, <2>1, <2>2
<1>8. CASE ProcFnNotRunning \/ ProcFnCloses \/ ProcFnFrees
  <2>1. Places' /\ Apart'
    BY <1>1, <1>8 DEF ProcFnNotRunning, ProcFnCloses, ProcFnFrees, TypeOK, Threads
  <2>2. Pieces'
    BY <1>8, SamePieces DEF ProcFnNotRunning, ProcFnCloses, ProcFnFrees
  <2> QED BY <1>1, <2>1, <2>2
<1> QED BY <1>2, <1>3, <1>4, <1>5, <1>6, <1>7, <1>8

\* A step of ClientExit on either thread
LEMMA ExitKeeps ==
    ASSUME CInv, NEW x \in Threads,
           ClientProcExit(x) \/ ClientProcJoins(x) \/ ClientProcJoined(x) \/ ModuleCommonExit(x),
           UNCHANGED over
    PROVE  CInv'
<1>1. TypeOK'
  <2> USE DEF CInv, TypeOK, To, userVars, netVars, recvVars, workerVars
  <2>1. CASE ClientProcExit(x)
    BY ZenonT(60), <2>1 DEF ClientProcExit, AfterTest
  <2>2. CASE ClientProcJoins(x)
    BY <2>2 DEF ClientProcJoins
  <2>3. CASE ClientProcJoined(x)
    BY <2>3 DEF ClientProcJoined
  <2>4. CASE ModuleCommonExit(x)
    BY <2>4 DEF ModuleCommonExit, MainPcs
  <2> QED BY <2>1, <2>2, <2>3, <2>4
<1> USE DEF CInv, Places, Apart, At, To, workerVars, userVars, netVars, recvVars, Based,
            Started, Past
<1>2. Pieces'
  BY SamePieces DEF ClientProcExit, ClientProcJoins, ClientProcJoined, ModuleCommonExit
<1>3. CASE ClientProcExit(x)
  <2>1. Places' /\ Apart'
    BY <1>1, <1>3 DEF ClientProcExit, AfterTest, TypeOK, Threads, EventPcs
  <2> QED BY <1>1, <1>2, <2>1
<1>4. CASE ClientProcJoins(x)
  <2>1. Places' /\ Apart'
    BY <1>1, <1>4 DEF ClientProcJoins, TypeOK, Threads
  <2> QED BY <1>1, <1>2, <2>1
<1>5. CASE ClientProcJoined(x)
  <2>1. Places' /\ Apart'
    BY <1>1, <1>5 DEF ClientProcJoined, Joined, TypeOK, Threads
  <2> QED BY <1>1, <1>2, <2>1
<1>6. CASE ModuleCommonExit(x)
  <2>1. Places' /\ Apart'
    BY <1>1, <1>6 DEF ModuleCommonExit, TypeOK, Threads
  <2> QED BY <1>1, <1>2, <2>1
<1> QED BY <1>3, <1>4, <1>5, <1>6

\* The server, and what ends the process
LEMMA OthersKeep ==
    ASSUME CInv,
           \/ ServerReplies \/ ServerRepliesRest \/ ServerMixes \/ ServerCloses
           \/ UNCHANGED <<threadVars, workerVars, userVars, netVars, recvVars>>,
           over' \in {"no", "killed", "sigpipe", "crash"}
    PROVE  CInv'
<1> USE DEF CInv, TypeOK, Places, Pieces, InOrder, Mixed, Apart, threadVars, workerVars, userVars, netVars,
            recvVars, Lost
<1>1. CASE ServerReplies
  BY <1>1 DEF ServerReplies, Comes
<1>2. CASE ServerRepliesRest
  BY <1>2 DEF ServerRepliesRest, Comes
<1>3. CASE ServerCloses
  BY <1>3 DEF ServerCloses
<1>4. CASE UNCHANGED <<threadVars, workerVars, userVars, netVars, recvVars>>
  BY <1>4
<1>5. CASE ServerMixes
  BY <1>5 DEF ServerMixes
<1> QED BY <1>1, <1>2, <1>3, <1>4, <1>5

LEMMA CInvStep == CInv /\ [Next]_vars => CInv'
<1> SUFFICES ASSUME CInv, [Next]_vars PROVE CInv'
  OBVIOUS
<1>1. over \in {"no", "killed", "sigpipe", "crash"}
  BY DEF CInv, TypeOK
<1>2. ASSUME NEW x \in Threads, ExitStep(x) PROVE CInv'
  <2>1. CASE Goes(\/ ClientProcExit(x) \/ ClientProcJoins(x) \/ ClientProcJoined(x)
                  \/ ModuleCommonExit(x))
    BY <2>1, ExitKeeps DEF Goes
  <2>2. CASE ClientProcDerefsNull(x) \/ Killall(x)
    BY <2>2, OthersKeep DEF ClientProcDerefsNull, Crash, Killall
  <2> QED BY <1>2, <2>1, <2>2 DEF ExitStep
<1>3. CASE MainStep
  <2>1. CASE ClientHandleCmdKilled
    BY <2>1, OthersKeep DEF ClientHandleCmdKilled
  <2>2. CASE ExitStep("main")
    BY <1>2, <2>2 DEF Threads
  <2> QED BY <1>3, <2>1, <2>2, MainKeeps DEF MainStep, Goes
<1>4. CASE EventStep
  <2>1. CASE ExitStep("event")
    BY <1>2, <2>1 DEF Threads
  <2> QED BY <1>4, <2>1, EventKeeps DEF EventStep, Goes
<1>5. CASE UserTypes
  BY <1>5, MainKeeps DEF UserTypes
<1>6. CASE InputEnds \/ OtherClientEnds
  BY <1>6, OthersKeep DEF InputEnds, OtherClientEnds, Crash
<1>7. CASE Goes(ServerReplies \/ ServerRepliesRest \/ ServerMixes \/ ServerCloses)
  BY <1>1, <1>7, OthersKeep DEF Goes
<1>8. CASE UNCHANGED vars
  BY <1>1, <1>8, OthersKeep DEF vars
<1> QED BY <1>3, <1>4, <1>5, <1>6, <1>7, <1>8 DEF Next

LEMMA CInvHolds == Spec => []CInv
BY CInvInit, CInvStep, PTL DEF Spec

\* The modules that receiving a reply takes are there until it is printed, whichever
\* thread leaves meanwhile: main joins the event thread before it ends them, and where
\* it does not, because the loop was not there yet, there is no reply to come.
THEOREM ModulesWhileReceiving == Spec => []RepliesHaveModules
<1>1. CInv => RepliesHaveModules
  BY DEF CInv, TypeOK, Places, Pieces, InOrder, Apart, RepliesHaveModules, Past
<1> QED BY <1>1, CInvHolds, PTL

\* No reply that came whole is lost to the close that follows it, nor to replies that mix
\* behind it; and the client of a user who waits for each reply gives up no connection
\* that stands.
THEOREM NothingUnread == Spec => []LastWords
<1>1. CInv => LastWords
  BY DEF CInv, TypeOK, Pieces, InOrder, Mixed, LastWords
<1> QED BY <1>1, CInvHolds, PTL
=============================================================================
