------------------------------ MODULE LogProofs ------------------------------
(***************************************************************************)
(* For any number of writers and any limits: the log file passes its limit *)
(* by at most one line of every other writer, every line printed is kept in*)
(* its order or known to be lost, and the archives stay as few as they are *)
(* configured to be.                                                       *)
(***************************************************************************)
EXTENDS Log, FiniteSetTheorems, SequenceTheorems, TLAPS

\* Writers that have printed and still have to look at the size or to rotate.
Pending == {w \in Writers : wpc[w] \in {"check", "rotate"}}

SizeTypes ==
    /\ file \in Seq(Writers \X Nat) /\ printed \in Seq(Writers \X Nat)
    /\ wpc \in [Writers -> {"idle", "print", "check", "rotate"}]

\* LogSize is right except just after a rotation.
SizeRight == file = <<>> \/ logSize = Len(file)

\* Each line from the one that reaches the limit has its writer among the pending.
Overshoot == Len(file) >= LogMaxSize => Len(file) < LogMaxSize + Cardinality(Pending)

SizeInv == SizeTypes /\ SizeRight /\ Overshoot

LEMMA PendingFinite == IsFiniteSet(Pending) /\ Cardinality(Pending) \in Nat
                       /\ Cardinality(Pending) <= Cardinality(Writers)
                       /\ Cardinality(Writers) \in Nat
  BY LogAssumption, FS_Subset, FS_CardinalityType DEF Pending

\* A step that leaves the file and its size alone, and takes nobody out of Pending
\* while the limit is passed, keeps the invariant.
LEMMA Quiet ==
    ASSUME SizeInv, UNCHANGED <<file, logSize>>, SizeTypes',
           Len(file) >= LogMaxSize => Pending' = Pending
    PROVE  SizeInv'
  BY DEF SizeInv, SizeRight, Overshoot

\* The file is empty before the first line.
LEMMA InitSize == Init => SizeInv
  BY LogAssumption DEF Init, SizeInv, SizeTypes, SizeRight, Overshoot

\* The line that is printed brings its writer among the pending.
LEMMA PrintStep ==
    ASSUME SizeInv, NEW w \in Writers, LogPrintLocked(w)
    PROVE  SizeInv'
<1>1. /\ file' = Append(file, <<w, Len(printed)>>)
      /\ printed' = Append(printed, <<w, Len(printed)>>)
      /\ wpc[w] = "print" /\ wpc' = [wpc EXCEPT ![w] = "check"]
      /\ logSize' = Len(file) + 1
  BY DEF LogPrintLocked, Goto
<1>2. Len(printed) \in Nat /\ Len(file) \in Nat
  BY DEF SizeInv, SizeTypes
<1>3. SizeTypes' /\ Len(file') = Len(file) + 1
  BY <1>1, <1>2 DEF SizeInv, SizeTypes
<1>4. Pending' = Pending \cup {w} /\ w \notin Pending
  BY <1>1 DEF SizeInv, SizeTypes, Pending
<1>5. Cardinality(Pending') = Cardinality(Pending) + 1
  BY <1>4, PendingFinite, FS_AddElement
<1>6. Overshoot'
  <2>1. CASE Len(file) >= LogMaxSize
    BY <2>1, <1>2, <1>3, <1>5, PendingFinite, LogAssumption DEF SizeInv, Overshoot
  <2>2. CASE Len(file) < LogMaxSize
    BY <2>2, <1>2, <1>3, <1>5, PendingFinite, LogAssumption DEF Overshoot
  <2> QED
    BY <2>1, <2>2, <1>2, LogAssumption
<1> QED
  BY <1>1, <1>3, <1>6 DEF SizeInv, SizeRight

\* Who looks at the size while the limit is passed goes on to rotate.
LEMMA CheckStep ==
    ASSUME SizeInv, NEW w \in Writers, LogPrintChecks(w)
    PROVE  SizeInv'
<1>1. /\ UNCHANGED <<file, logSize, printed>> /\ wpc[w] = "check"
      /\ wpc' = [wpc EXCEPT ![w] = IF TooLarge THEN "rotate" ELSE "idle"]
  BY DEF LogPrintChecks, Goto
<1>2. SizeTypes'
  BY <1>1 DEF SizeInv, SizeTypes
<1>3. ASSUME Len(file) >= LogMaxSize PROVE Pending' = Pending
  <2>1. file # <<>>
    BY <1>3, LogAssumption
  <2>2. TooLarge
    BY <1>3, <2>1 DEF SizeInv, SizeRight, TooLarge
  <2> QED
    BY <1>1, <2>2 DEF SizeInv, SizeTypes, Pending
<1> QED
  BY <1>1, <1>2, <1>3, Quiet

LEMMA SizeStep == SizeInv /\ [Next]_vars => SizeInv'
<1> SUFFICES ASSUME SizeInv, [Next]_vars PROVE SizeInv'
  OBVIOUS
<1>1. CASE LogModuleInit \/ LogModuleExitBegins \/ LogModuleExitEnds
  BY <1>1, Quiet DEF LogModuleInit, LogModuleExitBegins, LogModuleExitEnds, SizeInv,
     SizeTypes, Pending
<1>2. ASSUME NEW w \in Writers, LogPrint(w) PROVE SizeInv'
  <2>1. /\ UNCHANGED <<file, logSize, printed>> /\ wpc[w] = "idle"
        /\ wpc' = [wpc EXCEPT ![w] = "print"]
    BY <1>2 DEF LogPrint, Goto
  <2>2. SizeTypes' /\ Pending' = Pending
    BY <2>1 DEF SizeInv, SizeTypes, Pending
  <2> QED
    BY <2>1, <2>2, Quiet
<1>3. ASSUME NEW w \in Writers, LogRotate(w) PROVE SizeInv'
  <2>1. /\ file' = <<>> /\ UNCHANGED printed /\ wpc' = [wpc EXCEPT ![w] = "idle"]
    BY <1>3 DEF LogRotate, Goto
  <2> QED
    BY <2>1, LogAssumption DEF SizeInv, SizeTypes, SizeRight, Overshoot
<1>4. ASSUME NEW w \in Writers, LogFaults(w) PROVE SizeInv'
  BY <1>4, Quiet DEF LogFaults, SizeInv, SizeTypes, Pending
<1>5. CASE UNCHANGED vars
  BY <1>5, Quiet DEF vars, SizeInv, SizeTypes, Pending
<1> QED
  BY <1>1, <1>2, <1>3, <1>4, <1>5, PrintStep, CheckStep DEF Next, LogPrintStep

\* The unlocked test of myLogIO.c:159 and the size rotation does not reset bound the
\* file all the same, for any number of threads and in every environment.
THEOREM FileStaysBounded == Spec => []FileBounded
<1>1. SizeInv => FileBounded
  <2> SUFFICES ASSUME SizeInv PROVE FileBounded
    OBVIOUS
  <2>1. Len(file) \in Nat
    BY DEF SizeInv, SizeTypes
  <2>2. CASE Len(file) >= LogMaxSize
    BY <2>1, <2>2, PendingFinite, LogAssumption DEF SizeInv, Overshoot, FileBounded
  <2>3. CASE Len(file) < LogMaxSize
    BY <2>1, <2>3, PendingFinite, LogAssumption DEF FileBounded
  <2> QED
    BY <2>1, <2>2, <2>3, LogAssumption
<1> QED
  BY InitSize, SizeStep, <1>1, PTL DEF Spec

-----------------------------------------------------------------------------
(***************************************************************************)
(* Archives put end to end.  FlattenSeq is defined by recursion along the  *)
(* sequence; what it does is shown with the least index at which it would  *)
(* do otherwise.                                                           *)
(***************************************************************************)
\* The sets 1..n are well-founded by inclusion, so the naturals are by <.
LEMMA LeastNatural ==
    ASSUME NEW T, T \subseteq Nat, T # {}
    PROVE  \E n \in T : \A m \in T : n <= m
<1> DEFINE Sets == {1..n : n \in T}
<1>1. Sets \subseteq FiniteSubsetsOf(Nat) /\ Sets # {}
  <2>1. ASSUME NEW n \in T PROVE 1..n \in FiniteSubsetsOf(Nat)
    <3>1. 1..n \subseteq Nat /\ n \in Int
      OBVIOUS
    <3>2. IsFiniteSet(1..n)
      BY <3>1, FS_Interval
    <3> QED
      BY <3>1, <3>2 DEF FiniteSubsetsOf
  <2> QED
    BY <2>1
<1> HIDE DEF Sets
<1>2. PICK x \in Sets : \A y \in Sets : <<y, x>> \notin StrictSubsetOrdering(Nat)
  BY <1>1, FS_StrictSubsetOrderingWellFounded, WFMin
<1>3. PICK n \in T : x = 1..n
  BY DEF Sets
<1>4. ASSUME NEW m \in T, ~(n <= m) PROVE FALSE
  <2>1. 1..m \subseteq 1..n /\ n \in 1..n /\ n \notin 1..m
    BY <1>4
  <2>2. 1..m \in SUBSET Nat /\ 1..n \in SUBSET Nat
    OBVIOUS
  <2>3. <<1..m, 1..n>> \in StrictSubsetOrdering(Nat)
    <3> DEFINE a == 1..m  b == 1..n
    <3>1. a \in SUBSET Nat /\ b \in SUBSET Nat /\ a \subseteq b /\ a # b
      BY <2>1, <2>2
    <3> HIDE DEF a, b
    <3>2. <<a, b>> \in StrictSubsetOrdering(Nat)
      BY <3>1 DEF StrictSubsetOrdering
    <3> QED
      BY <3>2 DEF a, b
  <2>4. 1..m \in Sets
    BY DEF Sets
  <2> QED
    BY <2>3, <2>4, <1>2, <1>3
<1> QED
  BY <1>4
\* g[i] is the first i members of s put together
Part(g, s, i) == IF i = 1 THEN s[i] ELSE g[i-1] \o s[i]
Flattens(g, s, n) == g = [i \in 1..n |-> Part(g, s, i)]

LEMMA FlattensExists ==
    ASSUME NEW s, NEW n \in Nat
    PROVE  \E g : Flattens(g, s, n)
<1> DEFINE Unsolved == {k \in Nat : ~\E g : Flattens(g, s, k)}
<1> SUFFICES ASSUME Unsolved # {} PROVE FALSE
  OBVIOUS
<1>1. PICK k \in Unsolved : \A m \in Unsolved : k <= m
  <2> HIDE DEF Unsolved
  <2>1. Unsolved \subseteq Nat
    BY DEF Unsolved
  <2> QED
    BY <2>1, LeastNatural
<1>2. Flattens([i \in 1..0 |-> <<>>], s, 0)
  BY DEF Flattens
<1>3. k \in Nat /\ k # 0
  BY <1>2
<1>4. k - 1 \in Nat /\ k - 1 \notin Unsolved
  BY <1>1, <1>3
<1>5. PICK g : Flattens(g, s, k - 1)
  BY <1>4
<1>6. \A i \in 1..k-1 : g[i] = Part(g, s, i)
  BY <1>5 DEF Flattens
<1> DEFINE h == [i \in 1..k |-> IF i < k THEN g[i] ELSE Part(g, s, i)]
<1>7. ASSUME NEW i \in 1..k PROVE h[i] = Part(h, s, i)
  <2>1. i # 1 => i - 1 \in 1..k /\ i - 1 < k /\ h[i-1] = g[i-1]
    BY <1>3
  <2>2. Part(h, s, i) = Part(g, s, i)
    BY <2>1 DEF Part
  <2>3. i < k => h[i] = Part(g, s, i)
    BY <1>3, <1>6
  <2> QED
    BY <2>2, <2>3
<1>8. Flattens(h, s, k)
  BY <1>7 DEF Flattens
<1> HIDE DEF h
<1> QED
  BY <1>8, <1>1

LEMMA FlattenEq ==
    ASSUME NEW A, NEW s \in Seq(Seq(A)), s # <<>>
    PROVE  \E g : Flattens(g, s, Len(s)) /\ FlattenSeq(s) = g[Len(s)]
<1> DEFINE F(g) == g = [i \in 1..Len(s) |-> IF i = 1 THEN s[i] ELSE g[i-1] \o s[i]]
           c == CHOOSE g : F(g)
<1>1. PICK p : Flattens(p, s, Len(s))
  <2>1. Len(s) \in Nat
    OBVIOUS
  <2> QED
    BY <2>1, FlattensExists
<1>2. F(c)
  <2>1. F(p)
    BY <1>1 DEF Flattens, Part
  <2> HIDE DEF F
  <2> QED
    BY <2>1
<1>3. FlattenSeq(s) = c[Len(s)]
  BY DEF FlattenSeq
<1>4. Flattens(c, s, Len(s))
  BY <1>2 DEF Flattens, Part
<1> HIDE DEF c
<1> QED
  BY <1>3, <1>4

\* It has the members' type
LEMMA FlattensType ==
    ASSUME NEW A, NEW s \in Seq(Seq(A)), NEW n \in 0..Len(s), NEW g, Flattens(g, s, n)
    PROVE  g \in [1..n -> Seq(A)]
<1> DEFINE Wrong == {i \in 1..n : g[i] \notin Seq(A)}
<1>1. \A i \in 1..n : g[i] = Part(g, s, i)
  BY DEF Flattens
<1>2. ASSUME Wrong # {} PROVE FALSE
  <2>1. PICK k \in Wrong : \A m \in Wrong : k <= m
    <3>1. Wrong \subseteq Nat
      OBVIOUS
    <3> HIDE DEF Wrong
    <3> QED
      BY <3>1, <1>2, LeastNatural
  <2>2. k = 1 \/ g[k-1] \in Seq(A)
    BY <2>1
  <2>3. s[k] \in Seq(A)
    OBVIOUS
  <2>4. Part(g, s, k) \in Seq(A)
    BY <2>2, <2>3 DEF Part
  <2> QED
    BY <2>4, <1>1
<1> QED
  BY <1>1, <1>2 DEF Flattens

\* and there is one only
LEMMA FlattensOnce ==
    ASSUME NEW s, NEW n \in Nat, NEW g, NEW h, Flattens(g, s, n), Flattens(h, s, n)
    PROVE  g = h
<1> DEFINE Differ == {i \in 1..n : g[i] # h[i]}
<1>1. \A i \in 1..n : g[i] = Part(g, s, i) /\ h[i] = Part(h, s, i)
  BY DEF Flattens
<1>2. ASSUME Differ # {} PROVE FALSE
  <2>1. PICK k \in Differ : \A d \in Differ : k <= d
    <3>1. Differ \subseteq Nat
      OBVIOUS
    <3> HIDE DEF Differ
    <3> QED
      BY <3>1, <1>2, LeastNatural
  <2>2. k = 1 \/ g[k-1] = h[k-1]
    BY <2>1
  <2>3. Part(g, s, k) = Part(h, s, k)
    BY <2>2 DEF Part
  <2> QED
    BY <2>3, <1>1
<1> QED
  BY <1>2 DEF Flattens

LEMMA FlattenType ==
    ASSUME NEW A, NEW s \in Seq(Seq(A))
    PROVE  FlattenSeq(s) \in Seq(A)
<1>1. CASE s = <<>>
  BY <1>1 DEF FlattenSeq
<1>2. CASE s # <<>>
  <2>1. Len(s) \in 1..Len(s)
    BY <1>2
  <2>2. PICK g : Flattens(g, s, Len(s)) /\ FlattenSeq(s) = g[Len(s)]
    BY <1>2, FlattenEq
  <2>3. Len(s) \in 0..Len(s)
    BY <2>1
  <2>4. g \in [1..Len(s) -> Seq(A)]
    BY <2>2, <2>3, FlattensType
  <2> QED
    BY <2>1, <2>2, <2>4
<1> QED
  BY <1>1, <1>2

LEMMA FlattenAppend ==
    ASSUME NEW A, NEW s \in Seq(Seq(A)), NEW x \in Seq(A)
    PROVE  FlattenSeq(Append(s, x)) = FlattenSeq(s) \o x
<1> DEFINE t == Append(s, x)
<1>0. PICK n \in Nat : n = Len(s)
  OBVIOUS
<1>1. /\ t \in Seq(Seq(A)) /\ t # <<>> /\ Len(t) = n + 1 /\ t[n+1] = x /\ n \in Nat
      /\ \A i \in 1..n : s[i] = t[i]
  BY <1>0, AppendProperties
<1> HIDE DEF t
<1>2. PICK h : Flattens(h, t, n + 1) /\ FlattenSeq(t) = h[n+1]
  BY <1>1, FlattenEq
<1>3. h[n+1] = Part(h, t, n + 1)
  <2>1. n + 1 \in 1..n+1
    BY <1>1
  <2> QED
    BY <2>1, <1>2 DEF Flattens
<1>4. CASE s = <<>>
  <2>1. n = 0 /\ FlattenSeq(s) = <<>>
    BY <1>0, <1>4 DEF FlattenSeq
  <2>2. FlattenSeq(t) = x
    BY <1>1, <1>2, <1>3, <2>1 DEF Part
  <2> QED
    BY <2>1, <2>2 DEF t
<1>5. CASE s # <<>>
  <2>1. PICK g : Flattens(g, s, n) /\ FlattenSeq(s) = g[n]
    BY <1>0, <1>5, FlattenEq
  <2>2. n \in 1..n
    BY <1>0, <1>5
  <2> DEFINE f == [i \in 1..n |-> h[i]]
  <2>3. ASSUME NEW i \in 1..n PROVE f[i] = Part(f, s, i)
    <3>0. i \in 1..n+1
      OBVIOUS
    <3>1. h[i] = Part(h, t, i)
      BY <1>2, <3>0 DEF Flattens
    <3>2. i # 1 => f[i-1] = h[i-1]
      OBVIOUS
    <3> QED
      BY <3>1, <3>2, <1>1 DEF Part
  <2>4. Flattens(f, s, n)
    BY <2>3 DEF Flattens
  <2>5. h[n] = f[n]
    BY <2>2
  <2>6. f = g
    <3> HIDE DEF f
    <3> QED
      BY <2>1, <2>4, FlattensOnce
  <2>7. FlattenSeq(t) = h[n] \o x
    BY <1>1, <1>2, <1>3, <2>2 DEF Part
  <2> QED
    BY <2>1, <2>5, <2>6, <2>7 DEF t
<1> QED
  BY <1>4, <1>5

LEMMA FlattenSplit ==
    ASSUME NEW A, NEW s \in Seq(Seq(A)), NEW n \in 0..Len(s)
    PROVE  FlattenSeq(s) = FlattenSeq(SubSeq(s, 1, n)) \o FlattenSeq(SubSeq(s, n + 1, Len(s)))
<1> DEFINE Splits(k) == FlattenSeq(SubSeq(s, 1, k))
                            = FlattenSeq(SubSeq(s, 1, n)) \o FlattenSeq(SubSeq(s, n + 1, k))
           Wrong == {k \in n..Len(s) : ~Splits(k)}
<1>1. Splits(n)
  <2> DEFINE a == SubSeq(s, 1, n)
             b == SubSeq(s, n + 1, n)
  <2>1. b = <<>> /\ a \in Seq(Seq(A))
    OBVIOUS
  <2> HIDE DEF a, b
  <2>2. FlattenSeq(b) = <<>>
    BY <2>1 DEF FlattenSeq
  <2>3. FlattenSeq(a) \in Seq(A)
    BY <2>1, FlattenType
  <2>4. FlattenSeq(a) = FlattenSeq(a) \o FlattenSeq(b)
    BY <2>2, <2>3, ConcatEmptySeq
  <2> QED
    BY <2>4 DEF a, b
<1>2. ASSUME NEW k \in n..Len(s), k # n, Splits(k - 1) PROVE Splits(k)
  <2> DEFINE a == SubSeq(s, 1, k - 1)
             b == SubSeq(s, n + 1, k - 1)
             c == SubSeq(s, 1, n)
  <2>1. a \in Seq(Seq(A)) /\ b \in Seq(Seq(A)) /\ c \in Seq(Seq(A)) /\ s[k] \in Seq(A)
    BY <1>2
  <2>2. SubSeq(s, 1, k) = Append(a, s[k]) /\ SubSeq(s, n + 1, k) = Append(b, s[k])
    BY SMTT(20), <1>2
  <2>3. FlattenSeq(a) = FlattenSeq(c) \o FlattenSeq(b)
    BY <1>2
  <2> HIDE DEF a, b, c
  <2>4. /\ FlattenSeq(Append(a, s[k])) = FlattenSeq(a) \o s[k]
        /\ FlattenSeq(Append(b, s[k])) = FlattenSeq(b) \o s[k]
    BY <2>1, FlattenAppend
  <2>5. FlattenSeq(c) \in Seq(A) /\ FlattenSeq(b) \in Seq(A)
    BY <2>1, FlattenType
  <2>6. FlattenSeq(Append(a, s[k])) = FlattenSeq(c) \o FlattenSeq(Append(b, s[k]))
    <3> DEFINE x == FlattenSeq(c)
               y == FlattenSeq(b)
               z == s[k]
    <3>1. x \in Seq(A) /\ y \in Seq(A) /\ z \in Seq(A)
      BY <2>1, <2>5
    <3> HIDE DEF x, y, z
    <3>2. (x \o y) \o z = x \o (y \o z)
      BY SMTT(20), <3>1, ConcatAssociative
    <3> QED
      BY <3>2, <2>3, <2>4 DEF x, y, z
  <2> QED
    BY <2>2, <2>6 DEF c
<1>3. ASSUME Wrong # {} PROVE FALSE
  <2>1. PICK k \in Wrong : \A d \in Wrong : k <= d
    <3>1. Wrong \subseteq Nat
      OBVIOUS
    <3> HIDE DEF Wrong
    <3> QED
      BY <3>1, <1>3, LeastNatural
  <2> HIDE DEF Splits
  <2>2. k # n /\ k \in n..Len(s)
    BY <1>1
  <2>3. Splits(k - 1)
    BY <2>1, <2>2
  <2> QED
    BY <1>2, <2>2, <2>3
<1>4. Splits(Len(s))
  <2> HIDE DEF Splits
  <2> QED
    BY <1>3
<1>5. SubSeq(s, 1, Len(s)) = s
  OBVIOUS
<1> QED
  BY <1>4, <1>5
-----------------------------------------------------------------------------
(***************************************************************************)
(* Every line is accounted for.                                            *)
(***************************************************************************)
Lines == Writers \X Nat

LinesTyped == /\ file \in Seq(Lines) /\ printed \in Seq(Lines) /\ pruned \in Seq(Lines)
              /\ archives \in Seq(Seq(Lines))

\* A line is numbered by how many were printed before it
Numbered == \A l \in ToSet(printed) : l[2] < Len(printed)

LinesInv == LinesTyped /\ LinesKept /\ Numbered /\ lost \subseteq ToSet(printed)

LEMMA Joined ==
    ASSUME NEW a \in Seq(Lines), NEW b \in Seq(Lines), NEW c \in Seq(Lines)
    PROVE  (a \o b) \o c = a \o (b \o c) /\ a \o b \in Seq(Lines) /\ b \o c \in Seq(Lines)
<1>1. a \o b \in Seq(Lines) /\ b \o c \in Seq(Lines)
  BY ConcatProperties
<1> QED
  BY <1>1, ConcatAssociative

LEMMA JoinedFour ==
    ASSUME NEW a \in Seq(Lines), NEW b \in Seq(Lines), NEW c \in Seq(Lines),
           NEW d \in Seq(Lines)
    PROVE  /\ ((a \o b) \o c) \o d = (a \o (b \o c)) \o d
           /\ (a \o b) \o (c \o d) = (a \o (b \o c)) \o d
           /\ a \o (b \o c) \in Seq(Lines)
<1>1. (a \o b) \o c = a \o (b \o c) /\ a \o b \in Seq(Lines) /\ b \o c \in Seq(Lines)
  BY Joined
<1>2. ((a \o b) \o c) \o d = (a \o b) \o (c \o d)
  <2> DEFINE ab == a \o b
  <2>1. ab \in Seq(Lines)
    BY <1>1
  <2> HIDE DEF ab
  <2>2. (ab \o c) \o d = ab \o (c \o d) /\ ab \o c \in Seq(Lines) /\ c \o d \in Seq(Lines)
    BY <2>1, Joined
  <2> QED BY <2>2 DEF ab
<1>3. a \o (b \o c) \in Seq(Lines)
  BY <1>1, ConcatProperties
<1> QED
  BY <1>1, <1>2, <1>3

\* What a loss does to lines in order: the rest are in order, and the others are gone.
LEMMA DropMiddle ==
    ASSUME NEW a \in Seq(Lines), NEW b \in Seq(Lines), NEW c \in Seq(Lines),
           InOrder((a \o b) \o c)
    PROVE  /\ InOrder(a \o c)
           /\ ToSet(a \o c) = ToSet((a \o b) \o c) \ ToSet(b)
<1> DEFINE s == (a \o b) \o c
           t == a \o c
<1>0. PICK n \in Nat, m \in Nat, k \in Nat : n = Len(a) /\ m = Len(b) /\ k = Len(c)
  OBVIOUS
<1> DEFINE To(i) == IF i <= n THEN i ELSE i + m
<1>1. s \in Seq(Lines) /\ Len(s) = n + m + k /\ t \in Seq(Lines) /\ Len(t) = n + k
  BY <1>0, ConcatProperties
<1>2. /\ \A i \in 1..n+k : To(i) \in 1..n+m+k /\ t[i] = s[To(i)]
      /\ \A i, j \in 1..n+k : i < j => To(i) < To(j)
  BY SMTT(30), <1>0
<1>3. \A j \in 1..m : n + j \in 1..n+m+k /\ s[n+j] = b[j]
  BY SMTT(30), <1>0
<1>4. \A i \in 1..n+k, j \in 1..m : To(i) # n + j
  OBVIOUS
<1>5. \A x \in 1..n+m+k : (\E i \in 1..n+k : x = To(i)) \/ (\E j \in 1..m : x = n + j)
  <2> SUFFICES ASSUME NEW x \in 1..n+m+k,
                      \A i \in 1..n+k : x # To(i), \A j \in 1..m : x # n + j
               PROVE  FALSE
    OBVIOUS
  <2>1. CASE x <= n
    BY <2>1
  <2>2. CASE x > n /\ x <= n + m
    <3>1. x - n \in 1..m /\ x = n + (x - n)
      BY <2>2
    <3> QED BY <3>1
  <2>3. CASE x > n + m
    <3>1. x - m \in 1..n+k /\ x = To(x - m)
      BY <2>3
    <3> QED BY <3>1
  <2> QED BY <2>1, <2>2, <2>3
<1> HIDE DEF To, s, t
<1>6. DOMAIN s = 1..n+m+k /\ DOMAIN t = 1..n+k /\ DOMAIN b = 1..m
  BY <1>0, <1>1
<1>7. \A x, y \in 1..n+m+k : s[x][2] \in Nat /\ (x < y => s[x][2] < s[y][2])
  <2>1. InOrder(s)
    BY DEF s
  <2>2. \A x \in 1..n+m+k : s[x] \in Lines
    BY <1>1, <1>6
  <2> QED BY <2>1, <2>2, <1>6 DEF InOrder, Lines
<1>8. \A x, y \in 1..n+m+k : s[x] = s[y] => x = y
  BY <1>7
<1>9. InOrder(t)
  BY <1>2, <1>6, <1>7 DEF InOrder
<1>10. ASSUME NEW l \in ToSet(t) PROVE l \in ToSet(s) /\ l \notin ToSet(b)
  <2>1. PICK i \in 1..n+k : l = t[i]
    BY <1>6 DEF ToSet
  <2>2. ASSUME NEW j \in 1..m, l = b[j] PROVE FALSE
    <3>1. s[To(i)] = s[n + j] /\ To(i) \in 1..n+m+k /\ n + j \in 1..n+m+k
      BY <2>1, <2>2, <1>2, <1>3
    <3>2. To(i) = n + j
      BY <3>1, <1>8
    <3> QED BY <3>2, <1>4
  <2> QED BY <2>1, <2>2, <1>2, <1>6 DEF ToSet
<1>11. ASSUME NEW l \in ToSet(s), l \notin ToSet(b) PROVE l \in ToSet(t)
  <2>1. PICK x \in 1..n+m+k : l = s[x]
    BY <1>6 DEF ToSet
  <2>2. \A j \in 1..m : x # n + j
    BY <1>3, <1>6, <1>11, <2>1 DEF ToSet
  <2>3. PICK i \in 1..n+k : x = To(i)
    BY <1>5, <2>2
  <2> QED BY <1>2, <1>6, <2>1, <2>3 DEF ToSet
<1> QED
  BY <1>9, <1>10, <1>11 DEF s, t

\* Pruning moves the oldest archives to what is removed: nothing is between them.
LEMMA PrunedInOrder ==
    ASSUME LinesTyped, NEW all \in Seq(Seq(Lines)), NEW n \in 0..Len(all),
           pruned' = pruned \o FlattenSeq(SubSeq(all, 1, n)),
           archives' = SubSeq(all, n + 1, Len(all)), file' = <<>>
    PROVE  /\ pruned' \in Seq(Lines) /\ archives' \in Seq(Seq(Lines))
           /\ Remaining' = pruned \o FlattenSeq(all)
<1> DEFINE old == SubSeq(all, 1, n)
           rest == SubSeq(all, n + 1, Len(all))
<1>1. old \in Seq(Seq(Lines)) /\ rest \in Seq(Seq(Lines))
  OBVIOUS
<1>2. FlattenSeq(all) = FlattenSeq(old) \o FlattenSeq(rest)
  BY FlattenSplit
<1> HIDE DEF old, rest
<1> DEFINE o == FlattenSeq(old)
           r == FlattenSeq(rest)
<1>3. o \in Seq(Lines) /\ r \in Seq(Lines)
  BY <1>1, FlattenType
<1>4. Remaining' = (pruned \o o) \o r \o <<>>
  BY DEF Remaining, old, rest
<1> HIDE DEF o, r
<1>5. pruned \o o \in Seq(Lines) /\ (pruned \o o) \o r \in Seq(Lines)
  BY <1>3 DEF LinesTyped
<1>6. ((pruned \o o) \o r) \o <<>> = (pruned \o o) \o r
  BY <1>5, ConcatEmptySeq
<1>7. (pruned \o o) \o r = pruned \o (o \o r)
  <2>1. pruned \in Seq(Lines)
    BY DEF LinesTyped
  <2> QED BY <1>3, <2>1, Joined
<1> QED
  BY <1>1, <1>2, <1>4, <1>5, <1>6, <1>7 DEF o, r, old, rest

\* tar takes the lines of the file, or those of the archive it overwrites, or both, from
\* the end of the sequence; what it leaves is the sequence without them.
LEMMA PackedInOrder ==
    ASSUME LinesTyped, NEW same \in BOOLEAN, same => archives # <<>>,
           NEW tar \in {"packed", "broken", "none"}
    PROVE  /\ Packed(same, tar) \in Seq(Seq(Lines))
           /\ \E a \in Seq(Lines), b \in Seq(Lines), c \in Seq(Lines) :
                /\ Remaining = (a \o b) \o c
                /\ pruned \o FlattenSeq(Packed(same, tar)) = a \o c
                /\ Cost(same, tar) = ToSet(b)
<1> DEFINE O == Others(same)
           over == IF same THEN Last(archives) ELSE <<>>
           F == FlattenSeq(O)
<1>1. /\ O \in Seq(Seq(Lines)) /\ over \in Seq(Lines)
      /\ same => archives = Append(O, over)
  BY DEF Others, Front, Last, LinesTyped
<1>2. F \in Seq(Lines)
  BY <1>1, FlattenType
<1>3. FlattenSeq(archives) = F \o over
  <2>1. CASE same
    BY <1>1, <2>1, FlattenAppend
  <2>2. CASE ~same
    <3>1. O = archives /\ over = <<>>
      BY <2>2 DEF Others
    <3> QED BY <3>1, <1>2, ConcatEmptySeq
  <2> QED BY <2>1, <2>2
<1>4. Cost(same, tar) = (IF tar # "none" THEN ToSet(over) ELSE {})
                            \cup (IF tar # "packed" THEN ToSet(file) ELSE {})
  <2>1. ToSet(<<>>) = {}
    BY DEF ToSet
  <2> QED BY <2>1 DEF Cost
<1>5. Packed(same, tar) = CASE tar = "packed" -> Append(O, file)
                            [] tar = "broken" -> Append(O, <<>>)
                            [] tar = "none" -> archives
  BY DEF Packed
<1> HIDE DEF O, over
<1>6. Packed(same, tar) \in Seq(Seq(Lines))
  <2>1. <<>> \in Seq(Lines)
    OBVIOUS
  <2> QED BY <1>1, <1>5, <2>1 DEF LinesTyped
<1>7. /\ FlattenSeq(Append(O, file)) = F \o file
      /\ FlattenSeq(Append(O, <<>>)) = F \o <<>>
  <2>1. file \in Seq(Lines) /\ <<>> \in Seq(Lines)
    BY DEF LinesTyped
  <2> QED BY <1>1, <2>1, FlattenAppend
<1> HIDE DEF F
<1> DEFINE P == pruned
           X == file
           e == <<>>
<1>8. P \in Seq(Lines) /\ X \in Seq(Lines) /\ e \in Seq(Lines)
  BY DEF LinesTyped
<1>9. Remaining = (P \o (F \o over)) \o X
  BY <1>3 DEF Remaining
<1>10. over \in Seq(Lines)
  BY <1>1
<1> HIDE DEF P, X, e
<1>11. /\ ((P \o F) \o over) \o X = (P \o (F \o over)) \o X
       /\ (P \o F) \o (over \o X) = (P \o (F \o over)) \o X
       /\ P \o (F \o over) \in Seq(Lines)
  <2>1. P \in Seq(Lines) /\ F \in Seq(Lines) /\ over \in Seq(Lines) /\ X \in Seq(Lines)
    BY <1>2, <1>8, <1>10
  <2> QED BY ONLY <2>1, JoinedFour
<1>12. /\ (P \o F) \o X = P \o (F \o X)
       /\ (P \o F) \o e = P \o (F \o e)
       /\ P \o F \in Seq(Lines) /\ over \o X \in Seq(Lines)
  <2> DEFINE Lists == Seq(Lines)
             Cat(a, b) == a \o b
  <2>1. P \in Lists /\ F \in Lists /\ over \in Lists /\ X \in Lists /\ e \in Lists
    BY <1>2, <1>8, <1>10
  <2>2. \A a, b, c \in Lists : Cat(Cat(a, b), c) = Cat(a, Cat(b, c)) /\ Cat(a, b) \in Lists
    BY Joined
  <2> HIDE DEF Lists, Cat
  <2>3. /\ Cat(Cat(P, F), X) = Cat(P, Cat(F, X))
        /\ Cat(Cat(P, F), e) = Cat(P, Cat(F, e))
        /\ Cat(P, F) \in Lists /\ Cat(over, X) \in Lists
    BY ONLY <2>1, <2>2
  <2> QED BY <2>3 DEF Cat, Lists
<1>13. CASE tar = "packed"
  <2>1. Cost(same, tar) = ToSet(over)
    BY <1>4, <1>13
  <2>2. pruned \o FlattenSeq(Packed(same, tar)) = P \o (F \o X)
    BY <1>5, <1>7, <1>13 DEF P, X
  <2>3. Remaining = ((P \o F) \o over) \o X
    BY <1>9, <1>11
  <2>4. pruned \o FlattenSeq(Packed(same, tar)) = (P \o F) \o X
    BY <1>12, <2>2
  <2> QED BY <1>6, <1>8, <1>10, <1>12, <2>1, <2>3, <2>4
<1>14. CASE tar = "broken"
  <2>1. ((P \o F) \o (over \o X)) \o e = (P \o F) \o (over \o X)
    <3> DEFINE G == (P \o F) \o (over \o X)
    <3>1. G \in Seq(Lines)
      BY <1>12, ConcatProperties
    <3> HIDE DEF G
    <3>2. G \o e = G
      BY <3>1, ConcatEmptySeq DEF e
    <3> QED BY <3>2 DEF G
  <2>2. P \o (F \o e) = (P \o F) \o e
    BY <1>12
  <2>3. Cost(same, tar) = ToSet(over \o X)
    <3>1. Cost(same, tar) = ToSet(over) \cup ToSet(X)
      BY <1>4, <1>14 DEF X
    <3>2. ToSet(over \o X) = ToSet(over) \cup ToSet(X)
      <4>1. Range(over \o X) = Range(over) \cup Range(X)
        BY <1>8, <1>10, RangeConcatenation
      <4> QED BY <4>1 DEF ToSet, Range
    <3> QED BY <3>1, <3>2
  <2>4. pruned \o FlattenSeq(Packed(same, tar)) = (P \o F) \o e
    <3>1. pruned \o FlattenSeq(Packed(same, tar)) = P \o (F \o e)
      BY <1>5, <1>7, <1>14 DEF P, e
    <3> QED BY <2>2, <3>1
  <2>5. Remaining = ((P \o F) \o (over \o X)) \o e
    BY <1>9, <1>11, <2>1
  <2> QED BY <1>6, <1>8, <1>12, <2>3, <2>4, <2>5
<1>15. CASE tar = "none"
  <2> DEFINE A == P \o (F \o over)
  <2>1. A \in Seq(Lines)
    BY <1>11
  <2> HIDE DEF A
  <2>2. (A \o X) \o e = A \o X /\ A \o e = A
    <3>1. A \o X \in Seq(Lines)
      BY <2>1, <1>8, ConcatProperties
    <3> QED BY <2>1, <3>1, ConcatEmptySeq DEF e
  <2>3. Cost(same, tar) = ToSet(X)
    BY <1>4, <1>15 DEF X
  <2>4. pruned \o FlattenSeq(Packed(same, tar)) = A
    BY <1>3, <1>5, <1>15 DEF P, A
  <2>5. Remaining = A \o X
    BY <1>9 DEF A
  <2> QED BY <1>6, <1>8, <2>1, <2>2, <2>3, <2>4, <2>5
<1> QED
  BY <1>13, <1>14, <1>15

LEMMA RotateKeepsLines ==
    ASSUME LinesInv, NEW w \in Writers, LogRotate(w)
    PROVE  LinesInv'
<1>1. PICK same \in {FALSE} \cup {"burst" \in Env /\ archives # <<>>}, tar \in TarResults :
        LET all == Packed(same, tar)
            n == Surplus(Len(all))
        IN /\ pruned' = pruned \o FlattenSeq(SubSeq(all, 1, n))
           /\ archives' = SubSeq(all, n + 1, Len(all))
           /\ lost' = lost \cup Cost(same, tar)
  BY DEF LogRotate
<1>2. /\ same \in BOOLEAN /\ (same => archives # <<>>)
      /\ tar \in {"packed", "broken", "none"}
  BY <1>1 DEF TarResults
<1> DEFINE all == Packed(same, tar)
           n == Surplus(Len(all))
<1>3. all \in Seq(Seq(Lines))
  BY <1>2, PackedInOrder DEF LinesInv
<1>4. PICK a \in Seq(Lines), b \in Seq(Lines), c \in Seq(Lines) :
        /\ Remaining = (a \o b) \o c
        /\ pruned \o FlattenSeq(all) = a \o c
        /\ Cost(same, tar) = ToSet(b)
  BY <1>2, PackedInOrder DEF LinesInv
<1>5. file' = <<>> /\ printed' = printed
  BY DEF LogRotate
<1>6. pruned' = pruned \o FlattenSeq(SubSeq(all, 1, n))
  BY <1>1
<1>7. archives' = SubSeq(all, n + 1, Len(all)) /\ lost' = lost \cup ToSet(b)
  BY <1>1, <1>4
<1> HIDE DEF all
<1>8. n \in 0..Len(all)
  BY <1>3, LogAssumption DEF Surplus, Keep
<1> HIDE DEF n
<1>9. /\ pruned' \in Seq(Lines) /\ archives' \in Seq(Seq(Lines))
      /\ Remaining' = a \o c
  BY <1>3, <1>4, <1>5, <1>6, <1>7, <1>8, PrunedInOrder DEF LinesInv
<1>10. InOrder(a \o c) /\ ToSet(a \o c) = ToSet(Remaining) \ ToSet(b)
  BY <1>4, DropMiddle DEF LinesInv, LinesKept
<1>11. ToSet(b) \subseteq ToSet(printed)
  <2>1. ToSet(b) \subseteq ToSet((a \o b) \o c)
    <3>1. ASSUME NEW j \in DOMAIN b PROVE \E i \in DOMAIN ((a \o b) \o c) : b[j] = ((a \o b) \o c)[i]
      <4>1. Len(a) + j \in DOMAIN ((a \o b) \o c) /\ b[j] = ((a \o b) \o c)[Len(a) + j]
        BY SMTT(20)
      <4> QED BY <4>1
    <3> QED BY <3>1 DEF ToSet
  <2> QED BY <2>1, <1>4 DEF LinesInv, LinesKept
<1>12. LinesTyped'
  BY <1>5, <1>9 DEF LinesInv, LinesTyped
<1>13. LinesKept'
  <2>1. InOrder(Remaining')
    BY <1>9, <1>10
  <2>2. ToSet(Remaining') = ToSet(printed') \ lost'
    BY <1>5, <1>7, <1>9, <1>10 DEF LinesInv, LinesKept
  <2> QED BY <2>1, <2>2 DEF LinesKept, InOrder
<1>14. Numbered' /\ lost' \subseteq ToSet(printed')
  BY <1>5, <1>7, <1>11 DEF LinesInv, Numbered
<1> QED
  BY <1>12, <1>13, <1>14 DEF LinesInv

LEMMA PrintKeepsLines ==
    ASSUME LinesInv, NEW w \in Writers, LogPrintLocked(w)
    PROVE  LinesInv'
<1> DEFINE line == <<w, Len(printed)>>
           before == pruned \o FlattenSeq(archives)
<1>1. /\ file' = Append(file, line) /\ printed' = Append(printed, line)
      /\ UNCHANGED <<pruned, archives, lost>>
  BY DEF LogPrintLocked
<1>2. line \in Lines /\ line[2] = Len(printed) /\ Len(printed) \in Nat
  BY DEF LinesInv, LinesTyped, Lines
<1>3. before \in Seq(Lines)
  BY FlattenType DEF LinesInv, LinesTyped
<1> HIDE DEF line, before
<1>4. LinesTyped'
  BY <1>1, <1>2 DEF LinesInv, LinesTyped
<1>5. Remaining = before \o file /\ file \in Seq(Lines) /\ Remaining \in Seq(Lines)
  BY <1>3 DEF before, LinesInv, LinesTyped, Remaining
<1>6. Remaining' = Append(Remaining, line)
  <2>1. before \o file \in Seq(Lines) /\ <<line>> \in Seq(Lines)
    BY <1>2, <1>3, <1>5, ConcatProperties
  <2>2. Append(before \o file, line) = (before \o file) \o <<line>>
    BY <1>2, <2>1, AppendIsConcat
  <2>3. Append(file, line) = file \o <<line>>
    BY <1>2, <1>5, AppendIsConcat
  <2>4. Remaining' = before \o Append(file, line)
    BY <1>1 DEF Remaining, before
  <2> QED
    BY <1>3, <1>5, <2>1, <2>2, <2>3, <2>4, ConcatAssociative
<1>7. ASSUME NEW s \in Seq(Lines) PROVE ToSet(Append(s, line)) = ToSet(s) \cup {line}
  <2>1. PICK n \in Nat : n = Len(s)
    OBVIOUS
  <2>2. DOMAIN s = 1..n /\ DOMAIN Append(s, line) = 1..n+1
    BY <1>2, <2>1
  <2>3. (\A i \in 1..n : Append(s, line)[i] = s[i]) /\ Append(s, line)[n + 1] = line
    BY <1>2, <2>1
  <2>4. 1..n+1 = 1..n \cup {n + 1}
    OBVIOUS
  <2> QED BY <2>2, <2>3, <2>4 DEF ToSet
<1>8. ToSet(printed') = ToSet(printed) \cup {line} /\ ToSet(Remaining') = ToSet(Remaining) \cup {line}
  BY <1>1, <1>5, <1>6, <1>7 DEF LinesInv, LinesTyped
<1>9. line \notin ToSet(printed) /\ line \notin lost
  BY <1>2 DEF LinesInv, Numbered
<1>10. Numbered'
  <2>1. Len(printed') = Len(printed) + 1
    BY <1>1, <1>2 DEF LinesInv, LinesTyped
  <2>2. ASSUME NEW l \in ToSet(printed) PROVE l[2] \in Nat /\ l[2] < Len(printed)
    <3>1. l \in Lines
      BY DEF ToSet, LinesInv, LinesTyped
    <3> QED BY <3>1 DEF LinesInv, Numbered, Lines
  <2> QED BY <1>2, <1>8, <2>1, <2>2 DEF Numbered
<1>11. InOrder(Remaining)'
  <2> DEFINE r == Remaining
  <2>1. InOrder(r) /\ r \in Seq(Lines) /\ ToSet(r) \subseteq ToSet(printed)
    BY <1>5 DEF LinesInv, LinesKept
  <2> HIDE DEF r
  <2>2. \A i \in 1..Len(r) : r[i][2] \in Nat /\ r[i][2] < line[2]
    <3>1. ASSUME NEW i \in 1..Len(r) PROVE r[i] \in Lines /\ r[i] \in ToSet(printed)
      BY <2>1 DEF ToSet
    <3> QED BY <3>1, <1>2 DEF LinesInv, Numbered, Lines
  <2>3. \A i, j \in 1..Len(r) : i < j => r[i][2] < r[j][2]
    BY <2>1 DEF InOrder
  <2>4. Len(r) \in Nat /\ Len(Append(r, line)) = Len(r) + 1
        /\ (\A i \in 1..Len(r) : Append(r, line)[i] = r[i]) /\ Append(r, line)[Len(r) + 1] = line
    BY <2>1, <1>2, AppendProperties
  <2>5. DOMAIN Append(r, line) = 1..Len(r)+1
    BY <2>1, <1>2
  <2>6. InOrder(Append(r, line))
    <3> SUFFICES ASSUME NEW i \in 1..Len(r)+1, NEW j \in 1..Len(r)+1, i < j
                 PROVE  Append(r, line)[i][2] < Append(r, line)[j][2]
      BY <2>5 DEF InOrder
    <3>1. i \in 1..Len(r)
      BY <2>4
    <3>2. CASE j \in 1..Len(r)
      BY <2>3, <2>4, <3>1, <3>2
    <3>3. CASE j = Len(r) + 1
      BY <2>2, <2>4, <3>1, <3>3
    <3> QED BY <3>2, <3>3, <2>4
  <2>7. Remaining' = Append(r, line)
    BY <1>6 DEF r
  <2> QED BY <2>6, <2>7 DEF InOrder
<1>12. LinesKept'
  <2>1. lost' = lost
    BY <1>1
  <2> QED BY <1>8, <1>9, <1>11, <2>1 DEF LinesInv, LinesKept
<1> QED
  BY <1>1, <1>4, <1>8, <1>10, <1>12 DEF LinesInv

LEMMA LinesStep ==
    ASSUME LinesInv, [Next]_vars
    PROVE  LinesInv'
<1>1. ASSUME UNCHANGED <<file, printed, pruned, archives, lost>> PROVE LinesInv'
  BY <1>1 DEF LinesInv, LinesTyped, LinesKept, Remaining, InOrder, Numbered
<1>2. CASE LogModuleInit \/ LogModuleExitBegins \/ LogModuleExitEnds
  BY <1>1, <1>2 DEF LogModuleInit, LogModuleExitBegins, LogModuleExitEnds
<1>3. ASSUME NEW w \in Writers, LogPrint(w) \/ LogPrintChecks(w) \/ LogFaults(w)
      PROVE  LinesInv'
  BY <1>1, <1>3 DEF LogPrint, LogPrintChecks, LogFaults
<1>4. CASE UNCHANGED vars
  BY <1>1, <1>4 DEF vars
<1> QED
  BY <1>2, <1>3, <1>4, RotateKeepsLines, PrintKeepsLines DEF Next, LogPrintStep

LEMMA LinesInit == Init => LinesInv
<1>1. FlattenSeq(<<>>) = <<>>
  BY DEF FlattenSeq
<1>2. <<>> = (<<>> \o <<>>) \o <<>>
  BY ConcatEmptySeq, EmptySeq
<1>3. Init => Remaining = <<>> /\ LinesTyped /\ printed = <<>> /\ lost = {}
  BY <1>1, <1>2 DEF Init, Remaining, LinesTyped
<1>4. InOrder(<<>>) /\ ToSet(<<>>) = {}
  BY DEF InOrder, ToSet
<1> QED
  BY <1>3, <1>4 DEF LinesInv, LinesKept, Numbered

\* Whatever tar does, however many rotations fall into one second, and however the module
\* is ended under its threads and started again: every line is where it should be, in
\* order and once, but those that a failed tar or an overwritten archive has cost.
THEOREM LinesAccountedFor == Spec => []LinesKept
<1>1. LinesInv => LinesKept
  BY DEF LinesInv
<1> QED
  BY LinesInit, LinesStep, <1>1, PTL DEF Spec

\* Every line printed is in an archive that was removed, in an archive or in the file, in
\* its order and once.
AllThere == InOrder(Remaining) /\ ToSet(Remaining) = ToSet(printed)

\* Where tar does not fail, and two rotations take a second each, no line is lost,
\* however many threads rotate for the same overflow.
THEOREM NoLineLost ==
    "tar" \notin Env /\ "burst" \notin Env => (Spec => []AllThere)
<1> SUFFICES ASSUME "tar" \notin Env, "burst" \notin Env PROVE Spec => []AllThere
  OBVIOUS
<1> DEFINE NoCost == lost = {}
<1>1. Init => NoCost
  BY DEF Init
<1>2. NoCost /\ [Next]_vars => NoCost'
  <2> SUFFICES ASSUME lost = {}, [Next]_vars PROVE lost' = {}
    OBVIOUS
  <2>1. ASSUME NEW w \in Writers, LogRotate(w) PROVE lost' = {}
    <3>1. ASSUME NEW same \in {FALSE}, NEW tar \in {"packed"} PROVE Cost(same, tar) = {}
      BY <3>1 DEF Cost
    <3>2. {FALSE} \cup {"burst" \in Env /\ archives # <<>>} = {FALSE} /\ TarResults = {"packed"}
      BY DEF TarResults
    <3>3. \E same \in {FALSE}, tar \in {"packed"} : lost' = lost \cup Cost(same, tar)
      BY <2>1, <3>2 DEF LogRotate
    <3> QED BY <3>1, <3>3
  <2>2. UNCHANGED lost \/ \E w \in Writers : LogRotate(w)
    BY DEF Next, LogPrintStep, LogModuleInit, LogModuleExitBegins, LogModuleExitEnds,
       LogPrint, LogPrintLocked, LogPrintChecks, LogFaults, vars
  <2> QED BY <2>1, <2>2
<1>3. NoCost /\ LinesKept => AllThere
  BY DEF LinesKept, AllThere
<1> HIDE DEF NoCost
<1> QED
  BY LinesAccountedFor, <1>1, <1>2, <1>3, PTL DEF Spec

-----------------------------------------------------------------------------
(***************************************************************************)
(* Archives.                                                               *)
(***************************************************************************)
FewArchives == archives \in Seq(Seq(Lines)) /\ file \in Seq(Lines) /\ ArchivesBounded

\* There is one more for a moment, within the rotation.
LEMMA RotatePrunes ==
    ASSUME "sh" \notin Env, FewArchives, NEW w \in Writers, LogRotate(w)
    PROVE  FewArchives'
<1>1. PICK same \in {FALSE} \cup {"burst" \in Env /\ archives # <<>>}, tar \in TarResults :
          archives' = SubSeq(Packed(same, tar), Surplus(Len(Packed(same, tar))) + 1,
                             Len(Packed(same, tar)))
  BY DEF LogRotate
<1> DEFINE all == Packed(same, tar)
           n == Surplus(Len(all))
<1>2. all \in Seq(Seq(Lines))
  <2>1. same \in BOOLEAN /\ (same => archives # <<>>) /\ tar \in {"packed", "broken", "none"}
    BY <1>1 DEF TarResults
  <2>2. Others(same) \in Seq(Seq(Lines))
    BY <2>1 DEF Front, FewArchives, Others
  <2>3. <<>> \in Seq(Lines)
    OBVIOUS
  <2> QED
    BY <2>1, <2>2, <2>3 DEF Packed, FewArchives
<1>3. Len(all) \in Nat
  BY <1>2
<1> HIDE DEF all
<1>4. n \in 0..Len(all) /\ Len(all) - n <= LogMaxNum
  BY <1>3, LogAssumption DEF Surplus, Keep
<1>5. archives' = SubSeq(all, n + 1, Len(all))
  BY <1>1 DEF all
<1> HIDE DEF n
<1>6. archives' \in Seq(Seq(Lines)) /\ Len(archives') = Len(all) - n
  BY <1>2, <1>3, <1>4, <1>5
<1> QED
  BY SMTT(20), <1>4, <1>6 DEF FewArchives, ArchivesBounded, LogRotate

LEMMA ArchivesStep ==
    ASSUME "sh" \notin Env, FewArchives, printed \in Seq(Lines), [Next]_vars
    PROVE  FewArchives'
<1>1. ASSUME UNCHANGED <<archives, file>> PROVE FewArchives'
  BY <1>1 DEF FewArchives, ArchivesBounded
<1>2. CASE LogModuleInit \/ LogModuleExitBegins \/ LogModuleExitEnds
  BY <1>1, <1>2 DEF LogModuleInit, LogModuleExitBegins, LogModuleExitEnds
<1>3. ASSUME NEW w \in Writers, LogPrint(w) \/ LogPrintChecks(w) \/ LogFaults(w)
      PROVE  FewArchives'
  BY <1>1, <1>3 DEF LogPrint, LogPrintChecks, LogFaults
<1>4. ASSUME NEW w \in Writers, LogPrintLocked(w) PROVE FewArchives'
  BY <1>4 DEF LogPrintLocked, FewArchives, ArchivesBounded, Lines
<1>5. CASE UNCHANGED vars
  BY <1>1, <1>5 DEF vars
<1> QED
  BY <1>2, <1>3, <1>4, <1>5, RotatePrunes DEF Next, LogPrintStep

\* However many rotations threads make, and whatever archives overwrite each other,
\* there are never more than LogMaxNum of them; unless the shell has no pushd.
THEOREM ArchivesStayFew == "sh" \notin Env => (Spec => []ArchivesBounded)
<1> SUFFICES ASSUME "sh" \notin Env PROVE Spec => []ArchivesBounded
  OBVIOUS
<1> DEFINE Inv == FewArchives /\ printed \in Seq(Lines)
<1>1. Init => Inv
  BY LogAssumption DEF Init, FewArchives, ArchivesBounded
<1>2. Inv /\ [Next]_vars => Inv'
  <2> SUFFICES ASSUME Inv, [Next]_vars PROVE Inv'
    OBVIOUS
  <2>1. printed' \in Seq(Lines)
    <3>1. ASSUME NEW w \in Writers, LogPrintLocked(w) PROVE printed' \in Seq(Lines)
      BY <3>1 DEF LogPrintLocked, Lines
    <3>2. ASSUME printed' = printed PROVE printed' \in Seq(Lines)
      BY <3>2
    <3>3. printed' = printed \/ \E w \in Writers : LogPrintLocked(w)
      BY DEF Next, LogPrintStep, LogModuleInit, LogModuleExitBegins, LogModuleExitEnds,
         LogPrint, LogPrintChecks, LogRotate, LogFaults, vars
    <3> QED
      BY <3>1, <3>2, <3>3
  <2> QED
    BY <2>1, ArchivesStep
<1>3. Inv => ArchivesBounded
  BY DEF FewArchives
<1> QED
  BY <1>1, <1>2, <1>3, PTL DEF Spec
=============================================================================
