------------------------------ MODULE MemProofs ------------------------------
(***************************************************************************)
(* For every set of modules and blocks and every number of slots: the slots*)
(* of the accounting table are owned as OwnSlots says, unless the module is*)
(* ended while somebody is registered; and the verdict of MemUnRegister is *)
(* right, unless also somebody unregisters a module that is in use.        *)
(***************************************************************************)
EXTENDS Mem, FiniteSetTheorems, TLAPS

\* Between MemModuleExit and the next MemModuleInit nobody but the main module has
\* an id: without it an id of the old table could look right in the new one.
NoStaleId == ~inited => \A u \in Users : memId[u] = Invalid

\* OwnSlots, without its condition where the table survives.
IdsRight ==
    /\ \A u \in Users : memId[u] # Invalid => HasSlot(u)
    /\ inited => HasSlot(Main)
    /\ \A u, v \in Owners :
          inited /\ memId[u] = memId[v] /\ memId[u] # Invalid => u = v
    /\ \A i \in Slots : inited /\ Registered(i) => \E u \in Owners : memId[u] = i

MemInv == TypeOK /\ NoStaleId /\ IdsRight

\* A fresh entry is one for its own slot.
LEMMA EntryType ==
    /\ Empty \in [Registered : BOOLEAN, MemModuleId : Slots]
    /\ Empty.Registered = FALSE
    /\ \A i \in Slots :
         /\ Entry(i) \in [Registered : BOOLEAN, MemModuleId : Slots]
         /\ Entry(i).Registered = TRUE /\ Entry(i).MemModuleId = i
  BY MemAssumption DEF Empty, Entry, Slots

\* All conjuncts of the invariant hold before MemModuleInit.
LEMMA InitMem == Init => MemInv
<1> SUFFICES ASSUME Init PROVE MemInv
  OBVIOUS
<1>1. TypeOK
  <2>1. 0 \in Slots /\ 0 \in 0..Lives /\ Invalid = -1
    BY MemAssumption DEF Slots, Invalid
  <2>2. block \in [Blocks -> {"none", "taken", "live", "lost", "gone", "freed"}]
    BY DEF Init
  <2>3. verdict \in [Owners -> {"none", "SUCCESS", "MEM_LEAK"}]
    BY DEF Init
  <2> QED
    BY <2>1, <2>2, <2>3, EntryType DEF Init, TypeOK, Owners
<1>2. NoStaleId /\ IdsRight
  BY DEF Init, NoStaleId, IdsRight, Owners, HasSlot, Registered, Slots, Invalid
<1> QED
  BY <1>1, <1>2 DEF MemInv

\* Types are kept by every action.
LEMMA TypeStep == TypeOK /\ [Next]_vars => TypeOK'
<1> SUFFICES ASSUME TypeOK, [Next]_vars PROVE TypeOK'
  OBVIOUS
<1> USE MemAssumption DEF TypeOK
<1>1. CASE MemModuleInit
  <2>1. 0 \in Slots
    BY DEF Slots
  <2> QED
    BY <1>1, <2>1, EntryType DEF MemModuleInit, Owners
<1>2. CASE MemModuleExit
  BY <1>2 DEF MemModuleExit, Owners, bytes
<1>3. ASSUME NEW u \in Users, MemRegister(u) PROVE TypeOK'
  BY <1>3, EntryType DEF MemRegister, Owners
<1>4. ASSUME NEW u \in Users, MemUnRegister(u) PROVE TypeOK'
  BY <1>4, EntryType DEF MemUnRegister, Owners, Invalid, Lost
<1>5. ASSUME NEW u \in Owners, NEW b \in Blocks, MemCalloc(u, b) PROVE TypeOK'
  BY <1>5 DEF MemCalloc, Registered, bytes
<1>6. ASSUME NEW b \in Blocks, MemCallocCounts(b) PROVE TypeOK'
  BY <1>6 DEF MemCallocCounts, Registered, bytes
<1>7. ASSUME NEW b \in Blocks, MemFree(b) PROVE TypeOK'
  BY <1>7 DEF MemFree, Registered, bytes
<1>8. ASSUME NEW b \in Blocks, MemFreeCounts(b) PROVE TypeOK'
  <2>1. PrefixSize(b) \in Nat
    BY DEF PrefixSize
  <2> QED
    BY <1>8, <2>1 DEF MemFreeCounts, Registered, bytes
<1>9. CASE UNCHANGED vars
  BY <1>9 DEF vars, bytes
<1> QED
  BY <1>1, <1>2, <1>3, <1>4, <1>5, <1>6, <1>7, <1>8, <1>9 DEF Next

\* Counting in a slot does not touch who has it.
LEMMA SameIds ==
    ASSUME NoStaleId, IdsRight, UNCHANGED <<inited, memId, nodes>>
    PROVE  NoStaleId' /\ IdsRight'
<1>1. \A u \in Owners : HasSlot(u)' <=> HasSlot(u)
  BY DEF HasSlot, Registered
<1>2. \A i \in Slots : Registered(i)' <=> Registered(i)
  BY DEF Registered
<1> QED
  BY <1>1, <1>2 DEF NoStaleId, IdsRight, Owners

\* Ids and slots keep to each other in every action.
LEMMA IdsStep ==
    ASSUME "skip" \notin Env, MemInv, [Next]_vars
    PROVE  NoStaleId' /\ IdsRight'
<1> USE DEF MemInv
<1>1. CASE MemModuleInit
  <2>1. /\ inited' /\ ~inited /\ 0 \in Slots
        /\ nodes' = [i \in Slots |-> IF i = 0 THEN Entry(0) ELSE Empty]
        /\ memId' = [memId EXCEPT ![Main] = 0]
    BY <1>1, MemAssumption DEF MemModuleInit, Slots
  <2>2. \A u \in Users : memId'[u] = Invalid
    BY <2>1, MemAssumption DEF NoStaleId, TypeOK, Owners
  <2>3. memId'[Main] = 0 /\ nodes'[0].Registered /\ nodes'[0].MemModuleId = 0
    BY <2>1, EntryType DEF TypeOK, Owners
  <2>4. \A i \in Slots : nodes'[i].Registered => i = 0
    BY <2>1, EntryType
  <2> QED
    BY <2>1, <2>2, <2>3, <2>4 DEF NoStaleId, IdsRight, HasSlot, Registered, Owners, Invalid
<1>2. CASE MemModuleExit
  <2>1. \A u \in Users : memId[u] = Invalid
    BY <1>2 DEF MemModuleExit, IdsRight
  <2> QED
    BY <1>2, <2>1 DEF MemModuleExit, NoStaleId, IdsRight
<1>3. ASSUME NEW u \in Users, MemRegister(u) PROVE NoStaleId' /\ IdsRight'
  <2>1. PICK i \in Slots : /\ FirstFree(i)
                           /\ nodes' = [nodes EXCEPT ![i] = Entry(i)]
                           /\ memId' = [memId EXCEPT ![u] = i]
    BY <1>3 DEF MemRegister
  <2>2. inited /\ inited' /\ memId[u] = Invalid /\ ~nodes[i].Registered
    BY <1>3, <2>1 DEF MemRegister, IdsRight, FirstFree, Registered
  <2>3. /\ nodes'[i].Registered /\ nodes'[i].MemModuleId = i /\ memId'[u] = i
        /\ \A j \in Slots \ {i} : nodes'[j] = nodes[j]
        /\ \A v \in Owners \ {u} : memId'[v] = memId[v]
    BY <2>1, EntryType DEF TypeOK, Owners
  <2>4. \A v \in Owners \ {u} : memId[v] # i
    <3>1. i # Invalid
      BY DEF Slots, Invalid
    <3>2. \A v \in Owners : memId[v] # Invalid => HasSlot(v)
      BY <2>2 DEF IdsRight, Owners
    <3> QED
      BY <2>2, <3>1, <3>2 DEF HasSlot, Registered
  <2>5. \A v \in Owners : memId[v] # Invalid => HasSlot(v)' /\ memId[v] # i
    BY <2>2, <2>3, <2>4 DEF IdsRight, HasSlot, Registered, Owners
  <2>6. HasSlot(u)' /\ HasSlot(Main)'
    BY <2>2, <2>3, <2>4, MemAssumption DEF IdsRight, HasSlot, Registered, Owners
  <2>7. \A v, w \in Owners : memId'[v] = memId'[w] /\ memId'[v] # Invalid => v = w
    BY <2>2, <2>3, <2>4 DEF IdsRight, Owners
  <2>8. \A j \in Slots : Registered(j)' => \E v \in Owners : memId'[v] = j
    <3> SUFFICES ASSUME NEW j \in Slots, Registered(j)'
                 PROVE  \E v \in Owners : memId'[v] = j
      OBVIOUS
    <3>1. CASE j = i
      BY <3>1, <2>3 DEF Owners
    <3>2. CASE j # i
      <4>1. PICK v \in Owners : memId[v] = j
        BY <3>2, <2>2, <2>3 DEF Registered, IdsRight
      <4>2. v # u
        BY <4>1, <2>2 DEF Slots, Invalid
      <4> QED
        BY <4>1, <4>2, <2>3
    <3> QED
      BY <3>1, <3>2
  <2>9. \A v \in Users : memId'[v] # Invalid => HasSlot(v)'
    BY <2>3, <2>5, <2>6 DEF Owners
  <2> QED
    BY <2>2, <2>6, <2>7, <2>8, <2>9 DEF NoStaleId, IdsRight
<1>4. ASSUME NEW u \in Users, MemUnRegister(u) PROVE NoStaleId' /\ IdsRight'
  <2> DEFINE i == memId[u]
  <2>1. /\ inited /\ inited' /\ i \in Slots /\ u \in Owners /\ u # Main
        /\ nodes' = [nodes EXCEPT ![i] = Empty]
        /\ memId' = [memId EXCEPT ![u] = Invalid]
    BY <1>4, MemAssumption DEF MemUnRegister, HasSlot, Registered, Owners
  <2>2. i # Invalid
    BY <2>1 DEF Slots, Invalid
  <2>3. \A v \in Owners \ {u} : memId[v] # i /\ memId'[v] = memId[v]
    BY <2>1, <2>2 DEF IdsRight, TypeOK
  <2>4. ~nodes'[i].Registered /\ \A j \in Slots \ {i} : nodes'[j] = nodes[j]
    BY <2>1, EntryType DEF TypeOK
  <2>5. memId'[u] = Invalid
    BY <2>1 DEF TypeOK
  <2>6. \A v \in Owners \ {u} : HasSlot(v) => HasSlot(v)'
    BY <2>3, <2>4 DEF HasSlot, Registered
  <2>7. \A j \in Slots : Registered(j)' => \E v \in Owners : memId'[v] = j
    <3> SUFFICES ASSUME NEW j \in Slots, Registered(j)'
                 PROVE  \E v \in Owners : memId'[v] = j
      OBVIOUS
    <3>1. j # i /\ Registered(j)
      BY <2>4 DEF Registered
    <3>2. PICK v \in Owners : memId[v] = j
      BY <3>1, <2>1 DEF IdsRight
    <3> QED
      BY <3>1, <3>2, <2>3
  <2> QED
    BY <2>1, <2>3, <2>5, <2>6, <2>7 DEF NoStaleId, IdsRight, Owners
<1>5. ASSUME NEW u \in Owners, NEW b \in Blocks, MemCalloc(u, b)
      PROVE NoStaleId' /\ IdsRight'
  BY <1>5, SameIds DEF MemCalloc
<1>6. ASSUME NEW b \in Blocks, MemCallocCounts(b) PROVE NoStaleId' /\ IdsRight'
  BY <1>6, SameIds DEF MemCallocCounts
<1>7. ASSUME NEW b \in Blocks, MemFree(b) PROVE NoStaleId' /\ IdsRight'
  BY <1>7, SameIds DEF MemFree
<1>8. ASSUME NEW b \in Blocks, MemFreeCounts(b) PROVE NoStaleId' /\ IdsRight'
  BY <1>8, SameIds DEF MemFreeCounts
<1>9. CASE UNCHANGED vars
  BY <1>9, SameIds DEF vars, bytes
<1> QED
  BY <1>1, <1>2, <1>3, <1>4, <1>5, <1>6, <1>7, <1>8, <1>9 DEF Next

\* As long as nobody skips MemUnRegister before MemModuleExit, each module with an id
\* has a slot to itself and every taken slot has a module: myMem.c:55-76, 95-105.
THEOREM SlotsOwned ==
    ASSUME "skip" \notin Env
    PROVE  Spec => []OwnSlots
<1>1. MemInv /\ [Next]_vars => MemInv'
  BY TypeStep, IdsStep DEF MemInv
<1>2. MemInv => OwnSlots
  BY DEF MemInv, IdsRight, OwnSlots, Owners
<1> QED
  BY InitMem, <1>1, <1>2, PTL DEF Spec

\* The types of the accounting's variables.
THEOREM MemTypes == Spec => []TypeOK
<1>1. Init => TypeOK
  BY InitMem DEF MemInv
<1> QED
  BY <1>1, TypeStep, PTL DEF Spec
-----------------------------------------------------------------------------
(***************************************************************************)
(* The verdict compares two sums of sizes.  They differ by the sizes of the*)
(* blocks counted in and not yet out: the number of the bytes, as pairs of *)
(* a block and a position, of those blocks.                                *)
(***************************************************************************)
Bytes(S) == {p \in Blocks \X (1..MaxSize) : p[1] \in S /\ p[2] <= Size(p[1])}
Weight(S) == Cardinality(Bytes(S))

\* The blocks of a module that MemCalloc has counted and MemFree has not.
Counted(u) == {b \in Blocks : owner[b] = u /\ block[b] \in {"live", "gone"}}

\* A call inside MemCalloc or MemFree will count in the slot of its module ...
SlotRight == \A b \in Blocks :
    block[b] \in {"taken", "gone"} => slot[b] = memId[owner[b]]
\* ... a block was small enough for its prefix ...
Fitted == \A b \in Blocks : block[b] # "none" => Fits(b)
\* ... a module without a slot has no block in use ...
NoneInUse == \A b \in Blocks :
    memId[owner[b]] = Invalid => block[b] \notin {"taken", "live", "gone"}
\* ... and its two sums differ by what is counted in and not out.
SumsRight == \A u \in Users : memId[u] # Invalid =>
    alloced[memId[u]] = freed[memId[u]] + Weight(Counted(u))

\* The main module's slot is the first
MainFirst == memId[Main] \in {Invalid, 0}

VerdictInv == MemInv /\ MainFirst /\ SlotRight /\ Fitted /\ NoneInUse /\ SumsRight

\* There are finitely many bytes.
LEMMA BytesFinite == ASSUME NEW S PROVE IsFiniteSet(Bytes(S)) /\ Weight(S) \in Nat
<1>1. IsFiniteSet(Blocks \X (1..MaxSize))
  <2>1. MaxSize \in Int /\ 1 \in Int /\ IsFiniteSet(Blocks)
    BY MemAssumption
  <2>2. IsFiniteSet(1..MaxSize)
    BY ONLY <2>1, FS_Interval
  <2> QED
    BY <2>1, <2>2, FS_Product
<1>2. IsFiniteSet(Bytes(S))
  BY <1>1, FS_Subset DEF Bytes
<1> QED
  BY <1>2, FS_CardinalityType DEF Weight

\* One more block, of a size MemCalloc accepts, adds its size.
LEMMA WeightAdds ==
    ASSUME NEW S, NEW b \in Blocks, b \notin S, Fits(b)
    PROVE  Weight(S \cup {b}) = Weight(S) + Size(b)
<1> DEFINE T == {b} \X (1..Size(b))
<1>1. Size(b) \in Nat /\ Size(b) <= MaxSize
  BY MemAssumption DEF Fits
<1>2. IsFiniteSet(T) /\ Cardinality(T) = Size(b)
  <2>1. IsFiniteSet({b}) /\ Cardinality({b}) = 1
    BY FS_Singleton
  <2>2. IsFiniteSet(1..Size(b)) /\ Cardinality(1..Size(b)) = Size(b)
    BY <1>1, FS_Interval
  <2>3. IsFiniteSet(T) /\ Cardinality(T) = Cardinality({b}) * Cardinality(1..Size(b))
    BY <2>1, <2>2, FS_Product
  <2> HIDE DEF T
  <2> QED
    BY <1>1, <2>1, <2>2, <2>3
<1>3. Bytes(S \cup {b}) = Bytes(S) \cup T
  BY <1>1, MemAssumption DEF Bytes
<1>4. Bytes(S) \cap T = {}
  BY DEF Bytes
<1>5. Cardinality(Bytes(S) \cup T) = Cardinality(Bytes(S)) + Cardinality(T) - 0
  BY <1>2, <1>4, BytesFinite, FS_Union, FS_EmptySet
<1>6. Cardinality(Bytes(S)) \in Nat
  BY BytesFinite DEF Weight
<1>7. Weight(S \cup {b}) = Cardinality(Bytes(S) \cup T)
  BY <1>3, Zenon DEF Weight
<1> HIDE DEF T
<1> QED
  BY <1>1, <1>2, <1>5, <1>6, <1>7 DEF Weight

\* Only a block of some size weighs anything.
LEMMA WeightZero ==
    ASSUME NEW S \in SUBSET Blocks, \A b \in S : Fits(b)
    PROVE  Weight(S) = 0 <=> \A b \in S : ~(Size(b) > 0)
<1>1. Weight(S) = 0 <=> Bytes(S) = {}
  BY BytesFinite, FS_EmptySet DEF Weight
<1>2. ASSUME NEW b \in S, Size(b) > 0 PROVE Bytes(S) # {}
  <2>1. <<b, 1>> \in Bytes(S)
    BY <1>2, MemAssumption DEF Bytes, Fits
  <2> QED
    BY <2>1
<1>3. ASSUME NEW p \in Bytes(S) PROVE p[1] \in S /\ Size(p[1]) > 0
  BY MemAssumption DEF Bytes
<1> QED
  BY <1>1, <1>2, <1>3

\* The prefix holds the size of a block that fits.
LEMMA PrefixWhole == ASSUME NEW b \in Blocks, Fits(b) PROVE PrefixSize(b) = Size(b)
<1>1. Size(b) \in Nat /\ MaxSize \in Nat /\ Size(b) <= MaxSize
  BY MemAssumption DEF Fits
<1> QED
  BY <1>1 DEF PrefixSize

\* Nothing is allocated at first.
LEMMA VerdictInit == Init => VerdictInv
<1> SUFFICES ASSUME Init PROVE VerdictInv
  OBVIOUS
<1>1. MainFirst /\ SlotRight /\ Fitted /\ NoneInUse /\ SumsRight
  BY DEF Init, MainFirst, SlotRight, Fitted, NoneInUse, SumsRight, Owners
<1> QED
  BY <1>1, InitMem DEF VerdictInv
\* A step outside the table and the blocks disturbs nothing.
LEMMA VerdictSame ==
    ASSUME VerdictInv, UNCHANGED <<memId, bytes, block, owner, slot>>
    PROVE  MainFirst' /\ SlotRight' /\ Fitted' /\ NoneInUse' /\ SumsRight'
<1>1. \A u \in Users : Counted(u)' = Counted(u)
  BY DEF Counted
<1>2. \A S : Weight(S)' = Weight(S)
  BY DEF Weight, Bytes
<1> QED
  BY <1>1 DEF VerdictInv, MainFirst, SlotRight, Fitted, NoneInUse, SumsRight, bytes, Weight, Bytes

\* The sums and the blocks keep to each other in every action.
LEMMA VerdictStep ==
    ASSUME Env = {}, VerdictInv, MemInv', [Next]_vars
    PROVE  VerdictInv'
<1> USE DEF VerdictInv
<1> DEFINE P == MainFirst' /\ SlotRight' /\ Fitted' /\ NoneInUse' /\ SumsRight'
<1> SUFFICES P
  OBVIOUS
<1> USE MemAssumption DEF MemInv, TypeOK
<1>1. CASE MemModuleInit
  <2>1. ~inited /\ memId' = [memId EXCEPT ![Main] = 0] /\ UNCHANGED <<block, owner, slot>>
    BY <1>1 DEF MemModuleInit
  <2>2. \A u \in Users : memId[u] = Invalid /\ memId'[u] = Invalid
    BY <2>1 DEF NoStaleId, Owners
  <2>3. memId[Main] \in {Invalid, 0} /\ memId'[Main] = 0
    BY <2>1 DEF Owners, MainFirst
  <2> QED
    BY <2>1, <2>2, <2>3 DEF MainFirst, SlotRight, Fitted, NoneInUse, SumsRight, Owners, Invalid
<1>2. CASE MemModuleExit
  BY <1>2, VerdictSame DEF MemModuleExit
<1>3. ASSUME NEW u \in Users, MemRegister(u) PROVE P
  <2>1. PICK i \in Slots : /\ FirstFree(i)
                           /\ alloced' = [alloced EXCEPT ![i] = 0]
                           /\ freed' = [freed EXCEPT ![i] = 0]
                           /\ memId' = [memId EXCEPT ![u] = i]
    BY <1>3 DEF MemRegister
  <2>2. /\ UNCHANGED <<block, owner, slot>> /\ memId[u] = Invalid /\ u # Main
        /\ u \in Owners /\ ~Registered(i) /\ i # Invalid
    <3>1. u # Main /\ u \in Owners
      BY DEF Owners
    <3>2. i # Invalid /\ ~Registered(i)
      BY <2>1 DEF FirstFree, Slots, Invalid
    <3> QED
      BY <1>3, <3>1, <3>2 DEF MemRegister, IdsRight
  <2>3. \A v \in Owners : v # u => memId'[v] = memId[v]
    BY <2>1
  <2>4. MainFirst' /\ Fitted'
    BY <2>2, <2>3 DEF MainFirst, Fitted, Fits, Owners
  <2>5. SlotRight' /\ NoneInUse'
    BY <2>1, <2>2, <2>3 DEF SlotRight, NoneInUse
  <2>6. \A v \in Users : Counted(v)' = Counted(v)
    BY <2>2 DEF Counted
  <2>7. Counted(u) = {} /\ Weight({}) = 0
    BY <2>2, WeightZero DEF Counted, NoneInUse
  <2>8. \A v \in Users : v # u /\ memId[v] # Invalid => memId[v] # i /\ memId[v] \in Slots
    BY <2>2 DEF IdsRight, HasSlot, Registered, Owners
  <2>9. memId'[u] = i /\ alloced'[i] = 0 /\ freed'[i] = 0
    BY <2>1, <2>2
  <2>10. \A v \in Users : memId'[v] # Invalid =>
            alloced'[memId'[v]] = freed'[memId'[v]] + Weight(Counted(v))
    <3> TAKE v \in Users
    <3>1. CASE v = u
      BY <3>1, <2>7, <2>9
    <3>2. CASE v # u
      BY <3>2, <2>1, <2>3, <2>8 DEF SumsRight, Owners
    <3> QED
      BY <3>1, <3>2
  <2> QED
    BY <2>4, <2>5, <2>6, <2>10 DEF SumsRight, Weight, Bytes
<1>4. ASSUME NEW u \in Users, MemUnRegister(u) PROVE P
  <2> DEFINE i == memId[u]
  <2>1. /\ i \in Slots /\ i # Invalid /\ u \in Owners /\ u # Main /\ inited
        /\ alloced' = [alloced EXCEPT ![i] = 0] /\ freed' = [freed EXCEPT ![i] = 0]
        /\ memId' = [memId EXCEPT ![u] = Invalid]
        /\ block' = Lost(u) /\ UNCHANGED <<owner, slot>>
        /\ ~InCalloc(u) /\ ~InFree(u)
    <3>1. u # Main /\ u \in Owners
      BY DEF Owners
    <3>2. i \in Slots /\ i # Invalid
      BY <1>4 DEF MemUnRegister, HasSlot, Registered, Slots, Invalid
    <3> QED
      BY <1>4, <3>1, <3>2 DEF MemUnRegister
  <2>2. memId'[u] = Invalid /\ \A v \in Owners : v # u => memId'[v] = memId[v]
    BY <2>1
  <2>3. \A b \in Blocks : block[b] # "none" \/ block'[b] = "none"
    BY <2>1 DEF Lost
  <2>4. \A b \in Blocks : IF owner[b] = u THEN block'[b] \notin {"taken", "live", "gone"}
                                         ELSE block'[b] = block[b]
    BY <2>1 DEF Lost, InCalloc, InFree
  <2>5. MainFirst' /\ Fitted'
    BY <2>1, <2>2, <2>3 DEF MainFirst, Fitted, Fits, Owners
  <2>6. SlotRight' /\ NoneInUse'
    BY <2>1, <2>2, <2>4 DEF SlotRight, NoneInUse
  <2>7. \A v \in Users : v # u => Counted(v)' = Counted(v)
    BY <2>1, <2>4 DEF Counted
  <2>8. \A v \in Users : v # u /\ memId[v] # Invalid => memId[v] # i /\ memId[v] \in Slots
    BY <2>1 DEF IdsRight, Owners, Invalid
  <2>9. ASSUME NEW v \in Users, memId'[v] # Invalid
        PROVE  alloced'[memId'[v]] = freed'[memId'[v]] + Weight(Counted(v))
    BY <2>1, <2>2, <2>8, <2>9 DEF SumsRight, Owners
  <2>10. \A v \in Users : memId'[v] # Invalid => Weight(Counted(v)') = Weight(Counted(v))
    BY <2>2, <2>7
  <2>11. SumsRight'
    BY <2>9, <2>10 DEF SumsRight, Weight, Bytes
  <2> QED
    BY <2>5, <2>6, <2>11
<1>5. ASSUME NEW u \in Owners, NEW b \in Blocks, MemCalloc(u, b) PROVE P
  <2>1. /\ block[b] = "none" /\ Registered(memId[u]) /\ Fits(b)
        /\ block' = [block EXCEPT ![b] = "taken"]
        /\ owner' = [owner EXCEPT ![b] = u]
        /\ slot' = [slot EXCEPT ![b] = memId[u]]
        /\ UNCHANGED <<bytes, memId>>
    BY <1>5 DEF MemCalloc
  <2>2. memId[u] # Invalid
    BY <2>1 DEF Registered, Slots, Invalid
  <2>3. MainFirst' /\ SlotRight' /\ Fitted' /\ NoneInUse'
    BY <2>1, <2>2 DEF MainFirst, SlotRight, Fitted, NoneInUse, Fits
  <2>4. \A v \in Users : Counted(v)' = Counted(v)
    BY <2>1 DEF Counted
  <2> QED
    BY <2>1, <2>3, <2>4 DEF SumsRight, Weight, Bytes, bytes
<1>6. ASSUME NEW b \in Blocks, MemCallocCounts(b) PROVE P
  <2> DEFINE u == owner[b]
  <2>1. /\ block[b] = "taken" /\ block' = [block EXCEPT ![b] = "live"]
        /\ alloced' = [alloced EXCEPT ![slot[b]] = @ + Size(b)]
        /\ UNCHANGED <<freed, memId, owner, slot>>
    BY <1>6 DEF MemCallocCounts
  <2>2. /\ u \in Owners /\ memId[u] # Invalid /\ slot[b] = memId[u] /\ Fits(b)
        /\ slot[b] \in Slots /\ Size(b) \in Nat
    BY <2>1 DEF SlotRight, NoneInUse, Fitted
  <2>3. MainFirst' /\ SlotRight' /\ Fitted' /\ NoneInUse'
    BY <2>1, <2>2 DEF MainFirst, SlotRight, Fitted, NoneInUse, Fits
  <2>4. \A v \in Users : v # u => Counted(v)' = Counted(v)
    BY <2>1 DEF Counted
  <2>5. Weight(Counted(u)') = Weight(Counted(u)) + Size(b)
    <3>1. Counted(u)' = Counted(u) \cup {b} /\ b \notin Counted(u)
      BY <2>1 DEF Counted
    <3> QED
      BY <3>1, <2>2, WeightAdds
  <2>6. \A v \in Owners : v # u /\ v # Main /\ memId[v] # Invalid =>
           memId[v] # slot[b] /\ memId[v] \in Slots
    BY <2>2 DEF IdsRight, NoStaleId, Owners, Invalid
  <2>7. ASSUME NEW v \in Users, memId'[v] # Invalid
        PROVE  alloced'[memId'[v]] = freed'[memId'[v]] + Weight(Counted(v)')
    <3>1. v \in Owners /\ v # Main
      BY DEF Owners
    <3>2. alloced[memId[v]] = freed[memId[v]] + Weight(Counted(v)) /\ memId'[v] = memId[v]
      BY <2>1, <2>7 DEF SumsRight
    <3>3. CASE v = u
      <4>1. /\ alloced'[memId[u]] = alloced[memId[u]] + Size(b) /\ freed' = freed
            /\ alloced[memId[u]] \in Nat /\ freed[memId[u]] \in Nat
        BY <2>1, <2>2
      <4>2. Weight(Counted(u)) \in Nat
        BY BytesFinite
      <4>3. Weight(Counted(v)) = Weight(Counted(u)) /\ Weight(Counted(v)') = Weight(Counted(u)')
        BY <2>1, <3>3 DEF Counted
      <4> HIDE DEF u
      <4> QED
        BY <3>2, <3>3, <4>1, <4>2, <4>3, <2>2, <2>5
    <3>4. CASE v # u
      BY <3>1, <3>2, <3>4, <2>1, <2>2, <2>4, <2>6, <2>7
    <3> QED
      BY <3>3, <3>4
  <2> HIDE DEF u
  <2> QED
    BY <2>3, <2>7 DEF SumsRight, Weight, Bytes
<1>7. ASSUME NEW b \in Blocks, MemFree(b) PROVE P
  <2>1. /\ block[b] = "live" /\ Registered(memId[owner[b]])
        /\ block' = [block EXCEPT ![b] = "gone"]
        /\ slot' = [slot EXCEPT ![b] = memId[owner[b]]]
        /\ UNCHANGED <<bytes, memId, owner>>
    BY <1>7 DEF MemFree
  <2>2. memId[owner[b]] # Invalid
    BY <2>1 DEF Registered, Slots, Invalid
  <2>3. MainFirst' /\ SlotRight' /\ Fitted' /\ NoneInUse'
    BY <2>1, <2>2 DEF MainFirst, SlotRight, Fitted, NoneInUse, Fits
  <2>4. \A v \in Users : Counted(v)' = Counted(v)
    BY <2>1 DEF Counted
  <2> QED
    BY <2>1, <2>3, <2>4 DEF SumsRight, Weight, Bytes, bytes
<1>8. ASSUME NEW b \in Blocks, MemFreeCounts(b) PROVE P
  <2> DEFINE u == owner[b]
  <2>1. /\ block[b] = "gone" /\ block' = [block EXCEPT ![b] = "freed"]
        /\ freed' = [freed EXCEPT ![slot[b]] = @ + PrefixSize(b)]
        /\ UNCHANGED <<alloced, memId, owner, slot>>
    BY <1>8 DEF MemFreeCounts
  <2>2. /\ u \in Owners /\ memId[u] # Invalid /\ slot[b] = memId[u] /\ Fits(b)
        /\ slot[b] \in Slots /\ Size(b) \in Nat
    BY <2>1 DEF SlotRight, NoneInUse, Fitted
  <2>3. MainFirst' /\ SlotRight' /\ Fitted' /\ NoneInUse'
    BY <2>1, <2>2 DEF MainFirst, SlotRight, Fitted, NoneInUse, Fits
  <2>4. \A v \in Users : v # u => Counted(v)' = Counted(v)
    BY <2>1 DEF Counted
  <2>5. Weight(Counted(u)) = Weight(Counted(u)') + Size(b)
    <3>1. Counted(u) = Counted(u)' \cup {b} /\ b \notin Counted(u)'
      BY <2>1 DEF Counted
    <3> QED
      BY <3>1, <2>2, WeightAdds
  <2>6. \A v \in Owners : v # u /\ v # Main /\ memId[v] # Invalid =>
           memId[v] # slot[b] /\ memId[v] \in Slots
    BY <2>2 DEF IdsRight, NoStaleId, Owners, Invalid
  <2>7. ASSUME NEW v \in Users, memId'[v] # Invalid
        PROVE  alloced'[memId'[v]] = freed'[memId'[v]] + Weight(Counted(v)')
    <3>1. v \in Owners /\ v # Main
      BY DEF Owners
    <3>2. alloced[memId[v]] = freed[memId[v]] + Weight(Counted(v)) /\ memId'[v] = memId[v]
      BY <2>1, <2>7 DEF SumsRight
    <3>3. CASE v = u
      <4>1. /\ freed'[memId[u]] = freed[memId[u]] + Size(b) /\ alloced' = alloced
            /\ alloced[memId[u]] \in Nat /\ freed[memId[u]] \in Nat
        BY <2>1, <2>2, PrefixWhole
      <4>2. Weight(Counted(u)') \in Nat
        BY BytesFinite
      <4>3. Weight(Counted(v)) = Weight(Counted(u)) /\ Weight(Counted(v)') = Weight(Counted(u)')
        BY <2>1, <3>3 DEF Counted
      <4> HIDE DEF u
      <4> QED
        BY <3>2, <3>3, <4>1, <4>2, <4>3, <2>2, <2>5
    <3>4. CASE v # u
      BY <3>1, <3>2, <3>4, <2>1, <2>2, <2>4, <2>6, <2>7
    <3> QED
      BY <3>3, <3>4
  <2> HIDE DEF u
  <2> QED
    BY <2>3, <2>7 DEF SumsRight, Weight, Bytes
<1>9. CASE UNCHANGED vars
  BY <1>9, VerdictSame DEF vars
<1> QED
  BY <1>1, <1>2, <1>3, <1>4, <1>5, <1>6, <1>7, <1>8, <1>9 DEF Next

\* MemUnRegister says MEM_LEAK if and only if something the module allocated since it
\* registered is still allocated, whatever threads do with other modules:
\* myMem.c:95-105, 125-154, 163-194.
THEOREM VerdictsRight ==
    ASSUME Env = {}
    PROVE  Spec => VerdictExact
<1>1. VerdictInv /\ [Next]_vars => VerdictInv'
  <2> SUFFICES ASSUME VerdictInv, [Next]_vars PROVE VerdictInv'
    OBVIOUS
  <2>1. MemInv'
    BY TypeStep, IdsStep DEF MemInv, VerdictInv
  <2> QED
    BY <2>1, VerdictStep
<1>2. ASSUME VerdictInv, NEW u \in Users, MemUnRegister(u)
      PROVE  verdict'[u] = "MEM_LEAK" <=>
                \E b \in Blocks : owner[b] = u /\ block[b] = "live" /\ Size(b) > 0
  <2>1. /\ memId[u] \in Slots /\ memId[u] # Invalid /\ u \in Owners
        /\ verdict'[u] = IF LeakSafe(memId[u]) THEN "SUCCESS" ELSE "MEM_LEAK"
        /\ ~InFree(u)
    BY <1>2 DEF VerdictInv, MemInv, TypeOK, MemUnRegister, HasSlot, Registered,
                Owners, Slots, Invalid
  <2>2. Counted(u) = {b \in Blocks : owner[b] = u /\ block[b] = "live"}
    BY <2>1 DEF Counted, InFree
  <2>3. LeakSafe(memId[u]) <=> Weight(Counted(u)) = 0
    <3>1. Weight(Counted(u)) \in Nat
      BY BytesFinite
    <3> QED
      BY <1>2, <2>1, <3>1 DEF LeakSafe, VerdictInv, SumsRight, MemInv, TypeOK
  <2>4. \A b \in Counted(u) : Fits(b)
    BY <1>2 DEF VerdictInv, Fitted, Counted
  <2>5. Weight(Counted(u)) = 0 <=> \A b \in Counted(u) : ~(Size(b) > 0)
    BY <2>2, <2>4, WeightZero
  <2> QED
    BY <2>1, <2>2, <2>3, <2>5
<1>3. VerdictInv => [\A u \in Users : MemUnRegister(u) =>
          (verdict'[u] = "MEM_LEAK" <=>
              \E b \in Blocks : owner[b] = u /\ block[b] = "live" /\ Size(b) > 0)]_vars
  BY <1>2
<1> QED
  BY VerdictInit, <1>1, <1>3, PTL DEF Spec, VerdictExact
=============================================================================
