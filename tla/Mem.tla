-------------------------------- MODULE Mem --------------------------------
(***************************************************************************)
(* The memory accounting of myUtils/Mem/myMem.c: a table of slots in which *)
(* modules register, the bytes each of them allocated and freed, and the   *)
(* verdict MemUnRegister returns when a module goes.                       *)
(*                                                                         *)
(* MemCalloc and MemFree look at a slot without a lock and count in it     *)
(* later, under the slot's spinlock: two steps each.  MemRegister and      *)
(* MemUnRegister are one step: what they do under the table's lock, and    *)
(* before it only read what no other thread writes.  calloc itself does    *)
(* not fail.                                                               *)
(***************************************************************************)
EXTENDS Integers, FiniteSets

CONSTANTS
    Users,        \* modules that keep an id of their own
    Main,         \* sg_MemWorker itself, whose id MyCalloc and MyFree use
    Blocks,       \* allocations
    Size(_),      \* block -> bytes asked for
    MaxSize,      \* the largest size MemCalloc accepts, 0x7fffffff
    NumSlots,     \* MY_MEM_MODULE_MAX_NUM
    Lives,        \* how often MemModuleInit may be called
    Env           \* what the callers may do, a subset of MemEnvKinds

\* "late": a module is unregistered while a thread is inside MemCalloc or MemFree
\*         for it, or blocks are freed after that
\* "skip": MemModuleExit is called although a module is still registered
MemEnvKinds == {"late", "skip"}

Owners == Users \cup {Main}
Slots == 0..NumSlots - 1
Invalid == -1                        \* MY_MEM_MODULE_INVALID_ID

ASSUME MemAssumption == /\ Main \notin Users
                        /\ NumSlots \in Nat \ {0} /\ Lives \in Nat
                        /\ MaxSize \in Nat /\ IsFiniteSet(Blocks)
                        /\ \A b \in Blocks : Size(b) \in Nat
                        /\ Env \subseteq MemEnvKinds

VARIABLES
    inited,       \* sg_MemWorker.Inited
    lives,        \* calls of MemModuleInit so far (bound)
    nodes,        \* sg_MemWorker.Nodes: Registered and MemModuleId
    alloced,      \* ... MemBytesAlloced
    freed,        \* ... MemBytesFreed
    memId,        \* owner -> the variable its MemId argument points to
    block,        \* block -> "none", "taken", "live", "lost", "gone", "freed"
    owner,        \* block -> the module whose id allocated it
    slot,         \* block -> the slot its call is to count in
    verdict,      \* owner -> what MemUnRegister returned last
    ub            \* a slot's spinlock was used after it was wiped

bytes == <<alloced, freed>>
vars == <<inited, lives, nodes, bytes, memId, block, owner, slot, verdict, ub>>

Empty == [Registered |-> FALSE, MemModuleId |-> 0]
Registered(i) == i \in Slots /\ nodes[i].Registered
HasSlot(u) == Registered(memId[u]) /\ nodes[memId[u]].MemModuleId = memId[u]
Entry(i) == [Registered |-> TRUE, MemModuleId |-> i]

Init ==
    /\ inited = FALSE /\ lives = 0
    /\ nodes = [i \in Slots |-> Empty]
    /\ alloced = [i \in Slots |-> 0] /\ freed = [i \in Slots |-> 0]
    /\ memId = [u \in Owners |-> Invalid]
    /\ block = [b \in Blocks |-> "none"]
    /\ owner = [b \in Blocks |-> Main] /\ slot = [b \in Blocks |-> 0]
    /\ verdict = [u \in Owners |-> "none"]
    /\ ub = FALSE

\* Variant: the first slot will do
FirstFree_Any(i) == i = 0
FirstFree(i) == ~Registered(i) /\ \A j \in Slots : j < i => Registered(j)

\* A module that has its slot keeps it; another takes the first free one, if any
MemRegister(u) ==
    /\ inited /\ u \in Users /\ ~HasSlot(u)
    /\ \E i \in Slots :
        /\ FirstFree(i)
        /\ nodes' = [nodes EXCEPT ![i] = Entry(i)]
        /\ alloced' = [alloced EXCEPT ![i] = 0] /\ freed' = [freed EXCEPT ![i] = 0]
        /\ memId' = [memId EXCEPT ![u] = i]
    /\ UNCHANGED <<inited, lives, block, owner, slot, verdict, ub>>

InCalloc(u) == \E b \in Blocks : block[b] = "taken" /\ owner[b] = u
InFree(u)   == \E b \in Blocks : block[b] = "gone" /\ owner[b] = u

\* Variant: bytes are compared the wrong way round
LeakSafe_AtMost(i) == freed[i] <= alloced[i]
\* MemLeakSafetyCheckWithId
LeakSafe(i) == freed[i] = alloced[i]

\* What the module has not freed is lost to it
Lost(u) == [b \in Blocks |-> IF owner[b] = u /\ block[b] = "live" THEN "lost" ELSE block[b]]

MemUnRegister(u) ==
    /\ inited /\ u \in Users /\ HasSlot(u)
    /\ "late" \in Env \/ ~(InCalloc(u) \/ InFree(u))
    /\ verdict' = [verdict EXCEPT ![u] = IF LeakSafe(memId[u]) THEN "SUCCESS" ELSE "MEM_LEAK"]
    /\ nodes' = [nodes EXCEPT ![memId[u]] = Empty]
    /\ alloced' = [alloced EXCEPT ![memId[u]] = 0]
    /\ freed' = [freed EXCEPT ![memId[u]] = 0]
    /\ memId' = [memId EXCEPT ![u] = Invalid]
    /\ block' = Lost(u)
    /\ UNCHANGED <<inited, lives, owner, slot, ub>>

\* All slots are wiped, and the main module registers in the first
MemModuleInit ==
    /\ ~inited /\ lives < Lives
    /\ inited' = TRUE /\ lives' = lives + 1
    /\ nodes' = [i \in Slots |-> IF i = 0 THEN Entry(0) ELSE Empty]
    /\ alloced' = [i \in Slots |-> 0] /\ freed' = [i \in Slots |-> 0]
    /\ memId' = [memId EXCEPT ![Main] = 0]
    /\ UNCHANGED <<block, owner, slot, verdict, ub>>

\* Inited is reset first, so that the MemUnRegister of the main module that
\* follows does nothing and returns success
MemModuleExit ==
    /\ inited
    /\ "skip" \in Env \/ \A u \in Users : ~HasSlot(u)
    /\ inited' = FALSE
    /\ verdict' = [verdict EXCEPT ![Main] = "SUCCESS"]
    /\ UNCHANGED <<lives, nodes, bytes, memId, block, owner, slot, ub>>

-----------------------------------------------------------------------------
\* Variant: the size is not looked at
Fits_All(b) == TRUE
Fits(b) == Size(b) <= MaxSize

\* MemCalloc: look at the slot, allocate, write the prefix ...
MemCalloc(u, b) ==
    /\ block[b] = "none" /\ Registered(memId[u]) /\ Fits(b)
    /\ block' = [block EXCEPT ![b] = "taken"]
    /\ owner' = [owner EXCEPT ![b] = u]
    /\ slot' = [slot EXCEPT ![b] = memId[u]]
    /\ UNCHANGED <<inited, lives, nodes, bytes, memId, verdict, ub>>

\* ... and count the bytes under the slot's spinlock
MemCallocCounts(b) ==
    /\ block[b] = "taken"
    /\ block' = [block EXCEPT ![b] = "live"]
    /\ alloced' = [alloced EXCEPT ![slot[b]] = @ + Size(b)]
    /\ ub' = (ub \/ ~Registered(slot[b]))
    /\ UNCHANGED <<inited, lives, nodes, freed, memId, owner, slot, verdict>>

\* MemFree with the id of the module that allocated: look at the slot, free ...
MemFree(b) ==
    /\ block[b] = "live" \/ (block[b] = "lost" /\ "late" \in Env)
    /\ Registered(memId[owner[b]])
    /\ block' = [block EXCEPT ![b] = "gone"]
    /\ slot' = [slot EXCEPT ![b] = memId[owner[b]]]
    /\ UNCHANGED <<inited, lives, nodes, bytes, memId, owner, verdict, ub>>

\* The prefix's Size has the bits of MaxSize
PrefixSize(b) == Size(b) % (MaxSize + 1)

\* ... and count; without a slot the block is not freed at all
MemFreeCounts(b) ==
    /\ block[b] = "gone"
    /\ block' = [block EXCEPT ![b] = "freed"]
    /\ freed' = [freed EXCEPT ![slot[b]] = @ + PrefixSize(b)]
    /\ ub' = (ub \/ ~Registered(slot[b]))
    /\ UNCHANGED <<inited, lives, nodes, alloced, memId, owner, slot, verdict>>

Next ==
    /\ ~ub
    /\ \/ MemModuleInit \/ MemModuleExit
       \/ \E u \in Users : MemRegister(u) \/ MemUnRegister(u)
       \/ \E b \in Blocks : \/ \E u \in Owners : MemCalloc(u, b)
                            \/ MemCallocCounts(b) \/ MemFree(b) \/ MemFreeCounts(b)

Spec == Init /\ [][Next]_vars

-----------------------------------------------------------------------------
\* Every variable holds a value of its kind.
TypeOK ==
    /\ inited \in BOOLEAN /\ lives \in 0..Lives /\ ub \in BOOLEAN
    /\ nodes \in [Slots -> [Registered : BOOLEAN, MemModuleId : Slots]]
    /\ alloced \in [Slots -> Nat] /\ freed \in [Slots -> Nat]
    /\ memId \in [Owners -> Slots \cup {-1}]
    /\ block \in [Blocks -> {"none", "taken", "live", "lost", "gone", "freed"}]
    /\ owner \in [Blocks -> Owners] /\ slot \in [Blocks -> Slots]
    /\ verdict \in [Owners -> {"none", "SUCCESS", "MEM_LEAK"}]

\* Each module with an id has a slot of its own, and no slot is taken that no module
\* has: slots do not run out however often modules come and go.
OwnSlots ==
    inited => /\ \A u \in Owners : memId[u] # Invalid => HasSlot(u)
              /\ \A u, v \in Owners : memId[u] = memId[v] /\ memId[u] # Invalid => u = v
              /\ \A i \in Slots : Registered(i) => \E u \in Owners : memId[u] = i

\* MemUnRegister reports a leak if and only if a block the module allocated since it
\* registered is still allocated, whatever other threads do with other modules.
VerdictExact ==
    [][\A u \in Users : MemUnRegister(u) =>
          (verdict'[u] = "MEM_LEAK" <=>
              \E b \in Blocks : owner[b] = u /\ block[b] = "live" /\ Size(b) > 0)]_vars
=============================================================================
