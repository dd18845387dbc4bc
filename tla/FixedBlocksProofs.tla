-------------------------- MODULE FixedBlocksProofs --------------------------
(***************************************************************************)
(* The table of the fixed-block allocator is well formed after every call, *)
(* for every number of blocks and every request, and the allocator         *)
(* implements RegionStore: also when mem_free reads past the table, for    *)
(* what it then clears is not in the table.                                *)
(***************************************************************************)
EXTENDS FixedBlocks, NatLemmas, TLAPS

\* The inductive invariant: that a free ends one allocation and no other follows
\* from RunsTile, and the range of the lengths from TypeOK.
IInv == TypeOK /\ RunsTile

\* A valid request needs at least one block and no more than the largest one.
LEMMA RequiredBlocksRange ==
  ASSUME NEW n \in Int, ValidRequest(n)
  PROVE  RequiredBlocks(n) \in 1 .. RequiredBlocks(MAX_ALLOC)
BY BlockAssumption DEF ValidRequest, RequiredBlocks, MIN_ALLOC, BLOCK_SIZE

\* find_free_blocks returns the start of a run of free blocks inside the table.
LEMMA FoundRunIsFree ==
  ASSUME NEW table, NEW n \in Nat \ {0}, FindFreeBlocks(table, n) # None
  PROVE  /\ FindFreeBlocks(table, n) \in Indices
         /\ \A j \in FindFreeBlocks(table, n) .. FindFreeBlocks(table, n) + n - 1 :
              j \in Indices /\ table[j] = 0
<1> DEFINE starts == {i \in Indices : \A j \in i .. i + n - 1 : j \in Indices /\ table[j] = 0}
<1>1. starts \in SUBSET Nat
  BY BlockAssumption DEF Indices
<1>2. starts # {} /\ FindFreeBlocks(table, n) = Min(starts)
  BY DEF FindFreeBlocks
<1>3. Min(starts) \in starts
  <2> HIDE DEF starts
  <2> QED  BY <1>1, <1>2, MinOfNats
<1> QED  BY <1>2, <1>3

-----------------------------------------------------------------------------
(***************************************************************************)
(* The steps that change the table.                                        *)
(***************************************************************************)

\* An allocation of n blocks that starts at first was entered in the table.
Entered(first, n) ==
  /\ n \in 1 .. RequiredBlocks(MAX_ALLOC)
  /\ first \in Indices
  /\ \A j \in first .. first + n - 1 : j \in Indices /\ used_blocks[j] = 0
  /\ used_blocks' = Occupy(used_blocks, first, n)

\* The allocation whose first block is first was removed from the table.
Removed(first) ==
  /\ first \in Heads
  /\ used_blocks' = Cleared(used_blocks, first, used_blocks[first])

\* What a step does to the table: it leaves, clears, extends or shortens it by one
\* allocation.
LEMMA Outcomes ==
  ASSUME IInv, [Next]_vars
  PROVE  \/ used_blocks' = used_blocks
         \/ used_blocks' = [i \in Indices |-> 0]
         \/ \E first \in Indices, n \in 1 .. RequiredBlocks(MAX_ALLOC) : Entered(first, n)
         \/ \E first \in Heads : Removed(first)
<1>1. ASSUME NEW n \in Requests, MemAlloc(n)
      PROVE  \E first \in Indices, m \in 1 .. RequiredBlocks(MAX_ALLOC) : Entered(first, m)
  <2> DEFINE m == RequiredBlocks(n)
             first == FindFreeBlocks(used_blocks, m)
  <2>1. ValidRequest(n) /\ first # None /\ used_blocks' = Occupy(used_blocks, first, m)
    BY <1>1 DEF MemAlloc
  <2>2. m \in 1 .. RequiredBlocks(MAX_ALLOC)
    BY <2>1, RequiredBlocksRange, BlockAssumption
  <2>3. m \in Nat \ {0}
    BY <2>2
  <2>4. /\ first \in Indices
        /\ \A j \in first .. first + m - 1 : j \in Indices /\ used_blocks[j] = 0
    <3> HIDE DEF m
    <3> QED  BY <2>1, <2>3, FoundRunIsFree
  <2> QED  BY <2>1, <2>2, <2>4 DEF Entered
<1>2. ASSUME NEW ptr \in Pointers, MemFree(ptr)
      PROVE  used_blocks' = used_blocks \/ \E first \in Heads : Removed(first)
  <2> DEFINE first == ptr \div BLOCK_SIZE
  <2>1. ptr \in 0 .. DEVICE_RAM
    BY <1>2, BlockAssumption DEF MemFree, Accepted, DEVICE_RAM, BLOCK_SIZE
  <2>2. first \in 0 .. N_BLOCKS
    BY <2>1, BlockAssumption DEF DEVICE_RAM, BLOCK_SIZE
  <2>3. CASE first \in Indices
    <3>1. used_blocks[first] > 0
      BY <1>2, <2>3 DEF MemFree, Accepted, EntryRead
    <3>2. used_blocks' = Cleared(used_blocks, first, used_blocks[first])
      BY <1>2, <2>3 DEF MemFree, EntryRead
    <3> QED  BY <2>3, <3>1, <3>2 DEF Removed, Heads
  <2>4. CASE first = N_BLOCKS
    <3>1. used_blocks' = Cleared(used_blocks, N_BLOCKS, EntryRead(N_BLOCKS))
      BY <1>2, <2>4 DEF MemFree
    <3>2. \A i \in Indices : i \notin N_BLOCKS .. N_BLOCKS + EntryRead(N_BLOCKS) - 1
      BY BlockAssumption DEF Indices
    <3>3. used_blocks = [i \in Indices |-> used_blocks[i]]
      BY DEF IInv, TypeOK
    <3> QED  BY <3>1, <3>2, <3>3 DEF Cleared
  <2> QED  BY <2>2, <2>3, <2>4, BlockAssumption DEF Indices
<1>3. MemInit => used_blocks' = [i \in Indices |-> 0]
  BY DEF MemInit
<1>4. \A word \in Words : ClientWrite(word) => used_blocks' = used_blocks
  BY DEF ClientWrite
<1> QED  BY <1>1, <1>2, <1>3, <1>4 DEF Next, vars

-----------------------------------------------------------------------------
(***************************************************************************)
(* The invariant.                                                          *)
(***************************************************************************)

\* An empty table is well formed.
LEMMA EmptyTableTiles ==
  ASSUME used_blocks = [i \in Indices |-> 0]
  PROVE  RunsTile
BY DEF RunsTile, Heads

LEMMA RequiredBlocksNat == RequiredBlocks(MAX_ALLOC) \in Nat
BY BlockAssumption DEF RequiredBlocks, BLOCK_SIZE

\* The runs of a well-formed table are disjoint intervals of its indices.
LEMMA RunsApart ==
  ASSUME IInv, NEW i \in Heads, NEW j \in Heads, i # j
  PROVE  i + used_blocks[i] <= j \/ j + used_blocks[j] <= i
<1>1. /\ i \in Int /\ j \in Int
      /\ used_blocks[i] \in Int /\ used_blocks[j] \in Int
  BY BlockAssumption, RequiredBlocksNat DEF IInv, TypeOK, Heads, Indices
<1>2. j \notin Run(i) /\ i \notin Run(j)
  BY DEF IInv, RunsTile, Heads
<1> QED  BY <1>1, <1>2 DEF Run

\* An allocation keeps the table well formed: its run was free, so it meets no other.
LEMMA EnteredTiles ==
  ASSUME IInv, NEW first \in Indices, NEW n \in 1 .. RequiredBlocks(MAX_ALLOC),
         Entered(first, n)
  PROVE  RunsTile' /\ Heads' = Heads \cup {first}
<1> USE BlockAssumption, RequiredBlocksNat
<1>1. \A i \in Indices : i \in Int /\ used_blocks[i] \in Int
  BY DEF IInv, TypeOK, Indices
<1>2. \A i \in Indices :
        used_blocks'[i] = IF i = first THEN n
                          ELSE IF i \in first + 1 .. first + n - 1 THEN -1
                          ELSE used_blocks[i]
  BY DEF Entered, Occupy
<1>3. first \in first .. first + n - 1 /\ used_blocks[first] = 0
  BY <1>1 DEF Entered
<1>4. \A j \in first + 1 .. first + n - 1 : j \in Indices /\ used_blocks[j] = 0
  BY <1>1 DEF Entered
<1>5. Heads' = Heads \cup {first}
  BY <1>1, <1>2, <1>3, <1>4 DEF Heads
<1>6. \A i \in Heads : used_blocks'[i] = used_blocks[i] /\ i # first
  BY <1>1, <1>2, <1>3, <1>4 DEF Heads
<1>7. \A i \in Heads : Run(i)' = Run(i)
  BY <1>6 DEF Run
<1>8. Run(first)' = first .. first + n - 1
  BY <1>2 DEF Run
<1>9. ASSUME NEW i \in Heads', NEW j \in Run(i)'
      PROVE  j \in Indices /\ (j # i => used_blocks'[j] = -1)
  <2>1. CASE i = first
    BY <1>1, <1>2, <1>4, <1>8, <1>9, <2>1
  <2>2. CASE i \in Heads
    <3>1. j \in Run(i)
      BY <1>7, <1>9, <2>2
    <3>2. j \in Indices /\ (j # i => used_blocks[j] = -1)
      BY <2>2, <3>1 DEF IInv, RunsTile
    <3>3. j # i => j # first
      BY <1>3, <3>2
    <3> QED  BY <1>2, <3>2, <3>3
  <2> QED  BY <1>5, <1>9, <2>1, <2>2
<1>10. ASSUME NEW j \in Indices, used_blocks'[j] = -1
       PROVE  \E i \in Heads' : j \in Run(i)'
  <2>1. CASE j \in first .. first + n - 1
    BY <1>5, <1>8, <2>1
  <2>2. CASE j \notin first .. first + n - 1
    <3>1. used_blocks[j] = -1
      BY <1>1, <1>2, <1>10, <2>2
    <3>2. PICK i \in Heads : j \in Run(i)
      BY <3>1 DEF IInv, RunsTile
    <3> QED  BY <1>5, <1>7, <3>2
  <2> QED  BY <2>1, <2>2
<1> QED  BY <1>5, <1>9, <1>10 DEF RunsTile

\* A free keeps the table well formed: it clears one run whole and meets no other.
LEMMA RemovedTiles ==
  ASSUME IInv, NEW first \in Heads, Removed(first)
  PROVE  RunsTile' /\ Heads' = Heads \ {first}
<1> USE BlockAssumption, RequiredBlocksNat
<1>1. \A i \in Indices : i \in Int /\ used_blocks[i] \in Int
  BY DEF IInv, TypeOK, Indices
<1>2. Heads \subseteq Indices /\ \A i \in Heads : used_blocks[i] > 0
  BY DEF Heads
<1>3. \A i \in Indices : used_blocks'[i] = IF i \in Run(first) THEN 0 ELSE used_blocks[i]
  BY DEF Removed, Cleared, Run
<1>4. \A i \in Heads : i \in Run(first) <=> i = first
  BY <1>1, <1>2 DEF IInv, RunsTile, Run
<1>5. Heads' = Heads \ {first}
  BY <1>1, <1>2, <1>3, <1>4 DEF Heads
<1>6. \A i \in Heads \ {first} : used_blocks'[i] = used_blocks[i]
  BY <1>2, <1>3, <1>4
<1>7. \A i \in Heads \ {first} : Run(i)' = Run(i)
  BY <1>6 DEF Run
<1>8. ASSUME NEW i \in Heads \ {first}
      PROVE  \A j \in Run(i) : j \notin Run(first)
  <2>1. /\ i \in Int /\ first \in Int
        /\ used_blocks[i] \in Int /\ used_blocks[first] \in Int
    BY <1>1, <1>2
  <2>2. i + used_blocks[i] <= first \/ first + used_blocks[first] <= i
    BY <1>8, RunsApart
  <2> QED  BY <2>1, <2>2 DEF Run
<1>9. ASSUME NEW i \in Heads', NEW j \in Run(i)'
      PROVE  j \in Indices /\ (j # i => used_blocks'[j] = -1)
  <2>1. i \in Heads \ {first} /\ j \in Run(i)
    BY <1>5, <1>7, <1>9
  <2>2. j \in Indices /\ (j # i => used_blocks[j] = -1)
    BY <2>1 DEF IInv, RunsTile
  <2> QED  BY <1>3, <1>8, <2>1, <2>2
<1>10. ASSUME NEW j \in Indices, used_blocks'[j] = -1
       PROVE  \E i \in Heads' : j \in Run(i)'
  <2>1. j \notin Run(first) /\ used_blocks[j] = -1
    BY <1>3, <1>10
  <2>2. PICK i \in Heads : j \in Run(i)
    BY <2>1 DEF IInv, RunsTile
  <2>3. i # first
    BY <2>1, <2>2
  <2> QED  BY <1>5, <1>7, <2>2, <2>3
<1> QED  BY <1>5, <1>9, <1>10 DEF RunsTile

LEMMA InitIInv == Init => IInv
BY EmptyTableTiles, RequiredBlocksNat DEF Init, IInv, TypeOK

\* The word of ram[] is 0 or one a caller wrote.
LEMMA WordTyped ==
  ASSUME IInv, [Next]_vars
  PROVE  ram_word' \in Words \cup {0}
BY DEF IInv, TypeOK, Next, vars, MemAlloc, MemFree, MemInit, ClientWrite

LEMMA NextIInv == IInv /\ [Next]_vars => IInv'
<1> SUFFICES ASSUME IInv, [Next]_vars
             PROVE  IInv'
  OBVIOUS
<1>1. ram_word' \in Words \cup {0}
  BY WordTyped
<1>2. CASE used_blocks' = used_blocks
  BY <1>1, <1>2 DEF IInv, TypeOK, RunsTile, Heads, Run
<1>3. CASE used_blocks' = [i \in Indices |-> 0]
  <2>1. RunsTile'
    BY <1>3 DEF RunsTile, Heads
  <2> QED  BY <1>1, <1>3, <2>1, RequiredBlocksNat DEF IInv, TypeOK
<1>4. ASSUME NEW first \in Indices, NEW n \in 1 .. RequiredBlocks(MAX_ALLOC),
             Entered(first, n)
      PROVE  IInv'
  <2>1. used_blocks' \in [Indices -> -1 .. RequiredBlocks(MAX_ALLOC)]
    BY <1>4, RequiredBlocksNat DEF Entered, Occupy, IInv, TypeOK
  <2> QED  BY <1>1, <1>4, <2>1, EnteredTiles DEF IInv, TypeOK
<1>5. ASSUME NEW first \in Heads, Removed(first)
      PROVE  IInv'
  <2>1. used_blocks' \in [Indices -> -1 .. RequiredBlocks(MAX_ALLOC)]
    BY <1>5, RequiredBlocksNat DEF Removed, Cleared, IInv, TypeOK
  <2> QED  BY <1>1, <1>5, <2>1, RemovedTiles DEF IInv, TypeOK
<1> QED  BY <1>2, <1>3, <1>4, <1>5, Outcomes

THEOREM Invariance == Spec => []IInv
BY InitIInv, NextIInv, PTL DEF Spec

\* used_blocks[] holds -1, 0 or a length that some request can have, always.
THEOREM TypeCorrect == Spec => []TypeOK
<1>1. IInv => TypeOK
  BY DEF IInv
<1> QED  BY <1>1, Invariance, PTL

\* No sequence of calls leaves a block that belongs to no allocation or to two, or
\* an allocation that reaches past the table, whatever pointers mem_free is given.
THEOREM AlwaysTiled == Spec => []RunsTile
<1>1. IInv => RunsTile
  BY DEF IInv
<1> QED  BY <1>1, Invariance, PTL

-----------------------------------------------------------------------------
(***************************************************************************)
(* The refinement.                                                         *)
(***************************************************************************)

\* Regions are the allocations of the table, in bytes.
LEMMA RegionsShape ==
  ASSUME IInv
  PROVE  /\ DOMAIN Regions = {i * BLOCK_SIZE : i \in Heads}
         /\ \A i \in Heads : Regions[i * BLOCK_SIZE] = used_blocks[i] * BLOCK_SIZE
<1>1. \A i \in Heads : i \in Int /\ (i * BLOCK_SIZE) \div BLOCK_SIZE = i
  BY BlockAssumption DEF Heads, Indices, BLOCK_SIZE
<1> QED  BY <1>1 DEF Regions

\* The same of the next state.
LEMMA NextRegionsShape ==
  ASSUME IInv'
  PROVE  /\ Regions' = [ptr \in DOMAIN Regions' |-> Regions'[ptr]]
         /\ DOMAIN Regions' = {i * BLOCK_SIZE : i \in Heads'}
         /\ \A i \in Heads' : Regions'[i * BLOCK_SIZE] = used_blocks'[i] * BLOCK_SIZE
<1>1. \A i \in Heads' : i \in Int /\ (i * BLOCK_SIZE) \div BLOCK_SIZE = i
  BY BlockAssumption DEF Heads, Indices, BLOCK_SIZE
<1> QED  BY <1>1 DEF Regions

\* An allocation is given bytes that no live region has.
LEMMA EnteredAllocates ==
  ASSUME IInv, IInv', NEW first \in Indices, NEW n \in 1 .. RequiredBlocks(MAX_ALLOC),
         Entered(first, n)
  PROVE  \E ptr \in Region!Grains(0 .. DEVICE_RAM) :
           \E m \in Region!Grains(1 .. DEVICE_RAM - ptr) : Region!Allocate(ptr, m)
<1> USE BlockAssumption, RequiredBlocksNat
<1> DEFINE ptr == first * BLOCK_SIZE
           m == n * BLOCK_SIZE
<1>1. first \in Int /\ n \in Int /\ n >= 1 /\ first >= 0 /\ first + n <= N_BLOCKS
  <2>1. first + n - 1 \in first .. first + n - 1
    BY DEF Indices
  <2>2. first + n - 1 \in Indices
    BY <2>1 DEF Entered
  <2> QED  BY <2>2 DEF Indices
<1>2. ptr \in Region!Grains(0 .. DEVICE_RAM)
  BY <1>1 DEF Region!Grains, DEVICE_RAM, BLOCK_SIZE
<1>3. m \in Region!Grains(1 .. DEVICE_RAM - ptr)
  BY <1>1 DEF Region!Grains, DEVICE_RAM, BLOCK_SIZE
<1>4. ASSUME NEW i \in Heads
      PROVE  /\ i \in Int /\ used_blocks[i] \in Int /\ i # first
             /\ first + n <= i \/ i + used_blocks[i] <= first
  <2>1. i \in Indices /\ i \in Int /\ used_blocks[i] \in Int /\ used_blocks[i] > 0
    BY DEF Heads, Indices, IInv, TypeOK
  <2>2. i \notin first .. first + n - 1
    BY <2>1 DEF Entered
  <2>3. first \in first .. first + n - 1
    BY <1>1
  <2>4. used_blocks[first] = 0
    BY <2>3 DEF Entered
  <2>5. first \notin Run(i)
    BY <2>1, <2>2, <2>3, <2>4 DEF IInv, RunsTile
  <2> QED  BY <1>1, <2>1, <2>2, <2>3, <2>5 DEF Run
<1>5. \A p \in DOMAIN Regions : Region!Apart(ptr, m, p)
  <2> SUFFICES ASSUME NEW i \in Heads
               PROVE  Region!Apart(ptr, m, i * BLOCK_SIZE)
    BY RegionsShape
  <2>1. Regions[i * BLOCK_SIZE] = used_blocks[i] * BLOCK_SIZE
    BY RegionsShape
  <2>2. \/ ptr + m <= i * BLOCK_SIZE
        \/ i * BLOCK_SIZE + used_blocks[i] * BLOCK_SIZE <= ptr
    BY <1>1, <1>4 DEF BLOCK_SIZE
  <2>3. i * BLOCK_SIZE - 0 = i * BLOCK_SIZE /\ ptr - 0 = ptr
    BY <1>1, <1>4 DEF BLOCK_SIZE
  <2> QED  BY <2>1, <2>2, <2>3 DEF Region!Apart
<1>6. Heads' = Heads \cup {first}
  BY EnteredTiles
<1>7. used_blocks'[first] = n /\ \A i \in Heads : used_blocks'[i] = used_blocks[i]
  <2>1. \A i \in Indices :
          used_blocks'[i] = IF i = first THEN n
                            ELSE IF i \in first + 1 .. first + n - 1 THEN -1
                            ELSE used_blocks[i]
    BY DEF Entered, Occupy
  <2>2. \A i \in Heads : i \in Indices /\ i # first /\ i \notin first + 1 .. first + n - 1
    <3>1. \A i \in Heads : used_blocks[i] \in Int /\ used_blocks[i] > 0
      BY <1>4 DEF Heads
    <3> QED  BY <1>1, <1>4, <3>1 DEF Heads
  <2> QED  BY <2>1, <2>2
<1>8. DOMAIN Regions' = DOMAIN Regions \cup {ptr}
  BY <1>6, RegionsShape, NextRegionsShape
<1>9. \A p \in DOMAIN Regions' : Regions'[p] = IF p = ptr THEN m ELSE Regions[p]
  <2> SUFFICES ASSUME NEW i \in Heads'
               PROVE  Regions'[i * BLOCK_SIZE]
                        = IF i * BLOCK_SIZE = ptr THEN m ELSE Regions[i * BLOCK_SIZE]
    BY NextRegionsShape
  <2>1. Regions'[i * BLOCK_SIZE] = used_blocks'[i] * BLOCK_SIZE
    BY NextRegionsShape
  <2>2. CASE i = first
    BY <1>7, <2>1, <2>2
  <2>3. CASE i \in Heads
    <3>1. i * BLOCK_SIZE # ptr
      BY <1>1, <1>4, <2>3 DEF BLOCK_SIZE
    <3> QED  BY <1>7, <2>1, <2>3, <3>1, RegionsShape
  <2> QED  BY <1>6, <2>2, <2>3
<1>10. Regions' = [p \in DOMAIN Regions \cup {ptr} |-> IF p = ptr THEN m ELSE Regions[p]]
  <2> HIDE DEF ptr, m
  <2> QED  BY <1>8, <1>9, NextRegionsShape
<1> QED  BY <1>2, <1>3, <1>5, <1>10 DEF Region!Allocate

\* A free that reaches the table ends one region and keeps the others.
LEMMA RemovedFrees ==
  ASSUME IInv, IInv', NEW first \in Heads, Removed(first)
  PROVE  \E ptr \in DOMAIN Regions : Region!Free(ptr)
<1> DEFINE ptr == first * BLOCK_SIZE
<1>1. Heads' = Heads \ {first}
  BY RemovedTiles
<1>2. \A i \in Heads : i \in Int
  BY BlockAssumption DEF Heads, Indices
<1>3. \A i \in Heads' : used_blocks'[i] = used_blocks[i]
  <2>1. \A i \in Heads' : i \in Indices /\ i \in Heads /\ i # first
    BY <1>1 DEF Heads
  <2>2. \A i \in Heads' : i \notin first .. first + used_blocks[first] - 1
    BY <2>1 DEF IInv, RunsTile, Run, Heads
  <2> QED  BY <2>1, <2>2 DEF Removed, Cleared
<1>4. \A i \in Heads : i * BLOCK_SIZE = ptr => i = first
  BY <1>2 DEF BLOCK_SIZE
<1>5. DOMAIN Regions' = DOMAIN Regions \ {ptr}
  BY <1>1, <1>4, RegionsShape, NextRegionsShape
<1>6. \A p \in DOMAIN Regions' : Regions'[p] = Regions[p]
  BY <1>1, <1>3, RegionsShape, NextRegionsShape
<1>7. Regions' = [p \in DOMAIN Regions \ {ptr} |-> Regions[p]]
  <2> HIDE DEF ptr
  <2> QED  BY <1>5, <1>6, NextRegionsShape
<1>8. ptr \in DOMAIN Regions
  BY RegionsShape
<1> QED  BY <1>7, <1>8 DEF Region!Free

\* For its callers the fixed-block allocator is a RegionStore, like the allocator
\* that replaced it.
THEOREM RegionStoreImplemented == Spec => ImplementsRegionStore
<1>1. ASSUME used_blocks = [i \in Indices |-> 0]
      PROVE  Regions = [p \in {} |-> 0]
  <2>1. Heads = {}
    BY <1>1 DEF Heads
  <2> QED  BY <2>1 DEF Regions
<1>2. Init => Region!Init
  BY <1>1 DEF Init, Region!Init
<1>3. IInv /\ IInv' /\ [Next]_vars => [Region!Next]_Regions
  <2> SUFFICES ASSUME IInv, IInv', [Next]_vars
               PROVE  Region!Next \/ Regions' = Regions
    OBVIOUS
  <2>1. CASE used_blocks' = used_blocks
    BY <2>1 DEF Regions, Heads
  <2>2. CASE used_blocks' = [i \in Indices |-> 0]
    <3>1. Heads' = {}
      BY <2>2 DEF Heads
    <3>2. Regions' = [p \in {} |-> 0]
      BY <3>1 DEF Regions
    <3> QED  BY <3>2 DEF Region!Next, Region!Reset
  <2>3. ASSUME NEW first \in Indices, NEW n \in 1 .. RequiredBlocks(MAX_ALLOC),
               Entered(first, n)
        PROVE  Region!Next
    BY <2>3, EnteredAllocates DEF Region!Next
  <2>4. ASSUME NEW first \in Heads, Removed(first)
        PROVE  Region!Next
    BY <2>4, RemovedFrees DEF Region!Next
  <2> QED  BY <2>1, <2>2, <2>3, <2>4, Outcomes
<1> QED  BY <1>2, <1>3, Invariance, PTL DEF Spec, ImplementsRegionStore, Region!Spec

-----------------------------------------------------------------------------
(***************************************************************************)
(* The scan.                                                               *)
(***************************************************************************)

\* Where the free blocks up to block i begin: i + 1 if block i is used.
RunStart(table, i) == Min({j \in 0 .. i + 1 : \A k \in j .. i : table[k] = 0})

LEMMA RunStartIsFirst ==
  ASSUME NEW table, NEW i \in Nat
  PROVE  /\ RunStart(table, i) \in 0 .. i + 1
         /\ \A k \in RunStart(table, i) .. i : table[k] = 0
         /\ \A j \in 0 .. i : (\A k \in j .. i : table[k] = 0) => RunStart(table, i) <= j
<1> DEFINE S == {j \in 0 .. i + 1 : \A k \in j .. i : table[k] = 0}
<1>1. S \in SUBSET Nat /\ i + 1 \in S
  OBVIOUS
<1>2. Min(S) \in S /\ \A j \in S : Min(S) <= j
  <2> HIDE DEF S
  <2> QED  BY <1>1, MinOfNats
<1>3. RunStart(table, i) = Min(S)
  BY DEF RunStart
<1>4. \A j \in 0 .. i : j \in 0 .. i + 1
  OBVIOUS
<1> QED  BY <1>2, <1>3, <1>4

\* The counter of the scan after block i.
Counts(table, f) ==
  f = [i \in Indices |-> IF table[i] # 0 THEN 0 ELSE IF i = 0 THEN 1 ELSE f[i - 1] + 1]

\* The length of the run that ends at block i is what the counter should be.
RunLengths(table) == [i \in Indices |-> i + 1 - RunStart(table, i)]

\* The free blocks up to block i begin where those up to the block before it do.
LEMMA RunLengthsCount ==
  ASSUME NEW table
  PROVE  Counts(table, RunLengths(table))
<1>1. \A i \in Indices : i \in Nat
  BY BlockAssumption DEF Indices
<1>2. ASSUME NEW i \in Indices
      PROVE  RunLengths(table)[i] = IF table[i] # 0 THEN 0
                                    ELSE IF i = 0 THEN 1
                                    ELSE RunLengths(table)[i - 1] + 1
  <2>1. /\ RunStart(table, i) \in 0 .. i + 1
        /\ \A k \in RunStart(table, i) .. i : table[k] = 0
        /\ \A j \in 0 .. i : (\A k \in j .. i : table[k] = 0) => RunStart(table, i) <= j
    BY <1>1, RunStartIsFirst
  <2>2. RunLengths(table)[i] = i + 1 - RunStart(table, i)
    BY DEF RunLengths
  <2>3. CASE table[i] # 0
    <3>1. ~ (RunStart(table, i) <= i)
      <4>1. RunStart(table, i) <= i => i \in RunStart(table, i) .. i
        BY <1>1, <2>1
      <4> QED  BY <2>1, <2>3, <4>1
    <3>2. RunStart(table, i) = i + 1
      BY <1>1, <2>1, <3>1
    <3> QED  BY <1>1, <2>2, <2>3, <3>2
  <2>4. CASE table[i] = 0 /\ i = 0
    <3>1. RunStart(table, i) <= 0
      <4>1. \A k \in 0 .. i : table[k] = 0
        BY <2>4
      <4> QED  BY <2>1, <2>4, <4>1
    <3> QED  BY <2>1, <2>2, <2>4, <3>1
  <2>5. CASE table[i] = 0 /\ i # 0
    <3>1. i - 1 \in Indices /\ i - 1 \in Nat
      BY <1>1, <2>5, BlockAssumption DEF Indices
    <3>2. /\ RunStart(table, i - 1) \in 0 .. (i - 1) + 1
          /\ \A k \in RunStart(table, i - 1) .. i - 1 : table[k] = 0
          /\ \A j \in 0 .. i - 1 : (\A k \in j .. i - 1 : table[k] = 0) => RunStart(table, i - 1) <= j
      BY <3>1, RunStartIsFirst
    <3>3. RunStart(table, i) <= RunStart(table, i - 1)
      <4>1. RunStart(table, i - 1) \in 0 .. i
        BY <1>1, <3>2
      <4>2. \A k \in RunStart(table, i - 1) .. i : table[k] = 0
        <5> SUFFICES ASSUME NEW k \in RunStart(table, i - 1) .. i
                     PROVE  table[k] = 0
          OBVIOUS
        <5>1. k = i \/ k \in RunStart(table, i - 1) .. i - 1
          BY <1>1, <4>1
        <5> QED  BY <2>5, <3>2, <5>1
      <4> QED  BY <2>1, <4>1, <4>2
    <3>4. RunStart(table, i - 1) <= RunStart(table, i)
      <4>1. CASE RunStart(table, i) <= i - 1
        <5>1. RunStart(table, i) \in 0 .. i - 1
          BY <1>1, <2>1, <4>1
        <5>2. \A k \in RunStart(table, i) .. i - 1 : table[k] = 0
          <6>1. \A k \in RunStart(table, i) .. i - 1 : k \in RunStart(table, i) .. i
            BY <1>1, <2>1
          <6> QED  BY <2>1, <6>1
        <5> QED  BY <3>2, <5>1, <5>2
      <4>2. CASE ~ (RunStart(table, i) <= i - 1)
        BY <1>1, <2>1, <3>2, <4>2
      <4> QED  BY <4>1, <4>2
    <3>5. RunStart(table, i) = RunStart(table, i - 1)
      <4>1. RunStart(table, i) \in Int /\ RunStart(table, i - 1) \in Int
        BY <2>1, <3>2
      <4> QED  BY <3>3, <3>4, <4>1
    <3>6. RunLengths(table)[i - 1] = (i - 1) + 1 - RunStart(table, i - 1)
      BY <3>1 DEF RunLengths
    <3> QED  BY <1>1, <2>1, <2>2, <2>5, <3>5, <3>6
  <2> QED  BY <2>3, <2>4, <2>5
<1>3. RunLengths(table) = [i \in Indices |-> RunLengths(table)[i]]
  BY DEF RunLengths
<1> QED  BY <1>2, <1>3 DEF Counts

\* The counter can only be that.
LEMMA CountsAreRunLengths ==
  ASSUME NEW table, NEW f, Counts(table, f), NEW i \in Indices
  PROVE  f[i] = RunLengths(table)[i]
<1> DEFINE g == RunLengths(table)
           bad == {j \in Indices : f[j] # g[j]}
<1> SUFFICES ASSUME bad # {}
             PROVE  FALSE
  OBVIOUS
<1>1. bad \in SUBSET Nat
  BY BlockAssumption DEF Indices
<1>2. PICK j \in bad : \A k \in bad : j <= k
  <2> HIDE DEF bad
  <2> QED  BY <1>1, MinOfNats
<1>3. \A e : Counts(table, e) => e[j] = IF table[j] # 0 THEN 0 ELSE IF j = 0 THEN 1 ELSE e[j - 1] + 1
  <2> SUFFICES ASSUME NEW e, Counts(table, e)
               PROVE  e[j] = IF table[j] # 0 THEN 0 ELSE IF j = 0 THEN 1 ELSE e[j - 1] + 1
    OBVIOUS
  <2> DEFINE k == [l \in Indices |-> IF table[l] # 0 THEN 0 ELSE IF l = 0 THEN 1 ELSE e[l - 1] + 1]
  <2>1. e = k
    BY DEF Counts
  <2>2. k[j] = IF table[j] # 0 THEN 0 ELSE IF j = 0 THEN 1 ELSE e[j - 1] + 1
    BY <1>2
  <2> HIDE DEF k
  <2> QED  BY <2>1, <2>2
<1>4. /\ f[j] = IF table[j] # 0 THEN 0 ELSE IF j = 0 THEN 1 ELSE f[j - 1] + 1
      /\ g[j] = IF table[j] # 0 THEN 0 ELSE IF j = 0 THEN 1 ELSE g[j - 1] + 1
  BY <1>3, RunLengthsCount
<1>5. j \in Indices /\ j \in Nat /\ f[j] # g[j]
  BY <1>1, <1>2
<1>6. j # 0 => f[j - 1] = g[j - 1]
  <2> SUFFICES ASSUME j # 0
               PROVE  f[j - 1] = g[j - 1]
    OBVIOUS
  <2>1. j - 1 \in Indices /\ ~ (j <= j - 1)
    BY <1>5, BlockAssumption DEF Indices
  <2>2. j - 1 \notin bad
    <3> HIDE DEF bad
    <3> QED  BY <1>2, <2>1
  <2> HIDE DEF g
  <2> QED  BY <2>1, <2>2
<1> HIDE DEF g, bad
<1> QED  BY <1>4, <1>5, <1>6

\* For any table and any length, the one pass of find_free_blocks that counts and
\* starts again stops at the end of the first run of n free blocks.
LEMMA ScanFindsFirst ==
  ASSUME NEW table, NEW n \in Nat \ {0}
  PROVE  ScanFreeBlocks(table, n) = FindFreeBlocks(table, n)
<1> DEFINE E(f) == [i \in Indices |-> IF table[i] # 0 THEN 0 ELSE IF i = 0 THEN 1 ELSE f[i - 1] + 1]
           F == CHOOSE f : f = E(f)
           stops == {i \in Indices : F[i] = n}
           starts == {i \in Indices : \A j \in i .. i + n - 1 : j \in Indices /\ table[j] = 0}
<1>1. ScanFreeBlocks(table, n) = IF stops = {} THEN None ELSE Min(stops) - n + 1
  BY DEF ScanFreeBlocks
<1>2. FindFreeBlocks(table, n) = IF starts = {} THEN None ELSE Min(starts)
  BY DEF FindFreeBlocks
<1>3. Counts(table, F)
  <2>1. \A f : Counts(table, f) <=> f = E(f)
    BY DEF Counts
  <2>2. \E f : f = E(f)
    BY <2>1, RunLengthsCount
  <2> HIDE DEF E
  <2> QED  BY <2>1, <2>2
<1> HIDE DEF F
<1>4. \A i \in Indices : i \in Nat /\ i < N_BLOCKS
  BY BlockAssumption DEF Indices
<1>5. ASSUME NEW i \in Indices
      PROVE  /\ F[i] = i + 1 - RunStart(table, i)
             /\ RunStart(table, i) \in 0 .. i + 1
             /\ \A k \in RunStart(table, i) .. i : table[k] = 0
             /\ \A j \in 0 .. i : (\A k \in j .. i : table[k] = 0) => RunStart(table, i) <= j
  <2>1. F[i] = RunLengths(table)[i]
    BY <1>3, CountsAreRunLengths
  <2> QED  BY <1>4, <2>1, RunStartIsFirst DEF RunLengths
<1>6. ASSUME NEW i \in stops
      PROVE  i - n + 1 \in starts
  <2>1. i \in Indices /\ i \in Nat /\ F[i] = n
    BY <1>4
  <2>2. /\ RunStart(table, i) = i - n + 1 /\ i - n + 1 \in Nat
        /\ \A k \in i - n + 1 .. i : table[k] = 0
    BY <1>5, <2>1
  <2>3. (i - n + 1) + n - 1 = i
    BY <2>1
  <2>4. \A k \in i - n + 1 .. i : k \in Indices
    BY <2>1, <2>2, BlockAssumption DEF Indices
  <2>5. i - n + 1 \in Indices
    BY <2>1, <2>2, <2>4
  <2> QED  BY <2>2, <2>3, <2>4, <2>5
<1>7. ASSUME NEW s \in starts, \A r \in starts : s <= r
      PROVE  s + n - 1 \in stops
  <2> DEFINE e == s + n - 1
  <2>1. s \in Indices /\ s \in Nat /\ \A j \in s .. e : j \in Indices /\ table[j] = 0
    BY <1>4
  <2>2. e \in Nat /\ e \in s .. e /\ s \in 0 .. e
    BY <2>1
  <2>3. e \in Indices
    BY <2>1, <2>2
  <2> HIDE DEF e
  <2>4. /\ F[e] = e + 1 - RunStart(table, e)
        /\ RunStart(table, e) \in 0 .. e + 1
        /\ \A k \in RunStart(table, e) .. e : table[k] = 0
        /\ RunStart(table, e) <= s
    BY <1>5, <2>1, <2>2, <2>3
  <2>5. RunStart(table, e) \in starts
    <3>1. PICK r \in Nat : r = RunStart(table, e)
      BY <2>4
    <3>2. \A j \in r .. r + n - 1 : j \in r .. e /\ j \in Indices
      <4>1. r + n - 1 <= e
        BY <2>1, <2>4, <3>1 DEF e
      <4>2. e < N_BLOCKS
        BY <1>4, <2>3
      <4> SUFFICES ASSUME NEW j \in r .. r + n - 1
                   PROVE  j \in r .. e /\ j \in Indices
        OBVIOUS
      <4>3. j \in Nat /\ r <= j /\ j <= e
        BY <2>2, <3>1, <4>1
      <4> QED  BY <2>2, <3>1, <4>2, <4>3, BlockAssumption DEF Indices
    <3>3. r \in Indices
      <4>1. r <= s /\ s < N_BLOCKS
        BY <1>4, <2>1, <2>4, <3>1
      <4> QED  BY <2>1, <3>1, <4>1, BlockAssumption DEF Indices
    <3> QED  BY <2>4, <3>1, <3>2, <3>3
  <2>6. RunStart(table, e) = s
    BY <1>7, <2>1, <2>4, <2>5
  <2>7. F[e] = n
    BY <2>1, <2>4, <2>6 DEF e
  <2> QED  BY <2>3, <2>7 DEF e
<1>8. starts \in SUBSET Nat /\ stops \in SUBSET Nat
  BY <1>4
<1>9. CASE starts = {}
  <2>1. stops = {}
    BY <1>6, <1>9
  <2> QED  BY <1>1, <1>2, <1>9, <2>1
<1>10. CASE starts # {}
  <2> HIDE DEF starts, stops
  <2>1. Min(starts) \in starts /\ \A r \in starts : Min(starts) <= r
    BY <1>8, <1>10, MinOfNats
  <2>2. PICK s \in starts : s = Min(starts) /\ \A r \in starts : s <= r
    BY <2>1
  <2>3. s + n - 1 \in stops
    BY <1>7, <2>2
  <2>4. Min(stops) \in stops /\ Min(stops) <= s + n - 1
    BY <1>8, <2>3, MinOfNats
  <2>5. PICK i \in stops : i = Min(stops)
    BY <2>4
  <2>6. i - n + 1 \in starts /\ i \in Nat /\ s \in Nat
    BY <1>6, <1>8
  <2>7. s <= i - n + 1
    BY <2>2, <2>6
  <2>8. i = s + n - 1
    BY <2>4, <2>5, <2>6, <2>7
  <2>9. Min(stops) - n + 1 = Min(starts)
    BY <2>2, <2>5, <2>6, <2>8
  <2> QED  BY <1>1, <1>2, <1>10, <2>3, <2>9
<1> QED  BY <1>9, <1>10

\* The scan of level_1.c finds the first run that is long enough in every table the
\* allocator can reach.
THEOREM ScanHolds == Spec => []ScanExact
<1>1. ScanExact
  <2>1. \A n \in 1 .. RequiredBlocks(MAX_ALLOC) : n \in Nat \ {0}
    BY RequiredBlocksNat
  <2> QED  BY <2>1, ScanFindsFirst DEF ScanExact
<1> QED  BY <1>1, PTL

=============================================================================
