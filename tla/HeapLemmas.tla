------------------------------ MODULE HeapLemmas ------------------------------
(***************************************************************************)
(* What the operations of Heap and Compaction preserve, for every size of  *)
(* ram[] and every heap: the lemmas the proofs about the allocators rest   *)
(* on.  After those about the search, the split, the release and the sweep *)
(* come the sums over blocks, the heap that mem_compact has half compacted *)
(* and the handle table whose entries name the live blocks one to one.     *)
(***************************************************************************)
EXTENDS Compaction, NatLemmas, TLAPS

\* The invariant of the heap between two calls.
WellFormed(h) == TypedHeap(h) /\ Tiled(h) /\ Coalesced(h)

-----------------------------------------------------------------------------
(***************************************************************************)
(* Numbers.                                                                *)
(***************************************************************************)

\* align_bytes rounds a request up to the next multiple of 4.
LEMMA AlignBytesRoundsUp ==
  ASSUME NEW n \in Nat
  PROVE  /\ AlignBytes(n) \in Nat
         /\ AlignBytes(n) % ALIGNMENT = 0
         /\ n <= AlignBytes(n) /\ AlignBytes(n) < n + 4
BY DEF AlignBytes, ALIGNMENT

\* The header of a block whose size is legal is legal, whatever the task id: the
\* 16 bits of the field keep some of it.
LEMMA HeaderTyped ==
  ASSUME NEW size \in BlockSizes, NEW status \in {STATUS_FREE, STATUS_USED},
         NEW task_id \in Int
  PROVE  Header(size, status, task_id) \in Headers
<1>1. TASK_ID_RANGE \in Nat \ {0}
  BY DEF TASK_ID_RANGE
<1>2. task_id % TASK_ID_RANGE \in 0 .. TASK_ID_RANGE - 1
  BY <1>1
<1> QED  BY <1>2 DEF Header, Headers

-----------------------------------------------------------------------------
(***************************************************************************)
(* The walk.                                                               *)
(***************************************************************************)

\* Every block lies inside ram[], and its successor after it.
LEMMA BlockBounds ==
  ASSUME NEW h, TypedHeap(h), Tiled(h), NEW o \in DOMAIN h
  PROVE  /\ o \in Nat /\ o < DEVICE_RAM
         /\ h[o].size \in BlockSizes
         /\ NextBlock(h, o) \in Nat
         /\ o < NextBlock(h, o)
         /\ NextBlock(h, o) <= DEVICE_RAM
BY HeapAssumption
DEF TypedHeap, Tiled, Offsets, Headers, BlockSizes, NextBlock, HEADER_SIZE, MIN_ALLOC

\* The walk of a tiled heap reaches every block: each one but the first is the
\* successor of another.
LEMMA Predecessor ==
  ASSUME NEW h, TypedHeap(h), Tiled(h), NEW p \in DOMAIN h, p # 0
  PROVE  \E o \in DOMAIN h : NextBlock(h, o) = p
<1> DEFINE before == {o \in DOMAIN h : o < p}
<1>1. p \in Nat /\ p < DEVICE_RAM
  BY BlockBounds
<1>2. 0 \in before
  BY <1>1 DEF Tiled
<1>3. before \in SUBSET Nat /\ \A o \in before : o <= p
  BY BlockBounds, <1>1
<1>4. PICK o \in before : \A q \in before : q <= o
  <2> HIDE DEF before
  <2> QED  BY <1>1, <1>2, <1>3, GreatestOfNats
<1>5. o < NextBlock(h, o) /\ NextBlock(h, o) \in Nat
  BY BlockBounds
<1>6. NextBlock(h, o) <= p
  BY DEF Tiled
<1>7. NextBlock(h, o) \in DOMAIN h
  BY <1>1, <1>5, <1>6, HeapAssumption DEF Tiled
<1>8. ~ (NextBlock(h, o) < p)
  <2>1. NextBlock(h, o) < p => NextBlock(h, o) \in before
    BY <1>7
  <2>2. NextBlock(h, o) \in before => NextBlock(h, o) <= o
    BY <1>4
  <2>3. o \in Nat
    BY <1>3
  <2> QED  BY <2>1, <2>2, <2>3, <1>5
<1> QED  BY <1>1, <1>5, <1>6, <1>8

\* No two blocks have the same successor.
LEMMA NextBlockInjective ==
  ASSUME NEW h, TypedHeap(h), Tiled(h),
         NEW o \in DOMAIN h, NEW p \in DOMAIN h,
         NextBlock(h, o) = NextBlock(h, p)
  PROVE  o = p
<1>1. /\ o \in Nat /\ p \in Nat /\ NextBlock(h, o) \in Nat
      /\ o < NextBlock(h, o) /\ p < NextBlock(h, p)
  BY BlockBounds
<1>2. ~ (o < p) /\ ~ (p < o)
  BY <1>1 DEF Tiled
<1> QED  BY <1>1, <1>2

\* mem_init leaves a well-formed heap.
LEMMA InitialHeapWellFormed == WellFormed(InitialHeap)
<1>1. /\ DOMAIN InitialHeap = {0}
      /\ InitialHeap[0] = Header(DEVICE_RAM - HEADER_SIZE, STATUS_FREE, 0)
  BY DEF InitialHeap
<1>2. InitialHeap[0] \in Headers
  BY <1>1, HeapAssumption
  DEF Header, Headers, BlockSizes, HEADER_SIZE, MIN_ALLOC, ALIGNMENT, TASK_ID_RANGE
<1>3. TypedHeap(InitialHeap)
  <2>1. 0 \in Offsets
    BY HeapAssumption DEF Offsets, HEADER_SIZE, MIN_ALLOC, ALIGNMENT
  <2>2. InitialHeap = [o \in DOMAIN InitialHeap |-> InitialHeap[o]]
    BY DEF InitialHeap
  <2> QED  BY <1>1, <1>2, <2>1, <2>2 DEF TypedHeap
<1>4. NextBlock(InitialHeap, 0) = DEVICE_RAM
  BY <1>1, HeapAssumption DEF NextBlock, Header, HEADER_SIZE
<1>5. Tiled(InitialHeap)
  BY <1>1, <1>4 DEF Tiled
<1>6. Coalesced(InitialHeap)
  BY <1>1, <1>4, HeapAssumption DEF Coalesced, FreeBlocks, HEADER_SIZE, MIN_ALLOC
<1> QED  BY <1>3, <1>5, <1>6 DEF WellFormed

-----------------------------------------------------------------------------
(***************************************************************************)
(* Allocation.                                                             *)
(***************************************************************************)

\* find_free_block returns -1 or a FREE block that is large enough.
LEMMA FindFreeBlockFits ==
  ASSUME NEW h, TypedHeap(h), NEW need, NEW strategy,
         FindFreeBlock(h, need, strategy) # None
  PROVE  /\ FindFreeBlock(h, need, strategy) \in FreeBlocks(h)
         /\ h[FindFreeBlock(h, need, strategy)].size >= need
<1> DEFINE fits == {o \in FreeBlocks(h) : h[o].size >= need}
           tightest == {o \in fits : \A p \in fits : h[o].size <= h[p].size}
           exact == {o \in fits : h[o].size = need}
           candidates == CASE strategy = 0 -> fits
                           [] strategy = 1 -> tightest
                           [] OTHER -> exact
<1>1. FindFreeBlock(h, need, strategy) =
        IF candidates = {} THEN None ELSE Min(candidates)
  BY DEF FindFreeBlock
<1>2. candidates \subseteq fits
  OBVIOUS
<1>3. fits \in SUBSET Nat
  BY DEF TypedHeap, Offsets, FreeBlocks
<1> HIDE DEF candidates
<1>4. candidates # {} /\ FindFreeBlock(h, need, strategy) = Min(candidates)
  BY <1>1
<1>5. Min(candidates) \in candidates
  BY <1>2, <1>3, <1>4, MinOfNats
<1> QED  BY <1>2, <1>4, <1>5

\* The block a request is given is the request or the whole block, which is then
\* too small to be split.
LEMMA GivenSizeFits ==
  ASSUME NEW available \in BlockSizes, NEW need \in BlockSizes, need <= available
  PROVE  /\ GivenSize(available, need) \in BlockSizes
         /\ need <= GivenSize(available, need)
         /\ \/ GivenSize(available, need) = available
            \/ /\ GivenSize(available, need) = need
               /\ available - need >= HEADER_SIZE + MIN_ALLOC
BY DEF GivenSize, WillSplit, BlockSizes

\* The heap after Occupy, block by block.
LEMMA OccupyShape ==
  ASSUME NEW h, WellFormed(h), NEW o \in FreeBlocks(h),
         NEW need \in BlockSizes, need <= h[o].size, NEW task_id \in Int
  PROVE  LET g == Occupy(h, o, need, task_id)
             given == GivenSize(h[o].size, need)
             rest == o + HEADER_SIZE + given
         IN  /\ g[o] = Header(given, STATUS_USED, task_id)
             /\ \A p \in DOMAIN h \ {o} : g[p] = h[p]
             /\ \/ DOMAIN g = DOMAIN h /\ given = h[o].size
                \/ /\ DOMAIN g = DOMAIN h \cup {rest}
                   /\ rest \notin DOMAIN h
                   /\ rest \in Offsets
                   /\ given = need
                   /\ h[o].size - need >= HEADER_SIZE + MIN_ALLOC
                   /\ g[rest] = Header(h[o].size - need - HEADER_SIZE, STATUS_FREE, 0)
<1> DEFINE g == Occupy(h, o, need, task_id)
           given == GivenSize(h[o].size, need)
           rest == o + HEADER_SIZE + given
           tail == IF given < h[o].size THEN {rest} ELSE {}
<1>1. /\ o \in DOMAIN h /\ o \in Nat
      /\ h[o].size \in BlockSizes
      /\ NextBlock(h, o) <= DEVICE_RAM
  BY BlockBounds DEF WellFormed, FreeBlocks
<1>2. /\ given \in BlockSizes
      /\ \/ given = h[o].size
         \/ given = need /\ h[o].size - need >= HEADER_SIZE + MIN_ALLOC
  BY <1>1, GivenSizeFits
<1>3. /\ DOMAIN g = DOMAIN h \cup tail
      /\ \A p \in DOMAIN h \cup tail :
           g[p] = CASE p = o -> Header(given, STATUS_USED, task_id)
                    [] p \in tail -> Header(h[o].size - need - HEADER_SIZE, STATUS_FREE, 0)
                    [] OTHER -> h[p]
  BY DEF Occupy
<1>4. rest = o + HEADER_SIZE + given /\ tail = IF given < h[o].size THEN {rest} ELSE {}
  OBVIOUS
<1> HIDE DEF g, given, rest, tail
<1>5. g[o] = Header(given, STATUS_USED, task_id)
  <2>1. o # rest
    BY <1>1, <1>2, <1>4 DEF BlockSizes, HEADER_SIZE, MIN_ALLOC
  <2>2. o \notin tail
    BY <1>4, <2>1
  <2> QED  BY <1>1, <1>3, <2>2
<1>6. CASE given = h[o].size
  <2>1. tail = {}
    BY <1>1, <1>4, <1>6 DEF BlockSizes
  <2>2. \A p \in DOMAIN h \ {o} : g[p] = h[p]
    BY <1>3, <2>1
  <2> QED  BY <1>3, <1>5, <1>6, <2>1, <2>2 DEF g, given, rest
<1>7. CASE given = need /\ h[o].size - need >= HEADER_SIZE + MIN_ALLOC
  <2>1. tail = {rest}
    BY <1>1, <1>4, <1>7 DEF BlockSizes, HEADER_SIZE, MIN_ALLOC
  <2>2. rest \in Nat /\ o < rest /\ rest <= NextBlock(h, o) - (HEADER_SIZE + MIN_ALLOC)
    BY <1>1, <1>4, <1>7 DEF BlockSizes, NextBlock, HEADER_SIZE, MIN_ALLOC
  <2>3. rest \notin DOMAIN h
    <3>1. rest \in DOMAIN h => NextBlock(h, o) <= rest
      BY <1>1, <2>2 DEF WellFormed, Tiled
    <3>2. NextBlock(h, o) \in Nat
      BY <1>1, BlockBounds DEF WellFormed
    <3> QED  BY <2>2, <3>1, <3>2 DEF HEADER_SIZE, MIN_ALLOC
  <2>4. rest \in Offsets
    <3>1. o % 4 = 0 /\ need % 4 = 0
      BY <1>1 DEF WellFormed, TypedHeap, Offsets, BlockSizes, ALIGNMENT
    <3>2. need \in Nat
      BY DEF BlockSizes, MIN_ALLOC
    <3>3. (o + 8 + need) % 4 = 0
      BY <1>1, <3>1, <3>2
    <3>4. rest % ALIGNMENT = 0
      BY <1>4, <1>7, <3>3 DEF HEADER_SIZE, ALIGNMENT
    <3>5. rest <= DEVICE_RAM - (HEADER_SIZE + MIN_ALLOC)
      <4>1. NextBlock(h, o) \in Nat /\ DEVICE_RAM \in Nat
        BY <1>1, BlockBounds, HeapAssumption DEF WellFormed
      <4> QED  BY <1>1, <2>2, <4>1 DEF HEADER_SIZE, MIN_ALLOC
    <3> QED  BY <2>2, <3>4, <3>5, HeapAssumption DEF Offsets, HEADER_SIZE, MIN_ALLOC
  <2>5. rest # o
    BY <1>1, <2>2
  <2>6. g[rest] = Header(h[o].size - need - HEADER_SIZE, STATUS_FREE, 0)
    BY <1>3, <2>1, <2>5
  <2>7. \A p \in DOMAIN h \ {o} : g[p] = h[p]
    BY <1>3, <2>1, <2>3
  <2> QED  BY <1>3, <1>5, <1>7, <2>1, <2>3, <2>4, <2>6, <2>7 DEF g, given, rest
<1> QED  BY <1>2, <1>6, <1>7

\* mem_alloc leaves a well-formed heap: the split keeps the tiling, and what is
\* split off is not followed by a FREE block because the whole was not.
LEMMA OccupyWellFormed ==
  ASSUME NEW h, WellFormed(h), NEW o \in FreeBlocks(h),
         NEW need \in BlockSizes, need <= h[o].size, NEW task_id \in Int
  PROVE  WellFormed(Occupy(h, o, need, task_id))
<1> DEFINE g == Occupy(h, o, need, task_id)
           given == GivenSize(h[o].size, need)
           rest == o + HEADER_SIZE + given
<1>1. /\ g[o] = Header(given, STATUS_USED, task_id)
      /\ \A p \in DOMAIN h \ {o} : g[p] = h[p]
      /\ \/ DOMAIN g = DOMAIN h /\ given = h[o].size
         \/ /\ DOMAIN g = DOMAIN h \cup {rest}
            /\ rest \notin DOMAIN h
            /\ rest \in Offsets
            /\ given = need
            /\ h[o].size - need >= HEADER_SIZE + MIN_ALLOC
            /\ g[rest] = Header(h[o].size - need - HEADER_SIZE, STATUS_FREE, 0)
  BY OccupyShape
<1>2. /\ o \in DOMAIN h /\ o \in Nat
      /\ h[o].size \in BlockSizes
      /\ given \in BlockSizes
  BY BlockBounds, GivenSizeFits DEF WellFormed, FreeBlocks
<1>3. g = [p \in DOMAIN g |-> g[p]]
  BY DEF Occupy
<1> HIDE DEF g, given
<1>4. g[o] \in Headers
  BY <1>1, <1>2, HeaderTyped
<1>5. CASE DOMAIN g = DOMAIN h /\ given = h[o].size
  <2>1. TypedHeap(g)
    BY <1>1, <1>3, <1>4, <1>5 DEF TypedHeap, WellFormed
  <2>2. \A p \in DOMAIN g : NextBlock(g, p) = NextBlock(h, p)
    BY <1>1, <1>5 DEF NextBlock, Header
  <2>3. Tiled(g)
    BY <1>5, <2>2 DEF Tiled, WellFormed
  <2>4. FreeBlocks(g) \subseteq FreeBlocks(h)
    BY <1>1, <1>5 DEF FreeBlocks, Header, STATUS_FREE, STATUS_USED
  <2>5. Coalesced(g)
    BY <1>5, <2>2, <2>4 DEF Coalesced, WellFormed, FreeBlocks
  <2> QED  BY <2>1, <2>3, <2>5 DEF WellFormed, g
<1>6. CASE /\ DOMAIN g = DOMAIN h \cup {rest}
           /\ rest \notin DOMAIN h
           /\ rest \in Offsets
           /\ given = need
           /\ h[o].size - need >= HEADER_SIZE + MIN_ALLOC
           /\ g[rest] = Header(h[o].size - need - HEADER_SIZE, STATUS_FREE, 0)
  <2>1. g[rest] \in Headers
    <3>1. h[o].size - need - HEADER_SIZE \in BlockSizes
      BY <1>2, <1>6, HeapAssumption DEF BlockSizes, HEADER_SIZE, MIN_ALLOC, ALIGNMENT
    <3> QED  BY <1>6, <3>1, HeaderTyped
  <2>2. TypedHeap(g)
    BY <1>1, <1>3, <1>4, <1>6, <2>1 DEF TypedHeap, WellFormed
  <2>3. /\ NextBlock(g, o) = rest
        /\ NextBlock(g, rest) = NextBlock(h, o)
        /\ \A p \in DOMAIN h \ {o} : NextBlock(g, p) = NextBlock(h, p)
    BY <1>1, <1>2, <1>6 DEF NextBlock, Header, BlockSizes, HEADER_SIZE, MIN_ALLOC
  <2>4. o < rest /\ rest < NextBlock(h, o) /\ rest \in Nat /\ NextBlock(h, o) \in Nat
    BY <1>2, <1>6 DEF NextBlock, BlockSizes, HEADER_SIZE, MIN_ALLOC
  <2>5. Tiled(g)
    <3>1. 0 \in DOMAIN g
      BY <1>6 DEF WellFormed, Tiled
    <3>2. \A p \in DOMAIN g : NextBlock(g, p) \in DOMAIN g \cup {DEVICE_RAM}
      BY <1>2, <1>6, <2>3 DEF WellFormed, Tiled
    <3>3. ASSUME NEW p \in DOMAIN g, NEW q \in DOMAIN g, p < q
          PROVE  NextBlock(g, p) <= q
      <4>1. CASE p = o
        BY <1>2, <1>6, <2>3, <2>4, <3>3, <4>1, BlockBounds DEF WellFormed, Tiled
      <4>2. CASE p = rest
        <5>1. q \in DOMAIN h /\ q \in Nat /\ o < q
          BY <1>2, <1>6, <2>4, <3>3, <4>2, BlockBounds DEF WellFormed
        <5> QED  BY <1>2, <2>3, <4>2, <5>1 DEF WellFormed, Tiled
      <4>3. CASE p \in DOMAIN h \ {o} /\ q = rest
        <5>1. p \in Nat /\ NextBlock(h, p) \in Nat
          BY <4>3, BlockBounds DEF WellFormed
        <5>2. ~ (o < p)
          <6>1. o < p => NextBlock(h, o) <= p
            BY <1>2, <4>3 DEF WellFormed, Tiled
          <6> QED  BY <2>4, <3>3, <4>3, <5>1, <6>1
        <5>3. p < o
          BY <1>2, <4>3, <5>1, <5>2
        <5>4. NextBlock(h, p) <= o
          BY <1>2, <4>3, <5>3 DEF WellFormed, Tiled
        <5> QED  BY <1>2, <2>3, <2>4, <4>3, <5>1, <5>4
      <4>4. CASE p \in DOMAIN h \ {o} /\ q \in DOMAIN h
        BY <2>3, <3>3, <4>4 DEF WellFormed, Tiled
      <4> QED  BY <1>6, <4>1, <4>2, <4>3, <4>4
    <3> QED  BY <3>1, <3>2, <3>3 DEF Tiled
  <2>6. FreeBlocks(g) \subseteq (FreeBlocks(h) \ {o}) \cup {rest}
    BY <1>1, <1>6 DEF FreeBlocks, Header, STATUS_FREE, STATUS_USED
  <2>7. ASSUME NEW p \in FreeBlocks(g), NEW q \in FreeBlocks(g)
        PROVE  NextBlock(g, p) # q
    <3>1. CASE p = rest
      <4>1. NextBlock(h, o) \notin FreeBlocks(h)
        BY DEF WellFormed, Coalesced
      <4>2. NextBlock(g, p) # rest
        BY <2>3, <2>4, <3>1
      <4> QED  BY <2>3, <2>6, <3>1, <4>1, <4>2
    <3>2. CASE p \in FreeBlocks(h) \ {o} /\ q = rest
      <4>1. NextBlock(h, p) \in DOMAIN h \cup {DEVICE_RAM}
        BY <3>2 DEF WellFormed, Tiled, FreeBlocks
      <4>2. rest # DEVICE_RAM
        BY <1>2, <2>4, BlockBounds DEF WellFormed
      <4> QED  BY <1>6, <2>3, <3>2, <4>1, <4>2 DEF FreeBlocks
    <3>3. CASE p \in FreeBlocks(h) \ {o} /\ q \in FreeBlocks(h)
      BY <2>3, <3>3 DEF WellFormed, Coalesced, FreeBlocks
    <3> QED  BY <2>6, <2>7, <3>1, <3>2, <3>3
  <2>8. Coalesced(g)
    BY <2>7 DEF Coalesced
  <2> QED  BY <2>2, <2>5, <2>8 DEF WellFormed, g
<1> QED  BY <1>1, <1>5, <1>6

-----------------------------------------------------------------------------
(***************************************************************************)
(* Release.                                                                *)
(***************************************************************************)

\* A run of FREE blocks ends at a block that starts no later than any USED block
\* after it, or at the end of ram[].
LEMMA RunEndIsNext ==
  ASSUME NEW h, TypedHeap(h), Tiled(h), NEW o \in DOMAIN h
  PROVE  /\ RunEnd(h, o) \in (DOMAIN h \cup {DEVICE_RAM}) \ Absorbed(h)
         /\ NextBlock(h, o) <= RunEnd(h, o)
         /\ \A p \in DOMAIN h \ Absorbed(h) : o < p => RunEnd(h, o) <= p
<1> DEFINE ends == {p \in (DOMAIN h \cup {DEVICE_RAM}) \ Absorbed(h) : p > o}
<1>1. /\ o \in Nat /\ o < DEVICE_RAM
      /\ NextBlock(h, o) <= DEVICE_RAM
      /\ \A p \in DOMAIN h : p \in Nat /\ p < DEVICE_RAM
      /\ DEVICE_RAM \in Nat
  BY BlockBounds, HeapAssumption
<1>2. DEVICE_RAM \in ends
  BY <1>1 DEF Absorbed, FreeBlocks
<1>3. ends \in SUBSET Nat
  BY <1>1
<1>4. RunEnd(h, o) = Min(ends)
  BY DEF RunEnd
<1> HIDE DEF ends
<1>5. RunEnd(h, o) \in ends /\ \A p \in ends : RunEnd(h, o) <= p
  BY <1>2, <1>3, <1>4, MinOfNats
<1>6. NextBlock(h, o) <= RunEnd(h, o)
  BY <1>1, <1>5 DEF ends, Tiled
<1> QED  BY <1>5, <1>6 DEF ends

\* The heap after sweep_and_merge, block by block.
LEMMA SweepShape ==
  ASSUME NEW h, TypedHeap(h), Tiled(h)
  PROVE  LET g == SweepAndMerge(h)
         IN  /\ DOMAIN g = DOMAIN h \ Absorbed(h)
             /\ \A o \in DOMAIN g :
                  \/ /\ o \in FreeBlocks(h)
                     /\ g[o] = Header(RunEnd(h, o) - o - HEADER_SIZE, STATUS_FREE, 0)
                     /\ NextBlock(g, o) = RunEnd(h, o)
                  \/ /\ g[o] = h[o]
                     /\ NextBlock(g, o) = NextBlock(h, o)
                     /\ NextBlock(h, o) \notin Absorbed(h)
<1> DEFINE g == SweepAndMerge(h)
<1>1. DOMAIN g = DOMAIN h \ Absorbed(h)
  BY DEF SweepAndMerge
<1>2. ASSUME NEW o \in DOMAIN g
      PROVE  \/ /\ o \in FreeBlocks(h)
                /\ g[o] = Header(RunEnd(h, o) - o - HEADER_SIZE, STATUS_FREE, 0)
                /\ NextBlock(g, o) = RunEnd(h, o)
             \/ /\ g[o] = h[o]
                /\ NextBlock(g, o) = NextBlock(h, o)
                /\ NextBlock(h, o) \notin Absorbed(h)
  <2>1. o \in DOMAIN h /\ o \in Nat
    BY <1>1, BlockBounds
  <2>2. CASE o \in FreeBlocks(h) /\ NextBlock(h, o) \in Absorbed(h)
    <3>1. g[o] = Header(RunEnd(h, o) - o - HEADER_SIZE, STATUS_FREE, 0)
      BY <1>1, <2>2 DEF SweepAndMerge
    <3>2. RunEnd(h, o) \in Nat
      BY <2>1, RunEndIsNext, BlockBounds, HeapAssumption
    <3>3. NextBlock(g, o) = o + (RunEnd(h, o) - o - HEADER_SIZE) + HEADER_SIZE
      BY <3>1 DEF NextBlock, Header
    <3>4. NextBlock(g, o) = RunEnd(h, o)
      BY <2>1, <3>2, <3>3 DEF HEADER_SIZE
    <3> QED  BY <2>2, <3>1, <3>4
  <2>3. CASE ~ (o \in FreeBlocks(h) /\ NextBlock(h, o) \in Absorbed(h))
    <3>1. g[o] = h[o]
      BY <1>1, <2>3 DEF SweepAndMerge
    <3>2. NextBlock(h, o) \notin Absorbed(h)
      <4>1. SUFFICES ASSUME NextBlock(h, o) \in Absorbed(h)
                     PROVE  FALSE
        OBVIOUS
      <4>2. PICK p \in FreeBlocks(h) : NextBlock(h, p) = NextBlock(h, o)
        BY <4>1 DEF Absorbed
      <4>3. p = o
        BY <2>1, <4>2, NextBlockInjective DEF FreeBlocks
      <4> QED  BY <2>3, <4>1, <4>3
    <3> QED  BY <3>1, <3>2 DEF NextBlock
  <2> QED  BY <2>2, <2>3
<1> QED  BY <1>1, <1>2

\* Offsets and ends of blocks are multiples of 4.
LEMMA BoundariesAligned ==
  ASSUME NEW h, TypedHeap(h), NEW p \in DOMAIN h \cup {DEVICE_RAM}
  PROVE  p \in Nat /\ p % 4 = 0
BY HeapAssumption DEF TypedHeap, Offsets, ALIGNMENT

\* sweep_and_merge leaves a well-formed heap, whatever FREE blocks it finds side
\* by side.
LEMMA SweepWellFormed ==
  ASSUME NEW h, TypedHeap(h), Tiled(h)
  PROVE  WellFormed(SweepAndMerge(h))
<1> DEFINE g == SweepAndMerge(h)
<1>1. g = [o \in DOMAIN g |-> g[o]]
  BY DEF SweepAndMerge
<1>2. /\ DOMAIN g = DOMAIN h \ Absorbed(h)
      /\ \A o \in DOMAIN g :
           \/ /\ o \in FreeBlocks(h)
              /\ g[o] = Header(RunEnd(h, o) - o - HEADER_SIZE, STATUS_FREE, 0)
              /\ NextBlock(g, o) = RunEnd(h, o)
           \/ /\ g[o] = h[o]
              /\ NextBlock(g, o) = NextBlock(h, o)
              /\ NextBlock(h, o) \notin Absorbed(h)
  BY SweepShape
<1> HIDE DEF g
<1>3. \A o \in DOMAIN g : o \in DOMAIN h /\ o \in Nat /\ o < DEVICE_RAM
  BY <1>2, BlockBounds
<1>4. ASSUME NEW o \in DOMAIN g
      PROVE  g[o] \in Headers
  <2>1. CASE g[o] = Header(RunEnd(h, o) - o - HEADER_SIZE, STATUS_FREE, 0)
    <3> DEFINE end == RunEnd(h, o)
               size == end - o - 8
    <3>1. end \in DOMAIN h \cup {DEVICE_RAM} /\ NextBlock(h, o) <= end
      BY <1>3, RunEndIsNext
    <3>2. end \in Nat /\ end % 4 = 0 /\ end <= DEVICE_RAM
      BY <3>1, BoundariesAligned, BlockBounds, HeapAssumption
    <3>3. o \in Nat /\ o % 4 = 0
      BY <1>3, BoundariesAligned
    <3>4. h[o].size \in Nat /\ h[o].size >= 4
      BY <1>3, BlockBounds DEF BlockSizes, MIN_ALLOC
    <3>5. o + h[o].size + 8 <= end
      BY <3>1 DEF NextBlock, HEADER_SIZE
    <3> HIDE DEF end
    <3>6. size \in 4 .. DEVICE_RAM /\ size % 4 = 0
      BY <3>2, <3>3, <3>4, <3>5, HeapAssumption
    <3>7. size \in BlockSizes
      BY <3>6 DEF BlockSizes, MIN_ALLOC, ALIGNMENT
    <3>8. g[o] = Header(size, STATUS_FREE, 0)
      BY <2>1 DEF end, HEADER_SIZE
    <3> HIDE DEF size
    <3> QED  BY <3>7, <3>8, HeaderTyped
  <2>2. CASE g[o] = h[o]
    BY <1>3, <2>2 DEF TypedHeap
  <2> QED  BY <1>2, <2>1, <2>2
<1>5. TypedHeap(g)
  BY <1>1, <1>3, <1>4 DEF TypedHeap
<1>6. Tiled(g)
  <2>1. 0 \in DOMAIN g
    <3>1. ASSUME 0 \in Absorbed(h)
          PROVE  FALSE
      <4>1. PICK p \in DOMAIN h : NextBlock(h, p) = 0
        BY <3>1 DEF Absorbed, FreeBlocks
      <4> QED  BY <4>1, BlockBounds
    <3> QED  BY <1>2, <3>1 DEF Tiled
  <2>2. ASSUME NEW o \in DOMAIN g
        PROVE  NextBlock(g, o) \in DOMAIN g \cup {DEVICE_RAM}
    <3>1. CASE NextBlock(g, o) = RunEnd(h, o)
      BY <1>2, <1>3, <3>1, RunEndIsNext
    <3>2. CASE NextBlock(g, o) = NextBlock(h, o) /\ NextBlock(h, o) \notin Absorbed(h)
      BY <1>2, <1>3, <3>2 DEF Tiled
    <3> QED  BY <1>2, <3>1, <3>2
  <2>3. ASSUME NEW o \in DOMAIN g, NEW p \in DOMAIN g, o < p
        PROVE  NextBlock(g, o) <= p
    <3>1. CASE NextBlock(g, o) = RunEnd(h, o)
      BY <1>2, <1>3, <2>3, <3>1, RunEndIsNext
    <3>2. CASE NextBlock(g, o) = NextBlock(h, o)
      BY <1>3, <2>3, <3>2 DEF Tiled
    <3> QED  BY <1>2, <3>1, <3>2
  <2> QED  BY <2>1, <2>2, <2>3 DEF Tiled
<1>7. Coalesced(g)
  <2>1. \A o \in FreeBlocks(g) : o \in DOMAIN g /\ o \in FreeBlocks(h)
    BY <1>2, <1>3 DEF FreeBlocks
  <2>2. SUFFICES ASSUME NEW o \in FreeBlocks(g), NEW p \in FreeBlocks(g),
                        NextBlock(g, o) = p
                 PROVE  FALSE
    BY DEF Coalesced
  <2>3. o \in FreeBlocks(h) /\ p \in FreeBlocks(h) /\ p \in DOMAIN h \ Absorbed(h)
    BY <1>2, <2>1
  <2>4. CASE NextBlock(g, o) = NextBlock(h, o)
    BY <2>2, <2>3, <2>4 DEF Absorbed
  <2>5. CASE NextBlock(g, o) = RunEnd(h, o)
    \* The block before p is USED, and would end the run before p does.
    <3>1. o \in Nat /\ p \in Nat /\ o < p
      BY <1>3, <1>5, <1>6, <2>1, <2>2, BlockBounds
    <3>2. PICK q \in DOMAIN h : NextBlock(h, q) = p
      BY <2>3, <3>1, Predecessor
    <3>3. q \notin FreeBlocks(h)
      BY <2>3, <3>2 DEF Absorbed
    <3>4. q \in Nat /\ q < p
      BY <3>2, BlockBounds
    <3>5. ~ (q < o)
      <4>1. q < o => NextBlock(h, q) <= o
        BY <2>3 DEF Tiled, FreeBlocks
      <4> QED  BY <3>1, <3>2, <4>1
    <3>6. o < q
      BY <2>3, <3>1, <3>3, <3>4, <3>5
    <3>7. RunEnd(h, o) <= q
      BY <2>3, <3>3, <3>6, RunEndIsNext DEF Absorbed, FreeBlocks
    <3> QED  BY <2>2, <2>5, <3>1, <3>4, <3>7
  <2> QED  BY <1>2, <2>1, <2>4, <2>5
<1>8. WellFormed(g)
  BY <1>5, <1>6, <1>7 DEF WellFormed
<1> QED  BY <1>8 DEF g

\* sweep_and_merge touches no USED block.
LEMMA SweepKeepsUsed ==
  ASSUME NEW h, TypedHeap(h), Tiled(h)
  PROVE  /\ UsedBlocks(SweepAndMerge(h)) = UsedBlocks(h)
         /\ \A o \in UsedBlocks(h) : SweepAndMerge(h)[o] = h[o]
<1> DEFINE g == SweepAndMerge(h)
<1>1. /\ DOMAIN g = DOMAIN h \ Absorbed(h)
      /\ \A o \in DOMAIN g :
           \/ o \in FreeBlocks(h) /\ g[o] = Header(RunEnd(h, o) - o - HEADER_SIZE, STATUS_FREE, 0)
           \/ g[o] = h[o]
  BY SweepShape
<1> HIDE DEF g
<1>2. UsedBlocks(h) \subseteq DOMAIN g
  BY <1>1 DEF UsedBlocks, Absorbed, FreeBlocks, STATUS_FREE, STATUS_USED
<1>3. \A o \in UsedBlocks(h) : g[o] = h[o]
  BY <1>1, <1>2 DEF UsedBlocks, FreeBlocks, STATUS_FREE, STATUS_USED
<1>4. \A o \in FreeBlocks(h) \cap DOMAIN g : g[o].status = STATUS_FREE
  BY <1>1 DEF FreeBlocks, Header
<1>5. \A o \in DOMAIN g : o \in UsedBlocks(h) \/ o \in FreeBlocks(h)
  BY <1>1 DEF TypedHeap, Headers, UsedBlocks, FreeBlocks
<1>6. UsedBlocks(g) = UsedBlocks(h)
  BY <1>2, <1>3, <1>4, <1>5 DEF UsedBlocks, STATUS_FREE, STATUS_USED
<1> QED  BY <1>3, <1>6 DEF g

\* The live blocks of g are those of h but the one at o, where they were.
LosesOnly(h, o, g) ==
  /\ TypedHeap(g) /\ Tiled(g)
  /\ UsedBlocks(g) = UsedBlocks(h) \ {o}
  /\ \A p \in UsedBlocks(g) : g[p] = h[p]

\* A block that becomes FREE, before the sweep.
LEMMA MarkFree ==
  ASSUME NEW h, TypedHeap(h), Tiled(h), NEW o \in UsedBlocks(h), NEW task_id \in Int,
         NEW g, g = [h EXCEPT ![o] = Header(h[o].size, STATUS_FREE, task_id)]
  PROVE  LosesOnly(h, o, g)
<1> DEFINE head == Header(h[o].size, STATUS_FREE, task_id)
<1>1. o \in DOMAIN h /\ h[o] \in Headers
  BY DEF UsedBlocks, TypedHeap
<1>2. head \in Headers /\ head.size = h[o].size /\ head.status = STATUS_FREE
  <2>1. h[o].size \in BlockSizes
    BY <1>1 DEF Headers
  <2> QED  BY <2>1, HeaderTyped DEF Header
<1> HIDE DEF head
<1>3. /\ DOMAIN g = DOMAIN h
      /\ g[o] = head
      /\ \A p \in DOMAIN h \ {o} : g[p] = h[p]
      /\ g = [p \in DOMAIN g |-> g[p]]
  BY <1>1 DEF head
<1>4. TypedHeap(g)
  BY <1>2, <1>3 DEF TypedHeap
<1>5. \A p \in DOMAIN g : NextBlock(g, p) = NextBlock(h, p)
  BY <1>2, <1>3 DEF NextBlock
<1>6. Tiled(g)
  BY <1>3, <1>5 DEF Tiled
<1>7. UsedBlocks(g) = UsedBlocks(h) \ {o}
  BY <1>2, <1>3 DEF UsedBlocks, STATUS_FREE, STATUS_USED
<1>8. \A p \in UsedBlocks(g) : g[p] = h[p]
  BY <1>3, <1>7 DEF UsedBlocks
<1> QED  BY <1>4, <1>6, <1>7, <1>8 DEF LosesOnly

\* mem_free leaves a well-formed heap, whose USED blocks are those of before but
\* the one freed, unmoved.
LEMMA ReleaseWellFormed ==
  ASSUME NEW h, WellFormed(h), NEW o \in UsedBlocks(h)
  PROVE  /\ WellFormed(Release(h, o))
         /\ UsedBlocks(Release(h, o)) = UsedBlocks(h) \ {o}
         /\ \A p \in UsedBlocks(h) \ {o} : Release(h, o)[p] = h[p]
<1> DEFINE g == [h EXCEPT ![o] = Header(h[o].size, STATUS_FREE, h[o].task_id)]
<1>1. LosesOnly(h, o, g)
  <2>1. h[o].task_id \in Int
    BY DEF WellFormed, TypedHeap, UsedBlocks, Headers
  <2>2. TypedHeap(h) /\ Tiled(h)
    BY DEF WellFormed
  <2>3. g = [h EXCEPT ![o] = Header(h[o].size, STATUS_FREE, h[o].task_id)]
    OBVIOUS
  <2> HIDE DEF g
  <2> QED  BY ONLY <2>1, <2>2, <2>3, MarkFree
<1>2. Release(h, o) = SweepAndMerge(g)
  BY DEF Release
<1> HIDE DEF g
<1> QED  BY <1>1, <1>2, SweepWellFormed, SweepKeepsUsed DEF LosesOnly

\* mem_alloc adds one USED block and touches no other.
LEMMA OccupyAddsUsed ==
  ASSUME NEW h, WellFormed(h), NEW o \in FreeBlocks(h),
         NEW need \in BlockSizes, need <= h[o].size, NEW task_id \in Int
  PROVE  LET g == Occupy(h, o, need, task_id)
         IN  /\ UsedBlocks(g) = UsedBlocks(h) \cup {o}
             /\ \A p \in UsedBlocks(h) : p # o /\ g[p] = h[p]
             /\ g[o].size = GivenSize(h[o].size, need)
<1> DEFINE g == Occupy(h, o, need, task_id)
           rest == o + HEADER_SIZE + GivenSize(h[o].size, need)
<1>1. /\ g[o] = Header(GivenSize(h[o].size, need), STATUS_USED, task_id)
      /\ \A p \in DOMAIN h \ {o} : g[p] = h[p]
      /\ \/ DOMAIN g = DOMAIN h
         \/ /\ DOMAIN g = DOMAIN h \cup {rest}
            /\ rest \notin DOMAIN h
            /\ g[rest] = Header(h[o].size - need - HEADER_SIZE, STATUS_FREE, 0)
  <2>1. o \in FreeBlocks(h) /\ need \in BlockSizes /\ task_id \in Int
    OBVIOUS
  <2> HIDE DEF g, rest
  <2>2. g = Occupy(h, o, need, task_id) /\ rest = o + HEADER_SIZE + GivenSize(h[o].size, need)
    BY DEF g, rest
  <2>3. LET k == Occupy(h, o, need, task_id)
            given == GivenSize(h[o].size, need)
        IN  /\ k[o] = Header(given, STATUS_USED, task_id)
            /\ \A p \in DOMAIN h \ {o} : k[p] = h[p]
            /\ \/ DOMAIN k = DOMAIN h
               \/ /\ DOMAIN k = DOMAIN h \cup {o + HEADER_SIZE + given}
                  /\ o + HEADER_SIZE + given \notin DOMAIN h
                  /\ k[o + HEADER_SIZE + given] = Header(h[o].size - need - HEADER_SIZE, STATUS_FREE, 0)
    BY ONLY WellFormed(h), need <= h[o].size, <2>1, OccupyShape
  <2> QED  BY ONLY <2>2, <2>3
<1>2. o \in DOMAIN h /\ o \notin UsedBlocks(h)
  BY DEF FreeBlocks, UsedBlocks, STATUS_FREE, STATUS_USED
<1> HIDE DEF g, rest
<1>3. \A p \in UsedBlocks(h) : p # o /\ g[p] = h[p]
  BY <1>1, <1>2 DEF UsedBlocks
<1>4. UsedBlocks(h) \cup {o} \subseteq UsedBlocks(g)
  BY <1>1, <1>2, <1>3 DEF UsedBlocks, Header
<1>5. UsedBlocks(g) \subseteq UsedBlocks(h) \cup {o}
  BY <1>1, <1>2 DEF UsedBlocks, Header, STATUS_FREE, STATUS_USED
<1>6. g[o].size = GivenSize(h[o].size, need)
  BY <1>1 DEF Header
<1> QED  BY <1>3, <1>4, <1>5, <1>6 DEF g

-----------------------------------------------------------------------------
(***************************************************************************)
(* A sweep step by step.                                                   *)
(***************************************************************************)

\* FREE block p, which follows FREE block o, becomes part of it.
Joined(h, o, p) ==
  [q \in DOMAIN h \ {p} |->
     IF q = o THEN Header(h[o].size + h[p].size + HEADER_SIZE, STATUS_FREE, 0) ELSE h[q]]

\* The heap after one merge, block by block.
LEMMA JoinedShape ==
  ASSUME NEW h, TypedHeap(h), Tiled(h),
         NEW o \in FreeBlocks(h), NEW p \in FreeBlocks(h), NextBlock(h, o) = p
  PROVE  LET g == Joined(h, o, p)
         IN  /\ o # p /\ o < p
             /\ DOMAIN g = DOMAIN h \ {p}
             /\ \A q \in DOMAIN g \ {o} : g[q] = h[q] /\ NextBlock(g, q) = NextBlock(h, q)
             /\ g[o] = Header(h[o].size + h[p].size + HEADER_SIZE, STATUS_FREE, 0)
             /\ NextBlock(g, o) = NextBlock(h, p)
             /\ FreeBlocks(g) = FreeBlocks(h) \ {p}
<1> DEFINE g == Joined(h, o, p)
<1>1. /\ o \in DOMAIN h /\ p \in DOMAIN h
      /\ o \in Nat /\ p \in Nat /\ o < p
      /\ h[o].size \in Nat /\ h[p].size \in Nat
  BY BlockBounds DEF FreeBlocks, BlockSizes, MIN_ALLOC
<1>2. /\ DOMAIN g = DOMAIN h \ {p}
      /\ \A q \in DOMAIN g \ {o} : g[q] = h[q]
      /\ g[o] = Header(h[o].size + h[p].size + HEADER_SIZE, STATUS_FREE, 0)
  BY <1>1 DEF Joined
<1> HIDE DEF g
<1>3. \A q \in DOMAIN g \ {o} : NextBlock(g, q) = NextBlock(h, q)
  BY <1>2 DEF NextBlock
<1>4. NextBlock(g, o) = NextBlock(h, p)
  BY <1>1, <1>2 DEF NextBlock, Header, HEADER_SIZE
<1>5. FreeBlocks(g) = FreeBlocks(h) \ {p}
  BY <1>1, <1>2 DEF FreeBlocks, Header
<1> QED  BY <1>1, <1>2, <1>3, <1>4, <1>5 DEF g

\* One merge leaves the headers typed and tiling ram[].
LEMMA JoinedTiled ==
  ASSUME NEW h, TypedHeap(h), Tiled(h),
         NEW o \in FreeBlocks(h), NEW p \in FreeBlocks(h), NextBlock(h, o) = p
  PROVE  TypedHeap(Joined(h, o, p)) /\ Tiled(Joined(h, o, p))
<1> DEFINE g == Joined(h, o, p)
           size == h[o].size + h[p].size + HEADER_SIZE
<1>1. /\ o # p /\ o < p
      /\ DOMAIN g = DOMAIN h \ {p}
      /\ \A q \in DOMAIN g \ {o} : g[q] = h[q] /\ NextBlock(g, q) = NextBlock(h, q)
      /\ g[o] = Header(size, STATUS_FREE, 0)
      /\ NextBlock(g, o) = NextBlock(h, p)
  BY JoinedShape
<1>2. /\ o \in DOMAIN h /\ p \in DOMAIN h
      /\ \A q \in DOMAIN h : q \in Nat /\ NextBlock(h, q) \in Nat /\ q < NextBlock(h, q)
      /\ h[o].size \in BlockSizes /\ h[p].size \in BlockSizes
      /\ NextBlock(h, p) <= DEVICE_RAM
  BY BlockBounds DEF FreeBlocks
<1>3. size \in BlockSizes
  <2>1. p + h[p].size + HEADER_SIZE <= DEVICE_RAM /\ p = o + h[o].size + HEADER_SIZE
    BY <1>2 DEF NextBlock
  <2>2. size % 4 = 0
    BY <1>2 DEF BlockSizes, HEADER_SIZE, ALIGNMENT, MIN_ALLOC
  <2> QED  BY <1>2, <2>1, <2>2, HeapAssumption DEF BlockSizes, HEADER_SIZE, ALIGNMENT, MIN_ALLOC
<1>4. g = [q \in DOMAIN g |-> g[q]]
  BY DEF Joined
<1> HIDE DEF g, size
<1>5. TypedHeap(g)
  <2>1. g[o] \in Headers
    BY <1>1, <1>3, HeaderTyped
  <2> QED  BY <1>1, <1>4, <2>1 DEF TypedHeap
<1>6. 0 \in DOMAIN g
  BY <1>1, <1>2 DEF Tiled
<1>7. ASSUME NEW q \in DOMAIN g
      PROVE  NextBlock(g, q) \in DOMAIN g \cup {DEVICE_RAM}
  <2>1. CASE q = o
    BY <1>1, <1>2, <2>1 DEF Tiled
  <2>2. CASE q # o
    <3>1. NextBlock(h, q) # p
      BY <1>1, <1>2, <2>2, NextBlockInjective
    <3> QED  BY <1>1, <2>2, <3>1 DEF Tiled
  <2> QED  BY <2>1, <2>2
<1>8. ASSUME NEW q \in DOMAIN g, NEW r \in DOMAIN g, q < r
      PROVE  NextBlock(g, q) <= r
  <2>1. CASE q = o
    <3>1. p <= r /\ r # p
      BY <1>1, <1>2, <1>8, <2>1 DEF Tiled
    <3> QED  BY <1>1, <1>2, <2>1, <3>1 DEF Tiled
  <2>2. CASE q # o
    BY <1>1, <1>8, <2>2 DEF Tiled
  <2> QED  BY <2>1, <2>2
<1> QED  BY <1>5, <1>6, <1>7, <1>8 DEF Tiled, g

\* What is still to be merged after one merge is what was to be merged before it:
\* the sweep can be stopped anywhere and started again.
LEMMA JoinedSweepsAlike ==
  ASSUME NEW h, TypedHeap(h), Tiled(h),
         NEW o \in FreeBlocks(h), NEW p \in FreeBlocks(h), NextBlock(h, o) = p
  PROVE  SweepAndMerge(Joined(h, o, p)) = SweepAndMerge(h)
<1> DEFINE g == Joined(h, o, p)
<1>1. /\ o # p /\ o < p
      /\ DOMAIN g = DOMAIN h \ {p}
      /\ \A q \in DOMAIN g \ {o} : g[q] = h[q] /\ NextBlock(g, q) = NextBlock(h, q)
      /\ g[o] = Header(h[o].size + h[p].size + HEADER_SIZE, STATUS_FREE, 0)
      /\ NextBlock(g, o) = NextBlock(h, p)
      /\ FreeBlocks(g) = FreeBlocks(h) \ {p}
  BY JoinedShape
<1>2. /\ o \in DOMAIN h /\ p \in DOMAIN h
      /\ \A q \in DOMAIN h : /\ q \in Nat /\ q < DEVICE_RAM
                             /\ NextBlock(h, q) \in Nat /\ q < NextBlock(h, q)
                             /\ NextBlock(h, q) <= DEVICE_RAM
      /\ h[o].size \in Nat /\ h[p].size \in Nat
  BY BlockBounds DEF FreeBlocks, BlockSizes, MIN_ALLOC
<1> HIDE DEF g
<1>3. p \in Absorbed(h)
  BY DEF Absorbed
<1>4. Absorbed(g) = Absorbed(h) \ {p}
  <2>1. ASSUME NEW x \in Absorbed(g)
        PROVE  x \in Absorbed(h) \ {p}
    <3>1. PICK y \in FreeBlocks(g) : NextBlock(g, y) = x
      BY DEF Absorbed
    <3>2. x \in FreeBlocks(h) /\ x # p /\ y \in FreeBlocks(h) /\ y \in DOMAIN g
      BY <1>1 DEF Absorbed, FreeBlocks
    <3>3. NextBlock(h, y) = x \/ NextBlock(h, p) = x
      BY <1>1, <3>1, <3>2
    <3> QED  BY <3>2, <3>3 DEF Absorbed
  <2>2. ASSUME NEW x \in Absorbed(h), x # p
        PROVE  x \in Absorbed(g)
    <3>1. PICK y \in FreeBlocks(h) : NextBlock(h, y) = x
      BY DEF Absorbed
    <3>2. x \in FreeBlocks(g) /\ y \in DOMAIN h
      BY <1>1, <2>2 DEF Absorbed, FreeBlocks
    <3>3. CASE y = p
      <4>1. o \in FreeBlocks(g)
        BY <1>1
      <4> QED  BY <1>1, <3>1, <3>2, <3>3, <4>1 DEF Absorbed
    <3>4. CASE y # p
      <4>1. y # o
        BY <2>2, <3>1
      <4>2. y \in FreeBlocks(g) /\ NextBlock(g, y) = x
        BY <1>1, <3>1, <3>2, <3>4, <4>1
      <4> QED  BY <3>2, <4>2 DEF Absorbed
    <3> QED  BY <3>3, <3>4
  <2> QED  BY <2>1, <2>2
<1>5. DOMAIN g \ Absorbed(g) = DOMAIN h \ Absorbed(h)
  BY <1>1, <1>3, <1>4
<1>6. \A q : RunEnd(g, q) = RunEnd(h, q)
  <2>1. (DOMAIN g \cup {DEVICE_RAM}) \ Absorbed(g) = (DOMAIN h \cup {DEVICE_RAM}) \ Absorbed(h)
    <3>1. DEVICE_RAM # p
      BY <1>2, HeapAssumption
    <3> QED  BY <1>1, <1>3, <1>4, <3>1
  <2> QED  BY <2>1 DEF RunEnd
<1>7. NextBlock(h, p) \notin Absorbed(h) => RunEnd(h, o) = NextBlock(h, p)
  <2>1. /\ RunEnd(h, o) \in (DOMAIN h \cup {DEVICE_RAM}) \ Absorbed(h)
        /\ p <= RunEnd(h, o)
        /\ \A q \in DOMAIN h \ Absorbed(h) : o < q => RunEnd(h, o) <= q
    BY <1>2, RunEndIsNext
  <2>2. RunEnd(h, o) \in Nat /\ RunEnd(h, o) # p /\ RunEnd(h, o) <= DEVICE_RAM
    BY <1>2, <1>3, <2>1, HeapAssumption
  <2>3. NextBlock(h, p) <= RunEnd(h, o)
    BY <1>2, <2>1, <2>2 DEF Tiled
  <2>4. NextBlock(h, p) \in DOMAIN h \cup {DEVICE_RAM}
    BY <1>2 DEF Tiled
  <2>5. NextBlock(h, p) \notin Absorbed(h) => RunEnd(h, o) <= NextBlock(h, p)
    BY <1>1, <1>2, <2>1, <2>2, <2>4
  <2> QED  BY <1>2, <2>2, <2>3, <2>5
<1> DEFINE Swept(x, q) == IF q \in FreeBlocks(x) /\ NextBlock(x, q) \in Absorbed(x)
                          THEN Header(RunEnd(x, q) - q - HEADER_SIZE, STATUS_FREE, 0)
                          ELSE x[q]
<1>8. ASSUME NEW q \in DOMAIN h \ Absorbed(h)
      PROVE  Swept(g, q) = Swept(h, q)
  <2>1. CASE q = o
    <3>1. Swept(h, o) = Header(RunEnd(h, o) - o - HEADER_SIZE, STATUS_FREE, 0)
      BY <1>3
    <3>2. NextBlock(h, p) # p
      BY <1>2
    <3>3. CASE NextBlock(h, p) \in Absorbed(h)
      BY <1>1, <1>4, <1>6, <2>1, <3>1, <3>2, <3>3
    <3>4. CASE NextBlock(h, p) \notin Absorbed(h)
      <4>1. Swept(g, o) = Header(h[o].size + h[p].size + HEADER_SIZE, STATUS_FREE, 0)
        BY <1>1, <1>4, <3>4
      <4>2. RunEnd(h, o) = p + h[p].size + HEADER_SIZE /\ p = o + h[o].size + HEADER_SIZE
        BY <1>7, <3>4 DEF NextBlock
      <4>3. RunEnd(h, o) - o - HEADER_SIZE = h[o].size + h[p].size + HEADER_SIZE
        BY <1>2, <4>2 DEF HEADER_SIZE
      <4> QED  BY <2>1, <3>1, <4>1, <4>3
    <3> QED  BY <3>3, <3>4
  <2>2. CASE q # o
    <3>1. q # p /\ q \in DOMAIN g
      BY <1>1, <1>3
    <3>2. NextBlock(h, q) # p
      BY <1>2, <2>2, NextBlockInjective
    <3> QED  BY <1>1, <1>4, <1>6, <2>2, <3>1, <3>2
  <2> QED  BY <2>1, <2>2
<1>9. \A x : SweepAndMerge(x) = [q \in DOMAIN x \ Absorbed(x) |-> Swept(x, q)]
  BY DEF SweepAndMerge
<1> HIDE DEF Swept
<1> QED  BY <1>5, <1>8, <1>9 DEF g

\* A sweep of a heap without FREE neighbours changes nothing.
LEMMA SweepOfCoalesced ==
  ASSUME NEW h, TypedHeap(h), Coalesced(h)
  PROVE  SweepAndMerge(h) = h
<1>1. Absorbed(h) = {}
  BY DEF Coalesced, Absorbed
<1>2. SweepAndMerge(h) = [o \in DOMAIN h |-> h[o]]
  BY <1>1 DEF SweepAndMerge
<1> QED  BY <1>2 DEF TypedHeap

-----------------------------------------------------------------------------
(***************************************************************************)
(* The sums of Heap.                                                       *)
(***************************************************************************)

\* BlockBytes is the sum of the blocks' lengths, headers included.
LEMMA BlockBytesIsSum ==
  ASSUME NEW h, NEW S, IsFiniteSet(S), NEW w, \A o \in S : w[o] = h[o].size + HEADER_SIZE
  PROVE  BlockBytes(h, S) = SumOf(w, S)
<1> DEFINE E(f) == [s \in SUBSET S |->
                      IF s = {} THEN 0
                      ELSE (h[First(s)].size + HEADER_SIZE) + f[s \ {First(s)}]]
<1>1. BlockBytes(h, S) = (CHOOSE f : f = E(f))[S]
  BY DEF BlockBytes, MapThenSumSet, MapThenFoldSet, First
<1>2. ASSUME NEW f
      PROVE  f = E(f) <=> Sums(w, S, f)
  <2>1. \A s \in SUBSET S : s # {} => w[First(s)] = h[First(s)].size + HEADER_SIZE
    BY FirstIn
  <2> QED  BY <2>1 DEF Sums
<1>3. PICK f : f = E(f) /\ BlockBytes(h, S) = f[S]
  <2> HIDE DEF E
  <2>1. \E f : f = E(f)
    BY <1>2, SumsExist
  <2> QED  BY <1>1, <2>1
<1>4. PICK g : Sums(w, S, g) /\ SumOf(w, S) = g[S]
  BY SumsExist DEF SumOf
<1>5. Sums(w, S, f)
  BY <1>2, <1>3
<1> HIDE DEF E
<1>6. f[S] = g[S]
  BY <1>4, <1>5, SumsAgree
<1> QED  BY <1>3, <1>4, <1>6

\* total_free_bytes is the sum of the FREE blocks' sizes.
LEMMA TotalFreeIsSum ==
  ASSUME NEW h, IsFiniteSet(FreeBlocks(h)),
         NEW w, \A o \in FreeBlocks(h) : w[o] = h[o].size
  PROVE  MemStats(h).total_free_bytes = SumOf(w, FreeBlocks(h))
<1> DEFINE S == FreeBlocks(h)
           E(f) == [s \in SUBSET S |->
                      IF s = {} THEN 0 ELSE h[First(s)].size + f[s \ {First(s)}]]
<1>1. MemStats(h).total_free_bytes = (CHOOSE f : f = E(f))[S]
  BY DEF MemStats, MapThenSumSet, MapThenFoldSet, First
<1> HIDE DEF S
<1>2. ASSUME NEW f
      PROVE  f = E(f) <=> Sums(w, S, f)
  <2>1. \A s \in SUBSET S : s # {} => w[First(s)] = h[First(s)].size
    BY FirstIn DEF S
  <2> QED  BY <2>1 DEF Sums
<1>3. IsFiniteSet(S)
  BY DEF S
<1>4. PICK f : f = E(f) /\ MemStats(h).total_free_bytes = f[S]
  <2> HIDE DEF E
  <2>1. \E f : f = E(f)
    BY <1>2, <1>3, SumsExist
  <2> QED  BY <1>1, <2>1
<1>5. PICK g : Sums(w, S, g) /\ SumOf(w, S) = g[S]
  BY <1>3, SumsExist DEF SumOf
<1>6. Sums(w, S, f)
  BY <1>2, <1>4
<1>7. f[S] = g[S]
  BY <1>3, <1>5, <1>6, SumsAgree
<1> QED  BY <1>4, <1>5, <1>7 DEF S

\* A heap has finitely many blocks, each of some length.
LEMMA BlocksFinite ==
  ASSUME NEW h, TypedHeap(h), NEW S \in SUBSET DOMAIN h
  PROVE  /\ IsFiniteSet(S)
         /\ \A o \in S : h[o].size \in Nat /\ h[o].size + HEADER_SIZE \in Nat \ {0}
<1>1. DOMAIN h \subseteq 0 .. DEVICE_RAM
  BY HeapAssumption DEF TypedHeap, Offsets, HEADER_SIZE, MIN_ALLOC
<1>2. IsFiniteSet(0 .. DEVICE_RAM)
  BY HeapAssumption, FS_Interval
<1>3. IsFiniteSet(S)
  BY <1>1, <1>2, FS_Subset
<1>4. \A o \in S : h[o].size \in Nat
  BY DEF TypedHeap, Headers, BlockSizes, MIN_ALLOC
<1> QED  BY <1>3, <1>4 DEF HEADER_SIZE

\* No blocks, no bytes.
LEMMA BytesOfNone ==
  ASSUME NEW h
  PROVE  BlockBytes(h, {}) = 0
<1> DEFINE w == [o \in {} |-> 0]
<1>1. \A o \in {} : w[o] = h[o].size + HEADER_SIZE
  OBVIOUS
<1> HIDE DEF w
<1> QED  BY <1>1, BlockBytesIsSum, SumOfEmpty, FS_EmptySet

\* Any block may be counted first.
LEMMA BytesOfOne ==
  ASSUME NEW h, TypedHeap(h), NEW S \in SUBSET DOMAIN h
  PROVE  /\ BlockBytes(h, S) \in Nat
         /\ \A o \in S : BlockBytes(h, S) = (h[o].size + HEADER_SIZE) + BlockBytes(h, S \ {o})
<1> DEFINE w == [o \in DOMAIN h |-> h[o].size + HEADER_SIZE]
<1>1. IsFiniteSet(S) /\ \A o \in S : w[o] = h[o].size + HEADER_SIZE /\ w[o] \in Nat /\ w[o] \in Int
  BY BlocksFinite
<1> HIDE DEF w
<1>2. BlockBytes(h, S) = SumOf(w, S) /\ SumOf(w, S) \in Nat
  BY <1>1, BlockBytesIsSum, SumTyped
<1>3. ASSUME NEW o \in S
      PROVE  BlockBytes(h, S) = (h[o].size + HEADER_SIZE) + BlockBytes(h, S \ {o})
  <2>1. IsFiniteSet(S \ {o}) /\ \A p \in S \ {o} : w[p] = h[p].size + HEADER_SIZE
    BY <1>1, FS_Subset
  <2>2. BlockBytes(h, S \ {o}) = SumOf(w, S \ {o})
    BY <2>1, BlockBytesIsSum
  <2>3. SumOf(w, S) = w[o] + SumOf(w, S \ {o})
    BY <1>1, SumOfRemove
  <2> QED  BY <1>1, <1>2, <2>2, <2>3
<1> QED  BY <1>2, <1>3

\* Blocks that keep their sizes keep their bytes.
LEMMA BytesOfSame ==
  ASSUME NEW h, TypedHeap(h), NEW S \in SUBSET DOMAIN h,
         NEW g, \A o \in S : g[o].size = h[o].size
  PROVE  BlockBytes(g, S) = BlockBytes(h, S)
<1> DEFINE w == [o \in DOMAIN h |-> h[o].size + HEADER_SIZE]
<1>1. /\ IsFiniteSet(S)
      /\ \A o \in S : w[o] = h[o].size + HEADER_SIZE
      /\ \A o \in S : w[o] = g[o].size + HEADER_SIZE
  BY BlocksFinite
<1> HIDE DEF w
<1> QED  BY <1>1, BlockBytesIsSum

\* The bytes of some of the blocks and those of the others.
LEMMA BytesOfParts ==
  ASSUME NEW h, TypedHeap(h), NEW S \in SUBSET DOMAIN h, NEW T \in SUBSET S
  PROVE  BlockBytes(h, S) = BlockBytes(h, T) + BlockBytes(h, S \ T)
<1> DEFINE w == [o \in DOMAIN h |-> h[o].size + HEADER_SIZE]
<1>1. /\ IsFiniteSet(S) /\ IsFiniteSet(T) /\ IsFiniteSet(S \ T)
      /\ \A o \in S : w[o] = h[o].size + HEADER_SIZE
      /\ \A o \in S : w[o] \in Int
  BY BlocksFinite
<1> HIDE DEF w
<1>2. BlockBytes(h, S) = SumOf(w, S)
  BY <1>1, BlockBytesIsSum
<1>3. BlockBytes(h, T) = SumOf(w, T) /\ BlockBytes(h, S \ T) = SumOf(w, S \ T)
  BY <1>1, BlockBytesIsSum
<1> QED  BY <1>1, <1>2, <1>3, SumOfUnion

\* The blocks of a tiled heap take all of ram[].
LEMMA BytesOfRam ==
  ASSUME NEW h, TypedHeap(h), Tiled(h)
  PROVE  BlockBytes(h, DOMAIN h) = DEVICE_RAM
<1> DEFINE w == [o \in DOMAIN h |-> h[o].size + HEADER_SIZE]
<1>1. IsFiniteSet(DOMAIN h) /\ \A o \in DOMAIN h : w[o] = h[o].size + HEADER_SIZE /\ w[o] \in Nat \ {0}
  BY BlocksFinite
<1>2. ASSUME NEW o \in DOMAIN h
      PROVE  /\ o \in Nat /\ 0 <= o /\ o < DEVICE_RAM
             /\ o + w[o] = NextBlock(h, o)
  <2>1. o \in Nat /\ o < DEVICE_RAM /\ h[o].size \in Nat
    BY BlockBounds, BlocksFinite
  <2> QED  BY <2>1 DEF NextBlock, HEADER_SIZE
<1> HIDE DEF w
<1>3. /\ DOMAIN h \in SUBSET Nat
      /\ 0 \in DOMAIN h
      /\ \A o \in DOMAIN h : w[o] \in Nat \ {0}
      /\ \A o \in DOMAIN h : 0 <= o /\ o < DEVICE_RAM /\ o + w[o] \in DOMAIN h \cup {DEVICE_RAM}
      /\ \A o, p \in DOMAIN h : o < p => o + w[o] <= p
  BY <1>1, <1>2 DEF Tiled
<1>4. DEVICE_RAM \in Nat
  BY HeapAssumption
<1>5. SumOf(w, DOMAIN h) = DEVICE_RAM - 0
  BY <1>1, <1>3, <1>4, SumOfTiles
<1>6. BlockBytes(h, DOMAIN h) = SumOf(w, DOMAIN h)
  BY <1>1, BlockBytesIsSum
<1> QED  BY <1>4, <1>5, <1>6

\* What mem_stats adds up, headers included.
LEMMA BytesOfStats ==
  ASSUME NEW h, TypedHeap(h)
  PROVE  /\ MemStats(h).total_free_bytes \in Nat
         /\ MemStats(h).num_free_fragments \in Nat
         /\ MemStats(h).total_free_bytes + HEADER_SIZE * MemStats(h).num_free_fragments
              = BlockBytes(h, FreeBlocks(h))
<1> DEFINE w == [o \in DOMAIN h |-> h[o].size]
           v == [o \in DOMAIN h |-> h[o].size + HEADER_SIZE]
           S == FreeBlocks(h)
<1>1. /\ IsFiniteSet(S)
      /\ \A o \in S : w[o] = h[o].size
      /\ \A o \in S : v[o] = h[o].size + HEADER_SIZE
      /\ \A o \in S : w[o] \in Nat
      /\ \A o \in S : w[o] \in Int /\ v[o] = w[o] + HEADER_SIZE
  <2>1. S \in SUBSET DOMAIN h
    BY DEF FreeBlocks
  <2>2. IsFiniteSet(S) /\ \A o \in S : h[o].size \in Nat
    <3> HIDE DEF S
    <3> QED  BY <2>1, BlocksFinite
  <2>3. HEADER_SIZE \in Nat
    BY DEF HEADER_SIZE
  <2> HIDE DEF S
  <2> QED  BY <2>1, <2>2, <2>3
<1> HIDE DEF w, v
<1>2. HEADER_SIZE \in Int
  BY DEF HEADER_SIZE
<1>3. SumOf(v, S) = SumOf(w, S) + HEADER_SIZE * Cardinality(S)
  <2> HIDE DEF S
  <2> QED  BY <1>1, <1>2, SumOfShifted
<1>4. BlockBytes(h, S) = SumOf(v, S)
  BY <1>1, BlockBytesIsSum
<1>5. MemStats(h).total_free_bytes = SumOf(w, S)
  BY <1>1, TotalFreeIsSum
<1>6. MemStats(h).num_free_fragments = Cardinality(S) /\ Cardinality(S) \in Nat
  BY <1>1, FS_CardinalityType DEF MemStats
<1>7. SumOf(w, S) \in Nat
  BY <1>1, SumTyped
<1> QED  BY <1>3, <1>4, <1>5, <1>6, <1>7

\* Every byte of ram[] belongs to a FREE block or to a USED one.
LEMMA BytesOfFreeAndUsed ==
  ASSUME NEW h, TypedHeap(h), Tiled(h)
  PROVE  BlockBytes(h, FreeBlocks(h)) + BlockBytes(h, UsedBlocks(h)) = DEVICE_RAM
<1>1. FreeBlocks(h) \in SUBSET DOMAIN h /\ DOMAIN h \ FreeBlocks(h) = UsedBlocks(h)
  BY DEF FreeBlocks, UsedBlocks, TypedHeap, Headers, STATUS_FREE, STATUS_USED
<1> QED  BY <1>1, BytesOfRam, BytesOfParts

\* A heap without USED blocks is one FREE block, and mem_stats says so.
LEMMA StatsOfFreeHeap ==
  ASSUME NEW h, WellFormed(h), UsedBlocks(h) = {}
  PROVE  MemStats(h) = [total_free_bytes |-> DEVICE_RAM - HEADER_SIZE,
                        largest_free_block |-> DEVICE_RAM - HEADER_SIZE,
                        num_free_fragments |-> 1]
<1>1. TypedHeap(h) /\ Tiled(h) /\ Coalesced(h)
  BY DEF WellFormed
<1>2. FreeBlocks(h) = DOMAIN h
  BY <1>1 DEF FreeBlocks, UsedBlocks, TypedHeap, Headers
<1>3. 0 \in DOMAIN h /\ NextBlock(h, 0) = DEVICE_RAM
  BY <1>1, <1>2 DEF Tiled, Coalesced
<1>4. DOMAIN h = {0}
  <2>1. ASSUME NEW p \in DOMAIN h, p # 0
        PROVE  FALSE
    <3>1. p \in Nat /\ p < DEVICE_RAM
      BY <1>1, BlockBounds
    <3>2. DEVICE_RAM <= p
      BY <1>1, <1>3, <2>1, <3>1 DEF Tiled
    <3> QED  BY <3>1, <3>2, HeapAssumption
  <2> QED  BY <1>3, <2>1
<1>5. h[0].size \in Int /\ h[0].size = DEVICE_RAM - HEADER_SIZE
  <2>1. h[0].size \in Nat
    BY <1>1, <1>3, BlocksFinite
  <2> QED  BY <1>3, <2>1, HeapAssumption DEF NextBlock, HEADER_SIZE
<1>6. MemStats(h).num_free_fragments = 1
  BY <1>2, <1>4, FS_Singleton DEF MemStats
<1>7. MemStats(h).total_free_bytes = DEVICE_RAM - HEADER_SIZE
  <2>1. MemStats(h).total_free_bytes \in Nat
        /\ MemStats(h).total_free_bytes + HEADER_SIZE * 1 = DEVICE_RAM
    BY <1>1, <1>2, <1>6, BytesOfStats, BytesOfRam
  <2> QED  BY <2>1, HeapAssumption DEF HEADER_SIZE
<1>8. MemStats(h).largest_free_block = DEVICE_RAM - HEADER_SIZE
  <2>1. {h[o].size : o \in FreeBlocks(h)} = {h[0].size}
    BY <1>2, <1>4
  <2>2. MemStats(h).largest_free_block = Max({h[0].size})
    BY <2>1 DEF MemStats
  <2>3. Max({h[0].size}) = h[0].size
    <3>1. \A x \in {h[0].size} : \A y \in {h[0].size} : x >= y
      BY <1>5
    <3> QED  BY <3>1 DEF Max
  <2> QED  BY <1>5, <2>2, <2>3
<1>9. MemStats(h) = [total_free_bytes |-> MemStats(h).total_free_bytes,
                     largest_free_block |-> MemStats(h).largest_free_block,
                     num_free_fragments |-> MemStats(h).num_free_fragments]
  BY DEF MemStats
<1> QED  BY <1>6, <1>7, <1>8, <1>9

\* The blocks a task owns after an allocation.
LEMMA OccupyAddsBytes ==
  ASSUME NEW h, WellFormed(h), NEW o \in FreeBlocks(h),
         NEW need \in BlockSizes, need <= h[o].size, NEW t \in Int, NEW u
  PROVE  LET g == Occupy(h, o, need, t)
         IN  BlockBytes(g, OwnedBlocks(g, u))
               = IF t % TASK_ID_RANGE = u
                 THEN BlockBytes(h, OwnedBlocks(h, u)) + (GivenSize(h[o].size, need) + HEADER_SIZE)
                 ELSE BlockBytes(h, OwnedBlocks(h, u))
<1> DEFINE g == Occupy(h, o, need, t)
           given == GivenSize(h[o].size, need)
<1>1. /\ UsedBlocks(g) = UsedBlocks(h) \cup {o}
      /\ \A p \in UsedBlocks(h) : p # o /\ g[p] = h[p]
  BY OccupyAddsUsed
<1>2. g[o].size = given /\ g[o].task_id = t % TASK_ID_RANGE
  <2> DEFINE rest == o + HEADER_SIZE + given
  <2>1. /\ g[o] = Header(given, STATUS_USED, t)
        /\ \A p \in DOMAIN h \ {o} : g[p] = h[p]
        /\ \/ DOMAIN g = DOMAIN h /\ given = h[o].size
           \/ /\ DOMAIN g = DOMAIN h \cup {rest}
              /\ rest \notin DOMAIN h
              /\ rest \in Offsets
              /\ given = need
              /\ h[o].size - need >= HEADER_SIZE + MIN_ALLOC
              /\ g[rest] = Header(h[o].size - need - HEADER_SIZE, STATUS_FREE, 0)
    BY ONLY WellFormed(h), need <= h[o].size, OccupyShape
  <2> HIDE DEF g, given
  <2> QED  BY <2>1 DEF Header
<1>3. TypedHeap(h) /\ TypedHeap(g)
  BY OccupyWellFormed DEF WellFormed
<1> HIDE DEF g
<1>4. BlockBytes(g, OwnedBlocks(h, u)) = BlockBytes(h, OwnedBlocks(h, u))
  <2>1. OwnedBlocks(h, u) \in SUBSET DOMAIN h /\ \A p \in OwnedBlocks(h, u) : g[p].size = h[p].size
    BY <1>1 DEF OwnedBlocks, UsedBlocks
  <2> QED  BY <1>3, <2>1, BytesOfSame
<1>5. CASE t % TASK_ID_RANGE = u
  <2>1. /\ OwnedBlocks(g, u) \in SUBSET DOMAIN g
        /\ o \in OwnedBlocks(g, u)
        /\ OwnedBlocks(g, u) \ {o} = OwnedBlocks(h, u)
    BY <1>1, <1>2, <1>5 DEF OwnedBlocks, UsedBlocks
  <2>2. BlockBytes(g, OwnedBlocks(g, u)) = (given + HEADER_SIZE) + BlockBytes(g, OwnedBlocks(h, u))
    BY <1>2, <1>3, <2>1, BytesOfOne
  <2>3. given + HEADER_SIZE \in Int /\ BlockBytes(h, OwnedBlocks(h, u)) \in Int
    <3>1. OwnedBlocks(h, u) \in SUBSET DOMAIN h /\ o \in DOMAIN h
      BY DEF OwnedBlocks, UsedBlocks, FreeBlocks
    <3>2. h[o].size \in BlockSizes
      BY <1>3, <3>1 DEF TypedHeap, Headers
    <3> QED  BY <1>3, <3>1, <3>2, BytesOfOne, GivenSizeFits DEF BlockSizes, HEADER_SIZE
  <2> QED  BY <1>4, <1>5, <2>2, <2>3 DEF g
<1>6. CASE t % TASK_ID_RANGE # u
  <2>1. OwnedBlocks(g, u) = OwnedBlocks(h, u)
    BY <1>1, <1>2, <1>6 DEF OwnedBlocks
  <2> QED  BY <1>4, <1>6, <2>1 DEF g
<1> QED  BY <1>5, <1>6

\* The blocks a task owns after a free.
LEMMA ReleaseRemovesBytes ==
  ASSUME NEW h, WellFormed(h), NEW o \in UsedBlocks(h), NEW u
  PROVE  LET g == Release(h, o)
         IN  BlockBytes(g, OwnedBlocks(g, u))
               = IF h[o].task_id = u
                 THEN BlockBytes(h, OwnedBlocks(h, u)) - (h[o].size + HEADER_SIZE)
                 ELSE BlockBytes(h, OwnedBlocks(h, u))
<1> DEFINE g == Release(h, o)
<1>1. /\ UsedBlocks(g) = UsedBlocks(h) \ {o}
      /\ \A p \in UsedBlocks(h) \ {o} : g[p] = h[p]
  BY ReleaseWellFormed
<1>2. TypedHeap(h)
  BY DEF WellFormed
<1> HIDE DEF g
<1>3. /\ OwnedBlocks(h, u) \in SUBSET DOMAIN h
      /\ OwnedBlocks(g, u) = OwnedBlocks(h, u) \ {o}
      /\ \A p \in OwnedBlocks(g, u) : g[p].size = h[p].size
  BY <1>1 DEF OwnedBlocks, UsedBlocks
<1>4. BlockBytes(g, OwnedBlocks(g, u)) = BlockBytes(h, OwnedBlocks(h, u) \ {o})
  <2>1. OwnedBlocks(g, u) \in SUBSET DOMAIN h
    BY <1>3
  <2> QED  BY <1>2, <1>3, <2>1, BytesOfSame
<1>5. CASE h[o].task_id = u
  <2>1. o \in OwnedBlocks(h, u)
    BY <1>5 DEF OwnedBlocks
  <2>2. BlockBytes(h, OwnedBlocks(h, u))
          = (h[o].size + HEADER_SIZE) + BlockBytes(h, OwnedBlocks(h, u) \ {o})
    BY <1>2, <1>3, <2>1, BytesOfOne
  <2>3. h[o].size + HEADER_SIZE \in Int
    BY <1>2, <1>3, <2>1, BlocksFinite
  <2>4. BlockBytes(h, OwnedBlocks(h, u) \ {o}) \in Int
    <3>1. OwnedBlocks(h, u) \ {o} \in SUBSET DOMAIN h
      BY <1>3
    <3> QED  BY <1>2, <3>1, BytesOfOne
  <2>5. BlockBytes(h, OwnedBlocks(h, u) \ {o})
          = BlockBytes(h, OwnedBlocks(h, u)) - (h[o].size + HEADER_SIZE)
    BY <2>2, <2>3, <2>4
  <2> QED  BY <1>4, <1>5, <2>5 DEF g
<1>6. CASE h[o].task_id # u
  <2>1. OwnedBlocks(h, u) \ {o} = OwnedBlocks(h, u)
    BY <1>6 DEF OwnedBlocks
  <2> QED  BY <1>4, <1>6, <2>1 DEF g
<1> QED  BY <1>5, <1>6

-----------------------------------------------------------------------------
(***************************************************************************)
(* A heap under compaction.                                                *)
(***************************************************************************)

\* The blocks before w have been moved, those from r on are still to be read, and
\* there is room for a FREE block between them or none at all.
Compacting(h, w, r) ==
  /\ TypedHeap(h)
  /\ w \in Nat /\ w % ALIGNMENT = 0
  /\ r \in Nat /\ r <= DEVICE_RAM
  /\ w = r \/ r - w >= HEADER_SIZE + MIN_ALLOC
  /\ \A o \in DOMAIN h : o >= r \/ (o < w /\ o \in UsedBlocks(h))
  /\ TiledBetween(h, 0, w)
  /\ TiledBetween(h, r, DEVICE_RAM)

LEMMA OffsetBounds ==
  ASSUME NEW h, TypedHeap(h), NEW o \in DOMAIN h
  PROVE  /\ o \in Nat /\ o % ALIGNMENT = 0 /\ o + HEADER_SIZE + MIN_ALLOC <= DEVICE_RAM
         /\ h[o] \in Headers
         /\ h[o].size \in Nat /\ h[o].size >= MIN_ALLOC /\ h[o].size % ALIGNMENT = 0
         /\ NextBlock(h, o) \in Nat /\ NextBlock(h, o) >= o + HEADER_SIZE + MIN_ALLOC
<1>1. o \in Offsets /\ h[o] \in Headers
  BY DEF TypedHeap
<1>2. h[o].size \in BlockSizes
  BY <1>1 DEF Headers
<1> QED  BY <1>1, <1>2, HeapAssumption
         DEF Offsets, BlockSizes, NextBlock, HEADER_SIZE, MIN_ALLOC

\* A heap between two calls, as mem_compact finds it.
LEMMA CompactionBegins ==
  ASSUME NEW h, TypedHeap(h), Tiled(h)
  PROVE  Compacting(h, 0, 0)
<1>1. \A o \in DOMAIN h : o \in Nat /\ o < DEVICE_RAM
  BY OffsetBounds, HeapAssumption DEF HEADER_SIZE, MIN_ALLOC
<1>2. TiledBetween(h, 0, 0)
  BY <1>1 DEF TiledBetween
<1>3. TiledBetween(h, 0, DEVICE_RAM)
  <2>1. {o \in DOMAIN h : 0 <= o /\ o < DEVICE_RAM} = DOMAIN h
    BY <1>1
  <2> QED  BY <2>1 DEF TiledBetween, Tiled
<1> QED  BY <1>1, <1>2, <1>3, HeapAssumption DEF Compacting, ALIGNMENT

\* Where mem_compact stands there is a block, or the end of ram[].
LEMMA AtABlock ==
  ASSUME NEW h, NEW w, NEW r, Compacting(h, w, r)
  PROVE  r \in DOMAIN h \/ r = DEVICE_RAM
BY DEF Compacting, TiledBetween

\* What mem_compact makes of h when it moves the block at r to w.
Transferred(h, r, w) == [p \in (DOMAIN h \ {r}) \cup {w} |-> IF p = w THEN h[r] ELSE h[p]]

\* ... when it passes over the block at r.
Skipped(h, r) == [p \in DOMAIN h \ {r} |-> h[p]]

\* ... and when w is where the live blocks end.
Completed(h, w) ==
  LET rest == DEVICE_RAM - w
      tail == IF LeavesBlock(rest) THEN {w} ELSE {}
  IN  [p \in DOMAIN h \cup tail |->
         IF p \in tail THEN Header(rest - HEADER_SIZE, STATUS_FREE, 0) ELSE h[p]]

\* g is h with the block at r moved to w, and no other.
MovesOnly(h, w, r, g) ==
  /\ w \in Offsets
  /\ w = r \/ w \notin DOMAIN h
  /\ DOMAIN g = (DOMAIN h \ {r}) \cup {w}
  /\ g[w] = h[r]
  /\ \A p \in DOMAIN h \ {r} : p # w /\ g[p] = h[p]
  /\ UsedBlocks(g) = (UsedBlocks(h) \ {r}) \cup {w}

\* The bytes mem_compact moves the block it has read onto are not those of another one:
\* the blocks already moved end before them and those still to be read begin after them.
LEMMA MoveReachesNone ==
  ASSUME NEW h, NEW w, NEW r, Compacting(h, w, r), r \in UsedBlocks(h)
  PROVE  /\ w \in Offsets /\ w <= r
         /\ w = r \/ w \notin DOMAIN h
         /\ \A p \in DOMAIN h \ {r} :
              \/ p < w /\ NextBlock(h, p) <= w
              \/ p >= NextBlock(h, r) /\ p >= w + h[r].size + HEADER_SIZE
<1>1. r \in DOMAIN h /\ TypedHeap(h)
  BY DEF UsedBlocks, Compacting
<1>2. /\ r \in Nat /\ r + HEADER_SIZE + MIN_ALLOC <= DEVICE_RAM
      /\ h[r].size \in Nat
      /\ r + h[r].size + HEADER_SIZE = NextBlock(h, r)
  BY <1>1, OffsetBounds DEF NextBlock
<1>3. /\ w \in Nat /\ w % ALIGNMENT = 0 /\ w <= r
      /\ \A o \in DOMAIN h : o >= r \/ o < w
  BY <1>2 DEF Compacting, HEADER_SIZE, MIN_ALLOC
<1>4. w \in Offsets
  BY <1>2, <1>3, HeapAssumption DEF Offsets, HEADER_SIZE, MIN_ALLOC
<1>5. w = r \/ w \notin DOMAIN h
  BY <1>2, <1>3
<1>6. ASSUME NEW p \in DOMAIN h \ {r}
      PROVE  \/ p < w /\ NextBlock(h, p) <= w
             \/ p >= NextBlock(h, r) /\ p >= w + h[r].size + HEADER_SIZE
  <2>1. p \in Nat /\ (p >= r \/ p < w)
    BY <1>1, <1>3, OffsetBounds
  <2>2. CASE p > r
    <3>1. r < DEVICE_RAM /\ p < DEVICE_RAM
      BY <1>1, <1>2, OffsetBounds, HeapAssumption DEF HEADER_SIZE, MIN_ALLOC
    <3>2. NextBlock(h, r) <= p
      BY <1>1, <1>2, <2>1, <2>2, <3>1 DEF Compacting, TiledBetween
    <3> QED  BY <1>2, <1>3, <2>1, <3>2 DEF HEADER_SIZE
  <2>3. CASE p < w
    <3> DEFINE front == {o \in DOMAIN h : 0 <= o /\ o < w}
    <3>1. p \in front
      BY <2>1, <2>3
    <3>2. NextBlock(h, p) \in front \cup {w}
      BY <3>1 DEF Compacting, TiledBetween
    <3>3. NextBlock(h, p) \in Nat
      BY <1>1, OffsetBounds
    <3> QED  BY <1>3, <2>3, <3>2, <3>3
  <2> QED  BY <1>2, <1>3, <2>1, <2>2, <2>3
<1> QED  BY <1>3, <1>4, <1>5, <1>6

\* So the block is the only one that changes its place.
LEMMA MovedShape ==
  ASSUME NEW h, NEW w, NEW r, Compacting(h, w, r), r \in UsedBlocks(h),
         NEW g, g = Transferred(h, r, w)
  PROVE  MovesOnly(h, w, r, g)
<1>1. r \in DOMAIN h
  BY DEF UsedBlocks
<1>2. w \in Offsets /\ (w = r \/ w \notin DOMAIN h)
  BY MoveReachesNone
<1>3. /\ DOMAIN g = (DOMAIN h \ {r}) \cup {w}
      /\ g[w] = h[r]
      /\ \A p \in DOMAIN h \ {r} : p # w /\ g[p] = h[p]
  BY <1>2 DEF Transferred
<1>4. UsedBlocks(g) = (UsedBlocks(h) \ {r}) \cup {w}
  BY <1>1, <1>3 DEF UsedBlocks
<1> QED  BY <1>2, <1>3, <1>4 DEF MovesOnly

\* ... and the heap is ready for the next one.
LEMMA CompactionMoves ==
  ASSUME NEW h, NEW w, NEW r, Compacting(h, w, r), r \in UsedBlocks(h),
         NEW g, g = Transferred(h, r, w)
  PROVE  Compacting(g, w + h[r].size + HEADER_SIZE, NextBlock(h, r))
<1> DEFINE size == h[r].size
           x == w + size + HEADER_SIZE
           y == NextBlock(h, r)
<1>1. /\ w \in Offsets
      /\ w = r \/ w \notin DOMAIN h
      /\ DOMAIN g = (DOMAIN h \ {r}) \cup {w}
      /\ g[w] = h[r]
      /\ \A p \in DOMAIN h \ {r} : p # w /\ g[p] = h[p]
      /\ UsedBlocks(g) = (UsedBlocks(h) \ {r}) \cup {w}
  <2>1. MovesOnly(h, w, r, g)
    BY MovedShape
  <2> QED  BY <2>1 DEF MovesOnly
<1>2. r \in DOMAIN h /\ TypedHeap(h) /\ h[r] \in Headers
  BY OffsetBounds DEF UsedBlocks, Compacting
<1>3. /\ r \in Nat /\ r + HEADER_SIZE + MIN_ALLOC <= DEVICE_RAM
      /\ size \in Nat /\ size >= MIN_ALLOC /\ size % ALIGNMENT = 0
      /\ y = r + size + HEADER_SIZE
  BY <1>2, OffsetBounds DEF NextBlock
<1>4. /\ w \in Nat /\ w % ALIGNMENT = 0 /\ w <= r
      /\ w = r \/ r - w >= HEADER_SIZE + MIN_ALLOC
      /\ \A o \in DOMAIN h : o >= r \/ (o < w /\ o \in UsedBlocks(h))
      /\ TiledBetween(h, 0, w)
      /\ TiledBetween(h, r, DEVICE_RAM)
  <2>1. /\ w \in Nat /\ w % ALIGNMENT = 0
        /\ w = r \/ r - w >= HEADER_SIZE + MIN_ALLOC
        /\ \A o \in DOMAIN h : o >= r \/ (o < w /\ o \in UsedBlocks(h))
        /\ TiledBetween(h, 0, w)
        /\ TiledBetween(h, r, DEVICE_RAM)
    BY DEF Compacting
  <2>2. w <= r
    BY <1>3, <2>1 DEF HEADER_SIZE, MIN_ALLOC
  <2> QED  BY <2>1, <2>2
<1>5. \A o \in DOMAIN h : o \in Nat /\ o < DEVICE_RAM
  BY <1>2, OffsetBounds, HeapAssumption DEF HEADER_SIZE, MIN_ALLOC
<1>6. y \in DOMAIN h \cup {DEVICE_RAM} /\ y <= DEVICE_RAM
  BY <1>2, <1>4, <1>5, HeapAssumption DEF TiledBetween
<1>7. \A o \in DOMAIN h \ {r} : o >= y \/ (o < w /\ o \in UsedBlocks(h))
  BY <1>2, <1>3, <1>4, <1>5 DEF TiledBetween
<1>8. y \in Nat /\ DEVICE_RAM \in Nat /\ r < y
  BY <1>3, HeapAssumption DEF HEADER_SIZE
<1>9. x \in Nat /\ x % ALIGNMENT = 0 /\ w < x /\ x <= y /\ (x = y \/ y - x >= HEADER_SIZE + MIN_ALLOC)
  BY <1>3, <1>4 DEF HEADER_SIZE, MIN_ALLOC, ALIGNMENT
<1>10. TypedHeap(g)
  <2>1. g = [p \in DOMAIN g |-> g[p]]
    BY DEF Transferred
  <2> QED  BY <1>1, <1>2, <2>1 DEF TypedHeap
<1>11. NextBlock(g, w) = x /\ \A p \in DOMAIN h \ {r} : NextBlock(g, p) = NextBlock(h, p)
  BY <1>1 DEF NextBlock
<1> HIDE DEF x, y, size
<1>12. \A o \in DOMAIN g : o >= y \/ (o < x /\ o \in UsedBlocks(g))
  BY <1>1, <1>3, <1>4, <1>5, <1>7, <1>8, <1>9
<1>13. TiledBetween(g, 0, x)
  <2> DEFINE front == {o \in DOMAIN h : 0 <= o /\ o < w}
  <2>1. {o \in DOMAIN g : 0 <= o /\ o < x} = front \cup {w}
    BY <1>1, <1>3, <1>4, <1>5, <1>7, <1>8, <1>9
  <2>2. \A o \in front : o # r /\ o \in DOMAIN h \ {r} /\ o < w /\ o \in Nat
    BY <1>4, <1>5
  <2>3. /\ 0 = w \/ 0 \in front
        /\ \A o \in front : NextBlock(h, o) \in front \cup {w}
        /\ \A o, p \in front : o < p => NextBlock(h, o) <= p
    BY <1>4 DEF TiledBetween
  <2> HIDE DEF front
  <2>4. \A o \in front : NextBlock(h, o) <= w
    BY <1>4, <2>2, <2>3
  <2>5. \A o, p \in front \cup {w} : o < p => NextBlock(g, o) <= p
    BY <1>4, <1>11, <2>2, <2>3, <2>4
  <2>6. \A o \in front \cup {w} : NextBlock(g, o) \in front \cup {w} \cup {x}
    BY <1>11, <2>2, <2>3
  <2>7. 0 \in front \cup {w}
    BY <2>3
  <2> QED  BY <2>1, <2>5, <2>6, <2>7 DEF TiledBetween
<1>14. TiledBetween(g, y, DEVICE_RAM)
  <2> DEFINE rear == {o \in DOMAIN h : y <= o /\ o < DEVICE_RAM}
  <2>1. {o \in DOMAIN g : y <= o /\ o < DEVICE_RAM} = rear
    BY <1>1, <1>3, <1>4, <1>5, <1>8, <1>9
  <2>2. \A o \in rear : o \in DOMAIN h \ {r} /\ r <= o /\ o < DEVICE_RAM /\ o \in Nat
    BY <1>3, <1>4, <1>5, <1>8, <1>9 DEF HEADER_SIZE
  <2>3. y = DEVICE_RAM \/ y \in rear
    BY <1>5, <1>6
  <2>4. \A o \in rear : NextBlock(h, o) \in rear \cup {DEVICE_RAM}
    <3> SUFFICES ASSUME NEW o \in rear
                 PROVE  NextBlock(h, o) \in rear \cup {DEVICE_RAM}
      OBVIOUS
    <3>1. NextBlock(h, o) \in DOMAIN h \cup {DEVICE_RAM}
      BY <1>4, <2>2 DEF TiledBetween
    <3>2. NextBlock(h, o) > o /\ o >= y /\ NextBlock(h, o) \in Nat
      BY <1>2, <2>2, OffsetBounds DEF HEADER_SIZE, MIN_ALLOC
    <3> QED  BY <1>5, <1>6, <1>8, <2>2, <3>1, <3>2
  <2>5. \A o, p \in rear : o < p => NextBlock(h, o) <= p
    BY <1>4, <2>2 DEF TiledBetween
  <2> HIDE DEF rear
  <2> QED  BY <1>11, <2>1, <2>2, <2>3, <2>4, <2>5 DEF TiledBetween
<1> QED  BY <1>6, <1>9, <1>10, <1>12, <1>13, <1>14, <1>8 DEF Compacting, x, y, size

\* mem_compact passes over a FREE block.
LEMMA CompactionPasses ==
  ASSUME NEW h, NEW w, NEW r, Compacting(h, w, r), r \in FreeBlocks(h),
         NEW g, g = Skipped(h, r)
  PROVE  /\ Compacting(g, w, NextBlock(h, r))
         /\ UsedBlocks(g) = UsedBlocks(h)
<1> DEFINE y == NextBlock(h, r)
<1>1. r \in DOMAIN h /\ TypedHeap(h)
  BY DEF FreeBlocks, Compacting
<1>2. /\ r \in Nat /\ r + HEADER_SIZE + MIN_ALLOC <= DEVICE_RAM
      /\ y \in Nat /\ y >= r + HEADER_SIZE + MIN_ALLOC
  BY <1>1, OffsetBounds
<1>3. /\ w \in Nat /\ w % ALIGNMENT = 0
      /\ w = r \/ r - w >= HEADER_SIZE + MIN_ALLOC
      /\ \A o \in DOMAIN h : o >= r \/ (o < w /\ o \in UsedBlocks(h))
      /\ TiledBetween(h, 0, w)
      /\ TiledBetween(h, r, DEVICE_RAM)
  BY DEF Compacting
<1>4. \A o \in DOMAIN h : o \in Nat /\ o < DEVICE_RAM
  BY <1>1, OffsetBounds, HeapAssumption DEF HEADER_SIZE, MIN_ALLOC
<1>5. y \in DOMAIN h \cup {DEVICE_RAM} /\ y <= DEVICE_RAM
  BY <1>1, <1>3, <1>4, HeapAssumption DEF TiledBetween
<1>6. \A o \in DOMAIN h \ {r} : o >= y \/ (o < w /\ o \in UsedBlocks(h))
  BY <1>1, <1>2, <1>3, <1>4 DEF TiledBetween
<1>7. /\ DOMAIN g = DOMAIN h \ {r}
      /\ g = [p \in DOMAIN g |-> g[p]]
      /\ \A p \in DOMAIN h \ {r} : g[p] = h[p] /\ NextBlock(g, p) = NextBlock(h, p)
  BY DEF NextBlock, Skipped
<1>8. UsedBlocks(g) = UsedBlocks(h)
  BY <1>7 DEF UsedBlocks, FreeBlocks, STATUS_FREE, STATUS_USED
<1>9. TypedHeap(g)
  BY <1>1, <1>7 DEF TypedHeap
<1>10. w = y \/ y - w >= HEADER_SIZE + MIN_ALLOC
  BY <1>2, <1>3 DEF HEADER_SIZE, MIN_ALLOC
<1>11. w <= r
  BY <1>2, <1>3 DEF HEADER_SIZE, MIN_ALLOC
<1>12. r < y /\ DEVICE_RAM \in Nat
  BY <1>2, HeapAssumption DEF HEADER_SIZE, MIN_ALLOC
<1> HIDE DEF y
<1>13. TiledBetween(g, 0, w)
  <2> DEFINE front == {o \in DOMAIN h : 0 <= o /\ o < w}
  <2>1. {o \in DOMAIN g : 0 <= o /\ o < w} = front
    BY <1>2, <1>3, <1>7, <1>11
  <2>2. \A o \in front : o \in DOMAIN h \ {r}
    BY <1>2, <1>3, <1>11
  <2>3. /\ 0 = w \/ 0 \in front
        /\ \A o \in front : NextBlock(h, o) \in front \cup {w}
        /\ \A o, p \in front : o < p => NextBlock(h, o) <= p
    BY <1>3 DEF TiledBetween
  <2> HIDE DEF front
  <2> QED  BY <1>7, <2>1, <2>2, <2>3 DEF TiledBetween
<1>14. TiledBetween(g, y, DEVICE_RAM)
  <2> DEFINE rear == {o \in DOMAIN h : y <= o /\ o < DEVICE_RAM}
  <2>1. {o \in DOMAIN g : y <= o /\ o < DEVICE_RAM} = rear
    BY <1>2, <1>4, <1>7, <1>12
  <2>2. \A o \in rear : o \in DOMAIN h \ {r} /\ r <= o /\ o < DEVICE_RAM /\ o \in Nat
    BY <1>2, <1>4, <1>12
  <2>3. y = DEVICE_RAM \/ y \in rear
    BY <1>2, <1>4, <1>5
  <2>4. \A o \in rear : NextBlock(h, o) \in rear \cup {DEVICE_RAM}
    <3> SUFFICES ASSUME NEW o \in rear
                 PROVE  NextBlock(h, o) \in rear \cup {DEVICE_RAM}
      OBVIOUS
    <3>1. NextBlock(h, o) \in DOMAIN h \cup {DEVICE_RAM}
      BY <1>3, <2>2 DEF TiledBetween
    <3>2. NextBlock(h, o) > o /\ o >= y /\ NextBlock(h, o) \in Nat
      BY <1>1, <2>2, OffsetBounds DEF HEADER_SIZE, MIN_ALLOC
    <3> QED  BY <1>2, <1>4, <1>12, <2>2, <3>1, <3>2
  <2>5. \A o, p \in rear : o < p => NextBlock(h, o) <= p
    BY <1>3, <2>2 DEF TiledBetween
  <2> HIDE DEF rear
  <2> QED  BY <1>7, <2>1, <2>2, <2>3, <2>4, <2>5 DEF TiledBetween
<1>15. \A o \in DOMAIN g : o >= y \/ (o < w /\ o \in UsedBlocks(g))
  BY <1>6, <1>7, <1>8
<1> QED  BY <1>2, <1>3, <1>5, <1>8, <1>9, <1>10, <1>13, <1>14, <1>15 DEF Compacting, y

\* At the end what is left of ram[] becomes a FREE block, and the heap can be walked.
LEMMA CompactionCloses ==
  ASSUME NEW h, NEW w, NEW r, Compacting(h, w, r), r >= DEVICE_RAM,
         NEW g, g = Completed(h, w)
  PROVE  /\ TypedHeap(g) /\ Tiled(g)
         /\ UsedBlocks(g) = UsedBlocks(h)
         /\ \A o \in UsedBlocks(h) : g[o] = h[o]
<1> DEFINE rest == DEVICE_RAM - w
           tail == IF LeavesBlock(rest) THEN {w} ELSE {}
           header == Header(rest - HEADER_SIZE, STATUS_FREE, 0)
<1>1. /\ TypedHeap(h)
      /\ w \in Nat /\ w % ALIGNMENT = 0 /\ w <= DEVICE_RAM
      /\ w = DEVICE_RAM \/ rest >= HEADER_SIZE + MIN_ALLOC
      /\ DEVICE_RAM \in Nat
  BY HeapAssumption DEF Compacting, HEADER_SIZE, MIN_ALLOC
<1>2. \A o \in DOMAIN h : o \in Nat /\ o < DEVICE_RAM
  BY <1>1, OffsetBounds DEF HEADER_SIZE, MIN_ALLOC
<1>3. \A o \in DOMAIN h : o < w /\ o \in UsedBlocks(h)
  BY <1>1, <1>2 DEF Compacting
<1>4. /\ 0 = w \/ 0 \in DOMAIN h
      /\ \A o \in DOMAIN h : NextBlock(h, o) \in DOMAIN h \cup {w}
      /\ \A o, p \in DOMAIN h : o < p => NextBlock(h, o) <= p
  <2>1. {o \in DOMAIN h : 0 <= o /\ o < w} = DOMAIN h
    BY <1>2, <1>3
  <2>2. TiledBetween(h, 0, w)
    BY DEF Compacting
  <2> QED  BY <2>1, <2>2 DEF TiledBetween
<1>5. g = [p \in DOMAIN h \cup tail |-> IF p \in tail THEN header ELSE h[p]]
  BY DEF Completed
<1>6. CASE w = DEVICE_RAM
  <2>1. tail = {}
    BY <1>1, <1>6 DEF LeavesBlock, HEADER_SIZE, MIN_ALLOC
  <2>2. g = [p \in DOMAIN h |-> h[p]]
    BY <1>5, <2>1
  <2>3. g = h
    BY <1>1, <2>2 DEF TypedHeap
  <2>4. Tiled(h)
    BY <1>1, <1>4, <1>6, HeapAssumption DEF Tiled, HEADER_SIZE, MIN_ALLOC
  <2> QED  BY <1>1, <2>3, <2>4
<1>7. CASE rest >= HEADER_SIZE + MIN_ALLOC
  <2>1. tail = {w}
    BY <1>7 DEF LeavesBlock
  <2>2. header \in Headers /\ header.size = rest - HEADER_SIZE /\ header.status = STATUS_FREE
    <3>1. rest - HEADER_SIZE \in BlockSizes
      BY <1>1, <1>7, HeapAssumption DEF BlockSizes, HEADER_SIZE, MIN_ALLOC, ALIGNMENT
    <3> QED  BY <3>1, HeaderTyped DEF Header
  <2>3. w \in Offsets /\ w \notin DOMAIN h
    BY <1>1, <1>2, <1>3, <1>7 DEF Offsets, HEADER_SIZE, MIN_ALLOC
  <2> HIDE DEF header, tail
  <2>4. /\ DOMAIN g = DOMAIN h \cup {w}
        /\ g[w] = header
        /\ \A p \in DOMAIN h : g[p] = h[p]
        /\ g = [p \in DOMAIN g |-> g[p]]
    BY <1>5, <2>1, <2>3
  <2>5. TypedHeap(g)
    BY <1>1, <2>2, <2>3, <2>4 DEF TypedHeap
  <2>6. NextBlock(g, w) = DEVICE_RAM /\ \A o \in DOMAIN h : NextBlock(g, o) = NextBlock(h, o)
    <3>1. w + (rest - HEADER_SIZE) + HEADER_SIZE = DEVICE_RAM
      BY <1>1 DEF HEADER_SIZE
    <3> QED  BY <2>2, <2>4, <3>1 DEF NextBlock
  <2>7. \A o \in DOMAIN h : NextBlock(h, o) <= w
    BY <1>1, <1>2, <1>3, <1>4
  <2>8. Tiled(g)
    <3>1. 0 \in DOMAIN g
      BY <1>4, <2>4
    <3>2. \A o \in DOMAIN g : NextBlock(g, o) \in DOMAIN g \cup {DEVICE_RAM}
      BY <1>4, <2>4, <2>6
    <3>3. \A o, p \in DOMAIN g : o < p => NextBlock(g, o) <= p
      <4> SUFFICES ASSUME NEW o \in DOMAIN g, NEW p \in DOMAIN g, o < p
                   PROVE  NextBlock(g, o) <= p
        OBVIOUS
      <4>1. o \in DOMAIN h
        BY <1>1, <1>2, <1>3, <2>4
      <4> QED  BY <1>4, <2>4, <2>6, <2>7, <4>1
    <3> QED  BY <3>1, <3>2, <3>3 DEF Tiled
  <2>9. UsedBlocks(g) = UsedBlocks(h)
    BY <2>2, <2>4 DEF UsedBlocks, STATUS_FREE, STATUS_USED
  <2> QED  BY <2>4, <2>5, <2>8, <2>9 DEF UsedBlocks
<1> QED  BY <1>1, <1>6, <1>7

\* The live blocks are those before w, and w is the only place for a FREE one.
LEMMA CompactionGathers ==
  ASSUME NEW h, NEW w, NEW r, Compacting(h, w, r), r >= DEVICE_RAM
  PROVE  LET g == SweepAndMerge(Completed(h, w))
         IN  /\ WellFormed(g)
             /\ UsedBlocks(g) = UsedBlocks(h)
             /\ \A o \in UsedBlocks(h) : g[o].size = h[o].size
             /\ \A o \in UsedBlocks(g) : o < w
             /\ FreeBlocks(g) \subseteq {w}
<1> DEFINE c == Completed(h, w)
           g == SweepAndMerge(c)
<1>1. /\ TypedHeap(c) /\ Tiled(c)
      /\ UsedBlocks(c) = UsedBlocks(h)
      /\ \A o \in UsedBlocks(h) : c[o] = h[o]
  BY CompactionCloses
<1>2. \A o \in DOMAIN h : o < w /\ o \in UsedBlocks(h)
  <2>1. TypedHeap(h) /\ r = DEVICE_RAM
    BY HeapAssumption DEF Compacting
  <2>2. \A o \in DOMAIN h : o \in Nat /\ o < DEVICE_RAM
    BY <2>1, OffsetBounds, HeapAssumption DEF HEADER_SIZE, MIN_ALLOC
  <2> QED  BY <2>1, <2>2, HeapAssumption DEF Compacting
<1>3. FreeBlocks(c) \subseteq {w}
  <2>1. \A o \in DOMAIN c : o = w \/ (o \in DOMAIN h /\ c[o] = h[o])
    BY DEF Completed
  <2> HIDE DEF c
  <2> QED  BY <1>2, <2>1 DEF FreeBlocks, UsedBlocks, STATUS_FREE, STATUS_USED
<1> HIDE DEF c
<1>4. WellFormed(g) /\ UsedBlocks(g) = UsedBlocks(c) /\ \A o \in UsedBlocks(c) : g[o] = c[o]
  BY <1>1, SweepWellFormed, SweepKeepsUsed
<1>5. FreeBlocks(g) \subseteq FreeBlocks(c)
  <2>1. /\ DOMAIN g = DOMAIN c \ Absorbed(c)
        /\ \A o \in DOMAIN g : o \in FreeBlocks(c) \/ g[o] = c[o]
    BY DEF SweepAndMerge
  <2> QED  BY <2>1 DEF FreeBlocks
<1>6. \A o \in UsedBlocks(g) : o \in DOMAIN h
  BY <1>1, <1>4 DEF UsedBlocks
<1> HIDE DEF g
<1>7. /\ WellFormed(g)
      /\ UsedBlocks(g) = UsedBlocks(h)
      /\ \A o \in UsedBlocks(h) : g[o].size = h[o].size
      /\ \A o \in UsedBlocks(g) : o < w
      /\ FreeBlocks(g) \subseteq {w}
  BY <1>1, <1>2, <1>3, <1>4, <1>5, <1>6
<1> QED  BY <1>7 DEF g, c

\* With one FREE block at most, that block has all the bytes the live ones leave, and a
\* request that fits in them finds it.
LEMMA OneFreeBlockFound ==
  ASSUME NEW h, WellFormed(h), \A o, p \in FreeBlocks(h) : o = p,
         NEW need \in Nat, NEW room,
         room = DEVICE_RAM - BlockBytes(h, UsedBlocks(h)) - HEADER_SIZE, need <= room
  PROVE  /\ FindFreeBlock(h, need, 1) \in FreeBlocks(h)
         /\ h[FindFreeBlock(h, need, 1)].size = room
<1> DEFINE F == FreeBlocks(h)
<1>1. /\ TypedHeap(h) /\ Tiled(h)
      /\ F \in SUBSET DOMAIN h /\ UsedBlocks(h) \in SUBSET DOMAIN h
  BY DEF WellFormed, FreeBlocks, UsedBlocks
<1> HIDE DEF F
<1>2. /\ BlockBytes(h, F) \in Nat /\ BlockBytes(h, UsedBlocks(h)) \in Nat
      /\ BlockBytes(h, F) + BlockBytes(h, UsedBlocks(h)) = DEVICE_RAM
      /\ \A o \in F : BlockBytes(h, F) = (h[o].size + HEADER_SIZE) + BlockBytes(h, F \ {o})
      /\ DEVICE_RAM \in Nat
  BY <1>1, BytesOfOne, BytesOfFreeAndUsed, HeapAssumption DEF F
<1>3. room \in Int /\ BlockBytes(h, F) = room + HEADER_SIZE
  BY <1>2 DEF HEADER_SIZE
<1>4. PICK o \in F : TRUE
  <2>1. F # {}
    <3>1. BlockBytes(h, {}) = 0
      BY BytesOfNone
    <3> QED  BY <1>3, <3>1 DEF HEADER_SIZE
  <2> QED  BY <2>1
<1>5. F = {o}
  BY <1>4 DEF F
<1>6. h[o].size \in Nat /\ o \in Nat /\ h[o].size = room
  <2>1. F \ {o} = {}
    BY <1>5
  <2>2. BlockBytes(h, F) = (h[o].size + HEADER_SIZE) + 0
    BY <1>2, <1>4, <2>1, BytesOfNone
  <2>3. h[o].size \in Nat /\ o \in Nat
    BY <1>1, <1>4, OffsetBounds
  <2> QED  BY <1>3, <2>2, <2>3 DEF HEADER_SIZE
<1>7. FindFreeBlock(h, need, 1) = o
  <2> DEFINE fits == {p \in F : h[p].size >= need}
             tightest == {p \in fits : \A q \in fits : h[p].size <= h[q].size}
  <2>1. FindFreeBlock(h, need, 1) = IF tightest = {} THEN None ELSE Min(tightest)
    BY DEF FindFreeBlock, F
  <2>2. fits = {o}
    BY <1>5, <1>6
  <2>3. tightest = {o}
    <3> HIDE DEF fits
    <3> QED  BY <1>6, <2>2
  <2> HIDE DEF tightest
  <2>4. Min(tightest) \in tightest
    <3>1. {o} \in SUBSET Nat /\ {o} # {}
      BY <1>6
    <3> QED  BY <2>3, <3>1, MinOfNats
  <2> QED  BY <2>1, <2>3, <2>4
<1> QED  BY <1>4, <1>6, <1>7 DEF F

-----------------------------------------------------------------------------
(***************************************************************************)
(* A table whose entries name blocks.                                      *)
(***************************************************************************)

\* The entries of the table name the blocks of S, one each.
Names(table, S) ==
  /\ S \subseteq Offsets
  /\ table \in [HandleRange -> {None} \cup {o + HEADER_SIZE : o \in Offsets}]
  /\ \A i, j \in HandleRange : table[i] # None /\ table[i] = table[j] => i = j
  /\ \A i \in HandleRange : table[i] # None => table[i] - HEADER_SIZE \in S
  /\ \A o \in S : \E i \in HandleRange : table[i] = o + HEADER_SIZE

\* The table of handles_init names nothing.
LEMMA NoneNamed == Names(NoHandles, UsedBlocks(InitialHeap))
<1>1. \A i \in HandleRange : NoHandles[i] = None
  BY DEF NoHandles
<1>2. NoHandles \in [HandleRange -> {None} \cup {o + HEADER_SIZE : o \in Offsets}]
  BY DEF NoHandles
<1>3. UsedBlocks(InitialHeap) = {}
  BY DEF UsedBlocks, InitialHeap, Header, STATUS_USED, STATUS_FREE
<1> QED  BY <1>1, <1>2, <1>3 DEF Names

LEMMA EntryTyped ==
  ASSUME NEW table, NEW S, Names(table, S), NEW i \in HandleRange, table[i] # None
  PROVE  /\ table[i] \in Nat
         /\ table[i] - HEADER_SIZE \in Offsets
         /\ (table[i] - HEADER_SIZE) + HEADER_SIZE = table[i]
<1>1. PICK o \in Offsets : table[i] = o + HEADER_SIZE
  BY DEF Names
<1>2. o \in Nat
  BY HeapAssumption DEF Offsets, HEADER_SIZE, MIN_ALLOC
<1> QED  BY <1>1, <1>2 DEF HEADER_SIZE

\* An entry that was unused names a new block.
LEMMA NamesAdded ==
  ASSUME NEW table, NEW S, Names(table, S), NEW i \in HandleRange, table[i] = None,
         NEW o \in Offsets, o \notin S
  PROVE  Names([table EXCEPT ![i] = o + HEADER_SIZE], S \cup {o})
<1> DEFINE g == [table EXCEPT ![i] = o + HEADER_SIZE]
<1>1. o \in Nat /\ o + HEADER_SIZE # None /\ (o + HEADER_SIZE) - HEADER_SIZE = o
  BY HeapAssumption DEF Offsets, HEADER_SIZE, MIN_ALLOC, None
<1>2. table \in [HandleRange -> {None} \cup {p + HEADER_SIZE : p \in Offsets}]
  BY DEF Names
<1>3. /\ g \in [HandleRange -> {None} \cup {p + HEADER_SIZE : p \in Offsets}]
      /\ g[i] = o + HEADER_SIZE
      /\ \A j \in HandleRange : j # i => g[j] = table[j]
  BY <1>2
<1> HIDE DEF g
<1>4. \A j \in HandleRange : table[j] # None => table[j] # o + HEADER_SIZE
  BY <1>1 DEF Names
<1>5. \A j, k \in HandleRange : g[j] # None /\ g[j] = g[k] => j = k
  BY <1>3, <1>1, <1>4 DEF Names
<1>6. \A j \in HandleRange : g[j] # None => g[j] - HEADER_SIZE \in S \cup {o}
  BY <1>1, <1>3 DEF Names
<1>7. \A p \in S \cup {o} : \E j \in HandleRange : g[j] = p + HEADER_SIZE
  <2>1. ASSUME NEW p \in S
        PROVE  \E j \in HandleRange : g[j] = p + HEADER_SIZE
    <3>1. PICK j \in HandleRange : table[j] = p + HEADER_SIZE
      BY DEF Names
    <3>2. CASE j # i
      BY <1>3, <3>1, <3>2
    <3>3. CASE j = i
      <4>1. p + HEADER_SIZE = None
        BY <3>1, <3>3
      <4>2. p \in Nat
        BY HeapAssumption DEF Names, Offsets, HEADER_SIZE, MIN_ALLOC
      <4> QED  BY <4>1, <4>2 DEF HEADER_SIZE, None
    <3> QED  BY <3>2, <3>3
  <2> QED  BY <1>3, <2>1
<1>8. S \cup {o} \subseteq Offsets
  BY DEF Names
<1> QED  BY <1>3, <1>5, <1>6, <1>7, <1>8 DEF Names, g

\* The entry of a block is cleared, and no other names it.
LEMMA NamesCancelled ==
  ASSUME NEW table, NEW S, Names(table, S), NEW o \in S,
         NEW g, g = [i \in HandleRange |-> IF table[i] = o + HEADER_SIZE THEN None ELSE table[i]]
  PROVE  Names(g, S \ {o})
<1>1. \A p \in S : p \in Nat /\ p + HEADER_SIZE # None /\ (p + HEADER_SIZE) - HEADER_SIZE = p
  BY HeapAssumption DEF Names, Offsets, HEADER_SIZE, MIN_ALLOC, None
<1>2. g \in [HandleRange -> {None} \cup {p + HEADER_SIZE : p \in Offsets}]
  BY DEF Names
<1>3. \A i \in HandleRange : g[i] = IF table[i] = o + HEADER_SIZE THEN None ELSE table[i]
  OBVIOUS
<1>4. \A i, j \in HandleRange : g[i] # None /\ g[i] = g[j] => i = j
  BY <1>3 DEF Names
<1>5. ASSUME NEW i \in HandleRange, g[i] # None
      PROVE  g[i] - HEADER_SIZE \in S \ {o}
  <2>1. g[i] = table[i] /\ table[i] # o + HEADER_SIZE /\ table[i] # None
    BY <1>3, <1>5
  <2>2. table[i] - HEADER_SIZE \in S /\ (table[i] - HEADER_SIZE) + HEADER_SIZE = table[i]
    BY <2>1, EntryTyped DEF Names
  <2> QED  BY <2>1, <2>2
<1>6. ASSUME NEW p \in S \ {o}
      PROVE  \E i \in HandleRange : g[i] = p + HEADER_SIZE
  <2>1. PICK i \in HandleRange : table[i] = p + HEADER_SIZE
    BY DEF Names
  <2>2. p + HEADER_SIZE # o + HEADER_SIZE
    BY <1>1
  <2> QED  BY <1>3, <2>1, <2>2
<1> QED  BY <1>2, <1>4, <1>5, <1>6 DEF Names

\* The entry that names o, when it is known: clearing it clears all that name o.
LEMMA NamesDeleted ==
  ASSUME NEW table, NEW S, Names(table, S), NEW i \in HandleRange, table[i] # None
  PROVE  Names([table EXCEPT ![i] = None], S \ {table[i] - HEADER_SIZE})
<1> DEFINE o == table[i] - HEADER_SIZE
<1>1. o \in S /\ o + HEADER_SIZE = table[i]
  BY EntryTyped DEF Names
<1>2. table \in [HandleRange -> {None} \cup {p + HEADER_SIZE : p \in Offsets}]
  BY DEF Names
<1>3. \A j \in HandleRange : table[j] = o + HEADER_SIZE <=> j = i
  BY <1>1 DEF Names
<1>4. [table EXCEPT ![i] = None]
        = [j \in HandleRange |-> IF table[j] = o + HEADER_SIZE THEN None ELSE table[j]]
  BY <1>2, <1>3
<1> HIDE DEF o
<1> QED  BY <1>1, <1>4, NamesCancelled DEF o

\* mem_compact patches the entry of the block it has moved, and only that.
LEMMA RepointedShape ==
  ASSUME NEW table, NEW S, Names(table, S), NEW r \in S, NEW w
  PROVE  Repointed(table, r + HEADER_SIZE, w + HEADER_SIZE)
           = [i \in HandleRange |->
                IF table[i] = r + HEADER_SIZE THEN w + HEADER_SIZE ELSE table[i]]
<1> DEFINE found == {i \in HandleRange : table[i] = r + HEADER_SIZE}
<1>1. PICK i \in HandleRange : table[i] = r + HEADER_SIZE
  BY DEF Names
<1>2. r + HEADER_SIZE # None
  BY HeapAssumption DEF Names, Offsets, HEADER_SIZE, MIN_ALLOC, None
<1>3. found = {i}
  BY <1>1, <1>2 DEF Names
<1>4. Min(found) = i
  <2>1. found \in SUBSET Nat /\ found # {}
    BY <1>1 DEF HandleRange
  <2> QED  BY <1>3, <2>1, MinOfNats
<1>5. Repointed(table, r + HEADER_SIZE, w + HEADER_SIZE) = [table EXCEPT ![i] = w + HEADER_SIZE]
  <2>1. found # {}
    BY <1>1
  <2> QED  BY <1>4, <2>1 DEF Repointed
<1>6. table \in [HandleRange -> {None} \cup {p + HEADER_SIZE : p \in Offsets}]
  BY DEF Names
<1>7. \A j \in HandleRange : table[j] = r + HEADER_SIZE <=> j = i
  BY <1>3
<1> QED  BY <1>1, <1>5, <1>6, <1>7

\* The entry follows its block.
LEMMA NamesRepointed ==
  ASSUME NEW table, NEW S, Names(table, S), NEW r \in S, NEW w \in Offsets,
         w = r \/ w \notin S,
         NEW g, g = [i \in HandleRange |->
                       IF table[i] = r + HEADER_SIZE THEN w + HEADER_SIZE ELSE table[i]]
  PROVE  Names(g, (S \ {r}) \cup {w})
<1>1. \A p \in S \cup {w} : p \in Nat /\ p + HEADER_SIZE # None /\ (p + HEADER_SIZE) - HEADER_SIZE = p
  BY HeapAssumption DEF Names, Offsets, HEADER_SIZE, MIN_ALLOC, None
<1>2. g \in [HandleRange -> {None} \cup {p + HEADER_SIZE : p \in Offsets}]
  BY DEF Names
<1>3. \A i \in HandleRange :
        g[i] = IF table[i] = r + HEADER_SIZE THEN w + HEADER_SIZE ELSE table[i]
  OBVIOUS
<1>4. \A i \in HandleRange : table[i] # None /\ table[i] # r + HEADER_SIZE
                               => table[i] # w + HEADER_SIZE
  BY <1>1 DEF Names
<1>5. \A i, j \in HandleRange : g[i] # None /\ g[i] = g[j] => i = j
  BY <1>1, <1>3, <1>4 DEF Names
<1>6. ASSUME NEW i \in HandleRange, g[i] # None
      PROVE  g[i] - HEADER_SIZE \in (S \ {r}) \cup {w}
  <2>1. CASE table[i] = r + HEADER_SIZE
    BY <1>1, <1>3, <2>1
  <2>2. CASE table[i] # r + HEADER_SIZE
    <3>1. g[i] = table[i] /\ table[i] # None
      BY <1>3, <1>6, <2>2
    <3>2. table[i] - HEADER_SIZE \in S /\ (table[i] - HEADER_SIZE) + HEADER_SIZE = table[i]
      BY <3>1, EntryTyped DEF Names
    <3> QED  BY <2>2, <3>1, <3>2
  <2> QED  BY <2>1, <2>2
<1>7. ASSUME NEW p \in (S \ {r}) \cup {w}
      PROVE  \E i \in HandleRange : g[i] = p + HEADER_SIZE
  <2>1. CASE p = w
    <3>1. PICK i \in HandleRange : table[i] = r + HEADER_SIZE
      BY DEF Names
    <3> QED  BY <1>3, <2>1, <3>1
  <2>2. CASE p \in S \ {r}
    <3>1. PICK i \in HandleRange : table[i] = p + HEADER_SIZE
      BY <2>2 DEF Names
    <3>2. p + HEADER_SIZE # r + HEADER_SIZE
      BY <1>1, <2>2
    <3> QED  BY <1>3, <3>1, <3>2
  <2> QED  BY <1>7, <2>1, <2>2
<1>8. (S \ {r}) \cup {w} \subseteq Offsets
  BY DEF Names
<1> QED  BY <1>2, <1>5, <1>6, <1>7, <1>8 DEF Names

=============================================================================
