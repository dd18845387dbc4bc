----------------------------- MODULE WalkProofs -----------------------------
(***************************************************************************)
(* Theorems about WalkProperties, for every size of ram[] and every choice *)
(* of requests, ids and strategies: the loops of level_2.c never lose the  *)
(* chain of headers, find what they should, and together are the atomic    *)
(* calls of CoreAllocator.                                                 *)
(*                                                                         *)
(* The invariant of a loop says what the loop has done to the blocks       *)
(* behind its position.  It holds only together with the invariants of the *)
(* other loops: the search relies on the heap the last sweep left.         *)
(***************************************************************************)
EXTENDS WalkProperties, HeapLemmas

\* The request under way came from a caller.
CallIsRequest ==
  pc \in {"search", "occupy"} =>
    /\ \E n \in Requests : n >= MIN_ALLOC /\ n <= MAX_ALLOC /\ call.need = AlignBytes(n)
    /\ call.task_id \in TaskIds
    /\ call.strategy \in Strategies

\* Each loop starts from fresh locals.
LocalsFresh ==
  /\ pc = "idle" => offset = 0
  /\ pc # "sweep" => run = NoRun
  /\ pc \notin {"search", "occupy"} => best = NoBest

\* Behind the search: best is the first of the tightest blocks, if the strategy is
\* best fit, and the loop would have returned at any other block of use.
SearchedBehind ==
  pc = "search" =>
    /\ best.at # None =>
         /\ call.strategy = 1
         /\ best.at \in FreeBlocks(heap)
         /\ best.at < offset
         /\ heap[best.at].size > call.need
         /\ best.diff = heap[best.at].size - call.need
    /\ \A o \in FreeBlocks(heap) :
         o < offset /\ heap[o].size >= call.need =>
           /\ call.strategy # 0
           /\ heap[o].size # call.need
           /\ call.strategy = 1 =>
                /\ best.at # None
                /\ heap[best.at].size <= heap[o].size
                /\ o < best.at => heap[best.at].size < heap[o].size

\* A FREE block that ends where the sweep stands is the run it merges into.
RunReachesSweep ==
  pc = "sweep" => \A o \in FreeBlocks(heap) : NextBlock(heap, o) = offset => o = run.at

\* The inductive invariant.
IInv ==
  /\ TypeOK
  /\ WalkOnHeaders
  /\ CopyIsFresh
  /\ SweptBehind
  /\ SearchExact
  /\ CallIsRequest
  /\ LocalsFresh
  /\ SearchedBehind
  /\ RunReachesSweep

-----------------------------------------------------------------------------
(***************************************************************************)
(* What a finished search has found.                                       *)
(***************************************************************************)

\* The candidates of each strategy.
FitsOf(h, need) == {o \in FreeBlocks(h) : h[o].size >= need}

TightestOf(h, need) ==
  {o \in FitsOf(h, need) : \A p \in FitsOf(h, need) : h[o].size <= h[p].size}

ExactOf(h, need) == {o \in FitsOf(h, need) : h[o].size = need}

LEMMA SearchByStrategy ==
  ASSUME NEW h, NEW need
  PROVE  /\ FindFreeBlock(h, need, 0) =
              IF FitsOf(h, need) = {} THEN None ELSE Min(FitsOf(h, need))
         /\ FindFreeBlock(h, need, 1) =
              IF TightestOf(h, need) = {} THEN None ELSE Min(TightestOf(h, need))
         /\ \A s : s # 0 /\ s # 1 =>
              FindFreeBlock(h, need, s) =
                IF ExactOf(h, need) = {} THEN None ELSE Min(ExactOf(h, need))
<1> DEFINE candidates(s) == CASE s = 0 -> FitsOf(h, need)
                              [] s = 1 -> TightestOf(h, need)
                              [] OTHER -> ExactOf(h, need)
<1>1. \A s : FindFreeBlock(h, need, s) =
               IF candidates(s) = {} THEN None ELSE Min(candidates(s))
  BY DEF FindFreeBlock, FitsOf, TightestOf, ExactOf
<1>2. candidates(0) = FitsOf(h, need)
  OBVIOUS
<1>3. candidates(1) = TightestOf(h, need)
  <2>1. 1 # 0
    OBVIOUS
  <2> QED  BY <2>1, Zenon
<1>4. \A s : s # 0 /\ s # 1 => candidates(s) = ExactOf(h, need)
  OBVIOUS
<1> HIDE DEF candidates
<1> QED  BY <1>1, <1>2, <1>3, <1>4

\* The element that is no larger than any other is the least one.
LEMMA MinIs ==
  ASSUME NEW S \in SUBSET Nat, NEW x \in S, \A y \in S : x <= y
  PROVE  S # {} /\ Min(S) = x
<1>1. Min(S) \in S /\ Min(S) <= x
  BY MinOfNats
<1>2. x <= Min(S) /\ x \in Nat /\ Min(S) \in Nat
  BY <1>1
<1> QED  BY <1>1, <1>2

\* The block at which the loop returns early is the one to find.
LEMMA TakenIsFound ==
  ASSUME NEW h, TypedHeap(h), NEW need \in Nat, NEW strategy,
         NEW o \in FreeBlocks(h), h[o].size >= need,
         strategy = 0 \/ h[o].size = need,
         \A p \in FreeBlocks(h) :
           p < o /\ h[p].size >= need => strategy # 0 /\ h[p].size # need
  PROVE  FindFreeBlock(h, need, strategy) = o
<1>1. /\ \A p \in FreeBlocks(h) : p \in Nat /\ h[p].size \in Nat
      /\ o \in Nat /\ h[o].size \in Nat
  BY DEF TypedHeap, FreeBlocks, Offsets, Headers, BlockSizes, MIN_ALLOC
<1>2. /\ FitsOf(h, need) \in SUBSET Nat
      /\ TightestOf(h, need) \in SUBSET Nat
      /\ ExactOf(h, need) \in SUBSET Nat
  BY <1>1 DEF FitsOf, TightestOf, ExactOf
<1>3. CASE strategy = 0
  <2>1. o \in FitsOf(h, need) /\ \A p \in FitsOf(h, need) : o <= p
    BY <1>1, <1>3 DEF FitsOf
  <2>2. FitsOf(h, need) # {} /\ Min(FitsOf(h, need)) = o
    BY <1>2, <2>1, MinIs
  <2> QED  BY <1>3, <2>2, SearchByStrategy
<1>4. CASE strategy = 1
  <2>1. h[o].size = need
    BY <1>4
  <2>2. o \in TightestOf(h, need)
    BY <2>1 DEF TightestOf, FitsOf
  <2>3. \A p \in TightestOf(h, need) : p \in FreeBlocks(h) /\ h[p].size = need
    BY <1>1, <2>1 DEF TightestOf, FitsOf
  <2>4. ASSUME NEW p \in TightestOf(h, need)
        PROVE  o <= p
    <3>1. p \in FreeBlocks(h) /\ h[p].size = need /\ h[p].size >= need
      BY <1>1, <2>3
    <3>2. p \in Nat /\ o \in Nat
      BY <1>1, <3>1
    <3>3. ~ (p < o)
      BY <3>1
    <3> QED  BY <3>2, <3>3
  <2>5. TightestOf(h, need) # {} /\ Min(TightestOf(h, need)) = o
    BY <1>2, <2>2, <2>4, MinIs
  <2> QED  BY <1>4, <2>5, SearchByStrategy
<1>5. CASE strategy # 0 /\ strategy # 1
  <2>1. o \in ExactOf(h, need)
    BY <1>1, <1>5 DEF ExactOf, FitsOf
  <2>3. ASSUME NEW p \in ExactOf(h, need)
        PROVE  o <= p
    <3>1. p \in FreeBlocks(h) /\ h[p].size = need /\ h[p].size >= need
      BY DEF ExactOf, FitsOf
    <3>2. p \in Nat /\ o \in Nat
      BY <1>1, <3>1
    <3>3. ~ (p < o)
      BY <3>1
    <3> QED  BY <3>2, <3>3
  <2>2. ExactOf(h, need) # {} /\ Min(ExactOf(h, need)) = o
    BY <1>2, <2>1, <2>3, MinIs
  <2> QED  BY <1>5, <2>2, SearchByStrategy
<1> QED  BY <1>3, <1>4, <1>5

\* When the loop ends without an early return, no block fits, or the strategy is
\* best fit and best is the first of the tightest ones.
LEMMA ExhaustedIsFound ==
  ASSUME NEW h, TypedHeap(h), NEW need \in Nat, NEW strategy,
         NEW at \in Offsets \cup {None},
         at # None => strategy = 1 /\ at \in FreeBlocks(h) /\ h[at].size > need,
         \A o \in FreeBlocks(h) : h[o].size >= need =>
           /\ strategy # 0
           /\ h[o].size # need
           /\ strategy = 1 => /\ at # None
                              /\ h[at].size <= h[o].size
                              /\ o < at => h[at].size < h[o].size
  PROVE  FindFreeBlock(h, need, strategy) = at
<1>1. \A p \in FreeBlocks(h) : p \in Nat /\ h[p].size \in Nat
  BY DEF TypedHeap, FreeBlocks, Offsets, Headers, BlockSizes, MIN_ALLOC
<1>2. TightestOf(h, need) \in SUBSET Nat
  BY <1>1 DEF TightestOf, FitsOf
<1>3. CASE at = None
  <2>1. strategy = 0 \/ strategy = 1 => FitsOf(h, need) = {}
    BY <1>3 DEF FitsOf
  <2>2. TightestOf(h, need) \subseteq FitsOf(h, need)
    BY DEF TightestOf
  <2>3. ExactOf(h, need) = {}
    BY DEF ExactOf, FitsOf
  <2> QED  BY <1>3, <2>1, <2>2, <2>3, SearchByStrategy
<1>4. CASE at # None
  <2>1. at \in TightestOf(h, need)
    BY <1>1, <1>4 DEF TightestOf, FitsOf
  <2>2. \A p \in TightestOf(h, need) :
          /\ p \in FreeBlocks(h) /\ h[p].size >= need
          /\ h[p].size <= h[at].size
    BY <2>1 DEF TightestOf, FitsOf
  <2>3. ASSUME NEW p \in TightestOf(h, need)
        PROVE  at <= p
    <3>1. p \in FreeBlocks(h) /\ h[p].size >= need /\ h[p].size <= h[at].size
      BY <2>2
    <3>2. at \in Nat /\ p \in Nat /\ h[at].size \in Nat /\ h[p].size \in Nat
      BY <1>1, <1>4, <3>1
    <3>3. p < at => h[at].size < h[p].size
      BY <1>4, <3>1
    <3> QED  BY <3>1, <3>2, <3>3
  <2>4. TightestOf(h, need) # {} /\ Min(TightestOf(h, need)) = at
    BY <1>2, <2>1, <2>3, MinIs
  <2> QED  BY <1>4, <2>4, SearchByStrategy
<1> QED  BY <1>3, <1>4

-----------------------------------------------------------------------------
(***************************************************************************)
(* What the writes of a call amount to.                                    *)
(***************************************************************************)

\* A header written over another one.
LEMMA OverwriteHeader ==
  ASSUME NEW h, NEW o \in DOMAIN h, NEW header
  PROVE  WriteHeader(h, o, header) = [p \in DOMAIN h |-> IF p = o THEN header ELSE h[p]]
BY DEF WriteHeader

\* The writes of mem_alloc make the block a USED one and its rest a FREE one.
LEMMA OccupyWrites ==
  ASSUME NEW h, WellFormed(h), NEW o \in FreeBlocks(h),
         NEW need \in BlockSizes, need <= h[o].size, NEW t \in Int
  PROVE  Occupy(h, o, need, t) =
           IF h[o].size - need >= HEADER_SIZE + MIN_ALLOC
           THEN WriteHeader(WriteHeader(h, o, Header(need, STATUS_USED, t)),
                            o + HEADER_SIZE + need,
                            Header(h[o].size - need - HEADER_SIZE, STATUS_FREE, 0))
           ELSE WriteHeader(h, o, Header(h[o].size, STATUS_USED, t))
<1> DEFINE available == h[o].size
           used == Header(need, STATUS_USED, t)
           whole == Header(available, STATUS_USED, t)
           given == GivenSize(available, need)
           rest == o + HEADER_SIZE + given
           left == Header(available - need - HEADER_SIZE, STATUS_FREE, 0)
           tail == IF given < available THEN {rest} ELSE {}
           g == Occupy(h, o, need, t)
<1>1. o \in DOMAIN h /\ o \in Nat /\ available \in Nat /\ need \in Nat
  BY BlockBounds DEF WellFormed, FreeBlocks, BlockSizes, MIN_ALLOC
<1>2. g = [p \in DOMAIN h \cup tail |->
             CASE p = o -> Header(given, STATUS_USED, t)
               [] p \in tail -> left
               [] OTHER -> h[p]]
  BY DEF Occupy
<1>3. CASE available - need >= HEADER_SIZE + MIN_ALLOC
  <2>1. given = need /\ need < available
    BY <1>1, <1>3 DEF GivenSize, WillSplit, HEADER_SIZE, MIN_ALLOC
  <2>2. tail = {rest}
    BY <2>1
  <2>3. rest # o
    BY <1>1, <2>1 DEF HEADER_SIZE
  <2> HIDE DEF used, left, rest, tail, given, g
  <2>4. \A p : (CASE p = o -> Header(given, STATUS_USED, t)
                  [] p \in tail -> left
                  [] OTHER -> h[p])
               = IF p = rest THEN left ELSE IF p = o THEN used ELSE h[p]
    BY <2>1, <2>2, <2>3, Zenon DEF used
  <2>5. g = [p \in DOMAIN h \cup {rest} |->
               IF p = rest THEN left ELSE IF p = o THEN used ELSE h[p]]
    BY <1>2, <2>2, <2>4, Zenon
  <2>6. WriteHeader(WriteHeader(h, o, used), rest, left) =
          [p \in DOMAIN h \cup {rest} |->
             IF p = rest THEN left ELSE IF p = o THEN used ELSE h[p]]
    BY <1>1 DEF WriteHeader
  <2>7. rest = o + HEADER_SIZE + need
    BY <2>1 DEF rest
  <2> QED  BY <1>3, <2>5, <2>6, <2>7 DEF g, used, left
<1>4. CASE ~ (available - need >= HEADER_SIZE + MIN_ALLOC)
  <2>1. given = available
    BY <1>4 DEF GivenSize, WillSplit
  <2>2. tail = {}
    BY <1>1, <2>1
  <2> HIDE DEF left, rest, tail, given, g, whole
  <2>3. \A p : (CASE p = o -> Header(given, STATUS_USED, t)
                  [] p \in tail -> left
                  [] OTHER -> h[p])
               = IF p = o THEN whole ELSE h[p]
    BY <2>1, <2>2, Zenon DEF whole
  <2>4. g = [p \in DOMAIN h |-> IF p = o THEN whole ELSE h[p]]
    BY <1>2, <2>2, <2>3, Zenon
  <2>5. g = WriteHeader(h, o, whole)
    BY <1>1, <2>4, OverwriteHeader
  <2> QED  BY <1>4, <2>5 DEF g, whole
<1> QED  BY <1>3, <1>4

LEMMA SplitOccupies ==
  ASSUME WellFormed(heap), NEW o \in FreeBlocks(heap),
         call.need \in BlockSizes, call.need <= heap[o].size, call.task_id \in Int
  PROVE  Split(o) = Occupy(heap, o, call.need, call.task_id)
BY OccupyWrites DEF Split

-----------------------------------------------------------------------------
(***************************************************************************)
(* The inductive invariant.                                                *)
(***************************************************************************)

\* The heap is well formed whenever no sweep is under way.
LEMMA IInvHeap ==
  ASSUME IInv
  PROVE  /\ TypedHeap(heap) /\ Tiled(heap)
         /\ pc # "sweep" => WellFormed(heap)
<1>1. TypedHeap(heap) /\ Tiled(heap)
  BY DEF IInv, TypeOK, WalkOnHeaders
<1>2. pc # "sweep" => Coalesced(heap)
  BY DEF IInv, SweptBehind, Coalesced
<1> QED  BY <1>1, <1>2 DEF WellFormed

\* A request, rounded up, is the size of a block or more.
LEMMA NeedTyped ==
  ASSUME NEW n \in Requests, n >= MIN_ALLOC
  PROVE  /\ AlignBytes(n) \in Nat
         /\ AlignBytes(n) % ALIGNMENT = 0
         /\ AlignBytes(n) >= MIN_ALLOC
<1>1. n \in Nat
  BY WalkAssumption DEF MIN_ALLOC
<1> QED  BY <1>1, AlignBytesRoundsUp DEF MIN_ALLOC

\* The locals of a call that has returned.
LEMMA ReturnedTyped ==
  ASSUME Return
  PROVE  /\ pc' \in Phases
         /\ call' \in [need : Nat, task_id : Int, strategy : Int]
         /\ offset' \in Nat
         /\ best' \in [at : Offsets \cup {None}, diff : Nat]
         /\ run' \in [at : Offsets \cup {None}, size : Nat]
         /\ stats' \in [total_free_bytes : Nat, largest_free_block : Nat, num_free_fragments : Nat]
BY DEF Return, Phases, NoCall, NoBest, NoRun, NoStats

\* A call that returns over a well-formed heap leaves the invariant.
LEMMA ReturnIInv ==
  ASSUME Return, WellFormed(heap')
  PROVE  IInv'
<1>1. pc' = "idle" /\ offset' = 0 /\ best' = NoBest /\ run' = NoRun
  BY DEF Return
<1>2. TypeOK'
  BY ReturnedTyped DEF TypeOK, WellFormed
<1>3. WalkOnHeaders'
  BY <1>1 DEF WalkOnHeaders, WellFormed, Tiled
<1>4. CopyIsFresh' /\ RunReachesSweep' /\ SearchExact' /\ CallIsRequest' /\ SearchedBehind'
  BY <1>1 DEF CopyIsFresh, RunReachesSweep, SearchExact, CallIsRequest, SearchedBehind, NoRun
<1>5. SweptBehind'
  BY DEF SweptBehind, WellFormed, Coalesced
<1>6. LocalsFresh'
  BY <1>1 DEF LocalsFresh
<1> QED  BY <1>2, <1>3, <1>4, <1>5, <1>6 DEF IInv

LEMMA InitIInv == Init => IInv
<1> SUFFICES ASSUME Init
             PROVE  IInv
  OBVIOUS
<1>1. WellFormed(heap)
  BY InitialHeapWellFormed DEF Init
<1>2. TypeOK
  BY <1>1 DEF Init, TypeOK, WellFormed, Phases, NoCall, NoBest, NoRun, NoStats
<1>3. WalkOnHeaders
  BY <1>1 DEF Init, WalkOnHeaders, WellFormed, Tiled
<1>4. CopyIsFresh /\ RunReachesSweep /\ SearchExact /\ CallIsRequest /\ SearchedBehind
  BY DEF Init, CopyIsFresh, RunReachesSweep, SearchExact, CallIsRequest, SearchedBehind, NoRun
<1>5. SweptBehind
  BY <1>1 DEF SweptBehind, WellFormed, Coalesced
<1>6. LocalsFresh
  BY DEF Init, LocalsFresh
<1> QED  BY <1>2, <1>3, <1>4, <1>5, <1>6 DEF IInv

\* mem_alloc enters its search.
LEMMA MemAllocIInv ==
  ASSUME IInv, NEW n \in Requests, NEW t \in TaskIds, NEW s \in Strategies, MemAlloc(n, t, s)
  PROVE  IInv'
<1>1. /\ pc = "idle" /\ pc' = "search"
      /\ offset' = 0 /\ best' = NoBest /\ run' = NoRun
      /\ UNCHANGED <<heap, offset, best, run, stats>>
  BY DEF IInv, LocalsFresh, MemAlloc
<1>2. call' = [need |-> AlignBytes(n), task_id |-> t, strategy |-> s] /\ n >= MIN_ALLOC
  BY DEF MemAlloc
<1>3. TypeOK'
  <2>1. call' \in [need : Nat, task_id : Int, strategy : Int]
    BY <1>2, NeedTyped, WalkAssumption
  <2> QED  BY <1>1, <2>1 DEF IInv, TypeOK, Phases
<1>4. WalkOnHeaders' /\ CopyIsFresh' /\ SweptBehind'
  BY <1>1 DEF IInv, WalkOnHeaders, CopyIsFresh, SweptBehind, NoRun, FreeBlocks, NextBlock
<1>5. CallIsRequest'
  BY <1>1, <1>2 DEF CallIsRequest, MemAlloc
<1>6. SearchedBehind'
  <2>1. \A o \in FreeBlocks(heap') : ~ (o < offset')
    BY <1>1, IInvHeap, BlockBounds DEF FreeBlocks
  <2> QED  BY <1>1, <2>1 DEF SearchedBehind, NoBest
<1>7. SearchExact' /\ LocalsFresh' /\ RunReachesSweep'
  BY <1>1 DEF SearchExact, LocalsFresh, RunReachesSweep
<1> QED  BY <1>3, <1>4, <1>5, <1>6, <1>7 DEF IInv

\* mem_free enters its sweep.
LEMMA MemFreeIInv ==
  ASSUME IInv, NEW o \in DOMAIN heap, MemFree(o + HEADER_SIZE)
  PROVE  /\ IInv'
         /\ o \in UsedBlocks(heap)
         /\ heap' = [heap EXCEPT ![o] = Header(heap[o].size, STATUS_FREE, heap[o].task_id)]
<1>1. WellFormed(heap)
  BY IInvHeap DEF MemFree
<1>2. (o + HEADER_SIZE) - HEADER_SIZE = o
  BY <1>1, BlockBounds DEF WellFormed, HEADER_SIZE
<1>3. o \in UsedBlocks(heap)
  BY <1>2 DEF MemFree, Freeable
<1> DEFINE header == Header(heap[o].size, STATUS_FREE, heap[o].task_id)
<1>4. heap' = [heap EXCEPT ![o] = header]
  <2>1. heap' = WriteHeader(heap, o, header)
    BY <1>2 DEF MemFree
  <2>2. heap = [p \in DOMAIN heap |-> heap[p]]
    BY <1>1 DEF WellFormed, TypedHeap
  <2> HIDE DEF header
  <2> QED  BY <2>1, <2>2, OverwriteHeader
<1>5. TypedHeap(heap') /\ Tiled(heap')
  <2>1. TypedHeap(heap) /\ Tiled(heap)
    BY <1>1 DEF WellFormed
  <2>2. heap[o].task_id \in Int
    BY <1>3, <2>1 DEF TypedHeap, UsedBlocks, Headers
  <2> QED  BY <1>3, <1>4, <2>1, <2>2, MarkFree DEF LosesOnly
<1>6. /\ pc = "idle" /\ pc' = "sweep"
      /\ offset' = 0 /\ run' = NoRun /\ best' = NoBest
      /\ UNCHANGED <<call, offset, best, run, stats>>
  BY DEF IInv, LocalsFresh, MemFree
<1>7. \A p \in FreeBlocks(heap') : p \in Nat /\ NextBlock(heap', p) \in Nat /\ NextBlock(heap', p) # 0
  <2> SUFFICES ASSUME NEW p \in FreeBlocks(heap')
               PROVE  p \in Nat /\ NextBlock(heap', p) \in Nat /\ NextBlock(heap', p) # 0
    OBVIOUS
  <2>1. p \in DOMAIN heap'
    BY DEF FreeBlocks
  <2>2. p \in Nat /\ NextBlock(heap', p) \in Nat /\ p < NextBlock(heap', p)
    BY <1>5, <2>1, BlockBounds
  <2> QED  BY <2>2
<1>8. TypeOK'
  BY <1>5, <1>6 DEF IInv, TypeOK, Phases
<1>9. WalkOnHeaders'
  BY <1>5, <1>6 DEF WalkOnHeaders, Tiled
<1>10. CopyIsFresh' /\ SweptBehind' /\ RunReachesSweep'
  <2>1. CopyIsFresh'
    BY <1>6 DEF CopyIsFresh, NoRun
  <2>2. SweptBehind'
    BY <1>6, <1>7 DEF SweptBehind
  <2>3. RunReachesSweep'
    BY <1>6, <1>7 DEF RunReachesSweep
  <2> QED  BY <2>1, <2>2, <2>3
<1>11. SearchExact' /\ CallIsRequest' /\ LocalsFresh' /\ SearchedBehind'
  BY <1>6 DEF SearchExact, CallIsRequest, LocalsFresh, SearchedBehind
<1> QED  BY <1>3, <1>4, <1>8, <1>9, <1>10, <1>11 DEF IInv

\* The loop of find_free_block looks at one more block, or returns there.
LEMMA SearchStepIInv ==
  ASSUME IInv, SearchStep
  PROVE  IInv'
<1> DEFINE header == heap[offset]
<1>1. /\ pc = "search" /\ offset < DEVICE_RAM
      /\ UNCHANGED <<heap, call, run, stats>>
  BY DEF SearchStep
<1>2. TypedHeap(heap) /\ Tiled(heap) /\ WellFormed(heap)
  BY <1>1, IInvHeap
<1>3. /\ offset \in DOMAIN heap /\ offset \in Offsets
      /\ offset \in Nat /\ NextBlock(heap, offset) \in Nat
      /\ offset < NextBlock(heap, offset)
      /\ NextBlock(heap, offset) \in DOMAIN heap \cup {DEVICE_RAM}
      /\ header.size \in Nat
      /\ header.status \in {STATUS_FREE, STATUS_USED}
  <2>1. offset \in DOMAIN heap
    BY <1>1, HeapAssumption DEF IInv, WalkOnHeaders
  <2> QED  BY <1>2, <2>1, BlockBounds
           DEF TypedHeap, Tiled, Headers, BlockSizes, MIN_ALLOC
<1>4. /\ call.need \in Nat /\ best.diff \in Nat
      /\ best.at \in Offsets \cup {None}
      /\ best \in [at : Offsets \cup {None}, diff : Nat]
  BY DEF IInv, TypeOK
<1>5. \A o \in FreeBlocks(heap) : o \in Nat /\ heap[o].size \in Nat /\ o \in DOMAIN heap
  BY <1>2, BlockBounds DEF FreeBlocks, BlockSizes, MIN_ALLOC
<1>6. UNCHANGED <<FreeBlocks(heap), run>> /\ run = NoRun
  BY <1>1 DEF IInv, LocalsFresh
<1>7. SearchedBehind
  BY DEF IInv
<1>8. CASE Taken(header)
  <2>1. pc' = "occupy" /\ best' = [at |-> offset, diff |-> 0] /\ offset' = offset
    BY <1>8 DEF SearchStep
  <2>2. offset \in FreeBlocks(heap) /\ header.size >= call.need
        /\ (call.strategy = 0 \/ header.size = call.need)
    BY <1>3, <1>8 DEF Taken, Fits, FreeBlocks
  <2>3. \A p \in FreeBlocks(heap) :
          p < offset /\ heap[p].size >= call.need
            => call.strategy # 0 /\ heap[p].size # call.need
    BY <1>1, <1>7 DEF SearchedBehind
  <2>4. FindFreeBlock(heap, call.need, call.strategy) = offset
    BY <1>2, <1>4, <2>2, <2>3, TakenIsFound
  <2>5. SearchExact'
    BY <1>1, <2>1, <2>4 DEF SearchExact
  <2>6. TypeOK'
    BY <1>1, <1>3, <2>1 DEF IInv, TypeOK, Phases
  <2>7. WalkOnHeaders' /\ CopyIsFresh' /\ SweptBehind'
    <3>1. WalkOnHeaders' /\ CopyIsFresh'
      BY <1>1, <1>6, <2>1 DEF IInv, WalkOnHeaders, CopyIsFresh, NoRun
    <3>2. Coalesced(heap)
      BY <1>2 DEF WellFormed
    <3>3. SweptBehind'
      BY <1>1, <1>6, <3>2 DEF SweptBehind, Coalesced, NextBlock
    <3> QED  BY <3>1, <3>3
  <2>8. CallIsRequest' /\ LocalsFresh' /\ SearchedBehind' /\ RunReachesSweep'
    BY <1>1, <1>6, <2>1 DEF IInv, CallIsRequest, LocalsFresh, SearchedBehind, RunReachesSweep
  <2> QED  BY <2>5, <2>6, <2>7, <2>8 DEF IInv
<1>9. CASE ~ Taken(header)
  <2>1. /\ pc' = pc
        /\ best' = IF Tighter(header)
                   THEN [at |-> offset, diff |-> header.size - call.need] ELSE best
        /\ offset' = NextBlock(heap, offset)
    BY <1>9 DEF SearchStep
  <2>2. TypeOK'
    <3>1. Tighter(header) => header.size - call.need \in Nat
      BY <1>3, <1>4 DEF Tighter, Fits
    <3>2. best' \in [at : Offsets \cup {None}, diff : Nat]
      BY <1>3, <1>4, <2>1, <3>1
    <3> QED  BY <1>1, <1>3, <2>1, <3>2 DEF IInv, TypeOK
  <2>3. WalkOnHeaders' /\ CopyIsFresh' /\ SweptBehind'
    <3>1. WalkOnHeaders' /\ CopyIsFresh'
      BY <1>1, <1>2, <1>3, <1>6, <2>1 DEF WalkOnHeaders, CopyIsFresh, NoRun
    <3>2. Coalesced(heap)
      BY <1>2 DEF WellFormed
    <3>3. SweptBehind'
      BY <1>1, <1>6, <3>2 DEF SweptBehind, Coalesced, NextBlock
    <3> QED  BY <3>1, <3>3
  <2>4. CallIsRequest' /\ LocalsFresh' /\ SearchExact' /\ RunReachesSweep'
    BY <1>1, <1>6, <2>1 DEF IInv, CallIsRequest, LocalsFresh, SearchExact, RunReachesSweep
  <2>5. SearchedBehind'
    <3>1. ASSUME NEW o \in FreeBlocks(heap), o < offset'
          PROVE  o < offset \/ o = offset
      <4>1. o \in DOMAIN heap /\ o \in Nat /\ offset \in Nat
        BY <1>3, <1>5
      <4>2. offset < o => NextBlock(heap, offset) <= o
        BY <1>2, <1>3, <4>1 DEF Tiled
      <4> QED  BY <1>3, <2>1, <3>1, <4>1, <4>2
    <3>2. CASE Tighter(header)
      <4>1. /\ call.strategy = 1
            /\ offset \in FreeBlocks(heap)
            /\ header.size >= call.need /\ header.size # call.need
            /\ best.at = None \/ header.size - call.need < best.diff
        BY <1>3, <1>9, <3>2 DEF Tighter, Taken, Fits, FreeBlocks
      <4>2. best'.at = offset /\ best'.diff = header.size - call.need
        BY <2>1, <3>2
      <4>3. best'.at # None /\ best'.at < offset' /\ header.size > call.need
        BY <1>3, <1>4, <2>1, <4>1, <4>2 DEF None
      <4>4. ASSUME NEW o \in FreeBlocks(heap), o < offset', heap[o].size >= call.need
            PROVE  /\ heap[o].size # call.need
                   /\ header.size <= heap[o].size
                   /\ o < offset => header.size < heap[o].size
        <5>1. CASE o = offset
          BY <1>3, <4>1, <5>1
        <5>2. CASE o < offset
          <6>1. /\ heap[o].size # call.need
                /\ best.at # None
                /\ heap[best.at].size <= heap[o].size
                /\ best.at \in FreeBlocks(heap)
                /\ best.diff = heap[best.at].size - call.need
            BY <1>1, <1>7, <4>1, <4>4, <5>2 DEF SearchedBehind
          <6>2. header.size < heap[best.at].size
            BY <1>3, <1>4, <1>5, <4>1, <6>1
          <6> QED  BY <1>3, <1>5, <6>1, <6>2
        <5> QED  BY <3>1, <4>4, <5>1, <5>2
      <4>5. UNCHANGED <<heap, call, FreeBlocks(heap)>>
        BY <1>1, <1>6
      <4> HIDE DEF header
      <4> QED  BY <4>1, <4>2, <4>3, <4>4, <4>5 DEF SearchedBehind, header
    <3>3. CASE ~ Tighter(header)
      <4>1. best' = best
        BY <2>1, <3>3
      <4>2. best.at # None => best.at < offset'
        BY <1>1, <1>3, <1>5, <1>7, <2>1 DEF SearchedBehind
      <4>3. ASSUME NEW o \in FreeBlocks(heap), o < offset', heap[o].size >= call.need
            PROVE  /\ call.strategy # 0
                   /\ heap[o].size # call.need
                   /\ call.strategy = 1 =>
                        /\ best.at # None
                        /\ heap[best.at].size <= heap[o].size
                        /\ o < best.at => heap[best.at].size < heap[o].size
        <5>1. CASE o < offset
          BY <1>1, <1>7, <4>3, <5>1 DEF SearchedBehind
        <5>2. CASE o = offset
          <6>1. Fits(header)
            BY <4>3, <5>2 DEF Fits, FreeBlocks
          <6>2. call.strategy # 0 /\ header.size # call.need
            BY <1>9, <6>1 DEF Taken
          <6>3. ASSUME call.strategy = 1
                PROVE  /\ best.at # None
                       /\ best.at \in FreeBlocks(heap)
                       /\ best.at < offset
                       /\ heap[best.at].size <= header.size
            <7>1. best.at # None /\ ~ (header.size - call.need < best.diff)
              BY <3>3, <6>1, <6>3 DEF Tighter
            <7>2. /\ best.at \in FreeBlocks(heap) /\ best.at < offset
                  /\ best.diff = heap[best.at].size - call.need
              BY <1>1, <1>7, <7>1 DEF SearchedBehind
            <7>3. heap[best.at].size \in Nat
              BY <1>5, <7>2
            <7> QED  BY <1>3, <1>4, <7>1, <7>2, <7>3
          <6>4. call.strategy = 1 => ~ (o < best.at)
            BY <1>3, <1>5, <5>2, <6>3
          <6> QED  BY <5>2, <6>2, <6>3, <6>4
        <5> QED  BY <3>1, <4>3, <5>1, <5>2
      <4>4. UNCHANGED <<heap, call, FreeBlocks(heap)>>
        BY <1>1, <1>6
      <4> QED  BY <1>1, <1>7, <4>1, <4>2, <4>3, <4>4 DEF SearchedBehind
    <3> QED  BY <3>2, <3>3
  <2> QED  BY <2>2, <2>3, <2>4, <2>5 DEF IInv
<1> QED  BY <1>8, <1>9

\* The loop of find_free_block ends without an early return.
LEMMA SearchEndIInv ==
  ASSUME IInv, SearchEnd
  PROVE  IInv'
<1>1. /\ pc = "search" /\ pc' = "occupy" /\ offset >= DEVICE_RAM
      /\ UNCHANGED <<heap, call, offset, best, run, stats>>
  BY DEF SearchEnd
<1>2. TypedHeap(heap) /\ Tiled(heap) /\ run = NoRun /\ SearchedBehind
  BY <1>1, IInvHeap DEF IInv, LocalsFresh
<1>3. \A o \in FreeBlocks(heap) : o < offset
  <2>1. \A o \in FreeBlocks(heap) : o \in Nat /\ o < DEVICE_RAM
    BY <1>2, BlockBounds DEF FreeBlocks
  <2>2. offset \in Nat
    BY DEF IInv, TypeOK
  <2> QED  BY <1>1, <2>1, <2>2, HeapAssumption
<1>4. call.need \in Nat /\ best.at \in Offsets \cup {None}
  BY DEF IInv, TypeOK
<1>5. FindFreeBlock(heap, call.need, call.strategy) = best.at
  <2>1. best.at # None =>
          /\ call.strategy = 1 /\ best.at \in FreeBlocks(heap)
          /\ heap[best.at].size > call.need
    BY <1>1, <1>2 DEF SearchedBehind
  <2>2. \A o \in FreeBlocks(heap) : heap[o].size >= call.need =>
          /\ call.strategy # 0
          /\ heap[o].size # call.need
          /\ call.strategy = 1 => /\ best.at # None
                                  /\ heap[best.at].size <= heap[o].size
                                  /\ o < best.at => heap[best.at].size < heap[o].size
    BY <1>1, <1>2, <1>3 DEF SearchedBehind
  <2> DEFINE need == call.need
             strategy == call.strategy
             at == best.at
  <2>3. need \in Nat /\ at \in Offsets \cup {None}
    BY <1>4
  <2> HIDE DEF need, strategy, at
  <2>4. FindFreeBlock(heap, need, strategy) = at
    <3>1. at # None => strategy = 1 /\ at \in FreeBlocks(heap) /\ heap[at].size > need
      BY <2>1 DEF need, strategy, at
    <3>2. \A o \in FreeBlocks(heap) : heap[o].size >= need =>
            /\ strategy # 0
            /\ heap[o].size # need
            /\ strategy = 1 => /\ at # None
                               /\ heap[at].size <= heap[o].size
                               /\ o < at => heap[at].size < heap[o].size
      BY <2>2 DEF need, strategy, at
    <3> QED  BY <1>2, <2>3, <3>1, <3>2, ExhaustedIsFound
  <2> QED  BY <2>4 DEF need, strategy, at
<1>6. SearchExact'
  BY <1>1, <1>5 DEF SearchExact
<1>7. TypeOK' /\ WalkOnHeaders' /\ CopyIsFresh'
  BY <1>1 DEF IInv, TypeOK, WalkOnHeaders, CopyIsFresh, Phases, FreeBlocks, NextBlock
<1>8. SweptBehind'
  BY <1>1 DEF IInv, SweptBehind, FreeBlocks, NextBlock
<1>9. CallIsRequest' /\ LocalsFresh' /\ SearchedBehind' /\ RunReachesSweep'
  BY <1>1, <1>2 DEF IInv, CallIsRequest, LocalsFresh, SearchedBehind, RunReachesSweep
<1> QED  BY <1>6, <1>7, <1>8, <1>9 DEF IInv

\* mem_alloc returns, with a block or without.
LEMMA MemAllocEndIInv ==
  ASSUME IInv, MemAllocEnd
  PROVE  /\ IInv'
         /\ \/ heap' = heap
            \/ /\ FindFreeBlock(heap, call.need, call.strategy) # None
               /\ heap' = Occupy(heap, FindFreeBlock(heap, call.need, call.strategy),
                                 call.need, call.task_id)
<1>1. pc = "occupy" /\ WellFormed(heap) /\ Return
  BY IInvHeap DEF MemAllocEnd
<1> DEFINE o == FindFreeBlock(heap, call.need, call.strategy)
<1>2. best.at = o
  BY <1>1 DEF IInv, SearchExact
<1>3. CASE best.at = None
  <2>1. heap' = heap
    BY <1>3 DEF MemAllocEnd
  <2> QED  BY <1>1, <2>1, ReturnIInv
<1>4. CASE best.at # None
  <2>1. o \in FreeBlocks(heap) /\ heap[o].size >= call.need
    BY <1>1, <1>2, <1>4, FindFreeBlockFits DEF WellFormed
  <2>2. call.need \in Nat /\ call.need % ALIGNMENT = 0 /\ call.need >= MIN_ALLOC
    BY <1>1, NeedTyped DEF IInv, CallIsRequest
  <2>3. heap[o].size \in BlockSizes
    BY <1>1, <2>1, BlockBounds DEF WellFormed, FreeBlocks
  <2> HIDE DEF o
  <2>4. call.need \in BlockSizes /\ call.need <= heap[o].size
    BY <2>1, <2>2, <2>3, HeapAssumption DEF BlockSizes, MIN_ALLOC
  <2>5. call.task_id \in Int
    BY DEF IInv, TypeOK
  <2>6. heap' = Occupy(heap, o, call.need, call.task_id)
    BY <1>1, <1>2, <1>4, <2>1, <2>4, <2>5, SplitOccupies DEF MemAllocEnd
  <2>7. WellFormed(heap')
    BY <1>1, <2>1, <2>4, <2>5, <2>6, OccupyWellFormed
  <2> QED  BY <1>1, <1>2, <1>4, <2>6, <2>7, ReturnIInv DEF o
<1> QED  BY <1>3, <1>4

\* The sweep moves on by one block and may merge it; what is left to merge stays
\* the same.
LEMMA SweepStepIInv ==
  ASSUME IInv, SweepStep
  PROVE  IInv' /\ SweepAndMerge(heap') = SweepAndMerge(heap)
<1> DEFINE header == heap[offset]
<1>1. /\ pc = "sweep" /\ DEVICE_RAM - HEADER_SIZE > offset
      /\ UNCHANGED <<pc, call, best, stats>>
      /\ offset' = NextBlock(heap, offset)
      /\ run' = RunAfter(header)
      /\ heap' = IF header.status = STATUS_FREE /\ run.at # None THEN Merge(header) ELSE heap
  BY DEF SweepStep, NextBlock
<1>2. TypedHeap(heap) /\ Tiled(heap)
  BY IInvHeap
<1>3. /\ offset \in DOMAIN heap /\ offset \in Offsets /\ offset \in Nat
      /\ NextBlock(heap, offset) \in Nat
      /\ offset < NextBlock(heap, offset)
      /\ NextBlock(heap, offset) \in DOMAIN heap \cup {DEVICE_RAM}
      /\ header.size \in Nat
      /\ header.status \in {STATUS_FREE, STATUS_USED}
  <2>1. offset \in Nat
    BY DEF IInv, TypeOK
  <2>2. offset \in DOMAIN heap
    BY <1>1, <2>1, HeapAssumption DEF IInv, WalkOnHeaders, HEADER_SIZE
  <2> QED  BY <1>2, <2>2, BlockBounds
           DEF TypedHeap, Tiled, Headers, BlockSizes, MIN_ALLOC
<1>4. \A o \in FreeBlocks(heap) : o \in Nat /\ o \in DOMAIN heap /\ o # None
  <2>1. \A o \in FreeBlocks(heap) : o \in Nat /\ o \in DOMAIN heap
    BY <1>2, BlockBounds DEF FreeBlocks
  <2> QED  BY <2>1 DEF None
\* Only blocks behind the sweep have been merged with what follows them.
<1>5. \A o, p \in FreeBlocks(heap) : NextBlock(heap, o) = p => p = offset \/ offset' <= p
  <2> SUFFICES ASSUME NEW o \in FreeBlocks(heap), NEW p \in FreeBlocks(heap),
                      NextBlock(heap, o) = p
               PROVE  p = offset \/ offset' <= p
    OBVIOUS
  <2>1. p >= offset
    BY DEF IInv, SweptBehind
  <2>2. offset < p => NextBlock(heap, offset) <= p
    BY <1>2, <1>3, <1>4 DEF Tiled
  <2> QED  BY <1>1, <1>3, <1>4, <2>1, <2>2
<1>6. SearchExact' /\ CallIsRequest' /\ LocalsFresh' /\ SearchedBehind'
  BY <1>1 DEF IInv, SearchExact, CallIsRequest, LocalsFresh, SearchedBehind
<1>7. CASE header.status = STATUS_FREE /\ run.at # None
  <2> DEFINE o == run.at
  <2>1. /\ o \in FreeBlocks(heap) /\ offset \in FreeBlocks(heap)
        /\ heap[o].size = run.size
        /\ NextBlock(heap, o) = offset
    BY <1>3, <1>7 DEF IInv, CopyIsFresh, FreeBlocks
  <2>2. heap' = Joined(heap, o, offset)
    BY <1>1, <1>7, <2>1 DEF Merge, Joined, Grown
  <2>3. run' = [at |-> o, size |-> heap[o].size + header.size + HEADER_SIZE]
    BY <1>1, <1>7, <2>1 DEF RunAfter, Grown
  <2> HIDE DEF o, header
  <2>4. TypedHeap(heap') /\ Tiled(heap')
    BY <1>2, <2>1, <2>2, JoinedTiled
  <2>5. /\ DOMAIN heap' = DOMAIN heap \ {offset}
        /\ o # offset
        /\ \A q \in DOMAIN heap' \ {o} : NextBlock(heap', q) = NextBlock(heap, q)
        /\ heap'[o] = Header(heap[o].size + heap[offset].size + HEADER_SIZE, STATUS_FREE, 0)
        /\ NextBlock(heap', o) = NextBlock(heap, offset)
        /\ FreeBlocks(heap') = FreeBlocks(heap) \ {offset}
    BY <1>2, <2>1, <2>2, JoinedShape
  <2>6. TypeOK'
    <3>1. o \in Offsets /\ heap[o].size \in Nat
      BY <1>2, <2>1, BlockBounds DEF TypedHeap, FreeBlocks, BlockSizes, MIN_ALLOC
    <3>2. heap[o].size + header.size + HEADER_SIZE \in Nat
      BY <1>3, <3>1 DEF HEADER_SIZE
    <3>3. run' \in [at : Offsets \cup {None}, size : Nat]
      BY <2>3, <3>1, <3>2
    <3> QED  BY <1>1, <1>3, <2>4, <3>3 DEF IInv, TypeOK
  <2>7. WalkOnHeaders'
    BY <1>1, <1>3, <2>4, <2>5 DEF WalkOnHeaders
  <2>8. CopyIsFresh'
    <3>1. o \in FreeBlocks(heap')
      BY <2>1, <2>5
    <3>2. run'.at = o /\ run'.size = heap[o].size + header.size + HEADER_SIZE
      BY <2>3
    <3>3. heap'[o].size = run'.size
      BY <2>5, <3>2 DEF Header, header
    <3> QED  BY <1>1, <2>5, <3>1, <3>2, <3>3 DEF CopyIsFresh
  <2>9. SweptBehind'
    <3> SUFFICES ASSUME NEW q \in FreeBlocks(heap'), NEW r \in FreeBlocks(heap'),
                        NextBlock(heap', q) = r
                 PROVE  r >= offset'
      BY <1>1 DEF SweptBehind
    <3>1. q \in FreeBlocks(heap) /\ r \in FreeBlocks(heap) /\ r # offset /\ q \in DOMAIN heap'
      BY <2>5 DEF FreeBlocks
    <3>2. CASE q = o
      BY <1>1, <1>3, <2>5, <3>2
    <3>3. CASE q # o
      <4>1. NextBlock(heap, q) = r
        BY <2>5, <3>1, <3>3
      <4>2. offset' <= r
        BY <1>5, <3>1, <4>1
      <4> QED  BY <1>1, <1>3, <1>4, <3>1, <4>2
    <3> QED  BY <3>2, <3>3
  <2>10. RunReachesSweep'
    <3> SUFFICES ASSUME NEW q \in FreeBlocks(heap'), NextBlock(heap', q) = offset'
                 PROVE  q = run'.at
      BY DEF RunReachesSweep
    <3>1. q \in DOMAIN heap' /\ o \in DOMAIN heap' /\ NextBlock(heap', o) = offset'
      BY <1>1, <2>1, <2>5 DEF FreeBlocks
    <3>2. q = o
      BY <2>4, <3>1, NextBlockInjective
    <3> QED  BY <2>3, <3>2
  <2>11. SweepAndMerge(heap') = SweepAndMerge(heap)
    BY <1>2, <2>1, <2>2, JoinedSweepsAlike
  <2> QED  BY <1>6, <2>6, <2>7, <2>8, <2>9, <2>10, <2>11 DEF IInv
<1>8. CASE ~ (header.status = STATUS_FREE /\ run.at # None)
  <2>1. heap' = heap /\ FreeBlocks(heap') = FreeBlocks(heap)
    BY <1>1, <1>8
  <2>2. run' = IF header.status = STATUS_FREE
               THEN [at |-> offset, size |-> header.size] ELSE NoRun
    BY <1>1, <1>8 DEF RunAfter
  <2>3. TypeOK'
    <3>1. run' \in [at : Offsets \cup {None}, size : Nat]
      BY <1>3, <2>2 DEF NoRun
    <3> QED  BY <1>1, <1>3, <2>1, <3>1 DEF IInv, TypeOK
  <2>4. WalkOnHeaders'
    BY <1>1, <1>2, <1>3, <2>1 DEF WalkOnHeaders
  <2>5. CopyIsFresh'
    BY <1>1, <1>3, <2>1, <2>2 DEF CopyIsFresh, NoRun, FreeBlocks
  <2>6. SweptBehind'
    <3> SUFFICES ASSUME NEW q \in FreeBlocks(heap), NEW r \in FreeBlocks(heap),
                        NextBlock(heap, q) = r
                 PROVE  r >= offset'
      BY <1>1, <2>1 DEF SweptBehind
    <3>1. r # offset
      <4>1. SUFFICES ASSUME r = offset
                     PROVE  FALSE
        OBVIOUS
      <4>2. q = run.at
        BY <1>1, <4>1 DEF IInv, RunReachesSweep
      <4>3. header.status = STATUS_FREE
        BY <4>1 DEF FreeBlocks
      <4> QED  BY <1>4, <1>8, <4>2, <4>3
    <3> QED  BY <1>1, <1>3, <1>4, <1>5, <3>1
  <2>7. RunReachesSweep'
    <3> SUFFICES ASSUME NEW q \in FreeBlocks(heap), NextBlock(heap, q) = offset'
                 PROVE  q = run'.at
      BY <2>1 DEF RunReachesSweep
    <3>1. q = offset
      BY <1>1, <1>2, <1>3, <1>4, NextBlockInjective
    <3>2. header.status = STATUS_FREE
      BY <3>1 DEF FreeBlocks
    <3> QED  BY <2>2, <3>1, <3>2
  <2> QED  BY <1>6, <2>1, <2>3, <2>4, <2>5, <2>6, <2>7 DEF IInv
<1> QED  BY <1>7, <1>8

\* The sweep has come to the end: nothing is left to merge.
LEMMA SweepEndIInv ==
  ASSUME IInv, SweepEnd
  PROVE  IInv' /\ heap' = heap /\ SweepAndMerge(heap) = heap
<1>1. pc = "sweep" /\ DEVICE_RAM - HEADER_SIZE <= offset /\ Return /\ heap' = heap
  BY DEF SweepEnd
<1>2. TypedHeap(heap) /\ Tiled(heap)
  BY IInvHeap
<1>3. \A p \in DOMAIN heap : p \in Nat /\ p < DEVICE_RAM - HEADER_SIZE
  BY HeapAssumption, <1>2 DEF TypedHeap, Offsets, HEADER_SIZE, MIN_ALLOC
<1>4. Coalesced(heap)
  <2> SUFFICES ASSUME NEW o \in FreeBlocks(heap), NEW p \in FreeBlocks(heap),
                      NextBlock(heap, o) = p
               PROVE  FALSE
    BY DEF Coalesced
  <2>1. p >= offset /\ offset \in Nat
    BY DEF IInv, SweptBehind, TypeOK
  <2>2. p \in DOMAIN heap
    BY DEF FreeBlocks
  <2> QED  BY <1>1, <1>3, <2>1, <2>2, HeapAssumption DEF HEADER_SIZE
<1>5. WellFormed(heap')
  BY <1>1, <1>2, <1>4 DEF WellFormed
<1> QED  BY <1>1, <1>2, <1>4, <1>5, ReturnIInv, SweepOfCoalesced

\* mem_stats reads and changes nothing.
LEMMA StatsIInv ==
  ASSUME IInv, MemStatsCall \/ StatsStep \/ StatsEnd
  PROVE  IInv' /\ heap' = heap /\ pc # "sweep" /\ pc' # "sweep"
<1>1. heap' = heap /\ pc # "sweep" /\ pc' # "sweep"
  BY DEF MemStatsCall, StatsStep, StatsEnd, Return
<1>2. WellFormed(heap) /\ run = NoRun /\ best = NoBest
  BY IInvHeap DEF IInv, LocalsFresh, MemStatsCall, StatsStep, StatsEnd
<1>3. CASE StatsEnd
  BY <1>1, <1>2, <1>3, ReturnIInv DEF StatsEnd
<1>4. CASE MemStatsCall \/ StatsStep
  <2>1. pc' = "stats" /\ UNCHANGED <<heap, call, best, run>>
    BY <1>4 DEF MemStatsCall, StatsStep
  <2>2. /\ offset' \in DOMAIN heap \cup {DEVICE_RAM} /\ offset' \in Nat
        /\ stats' \in [total_free_bytes : Nat, largest_free_block : Nat, num_free_fragments : Nat]
    <3>1. CASE MemStatsCall
      BY <3>1 DEF MemStatsCall, IInv, WalkOnHeaders, TypeOK
    <3>2. CASE StatsStep
      <4>1. offset \in Nat /\ DEVICE_RAM - HEADER_SIZE > offset
        BY <3>2 DEF StatsStep, IInv, TypeOK
      <4>2. offset \in DOMAIN heap
        BY <4>1, HeapAssumption DEF IInv, WalkOnHeaders, HEADER_SIZE
      <4>3. /\ NextBlock(heap, offset) \in DOMAIN heap \cup {DEVICE_RAM}
            /\ NextBlock(heap, offset) \in Nat
            /\ heap[offset].size \in Nat
        BY <1>2, <4>2, BlockBounds DEF WellFormed, Tiled, BlockSizes, MIN_ALLOC
      <4>4. stats \in [total_free_bytes : Nat, largest_free_block : Nat, num_free_fragments : Nat]
        BY DEF IInv, TypeOK
      <4>5. Counted(heap[offset]) \in
              [total_free_bytes : Nat, largest_free_block : Nat, num_free_fragments : Nat]
        BY <4>3, <4>4 DEF Counted
      <4> QED  BY <3>2, <4>3, <4>5 DEF StatsStep
    <3> QED  BY <1>4, <3>1, <3>2
  <2>3. TypeOK'
    BY <2>1, <2>2 DEF IInv, TypeOK, Phases
  <2>4. WalkOnHeaders' /\ CopyIsFresh'
    BY <1>2, <2>1, <2>2 DEF WalkOnHeaders, CopyIsFresh, WellFormed, NoRun
  <2>5. SweptBehind'
    BY <1>2, <2>1 DEF SweptBehind, WellFormed, Coalesced
  <2>6. SearchExact' /\ CallIsRequest' /\ LocalsFresh' /\ SearchedBehind' /\ RunReachesSweep'
    BY <1>2, <2>1 DEF SearchExact, CallIsRequest, LocalsFresh, SearchedBehind, RunReachesSweep
  <2> QED  BY <1>1, <2>3, <2>4, <2>5, <2>6 DEF IInv
<1> QED  BY <1>3, <1>4

\* mem_init starts afresh.
LEMMA MemInitIInv ==
  ASSUME IInv, MemInit
  PROVE  IInv'
<1>1. /\ pc = "idle" /\ heap' = InitialHeap /\ WellFormed(heap')
      /\ UNCHANGED <<pc, call, offset, best, run, stats>>
      /\ offset = 0 /\ run = NoRun /\ best = NoBest
  BY InitialHeapWellFormed DEF MemInit, IInv, LocalsFresh
<1>2. TypeOK'
  BY <1>1 DEF IInv, TypeOK, WellFormed
<1>3. WalkOnHeaders' /\ CopyIsFresh' /\ SweptBehind'
  BY <1>1 DEF WalkOnHeaders, CopyIsFresh, SweptBehind, WellFormed, Tiled, Coalesced, NoRun
<1>4. SearchExact' /\ CallIsRequest' /\ LocalsFresh' /\ SearchedBehind' /\ RunReachesSweep'
  BY <1>1 DEF SearchExact, CallIsRequest, LocalsFresh, SearchedBehind, RunReachesSweep
<1> QED  BY <1>2, <1>3, <1>4 DEF IInv

LEMMA StutterIInv ==
  ASSUME IInv, UNCHANGED vars
  PROVE  IInv'
BY DEF vars, IInv, TypeOK, WalkOnHeaders, CopyIsFresh, SweptBehind, SearchExact, CallIsRequest,
       LocalsFresh, SearchedBehind, RunReachesSweep, FreeBlocks, NextBlock

LEMMA NextIInv == IInv /\ [Next]_vars => IInv'
<1> SUFFICES ASSUME IInv, [Next]_vars
             PROVE  IInv'
  OBVIOUS
<1> QED  BY MemAllocIInv, SearchStepIInv, SearchEndIInv, MemAllocEndIInv, MemFreeIInv,
            SweepStepIInv, SweepEndIInv, StatsIInv, MemInitIInv, StutterIInv
         DEF Next, Step

\* The invariant holds of every state of every behaviour.
THEOREM Invariance == Spec => []IInv
BY InitIInv, NextIInv, PTL DEF Spec

\* Every variable of the walks has its type.
THEOREM TypeCorrect == Spec => []TypeOK
<1>1. IInv => TypeOK
  BY DEF IInv
<1> QED  BY <1>1, Invariance, PTL

\* No loop of level_2.c ever reads a header where there is none, not even between
\* two merges of a sweep.
THEOREM NeverOffTheHeaders == Spec => []WalkOnHeaders
<1>1. IInv => WalkOnHeaders
  BY DEF IInv
<1> QED  BY <1>1, Invariance, PTL

\* The header that sweep_and_merge copied before the loop is never out of date.
THEOREM CopyNeverStale == Spec => []CopyIsFresh
<1>1. IInv => CopyIsFresh
  BY DEF IInv
<1> QED  BY <1>1, Invariance, PTL

\* One pass of sweep_and_merge merges everything there is to merge.
THEOREM OnePassSweeps == Spec => []SweptBehind
<1>1. IInv => SweptBehind
  BY DEF IInv
<1> QED  BY <1>1, Invariance, PTL

\* The loop of find_free_block finds the block its strategy promises.
THEOREM SearchCorrect == Spec => []SearchExact
<1>1. IInv => SearchExact
  BY DEF IInv
<1> QED  BY <1>1, Invariance, PTL

-----------------------------------------------------------------------------
(***************************************************************************)
(* The atomic calls.                                                       *)
(***************************************************************************)

\* CoreAllocator's copy of the operators of Heap is Heap: what instantiating the
\* module leaves to be said about its names.
LEMMA AtomicHeaders ==
  /\ \A size, status, t : Atomic!Header(size, status, t) = Header(size, status, t)
  /\ \A h : Atomic!FreeBlocks(h) = FreeBlocks(h)
  /\ \A h, o : Atomic!NextBlock(h, o) = NextBlock(h, o)
  /\ Atomic!None = None
  /\ Atomic!InitialHeap = InitialHeap
BY DEF Atomic!Header, Header, Atomic!TASK_ID_RANGE, TASK_ID_RANGE, Atomic!FreeBlocks, FreeBlocks,
       Atomic!STATUS_FREE, STATUS_FREE, Atomic!NextBlock, NextBlock,
       Atomic!HEADER_SIZE, HEADER_SIZE, Atomic!None, None,
       Atomic!InitialHeap, InitialHeap

LEMMA AtomicSearch ==
  ASSUME NEW h, NEW need, NEW strategy
  PROVE  Atomic!FindFreeBlock(h, need, strategy) = FindFreeBlock(h, need, strategy)
BY DEF Atomic!FindFreeBlock, FindFreeBlock, Atomic!FreeBlocks, FreeBlocks,
       Atomic!STATUS_FREE, STATUS_FREE, Atomic!None, None, Atomic!Min, Min

LEMMA AtomicOccupy ==
  ASSUME NEW h, NEW o, NEW need, NEW t
  PROVE  Atomic!Occupy(h, o, need, t) = Occupy(h, o, need, t)
<1>1. Atomic!GivenSize(h[o].size, need) = GivenSize(h[o].size, need)
  BY DEF Atomic!GivenSize, GivenSize, Atomic!WillSplit, WillSplit,
         Atomic!HEADER_SIZE, HEADER_SIZE, Atomic!MIN_ALLOC, MIN_ALLOC
<1> QED  BY <1>1, AtomicHeaders
         DEF Atomic!Occupy, Occupy, Atomic!HEADER_SIZE, HEADER_SIZE,
             Atomic!STATUS_FREE, STATUS_FREE, Atomic!STATUS_USED, STATUS_USED

LEMMA AtomicRelease ==
  ASSUME NEW h, NEW o
  PROVE  Atomic!Release(h, o) = Release(h, o)
<1>1. \A g : Atomic!Absorbed(g) = Absorbed(g)
  BY AtomicHeaders DEF Atomic!Absorbed, Absorbed
<1>2. \A g, p : Atomic!RunEnd(g, p) = RunEnd(g, p)
  BY <1>1 DEF Atomic!RunEnd, RunEnd, Atomic!Min, Min
<1>3. \A g : Atomic!SweepAndMerge(g) = SweepAndMerge(g)
  BY <1>1, <1>2, AtomicHeaders
  DEF Atomic!SweepAndMerge, SweepAndMerge, Atomic!HEADER_SIZE, HEADER_SIZE,
      Atomic!STATUS_FREE, STATUS_FREE
<1> QED  BY <1>3, AtomicHeaders
         DEF Atomic!Release, Release, Atomic!STATUS_FREE, STATUS_FREE

\* mem_alloc takes effect with its last step, which writes the headers.
LEMMA AllocIsAtomic ==
  ASSUME IInv, MemAllocEnd
  PROVE  [Atomic!Next]_Settled
<1> DEFINE o == FindFreeBlock(heap, call.need, call.strategy)
<1>1. pc = "occupy" /\ pc' = "idle"
  BY DEF MemAllocEnd, Return
<1>2. Settled = heap /\ Settled' = heap'
  BY <1>1 DEF Settled
<1>3. CASE heap' = heap
  BY <1>2, <1>3
<1>4. CASE o # None /\ heap' = Occupy(heap, o, call.need, call.task_id)
  <2>1. PICK n \in Requests : n >= MIN_ALLOC /\ n <= MAX_ALLOC /\ call.need = AlignBytes(n)
    BY <1>1 DEF IInv, CallIsRequest
  <2>2. call.task_id \in TaskIds /\ call.strategy \in Strategies
    BY <1>1 DEF IInv, CallIsRequest
  <2>3. Atomic!ValidRequest(n) /\ Atomic!AlignBytes(n) = call.need
    BY <2>1
    DEF Atomic!ValidRequest, Atomic!MIN_ALLOC, MIN_ALLOC,
        Atomic!AlignBytes, AlignBytes, Atomic!ALIGNMENT, ALIGNMENT
  <2>4. Atomic!FindFreeBlock(heap, call.need, call.strategy) = o
    BY AtomicSearch
  <2>5. Atomic!Occupy(heap, o, call.need, call.task_id) = heap'
    BY <1>4, AtomicOccupy
  <2> HIDE DEF o
  <2>6. Atomic!MemAlloc(n, call.task_id, call.strategy)
    BY <1>2, <1>4, <2>3, <2>4, <2>5, AtomicHeaders DEF Atomic!MemAlloc
  <2> QED  BY <2>1, <2>2, <2>6 DEF Atomic!Next
<1> QED  BY <1>3, <1>4, MemAllocEndIInv

\* mem_free takes effect with its first step: the sweep only settles what that
\* step has already decided.
LEMMA FreeIsAtomic ==
  ASSUME IInv, NEW o \in DOMAIN heap, MemFree(o + HEADER_SIZE)
  PROVE  [Atomic!Next]_Settled
<1>1. /\ pc = "idle" /\ pc' = "sweep"
      /\ Freeable(heap, o + HEADER_SIZE)
  BY DEF MemFree
<1>2. o \in Int
  BY IInvHeap DEF TypedHeap, Offsets
<1>3. (o + HEADER_SIZE) - HEADER_SIZE = o
  BY <1>2 DEF HEADER_SIZE
<1>4. Settled = heap /\ Settled' = SweepAndMerge(heap')
  BY <1>1 DEF Settled
<1>5. Settled' = Release(heap, o)
  BY <1>4, MemFreeIInv DEF Release
<1>6. Atomic!Freeable(Settled, o + HEADER_SIZE)
  BY <1>1, <1>4
  DEF Atomic!Freeable, Freeable, Atomic!UsedBlocks, UsedBlocks,
      Atomic!STATUS_USED, STATUS_USED, Atomic!HEADER_SIZE, HEADER_SIZE
<1>7. Atomic!HEADER_SIZE = HEADER_SIZE
  BY DEF Atomic!HEADER_SIZE, HEADER_SIZE
<1>8. Settled' = Atomic!Release(Settled, (o + HEADER_SIZE) - Atomic!HEADER_SIZE)
  BY <1>3, <1>4, <1>5, <1>7, AtomicRelease
<1>9. Atomic!MemFree(o + Atomic!HEADER_SIZE)
  BY <1>6, <1>7, <1>8 DEF Atomic!MemFree
<1> QED  BY <1>4, <1>9 DEF Atomic!Next

\* Every step of a loop is a step of CoreAllocator or changes nothing it shows.
LEMMA StepIsAtomicStep == IInv /\ [Next]_vars => [Atomic!Next]_Settled
<1> SUFFICES ASSUME IInv, [Next]_vars
             PROVE  [Atomic!Next]_Settled
  OBVIOUS
<1>1. ASSUME NEW n \in Requests, NEW t \in TaskIds, NEW s \in Strategies, MemAlloc(n, t, s)
      PROVE  Settled' = Settled
  BY <1>1 DEF MemAlloc, Settled
<1>2. CASE SearchStep
  <2>1. pc = "search" /\ pc' \in {"search", "occupy"} /\ heap' = heap
    BY <1>2 DEF SearchStep
  <2> QED  BY <2>1 DEF Settled
<1>3. CASE SearchEnd
  BY <1>3 DEF SearchEnd, Settled
<1>4. CASE SweepStep
  <2>1. pc = "sweep" /\ pc' = "sweep"
    BY <1>4 DEF SweepStep
  <2> QED  BY <1>4, <2>1, SweepStepIInv DEF Settled
<1>5. CASE SweepEnd
  <2>1. pc = "sweep" /\ pc' = "idle"
    BY <1>5 DEF SweepEnd, Return
  <2> QED  BY <1>5, <2>1, SweepEndIInv DEF Settled
<1>6. CASE MemStatsCall \/ StatsStep \/ StatsEnd
  BY <1>6, StatsIInv DEF Settled
<1>7. CASE MemInit
  <2>1. Settled' = InitialHeap
    BY <1>7 DEF MemInit, Settled
  <2> QED  BY <2>1, AtomicHeaders DEF Atomic!Next, Atomic!MemInit
<1>8. CASE UNCHANGED vars
  BY <1>8 DEF vars, Settled
<1> QED  BY <1>1, <1>2, <1>3, <1>4, <1>5, <1>6, <1>7, <1>8, AllocIsAtomic, FreeIsAtomic
         DEF Next, Step

\* The loops of level_2.c, run header by header over a heap they change under their
\* own feet, are the atomic calls of CoreAllocator.
THEOREM AtomicImplemented == Spec => ImplementsCore
<1>1. Init => Atomic!Init
  BY AtomicHeaders DEF Init, Atomic!Init, Settled
<1> QED  BY <1>1, StepIsAtomicStep, Invariance, PTL DEF Spec, ImplementsCore, Atomic!Spec

-----------------------------------------------------------------------------
(***************************************************************************)
(* What mem_stats adds up.                                                 *)
(***************************************************************************)

\* The FREE blocks behind the loop of mem_stats.
CountedBlocks == {o \in FreeBlocks(heap) : o < offset}

\* What the loop has counted so far, in a call of mem_stats and outside one.  With
\* the number of blocks, the bytes of the blocks and their headers give those of the
\* blocks alone.
StatsInv ==
  /\ pc # "stats" => stats = NoStats
  /\ pc = "stats" =>
       /\ stats.num_free_fragments = Cardinality(CountedBlocks)
       /\ stats.total_free_bytes + HEADER_SIZE * stats.num_free_fragments
            = BlockBytes(heap, CountedBlocks)
       /\ \A o \in CountedBlocks : heap[o].size <= stats.largest_free_block
       /\ \/ stats.largest_free_block = 0
          \/ \E o \in CountedBlocks : heap[o].size = stats.largest_free_block

\* The loop of mem_stats counts the block it stands on if it is FREE.
LEMMA StatsStepCounts ==
  ASSUME IInv, StatsInv, StatsStep
  PROVE  StatsInv'
<1> DEFINE header == heap[offset]
           S == CountedBlocks
           T == {o \in FreeBlocks(heap) : o < NextBlock(heap, offset)}
<1>1. /\ pc = "stats" /\ pc' = "stats"
      /\ heap' = heap
      /\ offset' = NextBlock(heap, offset)
      /\ stats' = Counted(header)
  BY DEF StatsStep
<1>2. TypedHeap(heap) /\ Tiled(heap) /\ offset \in DOMAIN heap
  <2>1. offset \in Nat /\ DEVICE_RAM - HEADER_SIZE > offset
    BY DEF StatsStep, IInv, TypeOK
  <2> QED  BY <2>1, IInvHeap, HeapAssumption DEF IInv, WalkOnHeaders, HEADER_SIZE
<1>3. stats \in [total_free_bytes : Nat, largest_free_block : Nat, num_free_fragments : Nat]
  BY DEF IInv, TypeOK
<1>4. /\ stats.num_free_fragments = Cardinality(S)
      /\ stats.total_free_bytes + HEADER_SIZE * stats.num_free_fragments = BlockBytes(heap, S)
      /\ \A o \in S : heap[o].size <= stats.largest_free_block
      /\ stats.largest_free_block = 0 \/ \E o \in S : heap[o].size = stats.largest_free_block
  BY <1>1 DEF StatsInv
<1>5. CountedBlocks' = T
  BY <1>1 DEF CountedBlocks, FreeBlocks
<1>6. header.size \in Nat /\ \A o \in DOMAIN heap : heap[o].size \in Nat
  BY <1>2, BlocksFinite
<1>7. \A o \in DOMAIN heap : o < NextBlock(heap, offset) <=> o < offset \/ o = offset
  <2> SUFFICES ASSUME NEW o \in DOMAIN heap
               PROVE  o < NextBlock(heap, offset) <=> o < offset \/ o = offset
    OBVIOUS
  <2>1. /\ o \in Nat /\ offset \in Nat /\ NextBlock(heap, offset) \in Nat
        /\ offset < NextBlock(heap, offset)
    BY <1>2, BlockBounds
  <2>2. offset < o => NextBlock(heap, offset) <= o
    BY <1>2 DEF Tiled
  <2> QED  BY <2>1, <2>2
<1>8. CASE header.status # STATUS_FREE
  <2>1. T = S
    BY <1>7, <1>8 DEF CountedBlocks, FreeBlocks
  <2>2. stats' = stats
    BY <1>1, <1>8 DEF Counted
  <2> QED  BY <1>1, <1>4, <1>5, <2>1, <2>2 DEF StatsInv
<1>9. CASE header.status = STATUS_FREE
  <2>1. /\ T \in SUBSET DOMAIN heap
        /\ T = S \cup {offset} /\ T \ {offset} = S /\ offset \in T /\ offset \notin S
    <3>1. ~ (offset < offset)
      BY <1>2, BlockBounds
    <3> QED  BY <1>2, <1>7, <1>9, <3>1 DEF CountedBlocks, FreeBlocks
  <2>2. Cardinality(T) = Cardinality(S) + 1
    <3>1. IsFiniteSet(T)
      BY <1>2, <2>1, BlocksFinite
    <3>2. IsFiniteSet(S)
      BY <2>1, <3>1, FS_Subset
    <3> QED  BY <2>1, <3>2, FS_AddElement
  <2>3. BlockBytes(heap, T) = (header.size + HEADER_SIZE) + BlockBytes(heap, S)
    BY <1>2, <2>1, BytesOfOne
  <2> HIDE DEF header, S, T
  <2>4. /\ stats'.total_free_bytes = stats.total_free_bytes + header.size
        /\ stats'.largest_free_block = IF stats.largest_free_block < header.size
                                       THEN header.size ELSE stats.largest_free_block
        /\ stats'.num_free_fragments = stats.num_free_fragments + 1
    BY <1>1, <1>9 DEF Counted
  <2>5. /\ stats.total_free_bytes \in Nat /\ stats.num_free_fragments \in Nat
        /\ stats.largest_free_block \in Nat
    BY <1>3
  <2>6. stats'.num_free_fragments = Cardinality(T)
    BY <1>4, <2>2, <2>4
  <2>7. stats'.total_free_bytes + HEADER_SIZE * stats'.num_free_fragments = BlockBytes(heap, T)
    <3>1. stats.total_free_bytes + HEADER_SIZE * stats.num_free_fragments \in Int
      BY <2>5 DEF HEADER_SIZE
    <3> QED  BY <1>4, <1>6, <2>3, <2>4, <2>5, <3>1 DEF HEADER_SIZE
  <2>8. \A o \in T : heap[o].size <= stats'.largest_free_block
    <3> SUFFICES ASSUME NEW o \in T
                 PROVE  heap[o].size <= stats'.largest_free_block
      OBVIOUS
    <3>1. CASE o = offset
      BY <1>6, <2>4, <2>5, <3>1 DEF header
    <3>2. CASE o \in S
      <4>1. heap[o].size \in Nat /\ heap[o].size <= stats.largest_free_block
        BY <1>4, <1>6, <2>1, <3>2
      <4> QED  BY <1>6, <2>4, <2>5, <4>1
    <3> QED  BY <2>1, <3>1, <3>2
  <2>9. \E o \in T : heap[o].size = stats'.largest_free_block
    <3>1. CASE stats.largest_free_block < header.size
      BY <2>1, <2>4, <3>1 DEF header
    <3>2. CASE ~ (stats.largest_free_block < header.size)
      <4>1. stats'.largest_free_block = stats.largest_free_block
        BY <2>4, <3>2
      <4>2. CASE stats.largest_free_block = 0
        <5>1. heap[offset].size = stats'.largest_free_block
          BY <1>6, <2>5, <3>2, <4>1, <4>2 DEF header
        <5> QED  BY <2>1, <5>1
      <4>3. CASE \E o \in S : heap[o].size = stats.largest_free_block
        BY <2>1, <4>1, <4>3
      <4> QED  BY <1>4, <4>2, <4>3
    <3> QED  BY <3>1, <3>2
  <2> QED  BY <1>1, <1>5, <2>6, <2>7, <2>8, <2>9 DEF StatsInv
<1> QED  BY <1>8, <1>9

LEMMA NextStats == IInv /\ StatsInv /\ [Next]_vars => StatsInv'
<1> SUFFICES ASSUME IInv, StatsInv, [Next]_vars
             PROVE  StatsInv'
  OBVIOUS
<1>1. CASE StatsStep
  BY <1>1, StatsStepCounts
<1>2. CASE MemStatsCall
  <2>1. /\ pc' = "stats" /\ heap' = heap /\ offset' = offset /\ stats' = NoStats /\ offset = 0
    BY <1>2 DEF MemStatsCall, StatsInv, IInv, LocalsFresh
  <2>2. CountedBlocks' = {}
    <3>1. \A o \in FreeBlocks(heap) : ~ (o < 0)
      BY IInvHeap, BlockBounds DEF FreeBlocks
    <3> QED  BY <2>1, <3>1 DEF CountedBlocks, FreeBlocks
  <2>3. /\ NoStats.num_free_fragments = 0 /\ NoStats.total_free_bytes = 0
        /\ NoStats.largest_free_block = 0
    BY DEF NoStats
  <2>4. Cardinality({}) = 0 /\ BlockBytes(heap, {}) = 0 /\ 0 + HEADER_SIZE * 0 = 0
    BY FS_EmptySet, BytesOfNone DEF HEADER_SIZE
  <2> QED  BY <2>1, <2>2, <2>3, <2>4 DEF StatsInv
<1>3. CASE Return /\ pc' = "idle"
  BY <1>3 DEF Return, StatsInv
<1>4. CASE pc # "stats" /\ pc' # "stats" /\ stats' = stats
  BY <1>4 DEF StatsInv
<1>5. CASE UNCHANGED vars
  BY <1>5 DEF vars, StatsInv, CountedBlocks, FreeBlocks
<1> QED
  BY <1>1, <1>2, <1>3, <1>4, <1>5
  DEF Next, Step, MemAlloc, MemFree, MemInit, SearchStep, SearchEnd, MemAllocEnd, SweepStep,
      SweepEnd, StatsEnd, Return

\* The three counters that the loop of mem_stats carries are, when it ends, those of
\* all the FREE blocks, whatever the heap it walked.
THEOREM StatsCorrect == Spec => []StatsExact
<1>1. Init => StatsInv
  BY DEF Init, StatsInv
<1>2. IInv /\ StatsInv => StatsExact
  <2> SUFFICES ASSUME IInv, StatsInv, pc = "stats", offset >= DEVICE_RAM - HEADER_SIZE
               PROVE  stats = MemStats(heap)
    BY DEF StatsExact
  <2> DEFINE S == FreeBlocks(heap)
             m == MemStats(heap)
             sizes == {heap[o].size : o \in S}
  <2>1. TypedHeap(heap) /\ Tiled(heap)
    BY IInvHeap
  <2>2. \A o \in DOMAIN heap : o \in Nat /\ o < DEVICE_RAM - HEADER_SIZE /\ heap[o].size \in Nat \ {0}
    BY <2>1, HeapAssumption
    DEF TypedHeap, Offsets, Headers, BlockSizes, HEADER_SIZE, MIN_ALLOC
  <2>3. offset = DEVICE_RAM
    <3>1. offset \in DOMAIN heap \cup {DEVICE_RAM}
      BY DEF IInv, WalkOnHeaders
    <3> QED  BY <2>2, <3>1, HeapAssumption DEF HEADER_SIZE
  <2>4. CountedBlocks = S
    BY <2>2, <2>3, HeapAssumption DEF CountedBlocks, FreeBlocks, HEADER_SIZE
  <2>5. stats \in [total_free_bytes : Nat, largest_free_block : Nat, num_free_fragments : Nat]
    BY DEF IInv, TypeOK
  <2>6. /\ stats.num_free_fragments = Cardinality(S)
        /\ stats.total_free_bytes + HEADER_SIZE * stats.num_free_fragments = BlockBytes(heap, S)
        /\ \A o \in S : heap[o].size <= stats.largest_free_block
        /\ stats.largest_free_block = 0 \/ \E o \in S : heap[o].size = stats.largest_free_block
    BY <2>4 DEF StatsInv
  <2>7. m.num_free_fragments = stats.num_free_fragments
    BY <2>6 DEF MemStats
  <2>8. m.total_free_bytes = stats.total_free_bytes
    <3>1. /\ m.total_free_bytes \in Nat
          /\ m.total_free_bytes + HEADER_SIZE * m.num_free_fragments = BlockBytes(heap, S)
      BY <2>1, BytesOfStats
    <3> HIDE DEF m, S
    <3> QED  BY <2>5, <2>6, <2>7, <3>1 DEF HEADER_SIZE
  <2>9. m.largest_free_block = stats.largest_free_block
    <3>1. m.largest_free_block = IF sizes = {} THEN 0 ELSE Max(sizes)
      BY DEF MemStats
    <3>2. \A n \in sizes : n \in Nat \ {0} /\ n <= stats.largest_free_block
      BY <2>2, <2>6 DEF FreeBlocks
    <3>3. stats.largest_free_block = 0 \/ stats.largest_free_block \in sizes
      BY <2>6
    <3> HIDE DEF sizes, m
    <3>4. CASE sizes = {}
      BY <3>1, <3>3, <3>4
    <3>5. CASE sizes # {}
      <4>1. stats.largest_free_block \in Nat
        BY <2>5
      <4>2. stats.largest_free_block \in sizes
        BY <3>2, <3>3, <3>5, <4>1
      <4>3. Max(sizes) \in sizes /\ \A n \in sizes : Max(sizes) >= n
        <5>1. \A n \in sizes : stats.largest_free_block >= n
          BY <3>2, <4>1
        <5> QED  BY <4>2, <5>1 DEF Max
      <4> QED  BY <3>1, <3>2, <3>5, <4>1, <4>2, <4>3
    <3> QED  BY <3>4, <3>5
  <2>10. m = [total_free_bytes |-> m.total_free_bytes,
              largest_free_block |-> m.largest_free_block,
              num_free_fragments |-> m.num_free_fragments]
    BY DEF MemStats
  <2> HIDE DEF m
  <2>11. stats = m
    BY <2>5, <2>7, <2>8, <2>9, <2>10
  <2> QED  BY <2>11 DEF m
<1> QED  BY <1>1, <1>2, Invariance, NextStats, PTL DEF Spec

=============================================================================
