--------------------------- MODULE CoreAllocator ---------------------------
(***************************************************************************)
(* The allocator before there were tasks, progression/level_2.c: mem_init, *)
(* mem_alloc and mem_free, each an atomic change of the heap.  It is the   *)
(* abstract specification of two others: HeapWalks runs its loops one      *)
(* header at a time, and TaskAllocator, which came to it through level_3.c,*)
(* may refuse more but never changes the heap in another way.              *)
(***************************************************************************)
EXTENDS Heap

CONSTANTS
  TaskIds,      \* task_id arguments of mem_alloc: level 2 only stores them
  Requests,     \* n_bytes arguments of mem_alloc
  Strategies    \* strategy arguments of mem_alloc

VARIABLE heap   \* ram[], see Heap

Init == heap = InitialHeap

ValidRequest(n) == n >= MIN_ALLOC /\ n <= MAX_ALLOC

\* The block goes to the caller; a refused request changes nothing.
MemAlloc(n, t, strategy) ==
  LET need == AlignBytes(n)
      o == FindFreeBlock(heap, need, strategy)
  IN  /\ ValidRequest(n)
      /\ o # None
      /\ heap' = Occupy(heap, o, need, t)

MemFree(ptr) ==
  /\ Freeable(heap, ptr)
  /\ heap' = Release(heap, ptr - HEADER_SIZE)

MemInit == heap' = InitialHeap

Next ==
  \/ \E n \in Requests, t \in TaskIds, s \in Strategies : MemAlloc(n, t, s)
  \/ \E o \in DOMAIN heap : MemFree(o + HEADER_SIZE)
  \/ MemInit

Spec == Init /\ [][Next]_heap

=============================================================================
