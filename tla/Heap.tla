-------------------------------- MODULE Heap --------------------------------
(***************************************************************************)
(* The block heap that allocator.c keeps inside ram[], as a function from  *)
(* the offset of every block's header to the header itself.  The domain of *)
(* the function is the set of offsets a walk of the heap visits: it starts *)
(* at 0 and steps over header.size + HEADER_SIZE bytes at a time.  What a  *)
(* walk computes is therefore a quantification over the domain, in the     *)
(* order of the offsets.                                                   *)
(*                                                                         *)
(* The module has no variables: it holds the operations on a heap that the *)
(* state machines are built from.  Block contents are left out, and so is  *)
(* the checksum byte: _write_header recomputes it with every header, so it *)
(* is right at the offsets of the domain.  A pointer handed to mem_free is *)
(* that of a block, live or free: the bytes elsewhere are payload, and     *)
(* whether they pass for a header is up to the caller who wrote them.      *)
(***************************************************************************)
EXTENDS Integers, FiniteSetsExt

CONSTANTS
  DEVICE_RAM,   \* bytes of ram[] (64 * 1024 in the source)
  MAX_ALLOC     \* the largest request accepted (8192 in the source)

HEADER_SIZE == 8
MIN_ALLOC == 4

\* Every size is a multiple of 4, the literal align_bytes and the assertion of
\* find_free_block use.
ALIGNMENT == 4

ASSUME HeapAssumption ==
  /\ DEVICE_RAM \in Nat
  /\ DEVICE_RAM % ALIGNMENT = 0
  /\ DEVICE_RAM >= HEADER_SIZE + MIN_ALLOC
  /\ MAX_ALLOC \in Nat

STATUS_FREE == "FREE"
STATUS_USED == "USED"

\* task_id is an int in every signature and a uint16_t in the header.
TASK_ID_RANGE == 65536

\* "No such block": the -1 of the source.
None == -1

(***************************************************************************)
(* Headers and the walk.                                                   *)
(***************************************************************************)

Header(size, status, task_id) ==
  [size |-> size, status |-> status, task_id |-> task_id % TASK_ID_RANGE]

InitialHeap ==
  [o \in {0} |-> Header(DEVICE_RAM - HEADER_SIZE, STATUS_FREE, 0)]

NextBlock(h, o) == o + h[o].size + HEADER_SIZE

FreeBlocks(h) == {o \in DOMAIN h : h[o].status = STATUS_FREE}

UsedBlocks(h) == {o \in DOMAIN h : h[o].status = STATUS_USED}

\* Variant: whoever owns them.
OwnedBlocksAny(h, task_id) == UsedBlocks(h)

OwnedBlocks(h, task_id) == {o \in UsedBlocks(h) : h[o].task_id = task_id}

(***************************************************************************)
(* Allocation.                                                             *)
(***************************************************************************)

\* Variant: the request is not rounded up.
AlignBytesNot(n) == n

AlignBytes(n) == ((n + 3) \div ALIGNMENT) * ALIGNMENT

\* First fit stops at the first block that is large enough; best fit returns
\* the first of the tightest ones; any other strategy only takes an exact fit.
FindFreeBlock(h, need, strategy) ==
  LET fits == {o \in FreeBlocks(h) : h[o].size >= need}
      tightest == {o \in fits : \A p \in fits : h[o].size <= h[p].size}
      exact == {o \in fits : h[o].size = need}
      candidates == CASE strategy = 0 -> fits
                      [] strategy = 1 -> tightest
                      [] OTHER -> exact
  IN  IF candidates = {} THEN None ELSE Min(candidates)

WillSplit(available, need) == available - need >= HEADER_SIZE + MIN_ALLOC

\* The whole block goes to the caller when the rest could not hold a block.
GivenSize(available, need) ==
  IF WillSplit(available, need) THEN need ELSE available

\* Variant: a block that is not split gets the size that was asked for.
OccupyAsked(h, o, need, task_id) ==
  LET tail == IF WillSplit(h[o].size, need) THEN {o + HEADER_SIZE + need} ELSE {}
  IN  [p \in DOMAIN h \cup tail |->
         CASE p = o -> Header(need, STATUS_USED, task_id)
           [] p \in tail -> Header(h[o].size - need - HEADER_SIZE, STATUS_FREE, 0)
           [] OTHER -> h[p]]

\* Block o becomes a USED block of task_id, the bytes it does not need a FREE
\* block after it.
Occupy(h, o, need, task_id) ==
  LET given == GivenSize(h[o].size, need)
      rest == o + HEADER_SIZE + given
      tail == IF given < h[o].size THEN {rest} ELSE {}
  IN  [p \in DOMAIN h \cup tail |->
         CASE p = o -> Header(given, STATUS_USED, task_id)
           [] p \in tail -> Header(h[o].size - need - HEADER_SIZE, STATUS_FREE, 0)
           [] OTHER -> h[p]]

(***************************************************************************)
(* Release.                                                                *)
(***************************************************************************)

\* Variant: a USED block does not end a run of FREE ones.
AbsorbedAny(h) ==
  {o \in DOMAIN h : \E p \in FreeBlocks(h) : NextBlock(h, p) = o}

\* The FREE blocks that follow a FREE block: sweep_and_merge adds their bytes
\* to the first FREE block of the run.
Absorbed(h) ==
  {o \in FreeBlocks(h) : \E p \in FreeBlocks(h) : NextBlock(h, p) = o}

\* Where the run of FREE blocks that starts at o ends.
RunEnd(h, o) ==
  Min({p \in (DOMAIN h \cup {DEVICE_RAM}) \ Absorbed(h) : p > o})

\* Variant: the bytes of an absorbed header are lost.
SweepAndMergeLossy(h) ==
  [o \in DOMAIN h \ Absorbed(h) |->
     IF o \in FreeBlocks(h) /\ NextBlock(h, o) \in Absorbed(h)
     THEN Header(RunEnd(h, o) - o - 2 * HEADER_SIZE, STATUS_FREE, 0)
     ELSE h[o]]

\* A merged block loses its owner; a FREE block that merges with nothing keeps
\* the task_id of its last owner.
SweepAndMerge(h) ==
  [o \in DOMAIN h \ Absorbed(h) |->
     IF o \in FreeBlocks(h) /\ NextBlock(h, o) \in Absorbed(h)
     THEN Header(RunEnd(h, o) - o - HEADER_SIZE, STATUS_FREE, 0)
     ELSE h[o]]

\* The blocks mem_free accepts: a live USED block, but its payload may not start
\* in the last HEADER_SIZE bytes of ram[].
Freeable(h, ptr) ==
  /\ ptr >= HEADER_SIZE
  /\ ptr <= DEVICE_RAM - HEADER_SIZE
  /\ ptr - HEADER_SIZE \in UsedBlocks(h)

\* Variant: a freed block merges with the block after it only.
ReleaseForward(h, o) ==
  LET next == NextBlock(h, o)
  IN  IF next \in FreeBlocks(h)
      THEN [p \in DOMAIN h \ {next} |->
              IF p = o THEN Header(NextBlock(h, next) - o - HEADER_SIZE, STATUS_FREE, 0)
              ELSE h[p]]
      ELSE [h EXCEPT ![o] = Header(h[o].size, STATUS_FREE, h[o].task_id)]

Release(h, o) ==
  SweepAndMerge([h EXCEPT ![o] = Header(h[o].size, STATUS_FREE, h[o].task_id)])

(***************************************************************************)
(* What mem_stats reports.                                                 *)
(***************************************************************************)

BlockBytes(h, S) == MapThenSumSet(LAMBDA o : h[o].size + HEADER_SIZE, S)

MemStats(h) ==
  LET sizes == {h[o].size : o \in FreeBlocks(h)}
  IN  [total_free_bytes |-> MapThenSumSet(LAMBDA o : h[o].size, FreeBlocks(h)),
       largest_free_block |-> IF sizes = {} THEN 0 ELSE Max(sizes),
       num_free_fragments |-> Cardinality(FreeBlocks(h))]

(***************************************************************************)
(* What a well-formed heap is.                                             *)
(***************************************************************************)

Offsets == {o \in 0 .. DEVICE_RAM - (HEADER_SIZE + MIN_ALLOC) : o % ALIGNMENT = 0}

BlockSizes == {n \in MIN_ALLOC .. DEVICE_RAM : n % ALIGNMENT = 0}

Headers == [size : BlockSizes,
            status : {STATUS_FREE, STATUS_USED},
            task_id : 0 .. TASK_ID_RANGE - 1]

TypedHeap(h) ==
  /\ DOMAIN h \subseteq Offsets
  /\ h = [o \in DOMAIN h |-> h[o]]
  /\ \A o \in DOMAIN h : h[o] \in Headers

\* The blocks tile ram[]: the first starts at 0, each ends where the next one
\* starts or where ram[] ends, and no two overlap.  So the walk visits exactly
\* the domain.
Tiled(h) ==
  /\ 0 \in DOMAIN h
  /\ \A o \in DOMAIN h : NextBlock(h, o) \in DOMAIN h \cup {DEVICE_RAM}
  /\ \A o, p \in DOMAIN h : o < p => NextBlock(h, o) <= p

\* The headers that start between a and b tile the bytes from a to b.
TiledBetween(h, a, b) ==
  LET part == {o \in DOMAIN h : a <= o /\ o < b}
  IN  /\ a = b \/ a \in part
      /\ \A o \in part : NextBlock(h, o) \in part \cup {b}
      /\ \A o, p \in part : o < p => NextBlock(h, o) <= p

\* No FREE block follows a FREE block.
Coalesced(h) ==
  \A o, p \in FreeBlocks(h) : NextBlock(h, o) # p

=============================================================================
