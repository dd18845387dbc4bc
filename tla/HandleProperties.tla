--------------------------- MODULE HandleProperties ---------------------------
(***************************************************************************)
(* The correctness properties of HandleAllocator.                          *)
(***************************************************************************)
EXTENDS HandleAllocator

\* Every variable has its type; a handle is invalid or holds a pointer into ram[].
HandleTypeOK ==
  /\ TypedHeap(heap)
  /\ tasks \in [TaskTable -> TaskStatus]
  /\ stack \in Seq(SpawnIds)
  /\ handle_table \in [HandleRange -> {None} \cup {o + HEADER_SIZE : o \in Offsets}]
  /\ pc \in Phases
  /\ request \in {<< >>} \cup (Requests \X ClientIds)
  /\ read_head \in 0 .. DEVICE_RAM
  /\ write_head \in 0 .. DEVICE_RAM
  /\ largest_idle_task \in {None} \cup (TaskTable \ {0})
  /\ offset \in 0 .. DEVICE_RAM

Named == {i \in HandleRange : handle_table[i] # None}

BlockOf(i) == handle_table[i] - HEADER_SIZE

\* Valid handles and live blocks are in one-to-one correspondence, not only between
\* calls but after every move of a compaction and every block of an eviction: no handle
\* dangles, no two name the same block and no live block is out of reach.
HandlesNameBlocks ==
  /\ \A i, j \in Named : i # j => handle_table[i] # handle_table[j]
  /\ {BlockOf(i) : i \in Named} = UsedBlocks(heap)

\* Every later walk finds its way: between calls the heap is tiled and coalesced, during
\* an eviction it is tiled, and during a compaction the blocks already moved, all live,
\* fill ram[] up to write_head and those not read yet fill it from read_head on.  No move
\* reaches a header that is still to be read.
HeapSound ==
  /\ pc # "compact" => Tiled(heap)
  /\ pc \notin {"compact", "evict"} => Coalesced(heap)
  /\ pc = "compact" =>
       /\ write_head <= read_head
       /\ \A o \in DOMAIN heap : o >= read_head \/ (o < write_head /\ o \in UsedBlocks(heap))
       /\ TiledBetween(heap, 0, write_head)
       /\ TiledBetween(heap, read_head, DEVICE_RAM)

\* A compaction consolidates all free space in one block behind the live ones and
\* loses none of it: the headers of the holes it closed become usable bytes.  Its moves
\* keep the live blocks in their order, those that were not moved yet included.
CompactionConsolidates ==
  [][/\ CompactEnd =>
          /\ MemStats(heap').num_free_fragments <= 1
          /\ BlockBytes(heap', FreeBlocks(heap')) = DEVICE_RAM - BlockBytes(heap, UsedBlocks(heap))
          /\ \A o \in UsedBlocks(heap'), p \in FreeBlocks(heap') : o < p
     /\ pc = "compact" =>
          \A i, j \in Named :
            handle_table[i] < handle_table[j] => handle_table'[i] < handle_table'[j]]_hvars

\* What may stand against a request, were all free space in one block: no handle is
\* left, the size is not allowed, the bytes are not there, or the task may not have them.
MayRefuse(n, t) ==
  LET room == DEVICE_RAM - BlockBytes(heap, UsedBlocks(heap)) - HEADER_SIZE
  IN  \/ UnusedHandles(handle_table) = {}
      \/ ~ ValidRequest(n)
      \/ AlignBytes(n) > room
      \/ ReachesQuota(tasks, t, GivenSize(room, AlignBytes(n)))

\* The attempt that follows the compaction of mem_alloc_or_compact does not fail because
\* memory is fragmented.  Nothing is said of the attempts before and after it.
CompactedRetryServed ==
  [][Retry /\ ~ Served(request[1], request[2]) => MayRefuse(request[1], request[2])]_hvars

\* What the callers see: the object behind each handle, the tasks that are active, and
\* the call under way.  The objects of a task are lost when it is chosen for eviction.
Objects ==
  LET doomed == {i \in Named : pc = "evict" /\ heap[BlockOf(i)].task_id = largest_idle_task}
  IN  [i \in Named \ doomed |->
         [size |-> heap[BlockOf(i)].size, owner |-> heap[BlockOf(i)].task_id]]

Active == {t \in TaskTable : TaskIsActive(tasks, t)}

Call ==
  CASE pc = "idle" -> "none"
    [] pc \in {"evict", "last"} -> "reclaimed"
    [] OTHER -> IF request = << >> THEN "compact" ELSE "request"

Store == INSTANCE HandleStore
           WITH Handles <- HandleRange, Owners <- 0 .. TASK_ID_RANGE - 1, Tasks <- TaskTable,
                Sizes <- BlockSizes, objects <- Objects, busy <- Active, call <- Call

\* The handle interface keeps the promise of HandleStore: a handle goes on naming the
\* block it was given for; no step of a compaction shows; a request that fails costs
\* nobody's objects but, once, all those of one idle task.  And only mem_free_handle, or
\* a reset of the heap, deletes an object between the calls: no allocation does.
ImplementsHandleStore ==
  /\ Store!Spec
  /\ [][\A i \in HandleRange : Store!Delete(i) => MemFreeHandle(i) \/ HandlesInit]_hvars

\* mem_compact and mem_alloc_or_compact return, whichever of the attempts fail.
CallsReturn == pc # "idle" ~> pc = "idle"

-----------------------------------------------------------------------------
(***************************************************************************)
(* What the documentation says and the code does not do.                   *)
(***************************************************************************)

Evicts == Retry /\ pc' = "evict"

\* A valid request evicts an idle task only if compaction still does not free enough
\* contiguous space for it (README).
EvictsOnlyForSpace ==
  [][Evicts /\ ValidRequest(request[1])
       => MemStats(heap).largest_free_block < AlignBytes(request[1])]_hvars

\* The task that is evicted is, of those that ran and are idle, the one with the
\* largest footprint (README).
EvictsLargestIdle ==
  [][LET Footprint(u) == BlockBytes(heap, OwnedBlocks(heap, u))
         idle == {u \in SpawnIds : ~ TaskIsActive(tasks, u) /\ tasks[u].quota_bytes # 0}
     IN  Evicts => \A u \in idle : Footprint(u) <= Footprint(largest_idle_task')]_hvars

=============================================================================
