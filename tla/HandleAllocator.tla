--------------------------- MODULE HandleAllocator ---------------------------
(***************************************************************************)
(* Level 4 of allocator.c: the handle table, compaction, and the           *)
(* allocation that compacts and evicts before it gives up.                 *)
(*                                                                         *)
(* mem_compact and free_task_blocks run one header a step; mem_alloc,      *)
(* mem_free and the sweep are the atomic operations of TaskAllocator, and  *)
(* HeapWalks has their loops.  Callers reach every block through its       *)
(* handle: compaction moves blocks, and only handles follow them.          *)
(***************************************************************************)
EXTENDS TaskAllocator, Compaction

VARIABLES
  handle_table,
  pc,                  \* where in a call the program is, "idle" between calls
  request,             \* the arguments of mem_alloc_or_compact, << >> outside it
  read_head,           \* locals of mem_compact
  write_head,
  largest_idle_task,   \* the task free_task_blocks was called for
  offset               \* local of free_task_blocks

lvars == <<pc, request, read_head, write_head, largest_idle_task, offset>>

hvars == <<heap, tasks, stack, handle_table, lvars>>

Phases == {"idle", "compact", "retry", "evict", "last"}

\* mem_init and handles_init have been called.
HInit ==
  /\ Init
  /\ handle_table = NoHandles
  /\ pc = "idle"
  /\ request = << >>
  /\ read_head = 0
  /\ write_head = 0
  /\ largest_idle_task = None
  /\ offset = 0

-----------------------------------------------------------------------------
(***************************************************************************)
(* mem_alloc_handle and mem_free_handle                                    *)
(***************************************************************************)

\* Best fit, and the first unused entry of the table.
MemAllocHandleResult(n, t) ==
  LET unused == UnusedHandles(handle_table)
      block == MemAllocResult(heap, tasks, n, t, 1)
      Return(handle, h, ts, table) ==
        [handle |-> handle, heap |-> h, tasks |-> ts, table |-> table]
  IN  IF unused = {} THEN Return(None, heap, tasks, handle_table)
      ELSE IF block.ptr = None THEN Return(None, block.heap, block.tasks, handle_table)
      ELSE Return(Min(unused), block.heap, block.tasks,
                  [handle_table EXCEPT ![Min(unused)] = block.ptr])

Served(n, t) == MemAllocHandleResult(n, t).handle # None

\* What a call of mem_alloc_handle does, from outside or from mem_alloc_or_compact.
Attempt(n, t) ==
  LET result == MemAllocHandleResult(n, t)
  IN  /\ heap' = result.heap
      /\ tasks' = result.tasks
      /\ handle_table' = result.table
      /\ UNCHANGED stack

MemAllocHandle(n, t) ==
  /\ pc = "idle"
  /\ Attempt(n, t)
  /\ UNCHANGED lvars

\* The entry is cleared only if mem_free accepts the pointer.
MemFreeHandle(handle) ==
  /\ pc = "idle"
  /\ MemFree(handle_table[handle])
  /\ handle_table' = [handle_table EXCEPT ![handle] = None]
  /\ UNCHANGED lvars

-----------------------------------------------------------------------------
(***************************************************************************)
(* mem_compact                                                             *)
(***************************************************************************)

MemCompact ==
  /\ pc = "idle"
  /\ pc' = "compact"
  /\ UNCHANGED <<heap, tasks, stack, handle_table,
                 request, read_head, write_head, largest_idle_task, offset>>

\* The block at o moves to w; headers it is moved onto are gone, and so is its old one,
\* which no walk reads again.
Moved(h, o, w) ==
  LET beyond == w + h[o].size + HEADER_SIZE
      kept == {p \in DOMAIN h : p < w \/ p >= beyond} \ {o}
  IN  [p \in kept \cup {w} |-> IF p = w THEN h[o] ELSE h[p]]

\* Variant: write_head stays behind at a block that was moved.
AdvancedUnmoved(o, w) == IF o = w THEN w + heap[o].size + HEADER_SIZE ELSE w

\* write_head after the USED block at o was moved to w.
Advanced(o, w) == w + heap[o].size + HEADER_SIZE

CompactUsed ==
  /\ pc = "compact"
  /\ read_head \in UsedBlocks(heap)
  /\ heap' = Moved(heap, read_head, write_head)
  /\ handle_table' = Repointed(handle_table, read_head + HEADER_SIZE, write_head + HEADER_SIZE)
  /\ write_head' = Advanced(read_head, write_head)
  /\ read_head' = NextBlock(heap, read_head)
  /\ UNCHANGED <<tasks, stack, pc, request, largest_idle_task, offset>>

\* A FREE block is passed over, and its header not read again.
CompactFree ==
  /\ pc = "compact"
  /\ read_head \in FreeBlocks(heap)
  /\ heap' = [p \in DOMAIN heap \ {read_head} |-> heap[p]]
  /\ read_head' = NextBlock(heap, read_head)
  /\ UNCHANGED <<tasks, stack, handle_table, pc, request, write_head, largest_idle_task, offset>>

\* What is left behind w becomes one FREE block, if it can hold one.
Closed(h, w) ==
  LET rest == DEVICE_RAM - w
      tail == IF LeavesBlock(rest) THEN {w} ELSE {}
  IN  [p \in DOMAIN h \cup tail |->
         IF p \in tail THEN Header(rest - HEADER_SIZE, STATUS_FREE, 0) ELSE h[p]]

CompactEnd ==
  /\ pc = "compact"
  /\ read_head >= DEVICE_RAM
  /\ heap' = SweepAndMerge(Closed(heap, write_head))
  /\ pc' = IF request = << >> THEN "idle" ELSE "retry"
  /\ read_head' = 0
  /\ write_head' = 0
  /\ UNCHANGED <<tasks, stack, handle_table, request, largest_idle_task, offset>>

-----------------------------------------------------------------------------
(***************************************************************************)
(* mem_alloc_or_compact                                                    *)
(***************************************************************************)

\* Variant: the request is tried again without a compaction.
MemAllocOrCompactAtOnce(n, t) ==
  /\ pc = "idle"
  /\ ~ Served(n, t)
  /\ Attempt(n, t)
  /\ pc' = "retry"
  /\ request' = <<n, t>>
  /\ UNCHANGED <<read_head, write_head, largest_idle_task, offset>>

\* A first attempt that succeeds is a MemAllocHandle; after one that fails, which may
\* have flagged the task, the heap is compacted.
MemAllocOrCompact(n, t) ==
  /\ pc = "idle"
  /\ ~ Served(n, t)
  /\ Attempt(n, t)
  /\ pc' = "compact"
  /\ request' = <<n, t>>
  /\ UNCHANGED <<read_head, write_head, largest_idle_task, offset>>

\* The idle task whose counter is largest, the first of several; None if no idle
\* task has a positive counter.
Victim(ts) ==
  LET idle == {t \in TaskTable \ {0} : ~ TaskIsActive(ts, t) /\ ts[t].current_alloc > 0}
      largest == {t \in idle : \A u \in idle : ts[u].current_alloc <= ts[t].current_alloc}
  IN  IF idle = {} THEN None ELSE Min(largest)

\* The second attempt, and if it fails the choice of a victim.
Retry ==
  LET victim == IF Served(request[1], request[2]) THEN None ELSE Victim(tasks')
  IN  /\ pc = "retry"
      /\ Attempt(request[1], request[2])
      /\ largest_idle_task' = victim
      /\ pc' = IF victim = None THEN "idle" ELSE "evict"
      /\ request' = IF victim = None THEN << >> ELSE request
      /\ UNCHANGED <<read_head, write_head, offset>>

\* Variant: the handle of an evicted block is kept.
CancelledNot(table, ptr) == table

\* Every entry that names the block is cleared.
Cancelled(table, ptr) == [i \in HandleRange |-> IF table[i] = ptr THEN None ELSE table[i]]

\* free_task_blocks at a block of the task: the block goes, with its handle, and the
\* task is refunded although it is idle.
EvictOwned ==
  /\ pc = "evict"
  /\ offset < DEVICE_RAM - HEADER_SIZE
  /\ offset \in OwnedBlocks(heap, largest_idle_task)
  /\ heap' = [heap EXCEPT ![offset] = Header(@.size, STATUS_FREE, 0)]
  /\ tasks' = [tasks EXCEPT ![largest_idle_task].current_alloc =
                              @ - (heap[offset].size + HEADER_SIZE)]
  /\ handle_table' = Cancelled(handle_table, offset + HEADER_SIZE)
  /\ offset' = NextBlock(heap, offset)
  /\ UNCHANGED <<stack, pc, request, read_head, write_head, largest_idle_task>>

\* Variant: offset advances over the blocks of the task only.
EvictOtherInPlace ==
  /\ pc = "evict"
  /\ offset < DEVICE_RAM - HEADER_SIZE
  /\ offset \in DOMAIN heap \ OwnedBlocks(heap, largest_idle_task)
  /\ UNCHANGED hvars

\* It steps over the blocks of the others, and over FREE ones.
EvictOther ==
  /\ pc = "evict"
  /\ offset < DEVICE_RAM - HEADER_SIZE
  /\ offset \in DOMAIN heap \ OwnedBlocks(heap, largest_idle_task)
  /\ offset' = NextBlock(heap, offset)
  /\ UNCHANGED <<heap, tasks, stack, handle_table,
                 pc, request, read_head, write_head, largest_idle_task>>

EvictEnd ==
  /\ pc = "evict"
  /\ offset >= DEVICE_RAM - HEADER_SIZE
  /\ heap' = SweepAndMerge(heap)
  /\ tasks' = [tasks EXCEPT ![largest_idle_task].active = FALSE]
  /\ pc' = "last"
  /\ largest_idle_task' = None
  /\ offset' = 0
  /\ UNCHANGED <<stack, handle_table, request, read_head, write_head>>

\* The third attempt, without compacting again.
LastTry ==
  /\ pc = "last"
  /\ Attempt(request[1], request[2])
  /\ pc' = "idle"
  /\ request' = << >>
  /\ UNCHANGED <<read_head, write_head, largest_idle_task, offset>>

-----------------------------------------------------------------------------

\* A call under way goes on.
Step ==
  \/ CompactUsed
  \/ CompactFree
  \/ CompactEnd
  \/ Retry
  \/ EvictOwned
  \/ EvictOther
  \/ EvictEnd
  \/ LastTry

\* Callers reset the heap and the table together, between tasks (the phases of
\* test_allocator.c and test_level_4.c).
HandlesInit ==
  /\ pc = "idle"
  /\ stack = << >>
  /\ MemInit
  /\ handle_table' = NoHandles
  /\ UNCHANGED lvars

\* task_spawn, between the handle calls its callback makes.
Spawning ==
  /\ pc = "idle"
  /\ \/ \E t \in SpawnIds, q \in Quotas : Len(stack) < MaxNesting /\ TaskSpawn(t, q)
     \/ TaskReturn
  /\ UNCHANGED <<handle_table, lvars>>

HNext ==
  \/ \E n \in Requests, t \in ClientIds : MemAllocHandle(n, t) \/ MemAllocOrCompact(n, t)
  \/ \E handle \in HandleRange : MemFreeHandle(handle)
  \/ MemCompact
  \/ HandlesInit
  \/ Spawning
  \/ Step

HSpec == HInit /\ [][HNext]_hvars

\* Nothing preempts a call; none is ever owed.
HFairSpec == HSpec /\ WF_hvars(Step)

=============================================================================
