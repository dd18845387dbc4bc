------------------------------ MODULE TaskLedger ------------------------------
(***************************************************************************)
(* The correctness properties of TaskAllocator.  One of them relates a     *)
(* task's counter to the heap it had when it was spawned, which the        *)
(* program does not remember: the history variable baseline does.          *)
(***************************************************************************)
EXTENDS TaskAllocator

VARIABLE baseline   \* bytes tagged with the id when it was last spawned

lvars == <<heap, tasks, stack, baseline>>

\* Bytes of ram[], headers included, that USED blocks tagged t hold.
Footprint(h, t) == BlockBytes(h, OwnedBlocks(h, t))

LInit == Init /\ baseline = [t \in TaskTable |-> 0]

Spawns == Len(stack') > Len(stack)

LNext ==
  /\ Next
  /\ baseline' = IF Spawns
                 THEN [baseline EXCEPT ![Head(stack')] = Footprint(heap, Head(stack'))]
                 ELSE baseline

LSpec == LInit /\ [][LNext]_lvars

-----------------------------------------------------------------------------

\* Every variable has its type: heap is a function from aligned offsets to
\* headers, tasks[] a table of TaskStatus, stack a sequence of task ids.
TypeOK ==
  /\ TypedHeap(heap)
  /\ tasks \in [TaskTable -> TaskStatus]
  /\ stack \in Seq(SpawnIds)

\* The headers tile ram[] after every call: splitting in mem_alloc and merging in
\* sweep_and_merge leave no gap, no overlap and no block past the end, which every
\* later walk relies on to find the next header.
HeapTiled == Tiled(heap)

\* No call leaves two FREE blocks side by side: mem_free merges both ways, and
\* the block mem_alloc splits off is never followed by a FREE one.
HeapCoalesced == Coalesced(heap)

\* mem_stats accounts for all of ram[], and once every block is freed the heap
\* is one FREE block again (the assertion that ends run_stress_test).
StatsAccountForRam ==
  LET stats == MemStats(heap)
      used == BlockBytes(heap, UsedBlocks(heap))
  IN  /\ stats.total_free_bytes + HEADER_SIZE * stats.num_free_fragments + used
           = DEVICE_RAM
      /\ used = 0 => stats = [total_free_bytes |-> DEVICE_RAM - HEADER_SIZE,
                              largest_free_block |-> DEVICE_RAM - HEADER_SIZE,
                              num_free_fragments |-> 1]

\* No id a caller passes is taken for another task's once the header has kept 16 bits of
\* it.  LedgerExact needs this: a block allocated for 65537 is charged to nobody, and
\* refunded to task 1.
IdsFit == \A t \in ClientIds : t % TASK_ID_RANGE \in TaskTable => t % TASK_ID_RANGE = t

\* While a task is active, current_alloc is what its footprint grew since the
\* spawn, headers included: splits, unsplit blocks, frees by whoever calls
\* mem_free and nested spawns are all charged or refunded exactly.  It goes
\* negative when the task frees a block older than its spawn.
LedgerExact ==
  \A t \in TaskTable :
    TaskIsActive(tasks, t) =>
      tasks[t].current_alloc = Footprint(heap, t) - baseline[t]

\* The counter never passes the reported peak, and the peak stays below the quota
\* in force: the check after the search is the one that counts, because an
\* unsplit block is larger than the request the first check saw.
PeakWithinQuota ==
  \A t \in TaskTable :
    /\ tasks[t].current_alloc <= tasks[t].bytes_allocated
    /\ tasks[t].bytes_allocated = 0 \/ tasks[t].bytes_allocated < tasks[t].quota_bytes

\* A task's report is final, up to level 3: once it is inactive, no call but its next
\* spawn changes its entry of tasks[].  At level 4 an eviction refunds the blocks it
\* takes from an idle task, so the counter in its entry goes on changing.
IdleEntriesFrozen ==
  [][\A t \in TaskTable : ~ tasks[t].active /\ tasks'[t] # tasks[t] => Spawns /\ Head(stack') = t]_lvars

\* The regions handed out, as RegionStore sees them.
Regions == [p \in {o + HEADER_SIZE : o \in UsedBlocks(heap)} |-> heap[p - HEADER_SIZE].size]

Store == INSTANCE RegionStore
           WITH SIZE <- DEVICE_RAM, OVERHEAD <- HEADER_SIZE, GRAIN <- ALIGNMENT, regions <- Regions

\* The allocator keeps the promise of RegionStore: whatever the strategy and the
\* quotas, regions never overlap, a call adds or removes at most one of them and
\* every other one keeps its place and its size.
ImplementsRegionStore == Store!Spec

Core == INSTANCE CoreAllocator WITH TaskIds <- ClientIds

\* The sandbox is a filter in front of the allocator of level 2: a quota may refuse
\* a request, but no call changes the heap in a way level 2 would not, whatever
\* the tasks and their counters.
ImplementsCore == Core!Spec

-----------------------------------------------------------------------------
(***************************************************************************)
(* What the documentation and the tests say and the code does not do.      *)
(***************************************************************************)

\* mem_free accepts every pointer mem_alloc returned and nobody freed yet
\* (test_allocator.c: "mem_free returned False for a live pointer").
LivePointersFreeable ==
  \A o \in UsedBlocks(heap) : Freeable(heap, o + HEADER_SIZE)

\* A task whose callback is running has not been given more than its quota since it was
\* last spawned (README: "the allocator enforces strict per-task memory quotas").
RunningWithinQuota ==
  \A i \in 1 .. Len(stack) :
    LET t == stack[i] IN Footprint(heap, t) - baseline[t] <= tasks[t].quota_bytes

=============================================================================
