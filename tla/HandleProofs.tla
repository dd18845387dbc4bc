----------------------------- MODULE HandleProofs -----------------------------
(***************************************************************************)
(* Theorems about HandleAllocator, for every size of ram[] and of the      *)
(* handle table, every number of tasks and every choice of ids, quotas and *)
(* requests.                                                               *)
(*                                                                         *)
(* Three groups of lemmas meet the actions: what a step of mem_compact     *)
(* does to a heap that is half compacted and what happens to a table whose *)
(* entries name the live blocks one to one, both in HeapLemmas, and what   *)
(* an attempt to allocate comes to, here.                                  *)
(***************************************************************************)
EXTENDS HandleProperties, CallLemmas

-----------------------------------------------------------------------------
(***************************************************************************)
(* The inductive invariant.                                                *)
(***************************************************************************)

\* What mem_compact finds, keeps and leaves, which is one FREE block at most;
\* free_task_blocks leaves FREE neighbours.
HeapInv ==
  IF pc = "compact" THEN Compacting(heap, write_head, read_head)
  ELSE /\ TypedHeap(heap) /\ Tiled(heap)
       /\ pc # "evict" => Coalesced(heap)
       /\ pc = "retry" => \A o, p \in FreeBlocks(heap) : o = p
       /\ read_head = 0 /\ write_head = 0

\* The walk of free_task_blocks has freed what the victim had behind it.
EvictInv ==
  /\ pc # "evict" => offset = 0
  /\ pc = "evict" =>
       /\ largest_idle_task \in TaskTable \ {0}
       /\ ~ TaskIsActive(tasks, largest_idle_task)
       /\ offset \in DOMAIN heap \cup {DEVICE_RAM}
       /\ \A o \in OwnedBlocks(heap, largest_idle_task) : offset <= o

CallInv ==
  /\ pc \in Phases
  /\ request \in {<< >>} \cup (Requests \X ClientIds)
  /\ pc \in {"retry", "evict", "last"} => request \in Requests \X ClientIds
  /\ pc = "idle" => request = << >>
  /\ largest_idle_task \in {None} \cup (TaskTable \ {0})

HInv ==
  /\ HeapInv
  /\ EvictInv
  /\ CallInv
  /\ tasks \in [TaskTable -> TaskStatus]
  /\ stack \in Seq(SpawnIds)
  /\ Names(handle_table, UsedBlocks(heap))

LEMMA HInvTyped == HInv => HandleTypeOK
<1> SUFFICES ASSUME HInv
             PROVE  HandleTypeOK
  OBVIOUS
<1>1. TypedHeap(heap)
  BY DEF HInv, HeapInv, Compacting
<1>2. handle_table \in [HandleRange -> {None} \cup {o + HEADER_SIZE : o \in Offsets}]
  BY DEF HInv, Names
<1>3. read_head \in 0 .. DEVICE_RAM /\ write_head \in 0 .. DEVICE_RAM
  BY HeapAssumption DEF HInv, HeapInv, Compacting, HEADER_SIZE, MIN_ALLOC
<1>4. offset \in 0 .. DEVICE_RAM
  <2>1. \A o \in DOMAIN heap : o \in 0 .. DEVICE_RAM
    BY <1>1, OffsetBounds, HeapAssumption DEF HEADER_SIZE, MIN_ALLOC
  <2> QED  BY <2>1, HeapAssumption DEF HInv, EvictInv
<1> QED  BY <1>1, <1>2, <1>3, <1>4 DEF HInv, CallInv, HandleTypeOK

LEMMA HInvNames == HInv => HandlesNameBlocks
<1> SUFFICES ASSUME HInv
             PROVE  HandlesNameBlocks
  OBVIOUS
<1>1. Names(handle_table, UsedBlocks(heap))
  BY DEF HInv
<1>2. \A i, j \in Named : i # j => handle_table[i] # handle_table[j]
  BY <1>1 DEF Names, Named
<1>3. {BlockOf(i) : i \in Named} \subseteq UsedBlocks(heap)
  BY <1>1 DEF Names, Named, BlockOf
<1>4. ASSUME NEW o \in UsedBlocks(heap)
      PROVE  o \in {BlockOf(i) : i \in Named}
  <2>1. PICK i \in HandleRange : handle_table[i] = o + HEADER_SIZE
    BY <1>1 DEF Names
  <2>2. o \in Nat
    BY <1>1, HeapAssumption DEF Names, Offsets, HEADER_SIZE, MIN_ALLOC
  <2>3. i \in Named /\ BlockOf(i) = o
    BY <2>1, <2>2 DEF Named, BlockOf, None, HEADER_SIZE
  <2> QED  BY <2>3
<1> QED  BY <1>2, <1>3, <1>4 DEF HandlesNameBlocks

LEMMA HInvSound == HInv => HeapSound
<1> SUFFICES ASSUME HInv
             PROVE  HeapSound
  OBVIOUS
<1>1. CASE pc # "compact"
  BY <1>1 DEF HInv, HeapInv, HeapSound
<1>2. CASE pc = "compact"
  <2>1. Compacting(heap, write_head, read_head)
    BY <1>2 DEF HInv, HeapInv
  <2>2. write_head <= read_head
    BY <2>1 DEF Compacting, HEADER_SIZE, MIN_ALLOC
  <2> QED  BY <1>2, <2>1, <2>2 DEF HeapSound, Compacting
<1> QED  BY <1>1, <1>2

-----------------------------------------------------------------------------
(***************************************************************************)
(* An attempt to allocate.                                                 *)
(***************************************************************************)

\* It gives nothing, and at most raises the flag of an active task.
Refused ==
  /\ UNCHANGED <<heap, stack, handle_table>>
  /\ \/ UNCHANGED tasks
     \/ \E t \in Int : TaskIsActive(tasks, t) /\ tasks' = Flag(tasks, t)

\* Handle i is given FREE block o.
Granted(i, o, need, t) ==
  /\ handle_table[i] = None
  /\ need <= heap[o].size
  /\ heap' = Occupy(heap, o, need, t)
  /\ tasks' = Charge(tasks, t, GivenSize(heap[o].size, need))
  /\ handle_table' = [handle_table EXCEPT ![i] = o + HEADER_SIZE]
  /\ UNCHANGED stack

GrantedSome ==
  \E i \in HandleRange, o \in FreeBlocks(heap), need \in BlockSizes, t \in Int :
    Granted(i, o, need, t)

LEMMA AttemptOutcome ==
  ASSUME WellFormed(heap), NEW n \in Int, NEW t \in Int, Attempt(n, t)
  PROVE  IF Served(n, t) THEN GrantedSome ELSE Refused
<1> DEFINE unused == UnusedHandles(handle_table)
           block == MemAllocResult(heap, tasks, n, t, 1)
           r == MemAllocHandleResult(n, t)
           Return(handle, h, ts, table) ==
             [handle |-> handle, heap |-> h, tasks |-> ts, table |-> table]
<1>1. r = IF unused = {} THEN Return(None, heap, tasks, handle_table)
          ELSE IF block.ptr = None THEN Return(None, block.heap, block.tasks, handle_table)
          ELSE Return(Min(unused), block.heap, block.tasks,
                      [handle_table EXCEPT ![Min(unused)] = block.ptr])
  BY DEF MemAllocHandleResult
<1>2. /\ heap' = r.heap /\ tasks' = r.tasks /\ handle_table' = r.table /\ stack' = stack
      /\ Served(n, t) <=> r.handle # None
  BY DEF Attempt, Served
<1>3. \/ /\ block.ptr = None
         /\ block.heap = heap
         /\ block.tasks = tasks \/ (TaskIsActive(tasks, t) /\ block.tasks = Flag(tasks, t))
      \/ \E o \in FreeBlocks(heap), need \in BlockSizes :
           /\ need <= heap[o].size
           /\ block.ptr = o + HEADER_SIZE
           /\ block.heap = Occupy(heap, o, need, t)
           /\ ~ ReachesQuota(tasks, t, GivenSize(heap[o].size, need))
           /\ block.tasks = Charge(tasks, t, GivenSize(heap[o].size, need))
  BY MemAllocOutcome
<1> HIDE DEF block, r, unused
<1>4. CASE unused = {}
  <2>1. r.handle = None /\ r.heap = heap /\ r.tasks = tasks /\ r.table = handle_table
    BY <1>1, <1>4
  <2> QED  BY <1>2, <2>1 DEF Refused
<1>5. CASE unused # {} /\ block.ptr = None
  <2>1. r.handle = None /\ r.heap = block.heap /\ r.tasks = block.tasks /\ r.table = handle_table
    BY <1>1, <1>5
  <2>2. \A o \in FreeBlocks(heap) : o + HEADER_SIZE # None
    BY OffsetBounds DEF WellFormed, FreeBlocks, HEADER_SIZE, None
  <2>3. /\ block.heap = heap
        /\ block.tasks = tasks \/ (TaskIsActive(tasks, t) /\ block.tasks = Flag(tasks, t))
    BY <1>3, <1>5, <2>2
  <2> QED  BY <1>2, <2>1, <2>3 DEF Refused
<1>6. CASE unused # {} /\ block.ptr # None
  <2>1. Min(unused) \in HandleRange /\ handle_table[Min(unused)] = None /\ Min(unused) # None
    <3>1. unused \in SUBSET Nat
      BY DEF unused, UnusedHandles, HandleRange
    <3>2. Min(unused) \in unused
      BY <1>6, <3>1, MinOfNats
    <3> QED  BY <3>1, <3>2 DEF unused, UnusedHandles, None
  <2>2. /\ r.handle = Min(unused) /\ r.heap = block.heap /\ r.tasks = block.tasks
        /\ r.table = [handle_table EXCEPT ![Min(unused)] = block.ptr]
    BY <1>1, <1>6
  <2>3. PICK o \in FreeBlocks(heap), need \in BlockSizes :
           /\ need <= heap[o].size
           /\ block.ptr = o + HEADER_SIZE
           /\ block.heap = Occupy(heap, o, need, t)
           /\ block.tasks = Charge(tasks, t, GivenSize(heap[o].size, need))
    BY <1>3, <1>6
  <2>4. Granted(Min(unused), o, need, t)
    BY <1>2, <2>1, <2>2, <2>3 DEF Granted
  <2> QED  BY <1>2, <2>1, <2>2, <2>4 DEF GrantedSome
<1> QED  BY <1>4, <1>5, <1>6

\* What mem_alloc gives out was not a live block.
LEMMA GrantedKeeps ==
  ASSUME WellFormed(heap), tasks \in [TaskTable -> TaskStatus],
         Names(handle_table, UsedBlocks(heap)), GrantedSome
  PROVE  /\ WellFormed(heap')
         /\ tasks' \in [TaskTable -> TaskStatus]
         /\ Names(handle_table', UsedBlocks(heap'))
<1>1. PICK i \in HandleRange, o \in FreeBlocks(heap), need \in BlockSizes, t \in Int :
        Granted(i, o, need, t)
  BY DEF GrantedSome
<1>2. /\ handle_table[i] = None
      /\ need <= heap[o].size
      /\ heap' = Occupy(heap, o, need, t)
      /\ tasks' = Charge(tasks, t, GivenSize(heap[o].size, need))
      /\ handle_table' = [handle_table EXCEPT ![i] = o + HEADER_SIZE]
  BY <1>1 DEF Granted
<1>3. WellFormed(heap')
  BY <1>2, OccupyWellFormed
<1>4. heap[o].size \in BlockSizes
  BY BlockBounds DEF WellFormed, FreeBlocks
<1>5. GivenSize(heap[o].size, need) \in Int
  BY <1>2, <1>4, GivenSizeFits DEF BlockSizes
<1>6. tasks' \in [TaskTable -> TaskStatus]
  BY <1>2, <1>5, LedgerTyped
<1>7. UsedBlocks(heap') = UsedBlocks(heap) \cup {o}
  BY <1>2, OccupyAddsUsed
<1>8. o \in Offsets /\ o \notin UsedBlocks(heap)
  BY DEF WellFormed, TypedHeap, FreeBlocks, UsedBlocks, STATUS_FREE, STATUS_USED
<1>9. Names([handle_table EXCEPT ![i] = o + HEADER_SIZE], UsedBlocks(heap) \cup {o})
  BY <1>2, <1>8, NamesAdded
<1> QED  BY <1>2, <1>3, <1>6, <1>7, <1>9

LEMMA AttemptKeeps ==
  ASSUME WellFormed(heap), tasks \in [TaskTable -> TaskStatus],
         Names(handle_table, UsedBlocks(heap)),
         NEW n \in Int, NEW t \in Int, Attempt(n, t)
  PROVE  /\ WellFormed(heap')
         /\ tasks' \in [TaskTable -> TaskStatus]
         /\ Names(handle_table', UsedBlocks(heap'))
<1>1. GrantedSome \/ Refused
  BY AttemptOutcome
<1>2. CASE Refused
  BY <1>2, LedgerTyped DEF Refused
<1> QED  BY <1>1, <1>2, GrantedKeeps

\* The victim is an idle task.
LEMMA VictimIdle ==
  ASSUME NEW ts \in [TaskTable -> TaskStatus], Victim(ts) # None
  PROVE  Victim(ts) \in TaskTable \ {0} /\ ~ TaskIsActive(ts, Victim(ts))
<1> DEFINE idle == {t \in TaskTable \ {0} : ~ TaskIsActive(ts, t) /\ ts[t].current_alloc > 0}
           largest == {t \in idle : \A u \in idle : ts[u].current_alloc <= ts[t].current_alloc}
<1>1. idle # {} /\ Victim(ts) = Min(largest)
  BY DEF Victim
<1>2. largest # {}
  <2>1. IsFiniteSet(idle)
    <3>1. IsFiniteSet(TaskTable) /\ idle \subseteq TaskTable
      BY FS_Interval, TaskAssumption DEF TaskTable
    <3> QED  BY <3>1, FS_Subset
  <2> DEFINE rating == [t \in TaskTable |-> ts[t].current_alloc]
  <2>2. \A t \in idle : rating[t] \in Int
    BY DEF TaskStatus
  <2>3. PICK t \in idle : \A u \in idle : rating[u] <= rating[t]
    <3> HIDE DEF idle, rating
    <3> QED  BY <1>1, <2>1, <2>2, HighestOfFinite
  <2> QED  BY <2>3
<1>3. Min(largest) \in largest
  <2>1. largest \in SUBSET Nat
    BY DEF TaskTable
  <2> QED  BY <1>2, <2>1, MinOfNats
<1> QED  BY <1>1, <1>3

-----------------------------------------------------------------------------
(***************************************************************************)
(* The invariant is inductive, action by action.                           *)
(***************************************************************************)

\* What the steps of mem_compact make of the heap: no header but that of the block that
\* moves is lost.
LEMMA CompactionSteps ==
  ASSUME HeapInv, pc = "compact"
  PROVE  /\ read_head \in UsedBlocks(heap)
              => Moved(heap, read_head, write_head) = Transferred(heap, read_head, write_head)
         /\ Closed(heap, write_head) = Completed(heap, write_head)
<1> DEFINE r == read_head
           w == write_head
           beyond == w + heap[r].size + HEADER_SIZE
<1>1. ASSUME r \in UsedBlocks(heap)
      PROVE  Moved(heap, r, w) = Transferred(heap, r, w)
  <2>1. Compacting(heap, w, r)
    BY DEF HeapInv
  <2>2. \A p \in DOMAIN heap \ {r} : p < w \/ p >= beyond
    BY <1>1, <2>1, MoveReachesNone
  <2>3. {p \in DOMAIN heap : p < w \/ p >= beyond} \ {r} = DOMAIN heap \ {r}
    BY <2>2
  <2> QED  BY <2>3, Zenon DEF Moved, Transferred
<1>2. Closed(heap, w) = Completed(heap, w)
  BY DEF Closed, Completed
<1> QED  BY <1>1, <1>2

LEMMA InitHInv == HInit => HInv
<1> SUFFICES ASSUME HInit
             PROVE  HInv
  OBVIOUS
<1>1. /\ heap = InitialHeap /\ tasks = [t \in TaskTable |-> UnusedTask] /\ stack = << >>
      /\ handle_table = NoHandles
      /\ pc = "idle" /\ request = << >> /\ read_head = 0 /\ write_head = 0
      /\ largest_idle_task = None /\ offset = 0
  BY DEF HInit, Init
<1>2. WellFormed(heap)
  BY <1>1, InitialHeapWellFormed
<1>3. tasks \in [TaskTable -> TaskStatus]
  BY <1>1 DEF UnusedTask, TaskStatus
<1>4. Names(handle_table, UsedBlocks(heap))
  BY <1>1, NoneNamed
<1> QED  BY <1>1, <1>2, <1>3, <1>4 DEF HInv, HeapInv, EvictInv, CallInv, Phases, WellFormed

\* Between the walks the heap is well-formed, and their locals are as they were.
LEMMA Settled ==
  ASSUME HInv, pc \notin {"compact", "evict"}
  PROVE  WellFormed(heap) /\ read_head = 0 /\ write_head = 0 /\ offset = 0
BY DEF HInv, HeapInv, EvictInv, WellFormed

\* What makes the invariant hold between the walks.
LEMMA SettledAgain ==
  ASSUME pc' \in {"idle", "retry", "last"}, WellFormed(heap'),
         read_head' = 0, write_head' = 0, offset' = 0,
         request' \in {<< >>} \cup (Requests \X ClientIds),
         pc' # "idle" => request' \in Requests \X ClientIds,
         pc' = "idle" => request' = << >>,
         pc' = "retry" => \A o, p \in FreeBlocks(heap') : o = p,
         largest_idle_task' \in {None} \cup (TaskTable \ {0}),
         tasks' \in [TaskTable -> TaskStatus], stack' \in Seq(SpawnIds),
         Names(handle_table', UsedBlocks(heap'))
  PROVE  HInv'
BY DEF HInv, HeapInv, EvictInv, CallInv, Phases, WellFormed

LEMMA MemAllocHandleKeeps ==
  ASSUME HInv, NEW n \in Requests, NEW t \in ClientIds, MemAllocHandle(n, t)
  PROVE  HInv'
<1>1. pc = "idle" /\ Attempt(n, t) /\ UNCHANGED lvars
  BY DEF MemAllocHandle
<1>2. WellFormed(heap) /\ read_head = 0 /\ write_head = 0 /\ offset = 0
  BY <1>1, Settled
<1>3. n \in Int /\ t \in Int
  BY TaskAssumption
<1>4. WellFormed(heap') /\ tasks' \in [TaskTable -> TaskStatus] /\ Names(handle_table', UsedBlocks(heap'))
  BY <1>1, <1>2, <1>3, AttemptKeeps DEF HInv
<1>5. stack' = stack
  BY <1>1 DEF Attempt
<1> QED  BY <1>1, <1>2, <1>4, <1>5, SettledAgain DEF HInv, CallInv, lvars

LEMMA MemAllocOrCompactKeeps ==
  ASSUME HInv, NEW n \in Requests, NEW t \in ClientIds, MemAllocOrCompact(n, t)
  PROVE  HInv'
<1>1. /\ pc = "idle" /\ Attempt(n, t)
      /\ pc' = "compact" /\ request' = <<n, t>>
      /\ UNCHANGED <<read_head, write_head, largest_idle_task, offset>>
  BY DEF MemAllocOrCompact
<1>2. WellFormed(heap) /\ read_head = 0 /\ write_head = 0 /\ offset = 0
  BY <1>1, Settled
<1>3. n \in Int /\ t \in Int
  BY TaskAssumption
<1>4. WellFormed(heap') /\ tasks' \in [TaskTable -> TaskStatus] /\ Names(handle_table', UsedBlocks(heap'))
  BY <1>1, <1>2, <1>3, AttemptKeeps DEF HInv
<1>5. Compacting(heap', write_head', read_head')
  <2>1. Compacting(heap', 0, 0)
    BY <1>4, CompactionBegins DEF WellFormed
  <2> QED  BY <1>1, <1>2, <2>1
<1>6. stack' = stack
  BY <1>1 DEF Attempt
<1> QED  BY <1>1, <1>2, <1>4, <1>5, <1>6 DEF HInv, HeapInv, EvictInv, CallInv, Phases

LEMMA MemFreeHandleKeeps ==
  ASSUME HInv, NEW i \in HandleRange, MemFreeHandle(i)
  PROVE  HInv'
<1> DEFINE o == handle_table[i] - HEADER_SIZE
<1>1. /\ pc = "idle" /\ Freeable(heap, handle_table[i])
      /\ heap' = Release(heap, o) /\ tasks' = Refund(heap, tasks, o) /\ stack' = stack
      /\ handle_table' = [handle_table EXCEPT ![i] = None]
      /\ UNCHANGED lvars
  BY DEF MemFreeHandle, MemFree
<1>2. WellFormed(heap) /\ read_head = 0 /\ write_head = 0 /\ offset = 0
  BY <1>1, Settled
<1>3. o \in UsedBlocks(heap) /\ handle_table[i] # None
  BY <1>1 DEF Freeable, HEADER_SIZE, None
<1>4. heap[o].size \in Int /\ heap[o].task_id \in Int
  BY <1>2, <1>3 DEF WellFormed, TypedHeap, Headers, BlockSizes, UsedBlocks
<1>5. Names([handle_table EXCEPT ![i] = None], UsedBlocks(heap) \ {o})
  BY <1>3, NamesDeleted DEF HInv
<1> HIDE DEF o
<1>6. WellFormed(heap') /\ UsedBlocks(heap') = UsedBlocks(heap) \ {o}
  BY <1>1, <1>2, <1>3, ReleaseWellFormed
<1>7. tasks' \in [TaskTable -> TaskStatus]
  <2>1. Refund(heap, tasks, o) \in [TaskTable -> TaskStatus]
    BY <1>4, LedgerTyped DEF HInv
  <2> QED  BY <1>1, <2>1
<1>8. Names(handle_table', UsedBlocks(heap'))
  BY <1>1, <1>5, <1>6
<1> QED  BY <1>1, <1>2, <1>6, <1>7, <1>8, SettledAgain DEF HInv, CallInv, lvars

LEMMA MemCompactKeeps ==
  ASSUME HInv, MemCompact
  PROVE  HInv'
<1>1. /\ pc = "idle" /\ pc' = "compact"
      /\ UNCHANGED <<heap, tasks, stack, handle_table,
                     request, read_head, write_head, largest_idle_task, offset>>
  BY DEF MemCompact
<1>2. WellFormed(heap) /\ read_head = 0 /\ write_head = 0 /\ offset = 0
  BY <1>1, Settled
<1>3. Compacting(heap, 0, 0)
  BY <1>2, CompactionBegins DEF WellFormed
<1>4. HeapInv'
  BY <1>1, <1>2, <1>3 DEF HeapInv
<1> QED  BY <1>1, <1>2, <1>4 DEF HInv, EvictInv, CallInv, Phases

LEMMA CompactUsedKeeps ==
  ASSUME HInv, CompactUsed
  PROVE  HInv'
<1> DEFINE r == read_head
           w == write_head
<1>1. /\ pc = "compact" /\ r \in UsedBlocks(heap)
      /\ heap' = Transferred(heap, r, w)
      /\ handle_table' = Repointed(handle_table, r + HEADER_SIZE, w + HEADER_SIZE)
      /\ write_head' = w + heap[r].size + HEADER_SIZE
      /\ read_head' = NextBlock(heap, r)
      /\ UNCHANGED <<tasks, stack, pc, request, largest_idle_task, offset>>
  BY CompactionSteps DEF HInv, CompactUsed, Advanced
<1>2. Compacting(heap, w, r)
  BY <1>1 DEF HInv, HeapInv
<1>3. HeapInv'
  <2>1. Compacting(heap', w + heap[r].size + HEADER_SIZE, NextBlock(heap, r))
    BY <1>1, <1>2, CompactionMoves
  <2> QED  BY <1>1, <2>1 DEF HeapInv
<1>4. Names(handle_table', UsedBlocks(heap'))
  <2>1. MovesOnly(heap, w, r, heap')
    BY <1>1, <1>2, MovedShape
  <2>2. w \in Offsets /\ (w = r \/ w \notin UsedBlocks(heap))
    BY <2>1 DEF MovesOnly, UsedBlocks
  <2>3. UsedBlocks(heap') = (UsedBlocks(heap) \ {r}) \cup {w}
    BY <2>1 DEF MovesOnly
  <2>4. Names(handle_table, UsedBlocks(heap))
    BY DEF HInv
  <2>5. handle_table' = [i \in HandleRange |->
          IF handle_table[i] = r + HEADER_SIZE THEN w + HEADER_SIZE ELSE handle_table[i]]
    BY <1>1, <2>4, RepointedShape
  <2>6. Names(handle_table', (UsedBlocks(heap) \ {r}) \cup {w})
    BY <1>1, <2>2, <2>4, <2>5, NamesRepointed
  <2> QED  BY <2>3, <2>6
<1> QED  BY <1>1, <1>3, <1>4 DEF HInv, EvictInv, CallInv

LEMMA CompactFreeKeeps ==
  ASSUME HInv, CompactFree
  PROVE  HInv'
<1> DEFINE r == read_head
           w == write_head
<1>1. /\ pc = "compact" /\ r \in FreeBlocks(heap)
      /\ heap' = Skipped(heap, r)
      /\ read_head' = NextBlock(heap, r)
      /\ UNCHANGED <<tasks, stack, handle_table, pc, request, write_head, largest_idle_task, offset>>
  BY DEF CompactFree, Skipped
<1>2. Compacting(heap, w, r)
  BY <1>1 DEF HInv, HeapInv
<1>3. Compacting(heap', w, NextBlock(heap, r)) /\ UsedBlocks(heap') = UsedBlocks(heap)
  BY <1>1, <1>2, CompactionPasses
<1>4. HeapInv'
  BY <1>1, <1>3 DEF HeapInv
<1> QED  BY <1>1, <1>3, <1>4 DEF HInv, EvictInv, CallInv

LEMMA CompactEndKeeps ==
  ASSUME HInv, CompactEnd
  PROVE  HInv'
<1> DEFINE g == Completed(heap, write_head)
<1>1. /\ pc = "compact" /\ read_head >= DEVICE_RAM
      /\ heap' = SweepAndMerge(g)
      /\ pc' = IF request = << >> THEN "idle" ELSE "retry"
      /\ read_head' = 0 /\ write_head' = 0
      /\ UNCHANGED <<tasks, stack, handle_table, request, largest_idle_task, offset>>
  BY CompactionSteps DEF HInv, CompactEnd
<1>2. Compacting(heap, write_head, read_head)
  BY <1>1 DEF HInv, HeapInv
<1>3. TypedHeap(g) /\ Tiled(g) /\ UsedBlocks(g) = UsedBlocks(heap)
  BY <1>1, <1>2, CompactionCloses
<1> HIDE DEF g
<1>4. WellFormed(heap') /\ UsedBlocks(heap') = UsedBlocks(heap)
  BY <1>1, <1>3, SweepWellFormed, SweepKeepsUsed
<1>5. \A o, p \in FreeBlocks(heap') : o = p
  <2>1. FreeBlocks(heap') \subseteq {write_head}
    BY <1>1, <1>2, CompactionGathers DEF g
  <2> QED  BY <2>1
<1>6. offset' = 0
  BY <1>1 DEF HInv, EvictInv
<1>7. Names(handle_table', UsedBlocks(heap'))
  BY <1>1, <1>4 DEF HInv
<1>8. /\ request' \in {<< >>} \cup (Requests \X ClientIds)
      /\ pc' # "idle" => request' \in Requests \X ClientIds
      /\ pc' = "idle" => request' = << >>
      /\ largest_idle_task' \in {None} \cup (TaskTable \ {0})
      /\ pc' \in {"idle", "retry", "last"}
  BY <1>1 DEF HInv, CallInv
<1> QED  BY <1>1, <1>4, <1>5, <1>6, <1>7, <1>8, SettledAgain DEF HInv

LEMMA RetryKeeps ==
  ASSUME HInv, Retry
  PROVE  HInv'
<1> DEFINE n == request[1]
           t == request[2]
           victim == IF Served(n, t) THEN None ELSE Victim(tasks')
<1>1. /\ pc = "retry" /\ Attempt(n, t)
      /\ largest_idle_task' = victim
      /\ pc' = IF victim = None THEN "idle" ELSE "evict"
      /\ request' = IF victim = None THEN << >> ELSE request
      /\ UNCHANGED <<read_head, write_head, offset>>
  BY DEF Retry
<1>2. WellFormed(heap) /\ read_head = 0 /\ write_head = 0 /\ offset = 0
  BY <1>1, Settled
<1>3. request \in Requests \X ClientIds
  BY <1>1 DEF HInv, CallInv
<1>4. n \in Int /\ t \in Int
  BY <1>3, TaskAssumption
<1>5. stack' = stack
  BY <1>1 DEF Attempt
<1> HIDE DEF n, t
<1>6. WellFormed(heap') /\ tasks' \in [TaskTable -> TaskStatus] /\ Names(handle_table', UsedBlocks(heap'))
  BY <1>1, <1>2, <1>4, AttemptKeeps DEF HInv
<1>7. CASE victim = None
  <2> HIDE DEF victim
  <2> QED  BY <1>1, <1>2, <1>5, <1>6, <1>7, SettledAgain DEF HInv
<1>8. CASE victim # None
  <2>1. victim \in TaskTable \ {0} /\ ~ TaskIsActive(tasks', victim)
    BY <1>6, <1>8, VictimIdle
  <2> HIDE DEF victim
  <2>2. HeapInv'
    BY <1>1, <1>2, <1>6, <1>8 DEF HeapInv, WellFormed
  <2>3. EvictInv'
    <3>1. 0 \in DOMAIN heap' /\ \A o \in OwnedBlocks(heap', victim) : 0 <= o
      BY <1>6, BlockBounds DEF WellFormed, Tiled, OwnedBlocks, UsedBlocks
    <3> QED  BY <1>1, <1>2, <1>8, <2>1, <3>1 DEF EvictInv
  <2> QED  BY <1>1, <1>3, <1>5, <1>6, <1>8, <2>1, <2>2, <2>3 DEF HInv, CallInv, Phases
<1> QED  BY <1>7, <1>8

\* The walk of free_task_blocks goes on behind the block it is at.
LEMMA EvictionAdvances ==
  ASSUME NEW h, TypedHeap(h), Tiled(h), NEW o \in DOMAIN h, NEW v,
         \A p \in OwnedBlocks(h, v) : o <= p
  PROVE  /\ NextBlock(h, o) \in DOMAIN h \cup {DEVICE_RAM}
         /\ \A p \in OwnedBlocks(h, v) \ {o} : NextBlock(h, o) <= p
<1>1. NextBlock(h, o) \in DOMAIN h \cup {DEVICE_RAM}
  BY DEF Tiled
<1>2. ASSUME NEW p \in OwnedBlocks(h, v) \ {o}
      PROVE  NextBlock(h, o) <= p
  <2>1. p \in DOMAIN h /\ o <= p /\ o # p
    BY DEF OwnedBlocks, UsedBlocks
  <2>2. o \in Nat /\ p \in Nat
    BY <2>1, BlockBounds
  <2> QED  BY <2>1, <2>2 DEF Tiled
<1> QED  BY <1>1, <1>2

\* The header free_task_blocks writes over that of a block moves no other.
LEMMA BlockEvicted ==
  ASSUME NEW h, TypedHeap(h), Tiled(h), NEW o \in UsedBlocks(h),
         NEW g, g = [h EXCEPT ![o] = Header(h[o].size, STATUS_FREE, 0)]
  PROVE  LosesOnly(h, o, g)
<1>1. 0 \in Int
  OBVIOUS
<1> QED  BY ONLY TypedHeap(h), Tiled(h), o \in UsedBlocks(h), <1>1, MarkFree,
                 g = [h EXCEPT ![o] = Header(h[o].size, STATUS_FREE, 0)]

LEMMA EvictOwnedKeeps ==
  ASSUME HInv, EvictOwned
  PROVE  HInv'
<1> DEFINE o == offset
           v == largest_idle_task
<1>1. /\ pc = "evict"
      /\ o \in OwnedBlocks(heap, v)
      /\ heap' = [heap EXCEPT ![o] = Header(heap[o].size, STATUS_FREE, 0)]
      /\ tasks' = [tasks EXCEPT ![v].current_alloc = @ - (heap[o].size + HEADER_SIZE)]
      /\ handle_table' = Cancelled(handle_table, o + HEADER_SIZE)
      /\ offset' = NextBlock(heap, o)
      /\ UNCHANGED <<stack, pc, request, read_head, write_head, largest_idle_task>>
  <2>1. o \in DOMAIN heap
    BY DEF EvictOwned, OwnedBlocks, UsedBlocks
  <2> QED  BY <2>1 DEF EvictOwned
<1>2. /\ TypedHeap(heap) /\ Tiled(heap) /\ read_head = 0 /\ write_head = 0
      /\ v \in TaskTable \ {0} /\ ~ TaskIsActive(tasks, v)
      /\ \A p \in OwnedBlocks(heap, v) : o <= p
      /\ tasks \in [TaskTable -> TaskStatus]
      /\ Names(handle_table, UsedBlocks(heap))
  BY <1>1 DEF HInv, HeapInv, EvictInv
<1>3. o \in UsedBlocks(heap) /\ o \in DOMAIN heap
  BY <1>1 DEF OwnedBlocks, UsedBlocks
<1>4. /\ TypedHeap(heap') /\ Tiled(heap')
      /\ UsedBlocks(heap') = UsedBlocks(heap) \ {o}
      /\ \A p \in UsedBlocks(heap') : heap'[p] = heap[p]
  <2>1. LosesOnly(heap, o, heap')
    BY <1>1, <1>2, <1>3, BlockEvicted
  <2> QED  BY <2>1 DEF LosesOnly
<1>5. DOMAIN heap' = DOMAIN heap
  BY <1>1
<1>6. OwnedBlocks(heap', v) = OwnedBlocks(heap, v) \ {o}
  BY <1>4 DEF OwnedBlocks
<1>7. heap[o].size \in Int
  BY <1>2, <1>3 DEF TypedHeap, Headers, BlockSizes
<1>8. tasks' \in [TaskTable -> TaskStatus] /\ ~ TaskIsActive(tasks', v)
  BY <1>1, <1>2, <1>7 DEF TaskStatus, TaskIsActive, HEADER_SIZE
<1>9. Names(handle_table', UsedBlocks(heap'))
  <2>1. Names(Cancelled(handle_table, o + HEADER_SIZE), UsedBlocks(heap) \ {o})
    BY <1>2, <1>3, NamesCancelled DEF Cancelled
  <2> QED  BY <1>1, <1>4, <2>1
<1>10. HeapInv'
  BY <1>1, <1>2, <1>4 DEF HeapInv
<1>11. EvictInv'
  <2>1. /\ NextBlock(heap, o) \in DOMAIN heap \cup {DEVICE_RAM}
        /\ \A p \in OwnedBlocks(heap, v) \ {o} : NextBlock(heap, o) <= p
    BY <1>2, <1>3, EvictionAdvances
  <2> QED  BY <1>1, <1>2, <1>5, <1>6, <1>8, <2>1 DEF EvictInv
<1> QED  BY <1>1, <1>8, <1>9, <1>10, <1>11 DEF HInv, CallInv

LEMMA EvictOtherKeeps ==
  ASSUME HInv, EvictOther
  PROVE  HInv'
<1> DEFINE o == offset
           v == largest_idle_task
<1>1. /\ pc = "evict"
      /\ o \in DOMAIN heap /\ o \notin OwnedBlocks(heap, v)
      /\ offset' = NextBlock(heap, o)
      /\ UNCHANGED <<heap, tasks, stack, handle_table,
                     pc, request, read_head, write_head, largest_idle_task>>
  BY DEF EvictOther
<1>2. /\ TypedHeap(heap) /\ Tiled(heap)
      /\ v \in TaskTable \ {0} /\ ~ TaskIsActive(tasks, v)
      /\ \A p \in OwnedBlocks(heap, v) : o <= p
  BY <1>1 DEF HInv, HeapInv, EvictInv
<1>3. EvictInv'
  <2>1. /\ NextBlock(heap, o) \in DOMAIN heap \cup {DEVICE_RAM}
        /\ \A p \in OwnedBlocks(heap, v) \ {o} : NextBlock(heap, o) <= p
    BY <1>1, <1>2, EvictionAdvances
  <2> QED  BY <1>1, <1>2, <2>1 DEF EvictInv
<1> QED  BY <1>1, <1>3 DEF HInv, HeapInv, CallInv

LEMMA EvictEndKeeps ==
  ASSUME HInv, EvictEnd
  PROVE  HInv'
<1>1. /\ pc = "evict" /\ pc' = "last"
      /\ heap' = SweepAndMerge(heap)
      /\ tasks' = [tasks EXCEPT ![largest_idle_task].active = FALSE]
      /\ largest_idle_task' = None /\ offset' = 0
      /\ UNCHANGED <<stack, handle_table, request, read_head, write_head>>
  BY DEF EvictEnd
<1>2. /\ TypedHeap(heap) /\ Tiled(heap) /\ read_head = 0 /\ write_head = 0
      /\ tasks \in [TaskTable -> TaskStatus]
      /\ request \in Requests \X ClientIds
  BY <1>1 DEF HInv, HeapInv, CallInv
<1>3. WellFormed(heap') /\ UsedBlocks(heap') = UsedBlocks(heap)
  BY <1>1, <1>2, SweepWellFormed, SweepKeepsUsed
<1>4. tasks' \in [TaskTable -> TaskStatus]
  BY <1>1, <1>2 DEF TaskStatus
<1> QED  BY <1>1, <1>2, <1>3, <1>4, SettledAgain DEF HInv

LEMMA LastTryKeeps ==
  ASSUME HInv, LastTry
  PROVE  HInv'
<1> DEFINE n == request[1]
           t == request[2]
<1>1. /\ pc = "last" /\ Attempt(n, t)
      /\ pc' = "idle" /\ request' = << >>
      /\ UNCHANGED <<read_head, write_head, largest_idle_task, offset>>
  BY DEF LastTry
<1>2. WellFormed(heap) /\ read_head = 0 /\ write_head = 0 /\ offset = 0
  BY <1>1, Settled
<1>3. n \in Int /\ t \in Int
  BY <1>1, TaskAssumption DEF HInv, CallInv
<1>4. stack' = stack
  BY <1>1 DEF Attempt
<1> HIDE DEF n, t
<1>5. WellFormed(heap') /\ tasks' \in [TaskTable -> TaskStatus] /\ Names(handle_table', UsedBlocks(heap'))
  BY <1>1, <1>2, <1>3, AttemptKeeps DEF HInv
<1> QED  BY <1>1, <1>2, <1>4, <1>5, SettledAgain DEF HInv, CallInv

LEMMA HandlesInitKeeps ==
  ASSUME HInv, HandlesInit
  PROVE  HInv'
<1>1. /\ pc = "idle" /\ heap' = InitialHeap /\ handle_table' = NoHandles
      /\ UNCHANGED <<tasks, stack>> /\ UNCHANGED lvars
  BY DEF HandlesInit, MemInit
<1>2. WellFormed(heap) /\ read_head = 0 /\ write_head = 0 /\ offset = 0
  BY <1>1, Settled
<1>3. WellFormed(heap') /\ Names(handle_table', UsedBlocks(heap'))
  BY <1>1, InitialHeapWellFormed, NoneNamed
<1> QED  BY <1>1, <1>2, <1>3, SettledAgain DEF HInv, CallInv, lvars

LEMMA SpawningKeeps ==
  ASSUME HInv, Spawning
  PROVE  HInv'
<1>1. pc = "idle" /\ UNCHANGED <<heap, handle_table>> /\ UNCHANGED lvars
  BY DEF Spawning, TaskSpawn, TaskReturn
<1>2. WellFormed(heap) /\ read_head = 0 /\ write_head = 0 /\ offset = 0
  BY <1>1, Settled
<1>3. tasks \in [TaskTable -> TaskStatus] /\ stack \in Seq(SpawnIds)
  BY DEF HInv
<1>4. tasks' \in [TaskTable -> TaskStatus] /\ stack' \in Seq(SpawnIds)
  <2>1. ASSUME NEW t \in SpawnIds, NEW q \in Quotas, TaskSpawn(t, q)
        PROVE  tasks' \in [TaskTable -> TaskStatus] /\ stack' \in Seq(SpawnIds)
    <3>1. SpawnedTask(q) \in TaskStatus
      BY TaskAssumption DEF SpawnedTask, TaskStatus
    <3>2. tasks' \in [TaskTable -> TaskStatus]
      BY <1>3, <2>1, <3>1 DEF TaskSpawn
    <3>3. stack' \in Seq(SpawnIds)
      BY <1>3, <2>1 DEF TaskSpawn
    <3> QED  BY <3>2, <3>3
  <2>2. ASSUME TaskReturn
        PROVE  tasks' \in [TaskTable -> TaskStatus] /\ stack' \in Seq(SpawnIds)
    <3>1. tasks' \in [TaskTable -> TaskStatus]
      BY <1>3, <2>2 DEF TaskReturn, TaskStatus
    <3>2. stack' \in Seq(SpawnIds)
      BY <1>3, <2>2 DEF TaskReturn
    <3> QED  BY <3>1, <3>2
  <2> QED  BY <2>1, <2>2 DEF Spawning
<1> QED  BY <1>1, <1>2, <1>4, SettledAgain DEF HInv, CallInv, lvars

LEMMA NextHInv == HInv /\ [HNext]_hvars => HInv'
<1> SUFFICES ASSUME HInv, [HNext]_hvars
             PROVE  HInv'
  OBVIOUS
<1>1. CASE UNCHANGED hvars
  BY <1>1 DEF hvars, lvars, HInv, HeapInv, EvictInv, CallInv
<1>2. CASE HNext
  BY <1>2, MemAllocHandleKeeps, MemAllocOrCompactKeeps, MemFreeHandleKeeps, MemCompactKeeps,
     CompactUsedKeeps, CompactFreeKeeps, CompactEndKeeps, RetryKeeps, EvictOwnedKeeps,
     EvictOtherKeeps, EvictEndKeeps, LastTryKeeps, HandlesInitKeeps, SpawningKeeps
  DEF HNext, Step
<1> QED  BY <1>1, <1>2

\* The invariant holds in every reachable state: between calls and at every header of
\* the walks of mem_compact and free_task_blocks.
THEOREM Invariance == HSpec => []HInv
BY InitHInv, NextHInv, PTL DEF HSpec

\* Every variable of the handle allocator keeps its type.
THEOREM TypeCorrect == HSpec => []HandleTypeOK
BY Invariance, HInvTyped, PTL

\* Valid handles and live blocks correspond one to one, for every ram[] and every table:
\* also while mem_compact moves the blocks, and while free_task_blocks takes them away.
THEOREM HandlesFollowBlocks == HSpec => []HandlesNameBlocks
BY Invariance, HInvNames, PTL

\* No walk of the heap loses its way, whatever mem_compact has moved and
\* free_task_blocks has freed before it.
THEOREM AlwaysSound == HSpec => []HeapSound
BY Invariance, HInvSound, PTL

-----------------------------------------------------------------------------
(***************************************************************************)
(* What a compaction achieves, and what the attempt after it can rely on.  *)
(***************************************************************************)

\* All of ram[] is in blocks before and after: what the live ones do not take is free.
LEMMA CompactEndConsolidates ==
  ASSUME HInv, CompactEnd
  PROVE  /\ MemStats(heap').num_free_fragments <= 1
         /\ BlockBytes(heap', FreeBlocks(heap')) = DEVICE_RAM - BlockBytes(heap, UsedBlocks(heap))
         /\ \A o \in UsedBlocks(heap'), p \in FreeBlocks(heap') : o < p
<1>1. Compacting(heap, write_head, read_head) /\ read_head >= DEVICE_RAM
  BY DEF CompactEnd, HInv, HeapInv
<1>2. PICK g : g = SweepAndMerge(Completed(heap, write_head))
  OBVIOUS
<1>3. /\ WellFormed(g)
      /\ UsedBlocks(g) = UsedBlocks(heap)
      /\ \A o \in UsedBlocks(heap) : g[o].size = heap[o].size
      /\ \A o \in UsedBlocks(g) : o < write_head
      /\ FreeBlocks(g) \subseteq {write_head}
  BY <1>1, <1>2, CompactionGathers
<1>4. heap' = g
  BY <1>2, CompactionSteps DEF HInv, CompactEnd
<1>5. TypedHeap(heap) /\ TypedHeap(g) /\ Tiled(g)
  BY <1>1, <1>3 DEF Compacting, WellFormed
<1>6. BlockBytes(g, FreeBlocks(g)) = DEVICE_RAM - BlockBytes(heap, UsedBlocks(heap))
  <2>1. BlockBytes(g, FreeBlocks(g)) + BlockBytes(g, UsedBlocks(g)) = DEVICE_RAM
    BY <1>5, BytesOfFreeAndUsed
  <2>2. BlockBytes(g, UsedBlocks(g)) = BlockBytes(heap, UsedBlocks(heap))
    <3>1. UsedBlocks(heap) \in SUBSET DOMAIN heap
      BY DEF UsedBlocks
    <3> QED  BY <1>3, <1>5, <3>1, BytesOfSame
  <2>3. BlockBytes(g, FreeBlocks(g)) \in Nat /\ BlockBytes(heap, UsedBlocks(heap)) \in Nat
    <3>1. FreeBlocks(g) \in SUBSET DOMAIN g /\ UsedBlocks(heap) \in SUBSET DOMAIN heap
      BY DEF FreeBlocks, UsedBlocks
    <3> QED  BY <1>5, <3>1, BytesOfOne
  <2> QED  BY <2>1, <2>2, <2>3
<1>7. MemStats(g).num_free_fragments <= 1
  <2>1. MemStats(g).num_free_fragments = Cardinality(FreeBlocks(g))
    BY DEF MemStats
  <2>2. IsFiniteSet({write_head}) /\ Cardinality({write_head}) = 1
    BY FS_Singleton
  <2>3. Cardinality(FreeBlocks(g)) <= Cardinality({write_head})
    BY <1>3, <2>2, FS_Subset
  <2> QED  BY <2>1, <2>2, <2>3
<1>8. \A o \in UsedBlocks(g), p \in FreeBlocks(g) : o < p
  BY <1>3
<1> QED  BY <1>4, <1>6, <1>7, <1>8

\* No step inside mem_compact takes a block past another one: the block that moves stays
\* behind those that moved before it, which end where it goes.
LEMMA MovesKeepOrder ==
  ASSUME HInv, [HNext]_hvars, pc = "compact",
         NEW i \in Named, NEW j \in Named, handle_table[i] < handle_table[j]
  PROVE  handle_table'[i] < handle_table'[j]
<1> DEFINE r == read_head
           w == write_head
<1>1. /\ Names(handle_table, UsedBlocks(heap)) /\ Compacting(heap, w, r)
      /\ i \in HandleRange /\ j \in HandleRange
      /\ handle_table[i] # None /\ handle_table[j] # None
  BY DEF HInv, HeapInv, Named
<1>2. CASE CompactUsed
  <2>1. /\ r \in UsedBlocks(heap)
        /\ handle_table' = [x \in HandleRange |->
             IF handle_table[x] = r + HEADER_SIZE THEN w + HEADER_SIZE ELSE handle_table[x]]
    BY <1>1, <1>2, RepointedShape DEF CompactUsed
  <2>2. /\ handle_table[i] \in Nat /\ handle_table[j] \in Nat
        /\ handle_table[i] - HEADER_SIZE \in UsedBlocks(heap)
        /\ handle_table[j] - HEADER_SIZE \in UsedBlocks(heap)
    BY <1>1, EntryTyped DEF Names
  <2>3. w \in Nat /\ r \in Nat /\ w <= r
    BY <1>1 DEF Compacting, HEADER_SIZE, MIN_ALLOC
  <2>4. CASE handle_table[j] = r + HEADER_SIZE
    <3>1. handle_table[i] - HEADER_SIZE < r
      BY <2>2, <2>3, <2>4 DEF HEADER_SIZE
    <3>2. handle_table[i] - HEADER_SIZE < w
      BY <1>1, <2>2, <2>3, <3>1 DEF Compacting, UsedBlocks, HEADER_SIZE
    <3> QED  BY <1>1, <2>1, <2>2, <2>3, <2>4, <3>2 DEF HEADER_SIZE
  <2>5. CASE handle_table[j] # r + HEADER_SIZE
    BY <1>1, <2>1, <2>2, <2>3, <2>5 DEF HEADER_SIZE
  <2> QED  BY <2>4, <2>5
<1>3. CASE ~ CompactUsed
  <2>1. handle_table' = handle_table
    BY <1>3 DEF HNext, Step, hvars, MemAllocHandle, MemAllocOrCompact, MemFreeHandle, MemCompact,
       CompactFree, CompactEnd, Retry, EvictOwned, EvictOther, EvictEnd, LastTry, HandlesInit,
       Spawning
  <2> QED  BY <2>1
<1> QED  BY <1>2, <1>3

\* Every compaction ends with at most one FREE block, behind all live ones, that has
\* every byte they do not take: no hole is left and none is lost.  At every step of it
\* the live blocks are in the order they were in.
THEOREM CompactionHolds == HSpec => CompactionConsolidates
<1> DEFINE Kept ==
             /\ CompactEnd =>
                  /\ MemStats(heap').num_free_fragments <= 1
                  /\ BlockBytes(heap', FreeBlocks(heap'))
                       = DEVICE_RAM - BlockBytes(heap, UsedBlocks(heap))
                  /\ \A o \in UsedBlocks(heap'), p \in FreeBlocks(heap') : o < p
             /\ pc = "compact" =>
                  \A i, j \in Named :
                    handle_table[i] < handle_table[j] => handle_table'[i] < handle_table'[j]
<1>1. HInv /\ [HNext]_hvars => Kept
  BY CompactEndConsolidates, MovesKeepOrder
<1> QED  BY <1>1, Invariance, PTL DEF HSpec, CompactionConsolidates, Kept

\* A heap whose FREE blocks are one at most serves whatever MayRefuse does not excuse:
\* that block has all the bytes there are, and its quota check is the stricter one.
LEMMA ConsolidatedServes ==
  ASSUME WellFormed(heap), \A o, p \in FreeBlocks(heap) : o = p,
         tasks \in [TaskTable -> TaskStatus],
         NEW n \in Int, NEW t \in Int, ~ MayRefuse(n, t)
  PROVE  Served(n, t)
<1> DEFINE room == DEVICE_RAM - BlockBytes(heap, UsedBlocks(heap)) - HEADER_SIZE
           need == AlignBytes(n)
           o == FindFreeBlock(heap, need, 1)
           given == GivenSize(heap[o].size, need)
           unused == UnusedHandles(handle_table)
           block == MemAllocResult(heap, tasks, n, t, 1)
           Refuse(table) == [ptr |-> None, heap |-> heap, tasks |-> table]
<1>1. /\ unused # {} /\ ValidRequest(n)
      /\ ~ (need > room) /\ ~ ReachesQuota(tasks, t, GivenSize(room, need))
  BY DEF MayRefuse
<1>2. need \in Nat /\ room \in Int
  <2>1. BlockBytes(heap, UsedBlocks(heap)) \in Nat
    BY BytesOfOne DEF UsedBlocks, WellFormed
  <2> QED  BY <1>1, <2>1, ValidRequestAligned, HeapAssumption DEF HEADER_SIZE
<1>3. o \in FreeBlocks(heap) /\ heap[o].size = room
  <2> HIDE DEF room, need
  <2>1. need <= room
    BY <1>1, <1>2
  <2> QED  BY <1>2, <2>1, OneFreeBlockFound DEF room
<1> HIDE DEF room, need, o
<1>4. ~ ReachesQuota(tasks, t, given) /\ given \in Int /\ need <= given
  <2>1. need <= room
    BY <1>1, <1>2
  <2> QED  BY <1>1, <1>2, <1>3, <2>1 DEF GivenSize
<1> HIDE DEF given
<1>5. ~ OverQuota(tasks, t, need)
  <2>1. TaskIsActive(tasks, t) => t \in TaskTable
    BY TaskAssumption DEF TaskIsActive, TaskTable
  <2> QED  BY <1>2, <1>4, <2>1 DEF OverQuota, ReachesQuota, TaskStatus, HEADER_SIZE
<1>6. o \in Nat /\ o # None /\ o + HEADER_SIZE # None
  <2>1. o \in Nat
    BY <1>3, OffsetBounds DEF WellFormed, FreeBlocks
  <2> QED  BY <2>1 DEF None, HEADER_SIZE
<1>7. block = [ptr |-> o + HEADER_SIZE,
               heap |-> Occupy(heap, o, need, t),
               tasks |-> Charge(tasks, t, given)]
  <2>1. block = IF ~ ValidRequest(n) THEN Refuse(tasks)
                ELSE IF OverQuota(tasks, t, need) THEN Refuse(Flag(tasks, t))
                ELSE IF o = None THEN Refuse(tasks)
                ELSE IF ReachesQuota(tasks, t, given) THEN Refuse(Flag(tasks, t))
                ELSE [ptr |-> o + HEADER_SIZE,
                      heap |-> Occupy(heap, o, need, t),
                      tasks |-> Charge(tasks, t, given)]
    BY DEF MemAllocResult, need, o, given
  <2> HIDE DEF block
  <2> QED  BY <1>1, <1>4, <1>5, <1>6, <2>1
<1>8. block.ptr # None
  <2> HIDE DEF block
  <2> QED  BY <1>6, <1>7
<1>9. Min(unused) # None
  <2>1. unused \in SUBSET Nat
    BY DEF UnusedHandles, HandleRange
  <2>2. Min(unused) \in Nat
    BY <1>1, <2>1, MinOfNats
  <2> QED  BY <2>2 DEF None
<1>10. MemAllocHandleResult(n, t).handle = Min(unused)
  <2> HIDE DEF block, unused
  <2>1. MemAllocHandleResult(n, t)
          = [handle |-> Min(unused), heap |-> block.heap, tasks |-> block.tasks,
             table |-> [handle_table EXCEPT ![Min(unused)] = block.ptr]]
    BY <1>1, <1>8 DEF MemAllocHandleResult, block, unused
  <2> QED  BY <2>1
<1> QED  BY <1>9, <1>10 DEF Served

LEMMA RetryServes ==
  ASSUME HInv, Retry, ~ Served(request[1], request[2])
  PROVE  MayRefuse(request[1], request[2])
<1>1. pc = "retry"
  BY DEF Retry
<1>2. /\ WellFormed(heap) /\ \A o, p \in FreeBlocks(heap) : o = p
      /\ tasks \in [TaskTable -> TaskStatus]
      /\ request[1] \in Int /\ request[2] \in Int
  BY <1>1, Settled, TaskAssumption DEF HInv, HeapInv, CallInv
<1> QED  BY <1>2, ConsolidatedServes

\* Fragmentation is never what refuses the attempt that follows the compaction of
\* mem_alloc_or_compact: it fails for want of a handle, of a valid size, of bytes in all
\* of ram[] or of quota, whatever tasks run and whatever the heap looked like before.
\* The attempt that follows an eviction has no such promise.
THEOREM RetryHolds == HSpec => CompactedRetryServed
<1>1. HInv => (Retry /\ ~ Served(request[1], request[2]) => MayRefuse(request[1], request[2]))
  BY RetryServes
<1> QED  BY <1>1, Invariance, PTL DEF CompactedRetryServed

-----------------------------------------------------------------------------
(***************************************************************************)
(* The handle interface implements HandleStore.                            *)
(***************************************************************************)

\* The task whose blocks are being taken away, if there is one.
Doomed == IF pc = "evict" THEN largest_idle_task ELSE None

\* The entries that name a block of another task than v.
Shown(h, table, v) ==
  {i \in HandleRange : table[i] # None /\ h[table[i] - HEADER_SIZE].task_id # v}

ObjectAt(h, o) == [size |-> h[o].size, owner |-> h[o].task_id]

View(h, table, v) == [i \in Shown(h, table, v) |-> ObjectAt(h, table[i] - HEADER_SIZE)]

\* The tasks that are active, as a set.
Running(ts) == {t \in TaskTable : TaskIsActive(ts, t)}

\* The mapping, handle by handle: between evictions nothing is hidden.
LEMMA ObjectsView == HInv => Objects = View(heap, handle_table, Doomed)
<1> SUFFICES ASSUME HInv
             PROVE  Objects = View(heap, handle_table, Doomed)
  OBVIOUS
<1> DEFINE doomed == {i \in Named : pc = "evict" /\ heap[BlockOf(i)].task_id = largest_idle_task}
<1>1. \A i \in HandleRange : handle_table[i] # None
                               => heap[handle_table[i] - HEADER_SIZE].task_id # None
  <2>1. Names(handle_table, UsedBlocks(heap)) /\ TypedHeap(heap)
    BY DEF HInv, HeapInv, Compacting
  <2>2. \A o \in UsedBlocks(heap) : heap[o].task_id # None
    BY <2>1 DEF UsedBlocks, TypedHeap, Headers, None
  <2> QED  BY <2>1, <2>2 DEF Names
<1>2. Named \ doomed = Shown(heap, handle_table, Doomed)
  <2>1. CASE pc = "evict"
    BY <2>1 DEF Named, BlockOf, Shown, Doomed
  <2>2. CASE pc # "evict"
    BY <1>1, <2>2 DEF Named, BlockOf, Shown, Doomed
  <2> QED  BY <2>1, <2>2
<1>3. Objects = [i \in Named \ doomed |-> ObjectAt(heap, handle_table[i] - HEADER_SIZE)]
  BY DEF Objects, ObjectAt, BlockOf
<1> QED  BY <1>2, <1>3 DEF View

LEMMA ObjectsViewNext ==
  ASSUME HInv'
  PROVE  Objects' = View(heap', handle_table', Doomed')
<1>1. HInv' => (Objects = View(heap, handle_table, Doomed))'
  BY ObjectsView, PTL
<1> QED  BY <1>1 DEF View, Shown, ObjectAt

\* Two states that show the same headers behind the same handles show the same objects.
LEMMA SameView ==
  ASSUME NEW h, NEW table, NEW v, NEW h2, NEW table2, NEW v2,
         Shown(h2, table2, v2) = Shown(h, table, v),
         \A i \in Shown(h, table, v) :
           h2[table2[i] - HEADER_SIZE] = h[table[i] - HEADER_SIZE]
  PROVE  View(h2, table2, v2) = View(h, table, v)
BY DEF View, ObjectAt

\* None of the counters says whether a task is active.
LEMMA RunningKept ==
  ASSUME NEW ts \in [TaskTable -> TaskStatus]
  PROVE  /\ \A t \in Int : TaskIsActive(ts, t) => Running(Flag(ts, t)) = Running(ts)
         /\ \A t \in Int : \A given : Running(Charge(ts, t, given)) = Running(ts)
         /\ \A h, o : Running(Refund(h, ts, o)) = Running(ts)
<1>1. \A t : TaskIsActive(ts, t) /\ t \in Int => t \in TaskTable
  BY TaskAssumption DEF TaskIsActive, TaskTable
<1>2. ASSUME NEW t \in Int, TaskIsActive(ts, t)
      PROVE  Running(Flag(ts, t)) = Running(ts)
  BY <1>1, <1>2 DEF Flag, TaskStatus, Running, TaskIsActive
<1>3. ASSUME NEW t \in Int, NEW given
      PROVE  Running(Charge(ts, t, given)) = Running(ts)
  BY <1>1 DEF Charge, TaskStatus, Running, TaskIsActive
<1>4. ASSUME NEW h, NEW o
      PROVE  Running(Refund(h, ts, o)) = Running(ts)
  BY DEF Refund, TaskStatus, Running, TaskIsActive
<1> QED  BY <1>2, <1>3, <1>4

\* What is shown has a size and an owner.
ViewTyped == \A i \in DOMAIN Objects : Objects[i] \in Store!Object

LEMMA HInvViewTyped == HInv => ViewTyped
<1> SUFFICES ASSUME HInv
             PROVE  ViewTyped
  OBVIOUS
<1>1. Names(handle_table, UsedBlocks(heap)) /\ TypedHeap(heap)
  BY DEF HInv, HeapInv, Compacting
<1>2. \A o \in UsedBlocks(heap) : heap[o] \in Headers
  BY <1>1 DEF UsedBlocks, TypedHeap
<1>3. \A o \in UsedBlocks(heap) : ObjectAt(heap, o) \in Store!Object
  BY <1>2 DEF ObjectAt, Headers, Store!Object
<1>4. \A i \in Shown(heap, handle_table, Doomed) :
        ObjectAt(heap, handle_table[i] - HEADER_SIZE) \in Store!Object
  BY <1>1, <1>3 DEF Names, Shown
<1> QED  BY <1>4, ObjectsView DEF View, ViewTyped

LEMMA ViewTypedNext ==
  ASSUME HInv'
  PROVE  \A i \in DOMAIN Objects' : Objects'[i] \in Store!Object
<1>1. HInv' => ViewTyped'
  BY HInvViewTyped, PTL
<1> QED  BY <1>1 DEF ViewTyped

\* The call under way, phase by phase.
CallShown ==
  /\ pc = "idle" => Call = "none"
  /\ pc = "compact" => Call = IF request = << >> THEN "compact" ELSE "request"
  /\ pc = "retry" => Call = "request"
  /\ pc \in {"evict", "last"} => Call = "reclaimed"

LEMMA ArgumentsNotNone == \A x \in Requests \X ClientIds : x # << >>
<1> SUFFICES ASSUME NEW n \in Requests, NEW t \in ClientIds
             PROVE  <<n, t>> # << >>
  OBVIOUS
<1>1. Len(<<n, t>>) = 2 /\ Len(<< >>) = 0
  OBVIOUS
<1> QED  BY <1>1

LEMMA HInvCall == HInv => CallShown
<1> SUFFICES ASSUME HInv
             PROVE  CallShown
  OBVIOUS
<1>1. pc = "retry" => request # << >>
  BY ArgumentsNotNone DEF HInv, CallInv
<1> QED  BY <1>1 DEF CallShown, Call

LEMMA HInvCallNext ==
  ASSUME HInv'
  PROVE  /\ pc' = "idle" => Call' = "none"
         /\ pc' = "compact" => Call' = IF request' = << >> THEN "compact" ELSE "request"
         /\ pc' = "retry" => Call' = "request"
         /\ pc' \in {"evict", "last"} => Call' = "reclaimed"
<1>1. HInv' => CallShown'
  BY HInvCall, PTL
<1> QED  BY <1>1 DEF CallShown

\* A request that is served creates an object behind an unused handle.
LEMMA GrantedCreates ==
  ASSUME HInv, HInv', GrantedSome, WellFormed(heap), Doomed = None, Doomed' = None,
         Call # "compact", Call' = "none"
  PROVE  \E i \in HandleRange : Store!Create(i)
<1>1. PICK i \in HandleRange, o \in FreeBlocks(heap), need \in BlockSizes, t \in Int :
        Granted(i, o, need, t)
  BY DEF GrantedSome
<1>2. /\ handle_table[i] = None
      /\ need <= heap[o].size
      /\ heap' = Occupy(heap, o, need, t)
      /\ tasks' = Charge(tasks, t, GivenSize(heap[o].size, need))
      /\ handle_table' = [handle_table EXCEPT ![i] = o + HEADER_SIZE]
  BY <1>1 DEF Granted
<1>3. \A p \in UsedBlocks(heap) : p # o /\ heap'[p] = heap[p]
  BY <1>2, OccupyAddsUsed
<1>4. /\ Names(handle_table, UsedBlocks(heap)) /\ Names(handle_table', UsedBlocks(heap'))
      /\ tasks \in [TaskTable -> TaskStatus]
  BY DEF HInv
<1>5. /\ Objects = View(heap, handle_table, None)
      /\ Objects' = View(heap', handle_table', None)
  BY ObjectsView, ObjectsViewNext
<1>6. \A j \in HandleRange : j # i => handle_table'[j] = handle_table[j]
  BY <1>2, <1>4 DEF Names
<1>7. o \in Nat /\ handle_table'[i] = o + HEADER_SIZE /\ (o + HEADER_SIZE) - HEADER_SIZE = o
      /\ o + HEADER_SIZE # None
  BY <1>2, <1>4, OffsetBounds DEF Names, WellFormed, FreeBlocks, HEADER_SIZE, None
<1>8. o \in UsedBlocks(heap') /\ heap'[o].task_id # None
  <2>1. UsedBlocks(heap') = UsedBlocks(heap) \cup {o}
    BY <1>2, OccupyAddsUsed
  <2>2. TypedHeap(heap')
    BY DEF HInv, HeapInv, Compacting
  <2> QED  BY <2>1, <2>2 DEF TypedHeap, UsedBlocks, Headers, None
<1>9. \A j \in HandleRange \ {i} : handle_table[j] # None =>
        heap'[handle_table'[j] - HEADER_SIZE] = heap[handle_table[j] - HEADER_SIZE]
  BY <1>3, <1>4, <1>6 DEF Names
<1>10. DOMAIN Objects' = DOMAIN Objects \cup {i} /\ i \notin DOMAIN Objects
  BY <1>2, <1>5, <1>6, <1>7, <1>8, <1>9 DEF View, Shown
<1>11. \A j \in DOMAIN Objects : Objects'[j] = Objects[j]
  BY <1>2, <1>5, <1>6, <1>9, <1>10 DEF View, Shown, ObjectAt
<1>12. Objects' \in [DOMAIN Objects \cup {i} -> Store!Object]
  <2>1. Objects' = [j \in DOMAIN Objects' |-> Objects'[j]]
    BY <1>5 DEF View
  <2> QED  BY <1>10, <2>1, ViewTypedNext
<1>13. Active' = Active
  <2>1. Running(tasks') = Running(tasks)
    BY <1>2, <1>4, RunningKept
  <2> QED  BY <2>1 DEF Active, Running
<1> QED  BY <1>10, <1>11, <1>12, <1>13 DEF Store!Create

\* A request that is refused shows nothing, whatever flag it raises.
LEMMA RefusedHidden ==
  ASSUME HInv, HInv', Refused, Doomed' = Doomed
  PROVE  UNCHANGED <<Objects, Active>>
<1>1. tasks \in [TaskTable -> TaskStatus]
  BY DEF HInv
<1>2. Running(tasks') = Running(tasks)
  BY <1>1, RunningKept DEF Refused
<1>3. Active' = Active
  BY <1>2 DEF Active, Running
<1>4. Objects' = Objects
  BY ObjectsView, ObjectsViewNext DEF Refused
<1> QED  BY <1>3, <1>4

\* mem_free_handle deletes the object of its handle.
LEMMA FreeDeletes ==
  ASSUME HInv, HInv', NEW i \in HandleRange, MemFreeHandle(i)
  PROVE  Store!Delete(i)
<1> DEFINE o == handle_table[i] - HEADER_SIZE
<1>1. /\ pc = "idle" /\ pc' = "idle" /\ Freeable(heap, handle_table[i])
      /\ heap' = Release(heap, o) /\ tasks' = Refund(heap, tasks, o)
      /\ handle_table' = [handle_table EXCEPT ![i] = None]
  BY DEF MemFreeHandle, MemFree, lvars
<1>2. WellFormed(heap)
  BY <1>1, Settled
<1>3. o \in UsedBlocks(heap) /\ handle_table[i] # None
  BY <1>1 DEF Freeable, HEADER_SIZE, None
<1>4. Names(handle_table, UsedBlocks(heap)) /\ tasks \in [TaskTable -> TaskStatus]
  BY DEF HInv
<1>5. \A j \in HandleRange \ {i} : handle_table[j] # None =>
        /\ handle_table'[j] = handle_table[j]
        /\ handle_table[j] - HEADER_SIZE \in UsedBlocks(heap) \ {o}
  <2>1. \A j \in HandleRange : handle_table[j] # None =>
          (handle_table[j] - HEADER_SIZE) + HEADER_SIZE = handle_table[j]
    BY <1>4, EntryTyped
  <2> QED  BY <1>1, <1>3, <1>4, <2>1 DEF Names
<1> HIDE DEF o
<1>6. \A p \in UsedBlocks(heap) \ {o} : heap'[p] = heap[p]
  BY <1>1, <1>2, <1>3, ReleaseWellFormed
<1>7. Doomed = None /\ Doomed' = None
  BY <1>1 DEF Doomed
<1>8. /\ Objects = View(heap, handle_table, None)
      /\ Objects' = View(heap', handle_table', None)
  BY <1>7, ObjectsView, ObjectsViewNext
<1>9. handle_table'[i] = None /\ \A j \in HandleRange \ {i} : handle_table'[j] = handle_table[j]
  BY <1>1, <1>4 DEF Names
<1>10. Shown(heap', handle_table', None) = Shown(heap, handle_table, None) \ {i}
  BY <1>5, <1>6, <1>9 DEF Shown
<1>11. \A j \in Shown(heap', handle_table', None) :
         heap'[handle_table'[j] - HEADER_SIZE] = heap[handle_table[j] - HEADER_SIZE]
  BY <1>5, <1>6, <1>9, <1>10 DEF Shown
<1>12. Objects' = [j \in DOMAIN Objects \ {i} |-> Objects[j]]
  BY <1>8, <1>10, <1>11 DEF View, ObjectAt
<1>13. i \in DOMAIN Objects
  <2>1. heap[o].task_id # None
    BY <1>2, <1>3 DEF WellFormed, TypedHeap, UsedBlocks, Headers, None
  <2> QED  BY <1>3, <1>8, <2>1 DEF View, Shown, o
<1>14. Active' = Active
  <2>1. Running(tasks') = Running(tasks)
    BY <1>1, <1>4, RunningKept
  <2> QED  BY <2>1 DEF Active, Running
<1>15. Call = "none" /\ Call' = "none"
  BY <1>1, HInvCall, HInvCallNext DEF CallShown
<1> QED  BY <1>12, <1>13, <1>14, <1>15 DEF Store!Delete, Store!Without

\* A move of mem_compact shows nothing: the entry follows its block.
LEMMA MoveHidden ==
  ASSUME HInv, HInv', CompactUsed
  PROVE  UNCHANGED <<Objects, Active>>
<1> DEFINE r == read_head
           w == write_head
<1>1. /\ pc = "compact" /\ pc' = "compact" /\ tasks' = tasks
      /\ r \in UsedBlocks(heap)
      /\ heap' = Transferred(heap, r, w)
      /\ handle_table' = Repointed(handle_table, r + HEADER_SIZE, w + HEADER_SIZE)
  BY CompactionSteps DEF HInv, CompactUsed
<1>2. Compacting(heap, w, r) /\ Names(handle_table, UsedBlocks(heap))
  BY <1>1 DEF HInv, HeapInv
<1>3. MovesOnly(heap, w, r, heap')
  BY <1>1, <1>2, MovedShape
<1>4. /\ w \in Offsets /\ heap'[w] = heap[r]
      /\ \A p \in UsedBlocks(heap) \ {r} : heap'[p] = heap[p]
  BY <1>3 DEF MovesOnly, UsedBlocks
<1>5. handle_table' = [i \in HandleRange |->
        IF handle_table[i] = r + HEADER_SIZE THEN w + HEADER_SIZE ELSE handle_table[i]]
  BY <1>1, <1>2, RepointedShape
<1>6. /\ w + HEADER_SIZE # None /\ (w + HEADER_SIZE) - HEADER_SIZE = w
      /\ r + HEADER_SIZE # None /\ (r + HEADER_SIZE) - HEADER_SIZE = r
  BY <1>1, <1>2, <1>4, HeapAssumption DEF Names, Offsets, HEADER_SIZE, MIN_ALLOC, None
<1>7. ASSUME NEW i \in HandleRange
      PROVE  /\ handle_table'[i] = None <=> handle_table[i] = None
             /\ handle_table[i] # None =>
                  heap'[handle_table'[i] - HEADER_SIZE] = heap[handle_table[i] - HEADER_SIZE]
  <2>1. CASE handle_table[i] = r + HEADER_SIZE
    <3>1. handle_table'[i] = w + HEADER_SIZE
      BY <1>5, <2>1
    <3> QED  BY <1>4, <1>6, <2>1, <3>1
  <2>2. CASE handle_table[i] # r + HEADER_SIZE
    <3>1. handle_table'[i] = handle_table[i]
      BY <1>5, <2>2
    <3>2. handle_table[i] # None => handle_table[i] - HEADER_SIZE \in UsedBlocks(heap) \ {r}
      BY <1>2, <2>2, EntryTyped DEF Names
    <3> QED  BY <1>4, <3>1, <3>2
  <2> QED  BY <2>1, <2>2
<1>8. Doomed' = Doomed
  BY <1>1 DEF Doomed
<1>9. /\ Shown(heap', handle_table', Doomed') = Shown(heap, handle_table, Doomed)
      /\ \A i \in Shown(heap, handle_table, Doomed) :
           heap'[handle_table'[i] - HEADER_SIZE] = heap[handle_table[i] - HEADER_SIZE]
  BY <1>7, <1>8 DEF Shown
<1>10. Objects' = Objects
  <2>1. View(heap', handle_table', Doomed') = View(heap, handle_table, Doomed)
    BY <1>9, SameView
  <2> QED  BY <2>1, ObjectsView, ObjectsViewNext
<1>11. Active' = Active
  BY <1>1 DEF Active
<1> QED  BY <1>10, <1>11

\* Nor does a step that leaves the table and the live blocks as they are.
LEMMA BlocksKeptHidden ==
  ASSUME HInv, HInv', handle_table' = handle_table, Doomed' = Doomed, Active' = Active,
         \A o \in UsedBlocks(heap) : heap'[o] = heap[o]
  PROVE  UNCHANGED <<Objects, Active>>
<1>1. Names(handle_table, UsedBlocks(heap))
  BY DEF HInv
<1>2. \A i \in HandleRange : handle_table[i] # None
        => heap'[handle_table[i] - HEADER_SIZE] = heap[handle_table[i] - HEADER_SIZE]
  BY <1>1 DEF Names
<1>3. /\ Shown(heap', handle_table', Doomed') = Shown(heap, handle_table, Doomed)
      /\ \A i \in Shown(heap, handle_table, Doomed) :
           heap'[handle_table'[i] - HEADER_SIZE] = heap[handle_table[i] - HEADER_SIZE]
  BY <1>2 DEF Shown
<1>4. Objects' = Objects
  <2>1. View(heap', handle_table', Doomed') = View(heap, handle_table, Doomed)
    BY <1>3, SameView
  <2> QED  BY <2>1, ObjectsView, ObjectsViewNext
<1> QED  BY <1>4

LEMMA WalkHidden ==
  ASSUME HInv, HInv', MemCompact \/ CompactFree \/ CompactEnd \/ EvictOther
  PROVE  UNCHANGED <<Objects, Active>>
<1>1. handle_table' = handle_table /\ Doomed' = Doomed /\ Active' = Active
  BY DEF MemCompact, CompactFree, CompactEnd, EvictOther, Doomed, Active
<1>2. \A o \in UsedBlocks(heap) : heap'[o] = heap[o]
  <2>1. CASE CompactFree
    <3>1. heap' = [p \in DOMAIN heap \ {read_head} |-> heap[p]] /\ read_head \in FreeBlocks(heap)
      BY <2>1 DEF CompactFree
    <3> QED  BY <3>1 DEF UsedBlocks, FreeBlocks, STATUS_USED, STATUS_FREE
  <2>2. CASE CompactEnd
    <3> DEFINE g == Completed(heap, write_head)
    <3>1. /\ pc = "compact" /\ read_head >= DEVICE_RAM
          /\ heap' = SweepAndMerge(g)
      BY <2>2, CompactionSteps DEF HInv, CompactEnd
    <3>2. Compacting(heap, write_head, read_head)
      BY <3>1 DEF HInv, HeapInv
    <3>3. /\ TypedHeap(g) /\ Tiled(g) /\ UsedBlocks(g) = UsedBlocks(heap)
          /\ \A o \in UsedBlocks(heap) : g[o] = heap[o]
      BY <3>1, <3>2, CompactionCloses
    <3> HIDE DEF g
    <3> QED  BY <3>1, <3>3, SweepKeepsUsed
  <2> QED  BY <2>1, <2>2 DEF MemCompact, EvictOther
<1> QED  BY <1>1, <1>2, BlocksKeptHidden

\* What free_task_blocks takes away is gone from sight already.
LEMMA EvictionHidden ==
  ASSUME HInv, HInv', EvictOwned
  PROVE  UNCHANGED <<Objects, Active>>
<1> DEFINE o == offset
           v == largest_idle_task
<1>1. /\ pc = "evict" /\ pc' = "evict" /\ v' = v
      /\ o \in OwnedBlocks(heap, v)
      /\ heap' = [heap EXCEPT ![o] = Header(heap[o].size, STATUS_FREE, 0)]
      /\ tasks' = [tasks EXCEPT ![v].current_alloc = @ - (heap[o].size + HEADER_SIZE)]
      /\ handle_table' = Cancelled(handle_table, o + HEADER_SIZE)
  <2>1. o \in DOMAIN heap
    BY DEF EvictOwned, OwnedBlocks, UsedBlocks
  <2> QED  BY <2>1 DEF EvictOwned
<1>2. /\ Names(handle_table, UsedBlocks(heap)) /\ TypedHeap(heap)
      /\ tasks \in [TaskTable -> TaskStatus]
      /\ v \in TaskTable
  BY <1>1 DEF HInv, HeapInv, EvictInv
<1>3. Doomed = v /\ Doomed' = v
  BY <1>1 DEF Doomed
<1>4. o \in UsedBlocks(heap) /\ heap[o].task_id = v
  BY <1>1 DEF OwnedBlocks
<1>5. (o + HEADER_SIZE) - HEADER_SIZE = o
  BY <1>2, <1>4, HeapAssumption DEF Names, Offsets, HEADER_SIZE, MIN_ALLOC
<1>6. \A p \in UsedBlocks(heap) \ {o} : heap'[p] = heap[p]
  BY <1>1 DEF UsedBlocks
<1>7. ASSUME NEW i \in HandleRange
      PROVE  /\ i \in Shown(heap', handle_table', v) <=> i \in Shown(heap, handle_table, v)
             /\ i \in Shown(heap, handle_table, v) =>
                  heap'[handle_table'[i] - HEADER_SIZE] = heap[handle_table[i] - HEADER_SIZE]
  <2>1. CASE handle_table[i] = o + HEADER_SIZE
    <3>1. handle_table'[i] = None
      BY <1>1, <2>1 DEF Cancelled
    <3>2. i \notin Shown(heap, handle_table, v)
      BY <1>4, <1>5, <2>1 DEF Shown
    <3> QED  BY <3>1, <3>2 DEF Shown
  <2>2. CASE handle_table[i] # o + HEADER_SIZE
    <3>1. handle_table'[i] = handle_table[i]
      BY <1>1, <2>2 DEF Cancelled
    <3>2. handle_table[i] # None => handle_table[i] - HEADER_SIZE \in UsedBlocks(heap) \ {o}
      BY <1>2, <2>2, EntryTyped DEF Names
    <3> QED  BY <1>6, <3>1, <3>2 DEF Shown
  <2> QED  BY <2>1, <2>2
<1>8. /\ Shown(heap', handle_table', v) = Shown(heap, handle_table, v)
      /\ \A i \in Shown(heap, handle_table, v) :
           heap'[handle_table'[i] - HEADER_SIZE] = heap[handle_table[i] - HEADER_SIZE]
  <2>1. Shown(heap', handle_table', v) \subseteq HandleRange
        /\ Shown(heap, handle_table, v) \subseteq HandleRange
    BY DEF Shown
  <2> QED  BY <1>7, <2>1
<1>9. Objects' = Objects
  <2>1. View(heap', handle_table', v) = View(heap, handle_table, v)
    BY <1>8, SameView
  <2> QED  BY <1>3, <2>1, ObjectsView, ObjectsViewNext
<1>10. Active' = Active
  BY <1>1, <1>2 DEF Active, TaskIsActive, TaskStatus
<1> QED  BY <1>9, <1>10

\* When the walk has come to the end, nothing of the victim is left to be shown.
LEMMA EvictEndHidden ==
  ASSUME HInv, HInv', EvictEnd
  PROVE  UNCHANGED <<Objects, Active>>
<1> DEFINE v == largest_idle_task
<1>1. /\ pc = "evict" /\ pc' = "last"
      /\ offset >= DEVICE_RAM - HEADER_SIZE
      /\ heap' = SweepAndMerge(heap)
      /\ tasks' = [tasks EXCEPT ![v].active = FALSE]
      /\ handle_table' = handle_table
  BY DEF EvictEnd
<1>2. /\ Names(handle_table, UsedBlocks(heap)) /\ TypedHeap(heap) /\ Tiled(heap)
      /\ tasks \in [TaskTable -> TaskStatus]
      /\ v \in TaskTable \ {0} /\ ~ TaskIsActive(tasks, v)
      /\ \A o \in OwnedBlocks(heap, v) : offset <= o
      /\ offset \in 0 .. DEVICE_RAM
  BY <1>1, HInvTyped DEF HInv, HeapInv, EvictInv, HandleTypeOK
<1>3. Doomed = v /\ Doomed' = None
  BY <1>1 DEF Doomed
<1>4. \A o \in UsedBlocks(heap) : heap'[o] = heap[o] /\ heap[o].task_id \notin {v, None}
  <2>1. ASSUME NEW o \in UsedBlocks(heap)
        PROVE  heap[o].task_id # v
    <3>1. o \in Nat /\ o + HEADER_SIZE + MIN_ALLOC <= DEVICE_RAM
      BY <1>2, OffsetBounds DEF UsedBlocks
    <3>2. ~ (offset <= o)
      BY <1>1, <1>2, <3>1, HeapAssumption DEF HEADER_SIZE, MIN_ALLOC
    <3> QED  BY <1>2, <3>2 DEF OwnedBlocks
  <2>2. \A o \in UsedBlocks(heap) : heap[o].task_id # None
    BY <1>2 DEF UsedBlocks, TypedHeap, Headers, None
  <2>3. \A o \in UsedBlocks(heap) : heap'[o] = heap[o]
    BY <1>1, <1>2, SweepKeepsUsed
  <2> QED  BY <2>1, <2>2, <2>3
<1>5. \A i \in HandleRange : handle_table[i] # None =>
        /\ heap'[handle_table[i] - HEADER_SIZE] = heap[handle_table[i] - HEADER_SIZE]
        /\ heap[handle_table[i] - HEADER_SIZE].task_id \notin {v, None}
  BY <1>2, <1>4 DEF Names
<1>6. /\ Shown(heap', handle_table', None) = Shown(heap, handle_table, v)
      /\ \A i \in Shown(heap, handle_table, v) :
           heap'[handle_table'[i] - HEADER_SIZE] = heap[handle_table[i] - HEADER_SIZE]
  BY <1>1, <1>5 DEF Shown
<1>7. Objects' = Objects
  <2>1. View(heap', handle_table', None) = View(heap, handle_table, v)
    BY <1>6, SameView
  <2> QED  BY <1>3, <2>1, ObjectsView, ObjectsViewNext
<1>8. Active' = Active
  BY <1>1, <1>2 DEF Active, TaskIsActive, TaskStatus, TaskTable
<1> QED  BY <1>7, <1>8

\* The choice of a victim reclaims its objects, and nothing else.
LEMMA VictimReclaimed ==
  ASSUME HInv, HInv', Refused, Doomed = None, Call = "request", Call' = "reclaimed",
         NEW v, Doomed' = v, v \in TaskTable, ~ TaskIsActive(tasks', v)
  PROVE  Store!Reclaim(v)
<1>1. heap' = heap /\ handle_table' = handle_table /\ tasks \in [TaskTable -> TaskStatus]
  BY DEF Refused, HInv
<1>2. Active' = Active
  <2>1. Running(tasks') = Running(tasks)
    BY <1>1, RunningKept DEF Refused
  <2> QED  BY <2>1 DEF Active, Running
<1>3. v \notin Active
  <2>1. v \notin Active'
    BY DEF Active
  <2> QED  BY <1>2, <2>1
<1>4. Objects = View(heap, handle_table, None) /\ Objects' = View(heap, handle_table, v)
  BY <1>1, ObjectsView, ObjectsViewNext
<1>5. v # None
  BY DEF TaskTable, None
<1>6. Shown(heap, handle_table, v)
        = {i \in Shown(heap, handle_table, None) : heap[handle_table[i] - HEADER_SIZE].task_id # v}
  <2>1. \A i \in HandleRange : handle_table[i] # None
          => heap[handle_table[i] - HEADER_SIZE].task_id # None
    <3>1. Names(handle_table, UsedBlocks(heap)) /\ TypedHeap(heap)
      BY DEF HInv, HeapInv, Compacting
    <3>2. \A o \in UsedBlocks(heap) : heap[o].task_id # None
      BY <3>1 DEF UsedBlocks, TypedHeap, Headers, None
    <3> QED  BY <3>1, <3>2 DEF Names
  <2> QED  BY <2>1 DEF Shown
<1>7. Objects' = [i \in {j \in DOMAIN Objects : Objects[j].owner # v} |-> Objects[i]]
  BY <1>4, <1>6 DEF View, ObjectAt
<1>8. {j \in DOMAIN Objects : Objects[j].owner # v} = DOMAIN Objects \ Store!OwnedBy(v)
  BY DEF Store!OwnedBy
<1> QED  BY <1>2, <1>3, <1>7, <1>8 DEF Store!Reclaim, Store!Without

LEMMA RetryImplements ==
  ASSUME HInv, HInv', Retry
  PROVE  Store!Next
<1> DEFINE n == request[1]
           t == request[2]
<1>1. /\ pc = "retry" /\ Attempt(n, t)
      /\ largest_idle_task' = IF Served(n, t) THEN None ELSE Victim(tasks')
      /\ pc' = IF largest_idle_task' = None THEN "idle" ELSE "evict"
  BY DEF Retry
<1>2. WellFormed(heap) /\ Doomed = None /\ Call = "request"
  BY <1>1, Settled, HInvCall DEF Doomed, CallShown
<1>3. n \in Int /\ t \in Int
  BY <1>1, TaskAssumption DEF HInv, CallInv
<1> HIDE DEF n, t
<1>4. IF Served(n, t) THEN GrantedSome ELSE Refused
  BY <1>1, <1>2, <1>3, AttemptOutcome
<1>5. CASE Served(n, t)
  <2>1. Doomed' = None /\ Call' = "none"
    BY <1>1, <1>5, HInvCallNext DEF Doomed
  <2>2. \E i \in HandleRange : Store!Create(i)
    BY <1>2, <1>4, <1>5, <2>1, GrantedCreates
  <2> QED  BY <2>2 DEF Store!Next
<1>6. CASE ~ Served(n, t) /\ Victim(tasks') = None
  <2>1. Doomed' = None /\ Call' = "none"
    BY <1>1, <1>6, HInvCallNext DEF Doomed
  <2>2. UNCHANGED <<Objects, Active>>
    BY <1>2, <1>4, <1>6, <2>1, RefusedHidden
  <2> QED  BY <1>2, <2>1, <2>2 DEF Store!Next, Store!Return
<1>7. CASE ~ Served(n, t) /\ Victim(tasks') # None
  <2>1. Doomed' = Victim(tasks') /\ Call' = "reclaimed"
    BY <1>1, <1>7, HInvCallNext DEF Doomed
  <2>2. Victim(tasks') \in TaskTable /\ ~ TaskIsActive(tasks', Victim(tasks'))
    <3>1. tasks' \in [TaskTable -> TaskStatus]
      BY DEF HInv
    <3> QED  BY <1>7, <3>1, VictimIdle
  <2>3. Store!Reclaim(Victim(tasks'))
    BY <1>2, <1>4, <1>7, <2>1, <2>2, VictimReclaimed
  <2> QED  BY <2>2, <2>3 DEF Store!Next
<1> QED  BY <1>5, <1>6, <1>7

\* A request that takes one step creates an object or shows nothing.
LEMMA MemAllocHandleImplements ==
  ASSUME HInv, HInv', NEW n \in Requests, NEW t \in ClientIds, MemAllocHandle(n, t)
  PROVE  (\E i \in HandleRange : Store!Create(i)) \/ UNCHANGED <<Objects, Active, Call>>
<1>1. pc = "idle" /\ pc' = "idle" /\ Attempt(n, t)
  BY DEF MemAllocHandle, lvars
<1>2. /\ WellFormed(heap) /\ Doomed = None /\ Doomed' = None
      /\ Call = "none" /\ Call' = "none" /\ n \in Int /\ t \in Int
  BY <1>1, Settled, HInvCall, HInvCallNext, TaskAssumption DEF Doomed, CallShown
<1>3. GrantedSome \/ Refused
  BY <1>1, <1>2, AttemptOutcome
<1>4. CASE GrantedSome
  BY <1>2, <1>4, GrantedCreates
<1>5. CASE Refused
  BY <1>2, <1>5, RefusedHidden
<1> QED  BY <1>3, <1>4, <1>5

\* A request whose first attempt fails goes on.
LEMMA MemAllocOrCompactImplements ==
  ASSUME HInv, HInv', NEW n \in Requests, NEW t \in ClientIds, MemAllocOrCompact(n, t)
  PROVE  Store!Begin
<1>1. /\ pc = "idle" /\ pc' = "compact" /\ request' = <<n, t>>
      /\ ~ Served(n, t) /\ Attempt(n, t)
  BY DEF MemAllocOrCompact
<1>2. request' # << >>
  BY <1>1, ArgumentsNotNone
<1>3. /\ WellFormed(heap) /\ Doomed = None /\ Doomed' = None
      /\ Call = "none" /\ Call' = "request" /\ n \in Int /\ t \in Int
  BY <1>1, <1>2, Settled, HInvCall, HInvCallNext, TaskAssumption DEF Doomed, CallShown
<1>4. Refused
  BY <1>1, <1>3, AttemptOutcome
<1>5. UNCHANGED <<Objects, Active>>
  BY <1>3, <1>4, RefusedHidden
<1> QED  BY <1>3, <1>5 DEF Store!Begin

LEMMA LastTryImplements ==
  ASSUME HInv, HInv', LastTry
  PROVE  Store!Next
<1> DEFINE n == request[1]
           t == request[2]
<1>1. pc = "last" /\ pc' = "idle" /\ Attempt(n, t)
  BY DEF LastTry
<1>2. /\ WellFormed(heap) /\ Doomed = None /\ Doomed' = None
      /\ Call = "reclaimed" /\ Call' = "none"
  BY <1>1, Settled, HInvCall, HInvCallNext DEF Doomed, CallShown
<1>3. n \in Int /\ t \in Int
  BY <1>1, TaskAssumption DEF HInv, CallInv
<1> HIDE DEF n, t
<1>4. GrantedSome \/ Refused
  BY <1>1, <1>2, <1>3, AttemptOutcome
<1>5. CASE GrantedSome
  <2>1. \E i \in HandleRange : Store!Create(i)
    BY <1>2, <1>5, GrantedCreates
  <2> QED  BY <2>1 DEF Store!Next
<1>6. CASE Refused
  <2>1. UNCHANGED <<Objects, Active>>
    BY <1>2, <1>6, RefusedHidden
  <2> QED  BY <1>2, <2>1 DEF Store!Next, Store!Return
<1> QED  BY <1>4, <1>5, <1>6

\* mem_compact begins and ends; alone, it is a call of its own.
LEMMA MemCompactBegins ==
  ASSUME HInv, HInv', MemCompact
  PROVE  Store!Begin
<1>1. pc = "idle" /\ pc' = "compact" /\ request' = << >>
  BY DEF MemCompact, HInv, CallInv
<1>2. Call = "none" /\ Call' = "compact"
  BY <1>1, HInvCall, HInvCallNext DEF CallShown
<1>3. UNCHANGED <<Objects, Active>>
  BY WalkHidden
<1> QED  BY <1>2, <1>3 DEF Store!Begin

LEMMA CompactEndImplements ==
  ASSUME HInv, HInv', CompactEnd
  PROVE  [Store!Next]_<<Objects, Active, Call>>
<1>1. /\ pc = "compact" /\ request' = request
      /\ pc' = IF request = << >> THEN "idle" ELSE "retry"
  BY DEF CompactEnd
<1>2. IF request = << >> THEN Call = "compact" /\ Call' = "none" ELSE Call' = Call
  BY <1>1, HInvCall, HInvCallNext DEF CallShown
<1>3. UNCHANGED <<Objects, Active>>
  BY WalkHidden
<1>4. CASE request = << >>
  BY <1>2, <1>3, <1>4 DEF Store!Next, Store!Return
<1> QED  BY <1>2, <1>3, <1>4

\* The steps of the walks show nothing at all.
LEMMA WalkStepsHidden ==
  ASSUME HInv, HInv', CompactUsed \/ CompactFree \/ EvictOwned \/ EvictOther \/ EvictEnd
  PROVE  UNCHANGED <<Objects, Active, Call>>
<1>1. UNCHANGED <<Objects, Active>>
  BY WalkHidden, MoveHidden, EvictionHidden, EvictEndHidden
<1>2. Call' = Call
  <2>1. request' = request
    BY DEF CompactUsed, CompactFree, EvictOwned, EvictOther, EvictEnd
  <2>2. \/ pc = "compact" /\ pc' = "compact"
        \/ pc = "evict" /\ pc' \in {"evict", "last"}
    BY DEF CompactUsed, CompactFree, EvictOwned, EvictOther, EvictEnd
  <2> QED  BY <2>1, <2>2, HInvCall, HInvCallNext DEF CallShown
<1> QED  BY <1>1, <1>2

LEMMA SpawningTurns ==
  ASSUME HInv, HInv', Spawning
  PROVE  Store!Turn
<1>1. /\ heap' = heap /\ handle_table' = handle_table /\ Doomed' = Doomed
      /\ pc = "idle" /\ pc' = "idle"
  BY DEF Spawning, TaskSpawn, TaskReturn, lvars, Doomed
<1>2. Objects' = Objects
  BY <1>1, ObjectsView, ObjectsViewNext
<1>3. Active' \subseteq TaskTable
  BY DEF Active
<1>4. Call = "none" /\ Call' = "none"
  BY <1>1, HInvCall, HInvCallNext DEF CallShown
<1> QED  BY <1>2, <1>3, <1>4 DEF Store!Turn

LEMMA HandlesInitClears ==
  ASSUME HInv, HInv', HandlesInit
  PROVE  Store!Clear
<1>1. handle_table' = NoHandles /\ tasks' = tasks /\ pc = "idle" /\ pc' = "idle"
  BY DEF HandlesInit, MemInit, lvars
<1>2. Shown(heap', handle_table', Doomed') = {}
  BY <1>1 DEF Shown, NoHandles
<1>3. Objects' = [i \in {} |-> 0]
  BY <1>2, ObjectsViewNext DEF View
<1>4. Active' = Active
  BY <1>1 DEF Active
<1>5. Call = "none" /\ Call' = "none"
  BY <1>1, HInvCall, HInvCallNext DEF CallShown
<1> QED  BY <1>3, <1>4, <1>5 DEF Store!Clear, Store!NoObjects

LEMMA StoreStep ==
  ASSUME HInv, HInv', [HNext]_hvars
  PROVE  [Store!Next]_<<Objects, Active, Call>>
<1>1. CASE UNCHANGED hvars
  BY <1>1 DEF hvars, lvars, Objects, Active, Call, Named, BlockOf
<1>2. ASSUME NEW n \in Requests, NEW t \in ClientIds,
             MemAllocHandle(n, t) \/ MemAllocOrCompact(n, t)
      PROVE  [Store!Next]_<<Objects, Active, Call>>
  BY <1>2, MemAllocHandleImplements, MemAllocOrCompactImplements DEF Store!Next
<1>3. ASSUME NEW i \in HandleRange, MemFreeHandle(i)
      PROVE  Store!Next
  BY <1>3, FreeDeletes DEF Store!Next
<1>4. CASE MemCompact \/ HandlesInit \/ Spawning
  BY <1>4, MemCompactBegins, HandlesInitClears, SpawningTurns DEF Store!Next
<1>5. CASE CompactUsed \/ CompactFree \/ EvictOwned \/ EvictOther \/ EvictEnd
  BY <1>5, WalkStepsHidden
<1>6. CASE CompactEnd \/ Retry \/ LastTry
  BY <1>6, CompactEndImplements, RetryImplements, LastTryImplements
<1> QED  BY <1>1, <1>2, <1>3, <1>4, <1>5, <1>6 DEF HNext, Step

\* Between the calls nothing but mem_free_handle and a reset makes an object go away:
\* the other steps that start there create one, or leave the objects as they are.
LEMMA OnlyFreeDeletes ==
  ASSUME HInv, HInv', [HNext]_hvars, NEW i \in HandleRange, Store!Delete(i)
  PROVE  MemFreeHandle(i) \/ HandlesInit
<1>1. /\ Call = "none" /\ i \in DOMAIN Objects
      /\ Objects' = [j \in DOMAIN Objects \ {i} |-> Objects[j]]
  BY DEF Store!Delete, Store!Without
<1>2. DOMAIN Objects' = DOMAIN Objects \ {i}
  BY <1>1
<1>3. pc = "idle"
  BY <1>1, HInvCall DEF CallShown, HInv, CallInv, Phases
<1>4. Objects' # Objects
  BY <1>1, <1>2
<1>5. ~ Step
  BY <1>3 DEF Step, CompactUsed, CompactFree, CompactEnd, Retry, EvictOwned, EvictOther, EvictEnd,
     LastTry
<1>6. CASE UNCHANGED hvars
  BY <1>4, <1>6 DEF hvars, lvars, Objects, Named, BlockOf
<1>7. ASSUME NEW n \in Requests, NEW t \in ClientIds,
             MemAllocHandle(n, t) \/ MemAllocOrCompact(n, t)
      PROVE  FALSE
  <2>1. ASSUME NEW k \in HandleRange, Store!Create(k)
        PROVE  FALSE
    <3>1. DOMAIN Objects' = DOMAIN Objects \cup {k}
      BY <2>1 DEF Store!Create
    <3> QED  BY <1>1, <1>2, <3>1
  <2>2. (\E k \in HandleRange : Store!Create(k)) \/ Store!Begin
    BY <1>4, <1>7, MemAllocHandleImplements, MemAllocOrCompactImplements
  <2> QED  BY <1>4, <2>1, <2>2 DEF Store!Begin
<1>8. ASSUME NEW j \in HandleRange, MemFreeHandle(j)
      PROVE  i = j
  <2>1. Store!Delete(j)
    BY <1>8, FreeDeletes
  <2>2. j \in DOMAIN Objects /\ Objects' = [k \in DOMAIN Objects \ {j} |-> Objects[k]]
    BY <2>1 DEF Store!Delete, Store!Without
  <2>3. DOMAIN Objects' = DOMAIN Objects \ {j}
    BY <2>2
  <2> QED  BY <1>1, <1>2, <2>2, <2>3
<1>9. CASE MemCompact \/ Spawning
  BY <1>4, <1>9, MemCompactBegins, SpawningTurns DEF Store!Begin, Store!Turn
<1> QED  BY <1>5, <1>6, <1>7, <1>8, <1>9 DEF HNext

LEMMA StoreInit == HInit => Store!Init
<1> SUFFICES ASSUME HInit
             PROVE  Store!Init
  OBVIOUS
<1>1. /\ handle_table = NoHandles /\ tasks = [t \in TaskTable |-> UnusedTask]
      /\ pc = "idle"
  BY DEF HInit, Init
<1>2. Named = {}
  BY <1>1 DEF Named, NoHandles
<1>3. Objects = [i \in {} |-> 0]
  BY <1>2 DEF Objects
<1>4. Active = {}
  BY <1>1 DEF Active, TaskIsActive, UnusedTask
<1>5. Call = "none"
  BY <1>1 DEF Call
<1> QED  BY <1>3, <1>4, <1>5 DEF Store!Init, Store!NoObjects

\* The handle interface is a HandleStore for every ram[], every table and every number
\* of tasks.  An object keeps its size and its owner until its handle is deleted, and
\* only mem_free_handle or a reset deletes it while no call is under way.  No step of a
\* mem_compact changes what the callers see.  A mem_alloc_or_compact takes away nothing,
\* or the objects of one idle task, all at once, before any of its blocks is reused and
\* not a second time.
THEOREM HandleStoreImplemented == HSpec => ImplementsHandleStore
<1>1. HInv /\ HInv' /\ [HNext]_hvars => [Store!Next]_<<Objects, Active, Call>>
  BY StoreStep
<1>2. HInv /\ HInv' /\ [HNext]_hvars
        => [\A i \in HandleRange : Store!Delete(i) => MemFreeHandle(i) \/ HandlesInit]_hvars
  BY OnlyFreeDeletes
<1> QED  BY <1>1, <1>2, StoreInit, Invariance, PTL
         DEF HSpec, ImplementsHandleStore, Store!Spec, Store!svars

=============================================================================
