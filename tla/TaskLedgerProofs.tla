--------------------------- MODULE TaskLedgerProofs ---------------------------
(***************************************************************************)
(* Theorems about TaskLedger, for every size of ram[], every number of     *)
(* tasks and every choice of ids, quotas, requests and strategies.         *)
(*                                                                         *)
(* The heap invariant is inductive only as a whole: sweep_and_merge makes  *)
(* the heap Coalesced because it is Tiled, and a split keeps it Coalesced  *)
(* because it was.  HeapLemmas proves both; here they meet the actions.    *)
(***************************************************************************)
EXTENDS TaskLedger, CallLemmas

\* The inductive invariant.
IInv == TypeOK /\ HeapTiled /\ HeapCoalesced

LEMMA IInvWellFormed == IInv => WellFormed(heap)
BY DEF IInv, TypeOK, HeapTiled, HeapCoalesced, WellFormed

-----------------------------------------------------------------------------
(***************************************************************************)
(* What a step does.                                                       *)
(***************************************************************************)

\* A call that gives or takes no block; it may raise the flag of an active task.
Refused ==
  /\ UNCHANGED <<heap, stack>>
  /\ \/ UNCHANGED tasks
     \/ \E t \in Int : TaskIsActive(tasks, t) /\ tasks' = Flag(tasks, t)

\* mem_alloc gives FREE block o to task t.
Granted(o, need, t) ==
  LET given == GivenSize(heap[o].size, need)
  IN  /\ t \in ClientIds
      /\ need <= heap[o].size
      /\ heap' = Occupy(heap, o, need, t)
      /\ ~ ReachesQuota(tasks, t, given)
      /\ tasks' = Charge(tasks, t, given)
      /\ UNCHANGED stack

\* mem_free takes USED block o back.
Released(o) ==
  /\ heap' = Release(heap, o)
  /\ tasks' = Refund(heap, tasks, o)
  /\ UNCHANGED stack

\* Every step is one of these.
LEMMA Outcomes ==
  ASSUME IInv, [LNext]_lvars
  PROVE  \/ Refused
         \/ \E o \in FreeBlocks(heap), need \in BlockSizes, t \in Int : Granted(o, need, t)
         \/ \E o \in UsedBlocks(heap) : Released(o)
         \/ stack = << >> /\ MemInit
         \/ \E t \in SpawnIds, q \in Quotas : TaskSpawn(t, q)
         \/ TaskReturn
<1>1. WellFormed(heap)
  BY IInvWellFormed
<1>2. CASE UNCHANGED lvars
  BY <1>2 DEF lvars, Refused
<1>3. ASSUME NEW n \in Requests, NEW t \in ClientIds, NEW s \in Strategies,
             MemAlloc(n, t, s)
      PROVE  \/ Refused
             \/ \E o \in FreeBlocks(heap), need \in BlockSizes, u \in Int : Granted(o, need, u)
  <2> DEFINE r == MemAllocResult(heap, tasks, n, t, s)
  <2>1. heap' = r.heap /\ tasks' = r.tasks /\ stack' = stack
    BY <1>3 DEF MemAlloc
  <2>2. n \in Int /\ t \in Int
    BY TaskAssumption
  <2>3. \/ /\ r.ptr = None
           /\ r.heap = heap
           /\ r.tasks = tasks \/ (TaskIsActive(tasks, t) /\ r.tasks = Flag(tasks, t))
        \/ \E o \in FreeBlocks(heap), need \in BlockSizes :
             /\ need <= heap[o].size
             /\ r.ptr = o + HEADER_SIZE
             /\ r.heap = Occupy(heap, o, need, t)
             /\ ~ ReachesQuota(tasks, t, GivenSize(heap[o].size, need))
             /\ r.tasks = Charge(tasks, t, GivenSize(heap[o].size, need))
    BY <1>1, <2>2, MemAllocOutcome
  <2> HIDE DEF r
  <2> QED  BY <2>1, <2>2, <2>3 DEF Refused, Granted
<1>4. ASSUME NEW o \in DOMAIN heap, MemFree(o + HEADER_SIZE)
      PROVE  o \in UsedBlocks(heap) /\ Released(o)
  <2>1. (o + HEADER_SIZE) - HEADER_SIZE = o
    BY <1>1, BlockBounds DEF WellFormed, HEADER_SIZE
  <2> QED  BY <1>4, <2>1 DEF MemFree, Freeable, Released
<1> QED  BY <1>2, <1>3, <1>4 DEF LNext, Next

-----------------------------------------------------------------------------
(***************************************************************************)
(* The inductive invariant.                                                *)
(***************************************************************************)

LEMMA InitIInv == LInit => IInv
<1> SUFFICES ASSUME LInit
             PROVE  IInv
  OBVIOUS
<1>1. heap = InitialHeap /\ tasks = [t \in TaskTable |-> UnusedTask] /\ stack = << >>
  BY DEF LInit, Init
<1>2. WellFormed(heap)
  BY <1>1, InitialHeapWellFormed
<1>3. tasks \in [TaskTable -> TaskStatus]
  BY <1>1 DEF UnusedTask, TaskStatus
<1>4. stack \in Seq(SpawnIds)
  BY <1>1
<1> QED  BY <1>2, <1>3, <1>4 DEF IInv, TypeOK, HeapTiled, HeapCoalesced, WellFormed

LEMMA NextIInv == IInv /\ [LNext]_lvars => IInv'
<1> SUFFICES ASSUME IInv, [LNext]_lvars
             PROVE  IInv'
  OBVIOUS
<1>1. /\ WellFormed(heap)
      /\ tasks \in [TaskTable -> TaskStatus]
      /\ stack \in Seq(SpawnIds)
  BY IInvWellFormed DEF IInv, TypeOK
<1>2. SUFFICES /\ WellFormed(heap')
               /\ tasks' \in [TaskTable -> TaskStatus]
               /\ stack' \in Seq(SpawnIds)
  BY DEF IInv, TypeOK, HeapTiled, HeapCoalesced, WellFormed
<1>3. CASE Refused
  BY <1>1, <1>3, LedgerTyped DEF Refused
<1>4. ASSUME NEW o \in FreeBlocks(heap), NEW need \in BlockSizes, NEW t \in Int,
             Granted(o, need, t)
      PROVE  /\ WellFormed(heap')
             /\ tasks' \in [TaskTable -> TaskStatus]
             /\ stack' = stack
  <2>1. WellFormed(heap')
    BY <1>1, <1>4, OccupyWellFormed DEF Granted
  <2>2. heap[o].size \in BlockSizes
    BY <1>1, BlockBounds DEF WellFormed, FreeBlocks
  <2>3. GivenSize(heap[o].size, need) \in Int
    BY <1>4, <2>2, GivenSizeFits DEF BlockSizes, Granted
  <2> QED  BY <1>1, <1>4, <2>1, <2>3, LedgerTyped DEF Granted
<1>5. ASSUME NEW o \in UsedBlocks(heap), Released(o)
      PROVE  /\ WellFormed(heap')
             /\ tasks' \in [TaskTable -> TaskStatus]
             /\ stack' = stack
  <2>1. heap[o].size \in Int /\ heap[o].task_id \in Int
    BY <1>1 DEF WellFormed, TypedHeap, Headers, BlockSizes, UsedBlocks
  <2> QED  BY <1>1, <1>5, <2>1, ReleaseWellFormed, LedgerTyped DEF Released
<1>6. CASE MemInit
  BY <1>1, <1>6, InitialHeapWellFormed DEF MemInit
<1>7. ASSUME NEW t \in SpawnIds, NEW q \in Quotas, TaskSpawn(t, q)
      PROVE  /\ WellFormed(heap')
             /\ tasks' \in [TaskTable -> TaskStatus]
             /\ stack' \in Seq(SpawnIds)
  <2>1. SpawnedTask(q) \in TaskStatus
    BY TaskAssumption DEF SpawnedTask, TaskStatus
  <2>2. tasks' \in [TaskTable -> TaskStatus]
    BY <1>1, <1>7, <2>1 DEF TaskSpawn
  <2>3. stack' \in Seq(SpawnIds)
    BY <1>1, <1>7 DEF TaskSpawn
  <2> QED  BY <1>1, <1>7, <2>2, <2>3 DEF TaskSpawn
<1>8. CASE TaskReturn
  <2>1. tasks' \in [TaskTable -> TaskStatus]
    BY <1>1, <1>8 DEF TaskReturn, TaskStatus
  <2>2. stack' \in Seq(SpawnIds)
    BY <1>1, <1>8 DEF TaskReturn
  <2> QED  BY <1>1, <1>8, <2>1, <2>2 DEF TaskReturn
<1> QED  BY <1>1, <1>3, <1>4, <1>5, <1>6, <1>7, <1>8, Outcomes

\* TypeOK, HeapTiled and HeapCoalesced hold together in every reachable state.
THEOREM Invariance == LSpec => []IInv
BY InitIInv, NextIInv, PTL DEF LSpec

\* Every variable of the allocator has its type: ram[] always parses into headers
\* with aligned sizes at aligned offsets, tasks[] holds TaskStatus entries.
THEOREM TypeCorrect == LSpec => []TypeOK
<1>1. IInv => TypeOK
  BY DEF IInv
<1> QED  BY <1>1, Invariance, PTL

\* Splits and merges never break the walk: after every sequence of mem_alloc,
\* mem_free, mem_init and task_spawn calls the headers tile ram[].
THEOREM AlwaysTiled == LSpec => []HeapTiled
<1>1. IInv => HeapTiled
  BY DEF IInv
<1> QED  BY <1>1, Invariance, PTL

\* mem_free merges in both directions and mem_alloc never undoes it: two FREE
\* blocks are never neighbours.
THEOREM AlwaysCoalesced == LSpec => []HeapCoalesced
<1>1. IInv => HeapCoalesced
  BY DEF IInv
<1> QED  BY <1>1, Invariance, PTL

-----------------------------------------------------------------------------
(***************************************************************************)
(* The quota.                                                              *)
(***************************************************************************)

LEMMA NextPeak == IInv /\ PeakWithinQuota /\ [LNext]_lvars => PeakWithinQuota'
<1> SUFFICES ASSUME IInv, PeakWithinQuota, [LNext]_lvars, NEW u \in TaskTable
             PROVE  /\ tasks'[u].current_alloc <= tasks'[u].bytes_allocated
                    /\ \/ tasks'[u].bytes_allocated = 0
                       \/ tasks'[u].bytes_allocated < tasks'[u].quota_bytes
  BY DEF PeakWithinQuota
<1>1. WellFormed(heap) /\ tasks \in [TaskTable -> TaskStatus] /\ tasks[u] \in TaskStatus
  BY IInvWellFormed DEF IInv, TypeOK
<1>2. /\ tasks[u].current_alloc <= tasks[u].bytes_allocated
      /\ tasks[u].bytes_allocated = 0 \/ tasks[u].bytes_allocated < tasks[u].quota_bytes
  BY DEF PeakWithinQuota
<1>3. CASE Refused
  BY <1>1, <1>2, <1>3 DEF Refused, Flag, TaskStatus
<1>4. ASSUME NEW o \in FreeBlocks(heap), NEW need \in BlockSizes, NEW t \in Int,
             Granted(o, need, t)
      PROVE  /\ tasks'[u].current_alloc <= tasks'[u].bytes_allocated
             /\ \/ tasks'[u].bytes_allocated = 0
                \/ tasks'[u].bytes_allocated < tasks'[u].quota_bytes
  <2> DEFINE given == GivenSize(heap[o].size, need)
             current == tasks[t].current_alloc + given + HEADER_SIZE
  <2>1. given \in Int
    <3>1. heap[o].size \in BlockSizes
      BY <1>1, BlockBounds DEF WellFormed, FreeBlocks
    <3> QED  BY <1>4, <3>1, GivenSizeFits DEF BlockSizes, Granted
  <2>2. tasks' = Charge(tasks, t, given) /\ ~ ReachesQuota(tasks, t, given)
    BY <1>4 DEF Granted
  <2> HIDE DEF given
  <2>3. CASE ~ TaskIsActive(tasks, t) \/ t # u
    BY <1>1, <1>2, <2>2, <2>3 DEF Charge
  <2>4. CASE TaskIsActive(tasks, t) /\ t = u
    <3>1. current \in Int /\ current < tasks[u].quota_bytes
      BY <1>1, <2>1, <2>2, <2>4 DEF ReachesQuota, TaskStatus, HEADER_SIZE
    <3>2. tasks' = [tasks EXCEPT ![u].current_alloc = current,
                                 ![u].bytes_allocated = IF current > @ THEN current ELSE @]
      BY <2>2, <2>4 DEF Charge
    <3> HIDE DEF current
    <3>3. /\ tasks'[u].current_alloc = current
          /\ tasks'[u].bytes_allocated = IF current > tasks[u].bytes_allocated
                                         THEN current ELSE tasks[u].bytes_allocated
          /\ tasks'[u].quota_bytes = tasks[u].quota_bytes
      BY <1>1, <3>2 DEF TaskStatus
    <3> QED  BY <1>1, <1>2, <3>1, <3>3 DEF TaskStatus
  <2> QED  BY <2>3, <2>4
<1>5. ASSUME NEW o \in UsedBlocks(heap), Released(o)
      PROVE  /\ tasks'[u].current_alloc <= tasks'[u].bytes_allocated
             /\ \/ tasks'[u].bytes_allocated = 0
                \/ tasks'[u].bytes_allocated < tasks'[u].quota_bytes
  <2>1. heap[o].size \in Nat
    BY <1>1 DEF WellFormed, TypedHeap, Headers, BlockSizes, UsedBlocks, MIN_ALLOC
  <2>2. /\ \/ tasks'[u].current_alloc = tasks[u].current_alloc
           \/ tasks'[u].current_alloc = tasks[u].current_alloc - (heap[o].size + HEADER_SIZE)
        /\ tasks'[u].bytes_allocated = tasks[u].bytes_allocated
        /\ tasks'[u].quota_bytes = tasks[u].quota_bytes
    BY <1>1, <1>5 DEF Released, Refund, TaskStatus
  <2> QED  BY <1>1, <1>2, <2>1, <2>2 DEF TaskStatus, HEADER_SIZE
<1>6. CASE MemInit
  BY <1>2, <1>6 DEF MemInit
<1>7. ASSUME NEW t \in SpawnIds, NEW q \in Quotas, TaskSpawn(t, q)
      PROVE  /\ tasks'[u].current_alloc <= tasks'[u].bytes_allocated
             /\ \/ tasks'[u].bytes_allocated = 0
                \/ tasks'[u].bytes_allocated < tasks'[u].quota_bytes
  BY <1>1, <1>2, <1>7 DEF TaskSpawn, SpawnedTask
<1>8. CASE TaskReturn
  BY <1>1, <1>2, <1>8 DEF TaskReturn, TaskStatus
<1> QED  BY <1>3, <1>4, <1>5, <1>6, <1>7, <1>8, Outcomes

\* The counter that meters a task never passes the reported peak, and a peak is
\* below the quota of its spawn: no order of allocations, frees by any caller and
\* nested spawns gets a block past the second check of mem_alloc.
THEOREM QuotaHolds == LSpec => []PeakWithinQuota
<1>1. LInit => PeakWithinQuota
  BY DEF LInit, Init, PeakWithinQuota, UnusedTask
<1> QED  BY <1>1, Invariance, NextPeak, PTL DEF LSpec

-----------------------------------------------------------------------------
(***************************************************************************)
(* Reports are final.                                                      *)
(***************************************************************************)

\* The TaskReport task_spawn returned stays what it was: frees of the blocks a
\* finished task leaked, and allocations made in its name, leave its entry alone.
THEOREM ReportsFinal == LSpec => IdleEntriesFrozen
<1> DEFINE Frozen ==
      \A t \in TaskTable :
        ~ tasks[t].active /\ tasks'[t] # tasks[t] => Spawns /\ Head(stack') = t
<1>1. IInv /\ [LNext]_lvars => [Frozen]_lvars
  <2> SUFFICES ASSUME IInv, [LNext]_lvars, NEW u \in TaskTable,
                      ~ tasks[u].active, tasks'[u] # tasks[u]
               PROVE  Spawns /\ Head(stack') = u
    OBVIOUS
  <2>1. tasks \in [TaskTable -> TaskStatus] /\ stack \in Seq(SpawnIds)
    BY DEF IInv, TypeOK
  <2>2. ~ TaskIsActive(tasks, u)
    BY DEF TaskIsActive
  <2>3. CASE Refused
    BY <2>1, <2>2, <2>3 DEF Refused, Flag
  <2>4. ASSUME NEW o \in FreeBlocks(heap), NEW need \in BlockSizes, NEW t \in Int,
               Granted(o, need, t)
        PROVE  FALSE
    BY <2>1, <2>2, <2>4 DEF Granted, Charge
  <2>5. ASSUME NEW o \in UsedBlocks(heap), Released(o)
        PROVE  FALSE
    BY <2>1, <2>2, <2>5 DEF Released, Refund
  <2>6. CASE MemInit
    BY <2>6 DEF MemInit
  <2>7. ASSUME NEW t \in SpawnIds, NEW q \in Quotas, TaskSpawn(t, q)
        PROVE  Spawns /\ Head(stack') = u
    <3>1. t = u
      BY <2>1, <2>7 DEF TaskSpawn
    <3>2. Len(stack') = Len(stack) + 1 /\ Head(stack') = t
      BY <2>1, <2>7 DEF TaskSpawn
    <3> QED  BY <2>1, <3>1, <3>2 DEF Spawns
  <2>8. CASE TaskReturn
    <3>1. tasks'[u] = [tasks[u] EXCEPT !.active = FALSE] \/ tasks'[u] = tasks[u]
      BY <2>1, <2>8 DEF TaskReturn
    <3>2. [tasks[u] EXCEPT !.active = FALSE] = tasks[u]
      BY <2>1 DEF TaskStatus
    <3> QED  BY <3>1, <3>2
  <2> QED  BY <2>3, <2>4, <2>5, <2>6, <2>7, <2>8, Outcomes
<1>2. LSpec => [][Frozen]_lvars
  BY <1>1, Invariance, PTL DEF LSpec
<1> QED  BY <1>2 DEF IdleEntriesFrozen

-----------------------------------------------------------------------------
(***************************************************************************)
(* The raw allocator implements RegionStore.                               *)
(***************************************************************************)

\* Two blocks share no byte.
LEMMA BlocksApart ==
  ASSUME NEW h, WellFormed(h), NEW o \in DOMAIN h, NEW p \in DOMAIN h, o # p
  PROVE  NextBlock(h, o) <= p \/ NextBlock(h, p) <= o
<1>1. o \in Nat /\ p \in Nat
  BY BlockBounds DEF WellFormed
<1>2. o < p \/ p < o
  BY <1>1
<1> QED  BY <1>2 DEF WellFormed, Tiled

\* The mapping, region by region.
LEMMA RegionsShape ==
  ASSUME TypedHeap(heap)
  PROVE  /\ DOMAIN Regions = {o + HEADER_SIZE : o \in UsedBlocks(heap)}
         /\ \A o \in UsedBlocks(heap) : Regions[o + HEADER_SIZE] = heap[o].size
         /\ Regions = [p \in DOMAIN Regions |-> Regions[p]]
<1>1. \A o \in UsedBlocks(heap) : o \in Int /\ (o + HEADER_SIZE) - HEADER_SIZE = o
  BY DEF TypedHeap, Offsets, UsedBlocks, HEADER_SIZE
<1> QED  BY <1>1 DEF Regions

LEMMA GrantedAllocates ==
  ASSUME IInv, IInv', NEW o \in FreeBlocks(heap), NEW need \in BlockSizes, NEW t \in Int,
         Granted(o, need, t)
  PROVE  \E ptr \in Store!Grains(HEADER_SIZE .. DEVICE_RAM) :
           \E n \in Store!Grains(1 .. DEVICE_RAM - ptr) : Store!Allocate(ptr, n)
<1> DEFINE given == GivenSize(heap[o].size, need)
           ptr == o + HEADER_SIZE
<1>1. WellFormed(heap) /\ TypedHeap(heap) /\ TypedHeap(heap')
  BY IInvWellFormed DEF IInv, TypeOK
<1>2. /\ o \in DOMAIN heap /\ o \in Nat
      /\ heap[o].size \in BlockSizes
      /\ NextBlock(heap, o) <= DEVICE_RAM
  BY <1>1, BlockBounds DEF WellFormed, FreeBlocks
<1>3. /\ given \in BlockSizes
      /\ given <= heap[o].size
  BY <1>2, GivenSizeFits DEF BlockSizes, Granted
<1>4. /\ UsedBlocks(heap') = UsedBlocks(heap) \cup {o}
      /\ \A p \in UsedBlocks(heap) : p # o /\ heap'[p] = heap[p]
      /\ heap'[o].size = given
  BY <1>1, OccupyAddsUsed DEF Granted
<1> HIDE DEF given
<1>5. ptr \in Store!Grains(HEADER_SIZE .. DEVICE_RAM)
  <2>1. o % 4 = 0
    BY <1>1, <1>2, BoundariesAligned
  <2>2. (o + 8) % 4 = 0
    BY <1>2, <2>1
  <2>3. ptr <= DEVICE_RAM
    BY <1>2, HeapAssumption DEF NextBlock, BlockSizes, HEADER_SIZE, MIN_ALLOC
  <2> QED  BY <1>2, <2>2, <2>3, HeapAssumption DEF Store!Grains, HEADER_SIZE, ALIGNMENT
<1>6. given \in Store!Grains(1 .. DEVICE_RAM - ptr)
  BY <1>2, <1>3, HeapAssumption
  DEF Store!Grains, NextBlock, BlockSizes, HEADER_SIZE, MIN_ALLOC, ALIGNMENT
<1>7. /\ DOMAIN Regions = {p + HEADER_SIZE : p \in UsedBlocks(heap)}
      /\ \A p \in UsedBlocks(heap) : Regions[p + HEADER_SIZE] = heap[p].size
  BY <1>1, RegionsShape
<1>8. ASSUME NEW p \in UsedBlocks(heap)
      PROVE  Store!Apart(ptr, given, p + HEADER_SIZE)
  <2>1. p \in DOMAIN heap /\ p # o
    BY <1>4 DEF UsedBlocks
  <2>2. p \in Nat /\ heap[p].size \in BlockSizes
    BY <1>1, <2>1, BlockBounds DEF WellFormed
  <2>3. NextBlock(heap, o) <= p \/ NextBlock(heap, p) <= o
    BY <1>1, <1>2, <2>1, BlocksApart
  <2>4. Regions[p + HEADER_SIZE] = heap[p].size
    BY <1>7
  <2>5. ptr + given <= (p + HEADER_SIZE) - HEADER_SIZE
        \/ (p + HEADER_SIZE) + heap[p].size <= ptr - HEADER_SIZE
    BY <1>2, <1>3, <2>2, <2>3 DEF NextBlock, BlockSizes, HEADER_SIZE
  <2> QED  BY <2>4, <2>5 DEF Store!Apart
<1>9. Regions' = [p \in DOMAIN Regions \cup {ptr} |-> IF p = ptr THEN given ELSE Regions[p]]
  <2> DEFINE target == [p \in DOMAIN Regions \cup {ptr} |-> IF p = ptr THEN given ELSE Regions[p]]
  <2>1. /\ DOMAIN Regions' = {p + HEADER_SIZE : p \in UsedBlocks(heap')}
        /\ \A p \in UsedBlocks(heap') : Regions'[p + HEADER_SIZE] = heap'[p].size
        /\ Regions' = [p \in DOMAIN Regions' |-> Regions'[p]]
    <3>1. UsedBlocks(heap)' = UsedBlocks(heap')
      BY DEF UsedBlocks
    <3>2. \A p \in UsedBlocks(heap') : p \in Int /\ (p + HEADER_SIZE) - HEADER_SIZE = p
      BY <1>1 DEF TypedHeap, Offsets, UsedBlocks, HEADER_SIZE
    <3> QED  BY <3>1, <3>2 DEF Regions
  <2>2. DOMAIN Regions' = DOMAIN target
    BY <1>4, <1>7, <2>1
  <2>3. ASSUME NEW p \in UsedBlocks(heap')
        PROVE  Regions'[p + HEADER_SIZE] = target[p + HEADER_SIZE]
    <3>1. CASE p = o
      BY <1>4, <2>1, <3>1
    <3>2. CASE p # o
      <4>1. p \in UsedBlocks(heap) /\ p \in Int /\ o \in Int
        BY <1>1, <1>2, <1>4, <3>2 DEF TypedHeap, Offsets, UsedBlocks
      <4>2. p + HEADER_SIZE # ptr
        BY <3>2, <4>1 DEF HEADER_SIZE
      <4> QED  BY <1>4, <1>7, <2>1, <4>1, <4>2
    <3> QED  BY <3>1, <3>2
  <2> HIDE DEF target
  <2>4. ASSUME NEW p \in DOMAIN target
        PROVE  Regions'[p] = target[p]
    <3>1. PICK q \in UsedBlocks(heap') : p = q + HEADER_SIZE
      BY <2>1, <2>2
    <3> QED  BY <2>3, <3>1
  <2>5. target = [p \in DOMAIN target |-> target[p]]
    BY DEF target
  <2>6. Regions' = target
    BY <2>1, <2>2, <2>4, <2>5
  <2> QED  BY <2>6 DEF target
<1>10. Store!Allocate(ptr, given)
  BY <1>7, <1>8, <1>9 DEF Store!Allocate
<1> QED  BY <1>5, <1>6, <1>10

LEMMA ReleasedFrees ==
  ASSUME IInv, IInv', NEW o \in UsedBlocks(heap), Released(o)
  PROVE  \E ptr \in DOMAIN Regions : Store!Free(ptr)
<1> DEFINE ptr == o + HEADER_SIZE
           target == [p \in DOMAIN Regions \ {ptr} |-> Regions[p]]
<1>1. WellFormed(heap) /\ TypedHeap(heap) /\ TypedHeap(heap')
  BY IInvWellFormed DEF IInv, TypeOK
<1>2. /\ UsedBlocks(heap') = UsedBlocks(heap) \ {o}
      /\ \A p \in UsedBlocks(heap') : heap'[p] = heap[p]
  BY <1>1, ReleaseWellFormed DEF Released
<1>3. /\ DOMAIN Regions = {p + HEADER_SIZE : p \in UsedBlocks(heap)}
      /\ \A p \in UsedBlocks(heap) : Regions[p + HEADER_SIZE] = heap[p].size
  BY <1>1, RegionsShape
<1>4. \A p \in UsedBlocks(heap) : p \in Int /\ (p + HEADER_SIZE) - HEADER_SIZE = p
  BY <1>1 DEF TypedHeap, Offsets, UsedBlocks, HEADER_SIZE
<1>5. /\ DOMAIN Regions' = {p + HEADER_SIZE : p \in UsedBlocks(heap')}
      /\ \A p \in UsedBlocks(heap') : Regions'[p + HEADER_SIZE] = heap'[p].size
      /\ Regions' = [p \in DOMAIN Regions' |-> Regions'[p]]
  <2>1. UsedBlocks(heap)' = UsedBlocks(heap')
    BY DEF UsedBlocks
  <2> QED  BY <1>2, <1>4, <2>1 DEF Regions
<1>6. DOMAIN Regions' = DOMAIN Regions \ {ptr}
  <2>1. \A p \in UsedBlocks(heap) : p + HEADER_SIZE = ptr <=> p = o
    BY <1>4
  <2> QED  BY <1>2, <1>3, <1>5, <2>1
<1>7. \A p \in DOMAIN Regions' : Regions'[p] = Regions[p]
  BY <1>2, <1>3, <1>5
<1>8. Regions' = target
  BY <1>5, <1>6, <1>7
<1> QED  BY <1>3, <1>8 DEF Store!Free

\* For its callers the whole allocator is a RegionStore: every mem_alloc that
\* succeeds hands out bytes no live region has, every mem_free that succeeds ends
\* exactly the region named, and nothing else changes a region.
THEOREM RegionStoreImplemented == LSpec => ImplementsRegionStore
<1>1. LInit => Store!Init
  <2> SUFFICES ASSUME LInit
               PROVE  Regions = [p \in {} |-> 0]
    BY DEF Store!Init
  <2>1. heap = InitialHeap
    BY DEF LInit, Init
  <2>2. UsedBlocks(heap) = {}
    BY <2>1 DEF InitialHeap, UsedBlocks, Header, STATUS_FREE, STATUS_USED
  <2> QED  BY <2>2 DEF Regions
<1>2. IInv /\ IInv' /\ [LNext]_lvars => [Store!Next]_Regions
  <2> SUFFICES ASSUME IInv, IInv', [LNext]_lvars
               PROVE  Store!Next \/ Regions' = Regions
    OBVIOUS
  <2>1. CASE heap' = heap
    BY <2>1 DEF Regions, UsedBlocks
  <2>2. ASSUME NEW o \in FreeBlocks(heap), NEW need \in BlockSizes, NEW t \in Int,
               Granted(o, need, t)
        PROVE  Store!Next
    BY <2>2, GrantedAllocates DEF Store!Next
  <2>3. ASSUME NEW o \in UsedBlocks(heap), Released(o)
        PROVE  Store!Next
    BY <2>3, ReleasedFrees DEF Store!Next
  <2>4. CASE MemInit
    <3>1. UsedBlocks(heap)' = {}
      BY <2>4 DEF MemInit, InitialHeap, UsedBlocks, Header, STATUS_FREE, STATUS_USED
    <3>2. Regions' = [p \in {} |-> 0]
      BY <3>1 DEF Regions
    <3> QED  BY <3>2 DEF Store!Next, Store!Reset
  <2> QED  BY <2>1, <2>2, <2>3, <2>4, Outcomes DEF Refused, TaskSpawn, TaskReturn
<1> QED  BY <1>1, <1>2, Invariance, PTL DEF LSpec, ImplementsRegionStore, Store!Spec

-----------------------------------------------------------------------------
(***************************************************************************)
(* The allocator of level 2.                                               *)
(***************************************************************************)

\* CoreAllocator's copy of the operators of Heap is Heap: what instantiating the
\* module leaves to be said about its names.
LEMMA CoreHeaders ==
  /\ \A size, status, t : Core!Header(size, status, t) = Header(size, status, t)
  /\ \A h : Core!FreeBlocks(h) = FreeBlocks(h)
  /\ \A h, o : Core!NextBlock(h, o) = NextBlock(h, o)
  /\ Core!None = None
BY DEF Core!Header, Header, Core!TASK_ID_RANGE, TASK_ID_RANGE, Core!FreeBlocks, FreeBlocks,
       Core!STATUS_FREE, STATUS_FREE, Core!NextBlock, NextBlock, Core!HEADER_SIZE, HEADER_SIZE,
       Core!None, None

LEMMA CoreSearch ==
  ASSUME NEW h, NEW need, NEW strategy
  PROVE  Core!FindFreeBlock(h, need, strategy) = FindFreeBlock(h, need, strategy)
BY DEF Core!FindFreeBlock, FindFreeBlock, Core!FreeBlocks, FreeBlocks,
       Core!STATUS_FREE, STATUS_FREE, Core!None, None, Core!Min, Min

LEMMA CoreOccupy ==
  ASSUME NEW h, NEW o, NEW need, NEW t
  PROVE  Core!Occupy(h, o, need, t) = Occupy(h, o, need, t)
<1>1. Core!GivenSize(h[o].size, need) = GivenSize(h[o].size, need)
  BY DEF Core!GivenSize, GivenSize, Core!WillSplit, WillSplit,
         Core!HEADER_SIZE, HEADER_SIZE, Core!MIN_ALLOC, MIN_ALLOC
<1> QED  BY <1>1, CoreHeaders
         DEF Core!Occupy, Occupy, Core!HEADER_SIZE, HEADER_SIZE,
             Core!STATUS_FREE, STATUS_FREE, Core!STATUS_USED, STATUS_USED

LEMMA CoreRelease ==
  ASSUME NEW h, NEW o
  PROVE  Core!Release(h, o) = Release(h, o)
<1>1. \A g : Core!Absorbed(g) = Absorbed(g)
  BY CoreHeaders DEF Core!Absorbed, Absorbed
<1>2. \A g, p : Core!RunEnd(g, p) = RunEnd(g, p)
  BY <1>1 DEF Core!RunEnd, RunEnd, Core!Min, Min
<1>3. \A g : Core!SweepAndMerge(g) = SweepAndMerge(g)
  BY <1>1, <1>2, CoreHeaders
  DEF Core!SweepAndMerge, SweepAndMerge, Core!HEADER_SIZE, HEADER_SIZE,
      Core!STATUS_FREE, STATUS_FREE
<1> QED  BY <1>3, CoreHeaders
         DEF Core!Release, Release, Core!STATUS_FREE, STATUS_FREE

\* Every step of the sandbox is one of level 2 or leaves the heap alone.
LEMMA StepIsCoreStep == [LNext]_lvars => [Core!Next]_heap
<1> SUFFICES ASSUME [LNext]_lvars, heap' # heap
             PROVE  Core!Next
  OBVIOUS
<1>1. ASSUME NEW n \in Requests, NEW t \in ClientIds, NEW s \in Strategies,
             MemAlloc(n, t, s)
      PROVE  Core!Next
  <2> DEFINE need == AlignBytes(n)
             o == FindFreeBlock(heap, need, s)
  <2>1. heap' = MemAllocResult(heap, tasks, n, t, s).heap
    BY <1>1 DEF MemAlloc
  <2>2. ValidRequest(n) /\ o # None /\ heap' = Occupy(heap, o, need, t)
    BY <2>1 DEF MemAllocResult
  <2>3. Core!AlignBytes(n) = need /\ (Core!ValidRequest(n) <=> ValidRequest(n))
    BY DEF Core!AlignBytes, AlignBytes, Core!ALIGNMENT, ALIGNMENT,
           Core!ValidRequest, ValidRequest, Core!MIN_ALLOC, MIN_ALLOC
  <2> HIDE DEF need
  <2>4. Core!MemAlloc(n, t, s)
    BY <2>2, <2>3, CoreSearch, CoreOccupy, CoreHeaders DEF Core!MemAlloc
  <2> QED  BY <2>4 DEF Core!Next
<1>2. ASSUME NEW o \in DOMAIN heap, MemFree(o + HEADER_SIZE)
      PROVE  Core!Next
  <2>1. Core!Freeable(heap, o + HEADER_SIZE)
    BY <1>2
    DEF MemFree, Core!Freeable, Freeable, Core!UsedBlocks, UsedBlocks,
        Core!STATUS_USED, STATUS_USED, Core!HEADER_SIZE, HEADER_SIZE
  <2>2. heap' = Core!Release(heap, (o + HEADER_SIZE) - HEADER_SIZE)
    BY <1>2, CoreRelease DEF MemFree
  <2> QED  BY <2>1, <2>2 DEF Core!Next, Core!MemFree, Core!HEADER_SIZE, HEADER_SIZE
<1>3. CASE MemInit
  BY <1>3, CoreHeaders
  DEF MemInit, Core!Next, Core!MemInit, Core!InitialHeap, InitialHeap,
      Core!HEADER_SIZE, HEADER_SIZE, Core!STATUS_FREE, STATUS_FREE
<1> QED  BY <1>1, <1>2, <1>3 DEF LNext, Next, TaskSpawn, TaskReturn, lvars

\* The sandbox changes the heap as the allocator of level 2 does, for every memory
\* and whatever the tasks, their quotas and their nesting.
THEOREM CoreImplemented == LSpec => ImplementsCore
<1>1. LInit => Core!Init
  BY CoreHeaders
  DEF LInit, Init, Core!Init, Core!InitialHeap, InitialHeap, Core!HEADER_SIZE, HEADER_SIZE,
      Core!STATUS_FREE, STATUS_FREE
<1> QED  BY <1>1, StepIsCoreStep, PTL DEF LSpec, ImplementsCore, Core!Spec

-----------------------------------------------------------------------------
(***************************************************************************)
(* What mem_stats and the counters add up to.                              *)
(***************************************************************************)

\* The FREE bytes that mem_stats reports, their headers and the USED blocks make up
\* all of ram[] in every reachable state, and a heap that has been emptied, in
\* whatever order, is one FREE block again.
THEOREM StatsHold == LSpec => []StatsAccountForRam
<1>1. IInv => StatsAccountForRam
  <2> SUFFICES ASSUME IInv
               PROVE  StatsAccountForRam
    OBVIOUS
  <2> DEFINE free == BlockBytes(heap, FreeBlocks(heap))
             used == BlockBytes(heap, UsedBlocks(heap))
             stats == MemStats(heap)
  <2>1. WellFormed(heap) /\ TypedHeap(heap) /\ Tiled(heap)
    BY IInvWellFormed DEF WellFormed
  <2>2. free + used = DEVICE_RAM
    BY <2>1, BytesOfFreeAndUsed
  <2>3. stats.total_free_bytes + HEADER_SIZE * stats.num_free_fragments = free
    BY <2>1, BytesOfStats
  <2>4. ASSUME used = 0
        PROVE  UsedBlocks(heap) = {}
    <3> SUFFICES ASSUME NEW o \in UsedBlocks(heap)
                 PROVE  FALSE
      OBVIOUS
    <3>1. UsedBlocks(heap) \in SUBSET DOMAIN heap /\ UsedBlocks(heap) \ {o} \in SUBSET DOMAIN heap
      BY DEF UsedBlocks
    <3>2. used = (heap[o].size + HEADER_SIZE) + BlockBytes(heap, UsedBlocks(heap) \ {o})
      BY <2>1, <3>1, BytesOfOne
    <3>3. /\ heap[o].size + HEADER_SIZE \in Nat \ {0}
          /\ BlockBytes(heap, UsedBlocks(heap) \ {o}) \in Nat
      BY <2>1, <3>1, BlocksFinite, BytesOfOne
    <3> QED  BY <2>4, <3>2, <3>3
  <2>5. used = 0 => stats = [total_free_bytes |-> DEVICE_RAM - HEADER_SIZE,
                             largest_free_block |-> DEVICE_RAM - HEADER_SIZE,
                             num_free_fragments |-> 1]
    BY <2>1, <2>4, StatsOfFreeHeap
  <2> HIDE DEF free, used, stats
  <2>6. /\ stats.total_free_bytes + HEADER_SIZE * stats.num_free_fragments + used = DEVICE_RAM
        /\ used = 0 => stats = [total_free_bytes |-> DEVICE_RAM - HEADER_SIZE,
                                largest_free_block |-> DEVICE_RAM - HEADER_SIZE,
                                num_free_fragments |-> 1]
    BY <2>2, <2>3, <2>5
  <2> QED  BY <2>6 DEF StatsAccountForRam, used, stats
<1> QED  BY <1>1, Invariance, PTL

\* What LedgerExact rests on: the bytes counted at a spawn are a number, and a task
\* is active only while its task_spawn is under way, so that mem_init, which no
\* task_spawn surrounds, takes no block from an active one.
LedgerInv ==
  /\ LedgerExact
  /\ baseline \in [TaskTable -> Int]
  /\ \A t \in TaskTable : tasks[t].active => \E i \in 1 .. Len(stack) : stack[i] = t

\* baseline changes at spawns only.
LEMMA BaselineSteps ==
  ASSUME IInv, [LNext]_lvars
  PROVE  /\ stack' = stack \/ TaskReturn => baseline' = baseline
         /\ \A t \in SpawnIds, q \in Quotas :
              TaskSpawn(t, q) => baseline' = [baseline EXCEPT ![t] = Footprint(heap, t)]
<1>1. stack \in Seq(SpawnIds)
  BY DEF IInv, TypeOK
<1>2. CASE UNCHANGED lvars
  <2>1. \A t \in SpawnIds, q \in Quotas : ~ TaskSpawn(t, q)
    <3> SUFFICES ASSUME NEW t \in SpawnIds, stack' = <<t>> \o stack
                 PROVE  FALSE
      BY DEF TaskSpawn
    <3>1. Len(stack') = Len(stack) + 1 /\ Len(stack) \in Nat
      BY <1>1
    <3> QED  BY <1>2, <3>1 DEF lvars
  <2> QED  BY <1>2, <2>1 DEF lvars
<1>3. CASE LNext
  <2>1. baseline' = IF Spawns THEN [baseline EXCEPT ![Head(stack')] = Footprint(heap, Head(stack'))]
                    ELSE baseline
    BY <1>3 DEF LNext
  <2>2. stack' = stack => ~ Spawns
    BY <1>1 DEF Spawns
  <2>3. TaskReturn => ~ Spawns
    <3> SUFFICES ASSUME stack # << >>, stack' = Tail(stack)
                 PROVE  ~ Spawns
      BY DEF TaskReturn
    <3>1. Len(stack') = Len(stack) - 1 /\ Len(stack) \in Nat
      BY <1>1
    <3> QED  BY <3>1 DEF Spawns
  <2>4. ASSUME NEW t \in SpawnIds, NEW q \in Quotas, TaskSpawn(t, q)
        PROVE  Spawns /\ Head(stack') = t
    <3>1. stack' = <<t>> \o stack
      BY <2>4 DEF TaskSpawn
    <3>2. Len(stack') = Len(stack) + 1 /\ Len(stack) \in Nat /\ Head(stack') = t
      BY <1>1, <3>1
    <3> QED  BY <3>2 DEF Spawns
  <2> QED  BY <2>1, <2>2, <2>3, <2>4
<1> QED  BY <1>2, <1>3

\* The counter of an active task u moves with the bytes it owns, step by step.
LEMMA NextLedger ==
  ASSUME IdsFit, IInv, LedgerInv, [LNext]_lvars,
         NEW u \in TaskTable, TaskIsActive(tasks', u)
  PROVE  tasks'[u].current_alloc = Footprint(heap', u) - baseline'[u]
<1>1. WellFormed(heap) /\ tasks \in [TaskTable -> TaskStatus] /\ stack \in Seq(SpawnIds)
  BY IInvWellFormed DEF IInv, TypeOK
<1>2. /\ baseline \in [TaskTable -> Int]
      /\ TaskIsActive(tasks, u) => tasks[u].current_alloc = Footprint(heap, u) - baseline[u]
      /\ tasks[u].active => \E i \in 1 .. Len(stack) : stack[i] = u
  BY DEF LedgerInv, LedgerExact
<1>3. /\ stack' = stack \/ TaskReturn => baseline' = baseline
      /\ \A t \in SpawnIds, q \in Quotas :
           TaskSpawn(t, q) => baseline' = [baseline EXCEPT ![t] = Footprint(heap, t)]
  BY BaselineSteps
<1>4. Footprint(heap, u) \in Int
  <2>1. OwnedBlocks(heap, u) \in SUBSET DOMAIN heap
    BY DEF OwnedBlocks, UsedBlocks
  <2> QED  BY <1>1, <2>1, BytesOfOne DEF Footprint, WellFormed
<1>5. baseline[u] \in Int /\ tasks[u].current_alloc \in Int
  BY <1>1, <1>2 DEF TaskStatus
<1>6. CASE Refused
  <2>1. TaskIsActive(tasks, u) /\ tasks'[u].current_alloc = tasks[u].current_alloc
    BY <1>1, <1>6 DEF Refused, Flag, TaskIsActive, TaskStatus
  <2> QED  BY <1>2, <1>3, <1>6, <2>1 DEF Refused
<1>7. ASSUME NEW o \in FreeBlocks(heap), NEW need \in BlockSizes, NEW t \in Int,
             Granted(o, need, t)
      PROVE  tasks'[u].current_alloc = Footprint(heap', u) - baseline'[u]
  <2> DEFINE given == GivenSize(heap[o].size, need)
  <2>1. /\ t \in ClientIds
        /\ need <= heap[o].size
        /\ heap' = Occupy(heap, o, need, t)
        /\ tasks' = Charge(tasks, t, given)
        /\ baseline' = baseline
    BY <1>3, <1>7 DEF Granted
  <2>2. Footprint(heap', u) = IF t % TASK_ID_RANGE = u
                              THEN Footprint(heap, u) + (given + HEADER_SIZE)
                              ELSE Footprint(heap, u)
    BY <1>1, <2>1, OccupyAddsBytes DEF Footprint
  <2>3. t % TASK_ID_RANGE = u <=> t = u
    <3>1. u % TASK_ID_RANGE = u
      <4>1. u \in Nat /\ u < TASK_ID_RANGE /\ TASK_ID_RANGE \in Nat
        BY TaskAssumption DEF TaskTable, TASK_ID_RANGE
      <4> QED  BY <4>1
    <3>2. t % TASK_ID_RANGE = u => t % TASK_ID_RANGE = t
      BY <2>1 DEF IdsFit
    <3> QED  BY <3>1, <3>2
  <2>4. given \in Int
    <3>1. heap[o].size \in BlockSizes
      BY <1>1, BlockBounds DEF WellFormed, FreeBlocks
    <3> QED  BY <2>1, <3>1, GivenSizeFits DEF BlockSizes
  <2> HIDE DEF given
  <2>5. TaskIsActive(tasks, u)
    BY <1>1, <2>1 DEF Charge, TaskIsActive, TaskStatus
  <2>6. tasks'[u].current_alloc = IF t = u THEN tasks[u].current_alloc + given + HEADER_SIZE
                                  ELSE tasks[u].current_alloc
    BY <1>1, <2>1, <2>5 DEF Charge, TaskStatus
  <2> QED  BY <1>2, <1>4, <1>5, <2>1, <2>2, <2>3, <2>4, <2>5, <2>6 DEF HEADER_SIZE
<1>8. ASSUME NEW o \in UsedBlocks(heap), Released(o)
      PROVE  tasks'[u].current_alloc = Footprint(heap', u) - baseline'[u]
  <2>1. /\ heap' = Release(heap, o)
        /\ tasks' = Refund(heap, tasks, o)
        /\ baseline' = baseline
    BY <1>3, <1>8 DEF Released
  <2>2. heap[o].size \in Int
    <3>1. heap[o].size \in BlockSizes
      BY <1>1, BlockBounds DEF WellFormed, UsedBlocks
    <3> QED  BY <3>1 DEF BlockSizes
  <2>3. Footprint(heap', u) = IF heap[o].task_id = u
                              THEN Footprint(heap, u) - (heap[o].size + HEADER_SIZE)
                              ELSE Footprint(heap, u)
    BY <1>1, <2>1, ReleaseRemovesBytes DEF Footprint
  <2>4. TaskIsActive(tasks, u)
    BY <1>1, <2>1 DEF Refund, TaskIsActive, TaskStatus
  <2>5. tasks'[u].current_alloc = IF heap[o].task_id = u
                                  THEN tasks[u].current_alloc - (heap[o].size + HEADER_SIZE)
                                  ELSE tasks[u].current_alloc
    BY <1>1, <2>1, <2>4 DEF Refund, TaskStatus
  <2> QED  BY <1>2, <1>4, <1>5, <2>1, <2>2, <2>3, <2>4, <2>5 DEF HEADER_SIZE
<1>9. CASE stack = << >> /\ MemInit
  <2>1. ~ tasks[u].active
    BY <1>2, <1>9
  <2> QED  BY <1>9, <2>1 DEF MemInit, TaskIsActive
<1>10. ASSUME NEW t \in SpawnIds, NEW q \in Quotas, TaskSpawn(t, q)
       PROVE  tasks'[u].current_alloc = Footprint(heap', u) - baseline'[u]
  <2>1. /\ baseline' = [baseline EXCEPT ![t] = Footprint(heap, t)]
        /\ tasks' = [tasks EXCEPT ![t] = SpawnedTask(q)]
        /\ heap' = heap
    BY <1>3, <1>10 DEF TaskSpawn
  <2>2. CASE u = t
    BY <1>1, <1>2, <1>4, <2>1, <2>2 DEF SpawnedTask
  <2>3. CASE u # t
    BY <1>1, <1>2, <2>1, <2>3 DEF TaskIsActive
  <2> QED  BY <2>2, <2>3
<1>11. CASE TaskReturn
  <2>1. heap' = heap /\ baseline' = baseline
        /\ tasks' = [tasks EXCEPT ![Head(stack)].active = FALSE]
    BY <1>3, <1>11 DEF TaskReturn
  <2>2. TaskIsActive(tasks, u) /\ tasks'[u].current_alloc = tasks[u].current_alloc
    BY <1>1, <2>1 DEF TaskIsActive, TaskStatus
  <2> QED  BY <1>2, <2>1, <2>2
<1> QED  BY <1>6, <1>7, <1>8, <1>9, <1>10, <1>11, Outcomes

\* An active task stays on the stack of spawns under way.
LEMMA NextActive ==
  ASSUME IInv, LedgerInv, [LNext]_lvars, NEW u \in TaskTable, tasks'[u].active
  PROVE  \E i \in 1 .. Len(stack') : stack'[i] = u
<1>1. tasks \in [TaskTable -> TaskStatus] /\ stack \in Seq(SpawnIds)
  BY DEF IInv, TypeOK
<1>2. tasks[u].active => \E i \in 1 .. Len(stack) : stack[i] = u
  BY DEF LedgerInv
<1>3. CASE Refused
  BY <1>1, <1>2, <1>3 DEF Refused, Flag, TaskStatus
<1>4. ASSUME NEW o \in FreeBlocks(heap), NEW need \in BlockSizes, NEW t \in Int,
             Granted(o, need, t)
      PROVE  \E i \in 1 .. Len(stack') : stack'[i] = u
  BY <1>1, <1>2, <1>4 DEF Granted, Charge, TaskStatus
<1>5. ASSUME NEW o \in UsedBlocks(heap), Released(o)
      PROVE  \E i \in 1 .. Len(stack') : stack'[i] = u
  BY <1>1, <1>2, <1>5 DEF Released, Refund, TaskStatus
<1>6. CASE stack = << >> /\ MemInit
  BY <1>2, <1>6 DEF MemInit
<1>7. ASSUME NEW t \in SpawnIds, NEW q \in Quotas, TaskSpawn(t, q)
      PROVE  \E i \in 1 .. Len(stack') : stack'[i] = u
  <2>1. /\ Len(stack') = Len(stack) + 1 /\ Len(stack) \in Nat
        /\ stack'[1] = t
        /\ \A i \in 1 .. Len(stack) : stack'[i + 1] = stack[i]
    BY <1>1, <1>7 DEF TaskSpawn
  <2>2. CASE u = t
    BY <2>1, <2>2
  <2>3. CASE u # t
    <3>1. tasks[u].active
      BY <1>1, <1>7, <2>3 DEF TaskSpawn
    <3>2. PICK i \in 1 .. Len(stack) : stack[i] = u
      BY <1>2, <3>1
    <3> QED  BY <2>1, <3>2
  <2> QED  BY <2>2, <2>3
<1>8. CASE TaskReturn
  <2>1. tasks[u].active /\ u # Head(stack)
    BY <1>1, <1>8 DEF TaskReturn, TaskStatus
  <2>2. PICK i \in 1 .. Len(stack) : stack[i] = u
    BY <1>2, <2>1
  <2>3. stack # << >> /\ stack' = Tail(stack)
    BY <1>8 DEF TaskReturn
  <2>4. /\ Len(stack') = Len(stack) - 1 /\ Len(stack) \in Nat
        /\ \A j \in 1 .. Len(stack') : stack'[j] = stack[j + 1]
        /\ Head(stack) = stack[1]
    BY <1>1, <2>3
  <2>5. i # 1
    BY <2>1, <2>2, <2>4
  <2>6. i - 1 \in 1 .. Len(stack') /\ stack'[i - 1] = u
    BY <2>2, <2>4, <2>5
  <2> QED  BY <2>6
<1> QED  BY <1>3, <1>4, <1>5, <1>6, <1>7, <1>8, Outcomes

\* Whatever is allocated, freed and spawned, in whatever order and by whatever
\* caller, an active task's counter is the growth of its footprint since its spawn,
\* as long as no id is mistaken for another's in the header.
THEOREM LedgerHolds == IdsFit => (LSpec => []LedgerExact)
<1> SUFFICES ASSUME IdsFit
             PROVE  LSpec => []LedgerExact
  OBVIOUS
<1>1. LInit => LedgerInv
  BY DEF LInit, Init, LedgerInv, LedgerExact, UnusedTask, TaskIsActive
<1>2. IInv /\ LedgerInv /\ [LNext]_lvars => LedgerInv'
  <2> SUFFICES ASSUME IInv, LedgerInv, [LNext]_lvars
               PROVE  LedgerInv'
    OBVIOUS
  <2>1. ASSUME NEW u \in TaskTable, TaskIsActive(tasks', u)
        PROVE  tasks'[u].current_alloc = Footprint(heap', u) - baseline'[u]
    BY <2>1, NextLedger
  <2>2. ASSUME NEW u \in TaskTable, tasks'[u].active
        PROVE  \E i \in 1 .. Len(stack') : stack'[i] = u
    BY <2>2, NextActive
  <2>3. baseline' \in [TaskTable -> Int]
    <3>1. baseline \in [TaskTable -> Int]
      BY DEF LedgerInv
    <3>2. ASSUME NEW t
          PROVE  Footprint(heap, t) \in Int
      <4>1. OwnedBlocks(heap, t) \in SUBSET DOMAIN heap
        BY DEF OwnedBlocks, UsedBlocks
      <4> QED  BY <4>1, BytesOfOne DEF Footprint, IInv, TypeOK
    <3>3. baseline' = baseline \/ \E t : baseline' = [baseline EXCEPT ![t] = Footprint(heap, t)]
      BY DEF LNext, lvars
    <3> QED  BY <3>1, <3>2, <3>3
  <2> QED  BY <2>1, <2>2, <2>3 DEF LedgerInv, LedgerExact
<1>3. LedgerInv => LedgerExact
  BY DEF LedgerInv
<1> QED  BY <1>1, <1>2, <1>3, Invariance, PTL DEF LSpec

=============================================================================
