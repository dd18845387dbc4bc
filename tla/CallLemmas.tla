------------------------------ MODULE CallLemmas ------------------------------
(***************************************************************************)
(* What a call of mem_alloc comes to, and that the counters it changes     *)
(* keep their types: for the proofs about callers of both kinds, those     *)
(* with raw pointers (TaskLedgerProofs) and those with handles             *)
(* (HandleProofs).                                                         *)
(***************************************************************************)
EXTENDS TaskAllocator, HeapLemmas

\* A valid request, rounded up, is still at least MIN_ALLOC.
LEMMA ValidRequestAligned ==
  ASSUME NEW n \in Int, ValidRequest(n)
  PROVE  /\ AlignBytes(n) \in Nat
         /\ AlignBytes(n) % ALIGNMENT = 0
         /\ AlignBytes(n) >= MIN_ALLOC
<1>1. n \in Nat /\ n >= MIN_ALLOC
  BY DEF ValidRequest, MIN_ALLOC
<1> QED  BY <1>1, AlignBytesRoundsUp DEF MIN_ALLOC

\* mem_alloc either refuses, and at most raises the task's flag, or gives a FREE
\* block large enough to the task and charges it.
LEMMA MemAllocOutcome ==
  ASSUME NEW h, WellFormed(h), NEW ts,
         NEW n \in Int, NEW t \in Int, NEW strategy
  PROVE  LET r == MemAllocResult(h, ts, n, t, strategy)
         IN  \/ /\ r.ptr = None
                /\ r.heap = h
                /\ r.tasks = ts \/ (TaskIsActive(ts, t) /\ r.tasks = Flag(ts, t))
             \/ \E o \in FreeBlocks(h), need \in BlockSizes :
                  /\ need <= h[o].size
                  /\ r.ptr = o + HEADER_SIZE
                  /\ r.heap = Occupy(h, o, need, t)
                  /\ ~ ReachesQuota(ts, t, GivenSize(h[o].size, need))
                  /\ r.tasks = Charge(ts, t, GivenSize(h[o].size, need))
<1> DEFINE need == AlignBytes(n)
           o == FindFreeBlock(h, need, strategy)
           given == GivenSize(h[o].size, need)
           Refuse(table) == [ptr |-> None, heap |-> h, tasks |-> table]
           r == MemAllocResult(h, ts, n, t, strategy)
<1>1. r = IF ~ ValidRequest(n) THEN Refuse(ts)
          ELSE IF OverQuota(ts, t, need) THEN Refuse(Flag(ts, t))
          ELSE IF o = None THEN Refuse(ts)
          ELSE IF ReachesQuota(ts, t, given) THEN Refuse(Flag(ts, t))
          ELSE [ptr |-> o + HEADER_SIZE,
                heap |-> Occupy(h, o, need, t),
                tasks |-> Charge(ts, t, given)]
  BY DEF MemAllocResult
<1>2. CASE r = Refuse(ts) \/ (r = Refuse(Flag(ts, t)) /\ TaskIsActive(ts, t))
  <2>1. r.ptr = None /\ r.heap = h
    BY <1>2
  <2>2. r.tasks = ts \/ (TaskIsActive(ts, t) /\ r.tasks = Flag(ts, t))
    BY <1>2
  <2> HIDE DEF r
  <2> QED  BY <2>1, <2>2 DEF r
<1>3. CASE /\ ValidRequest(n)
           /\ o # None
           /\ ~ ReachesQuota(ts, t, given)
           /\ r = [ptr |-> o + HEADER_SIZE,
                   heap |-> Occupy(h, o, need, t),
                   tasks |-> Charge(ts, t, given)]
  <2>1. o \in FreeBlocks(h) /\ need <= h[o].size
    BY <1>3, FindFreeBlockFits DEF WellFormed
  <2>2. h[o].size \in BlockSizes
    BY <2>1, BlockBounds DEF WellFormed, FreeBlocks
  <2>3. need \in Nat /\ need % ALIGNMENT = 0 /\ need >= MIN_ALLOC
    BY <1>3, ValidRequestAligned
  <2> HIDE DEF need, o
  <2>4. need \in BlockSizes
    BY <2>1, <2>2, <2>3, HeapAssumption DEF BlockSizes, MIN_ALLOC
  <2>5. /\ r.ptr = o + HEADER_SIZE
        /\ r.heap = Occupy(h, o, need, t)
        /\ r.tasks = Charge(ts, t, given)
    BY <1>3
  <2> HIDE DEF r
  <2> QED  BY <1>3, <2>1, <2>4, <2>5 DEF r
<1> HIDE DEF r, need, o, given
<1> QED  BY <1>1, <1>2, <1>3 DEF OverQuota, ReachesQuota

\* Flag, Charge and Refund change counters of one active entry.
LEMMA LedgerTyped ==
  ASSUME NEW ts \in [TaskTable -> TaskStatus]
  PROVE  /\ \A t \in Int : TaskIsActive(ts, t) => Flag(ts, t) \in [TaskTable -> TaskStatus]
         /\ \A t \in Int, given \in Int : Charge(ts, t, given) \in [TaskTable -> TaskStatus]
         /\ \A h, o : h[o].size \in Int /\ h[o].task_id \in Int
                        => Refund(h, ts, o) \in [TaskTable -> TaskStatus]
<1>1. \A t \in Int : TaskIsActive(ts, t) => t \in TaskTable
  BY TaskAssumption DEF TaskIsActive, TaskTable
<1>2. ASSUME NEW t \in Int, TaskIsActive(ts, t)
      PROVE  Flag(ts, t) \in [TaskTable -> TaskStatus]
  BY <1>1, <1>2 DEF Flag, TaskStatus
<1>3. ASSUME NEW t \in Int, NEW given \in Int
      PROVE  Charge(ts, t, given) \in [TaskTable -> TaskStatus]
  BY <1>1 DEF Charge, TaskStatus, HEADER_SIZE
<1>4. ASSUME NEW h, NEW o, h[o].size \in Int, h[o].task_id \in Int
      PROVE  Refund(h, ts, o) \in [TaskTable -> TaskStatus]
  BY <1>1, <1>4 DEF Refund, TaskStatus, HEADER_SIZE
<1> QED  BY <1>2, <1>3, <1>4

=============================================================================
