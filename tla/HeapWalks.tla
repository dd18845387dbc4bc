------------------------------ MODULE HeapWalks ------------------------------
(***************************************************************************)
(* The calls of progression/level_2.c as the machine runs them: the loops  *)
(* of find_free_block, sweep_and_merge and mem_stats read one header a     *)
(* step, and carry copies of what they read (the best block so far, the    *)
(* header of the FREE run being merged) over steps that change the heap.   *)
(* The same loops, word for word, are in allocator.c.                      *)
(***************************************************************************)
EXTENDS Heap

CONSTANTS
  TaskIds,      \* task_id arguments of mem_alloc
  Requests,     \* n_bytes arguments of mem_alloc
  Strategies    \* strategy arguments of mem_alloc

ASSUME WalkAssumption ==
  /\ TaskIds \subseteq Int
  /\ Requests \subseteq Int
  /\ Strategies \subseteq Int

VARIABLES
  heap,     \* ram[]: the headers a walk would visit
  pc,       \* what the call under way does next; "idle" between calls
  call,     \* the arguments of the mem_alloc under way, n_bytes rounded up
  offset,   \* the loop's position
  best,     \* best_fit and best_fit_diff; its at is also the result
  run,      \* prev_free and prev_free_header.size
  stats     \* the MemStats that mem_stats adds up

vars == <<heap, pc, call, offset, best, run, stats>>

Phases == {"idle", "search", "occupy", "sweep", "stats"}

NoCall == [need |-> 0, task_id |-> 0, strategy |-> 0]
NoBest == [at |-> None, diff |-> 0]
NoRun == [at |-> None, size |-> 0]
NoStats == [total_free_bytes |-> 0, largest_free_block |-> 0, num_free_fragments |-> 0]

Init ==
  /\ heap = InitialHeap
  /\ pc = "idle"
  /\ call = NoCall
  /\ offset = 0
  /\ best = NoBest
  /\ run = NoRun
  /\ stats = NoStats

\* The call returns, and its locals are gone.
Return ==
  /\ pc' = "idle"
  /\ call' = NoCall
  /\ offset' = 0
  /\ best' = NoBest
  /\ run' = NoRun
  /\ stats' = NoStats

\* _write_header.  A header written inside a block starts a new one there.
WriteHeader(h, o, header) ==
  [p \in DOMAIN h \cup {o} |-> IF p = o THEN header ELSE h[p]]

-----------------------------------------------------------------------------
(***************************************************************************)
(* mem_alloc and find_free_block                                           *)
(***************************************************************************)

\* A request outside MIN_ALLOC .. MAX_ALLOC is refused at once.
MemAlloc(n, t, strategy) ==
  /\ pc = "idle"
  /\ n >= MIN_ALLOC /\ n <= MAX_ALLOC
  /\ pc' = "search"
  /\ call' = [need |-> AlignBytes(n), task_id |-> t, strategy |-> strategy]
  /\ UNCHANGED <<heap, offset, best, run, stats>>

Fits(header) == header.status = STATUS_FREE /\ header.size >= call.need

\* The early return of the loop: first fit, or an exact fit.
Taken(header) ==
  Fits(header) /\ (call.strategy = 0 \/ header.size = call.need)

\* Variant: a later block as tight as the best one replaces it.
TighterOrEqual(header) ==
  /\ Fits(header)
  /\ call.strategy = 1
  /\ best.at = None \/ header.size - call.need <= best.diff

\* Best fit keeps the first of the tightest blocks.
Tighter(header) ==
  /\ Fits(header)
  /\ call.strategy = 1
  /\ best.at = None \/ header.size - call.need < best.diff

\* Variant: only a FREE block advances the loop.
SearchStepFreeOnly ==
  LET header == heap[offset]
  IN  /\ pc = "search" /\ offset < DEVICE_RAM
      /\ IF Taken(header)
         THEN pc' = "occupy" /\ best' = [at |-> offset, diff |-> 0] /\ UNCHANGED offset
         ELSE /\ UNCHANGED pc
              /\ best' = IF Tighter(header)
                         THEN [at |-> offset, diff |-> header.size - call.need]
                         ELSE best
              /\ offset' = IF header.status = STATUS_FREE THEN NextBlock(heap, offset) ELSE offset
      /\ UNCHANGED <<heap, call, run, stats>>

SearchStep ==
  LET header == heap[offset]
  IN  /\ pc = "search" /\ offset < DEVICE_RAM
      /\ IF Taken(header)
         THEN pc' = "occupy" /\ best' = [at |-> offset, diff |-> 0] /\ UNCHANGED offset
         ELSE /\ UNCHANGED pc
              /\ best' = IF Tighter(header)
                         THEN [at |-> offset, diff |-> header.size - call.need]
                         ELSE best
              /\ offset' = NextBlock(heap, offset)
      /\ UNCHANGED <<heap, call, run, stats>>

SearchEnd ==
  /\ pc = "search" /\ offset >= DEVICE_RAM
  /\ pc' = "occupy"
  /\ UNCHANGED <<heap, call, offset, best, run, stats>>

\* Variant: the size of the rest still counts its own header.
SplitOversized(o) ==
  LET remaining == heap[o].size - call.need
  IN  IF remaining >= HEADER_SIZE + MIN_ALLOC
      THEN WriteHeader(WriteHeader(heap, o, Header(call.need, STATUS_USED, call.task_id)),
                       o + HEADER_SIZE + call.need, Header(remaining, STATUS_FREE, 0))
      ELSE WriteHeader(heap, o, Header(heap[o].size, STATUS_USED, call.task_id))

\* The headers mem_alloc writes into the block it found.
Split(o) ==
  LET remaining == heap[o].size - call.need
  IN  IF remaining >= HEADER_SIZE + MIN_ALLOC
      THEN WriteHeader(WriteHeader(heap, o, Header(call.need, STATUS_USED, call.task_id)),
                       o + HEADER_SIZE + call.need,
                       Header(remaining - HEADER_SIZE, STATUS_FREE, 0))
      ELSE WriteHeader(heap, o, Header(heap[o].size, STATUS_USED, call.task_id))

MemAllocEnd ==
  /\ pc = "occupy"
  /\ heap' = IF best.at = None THEN heap ELSE Split(best.at)
  /\ Return

-----------------------------------------------------------------------------
(***************************************************************************)
(* mem_free and sweep_and_merge                                            *)
(***************************************************************************)

MemFree(ptr) ==
  LET o == ptr - HEADER_SIZE
  IN  /\ pc = "idle"
      /\ Freeable(heap, ptr)
      /\ heap' = WriteHeader(heap, o, Header(heap[o].size, STATUS_FREE, heap[o].task_id))
      /\ pc' = "sweep"
      /\ UNCHANGED <<call, offset, best, run, stats>>

\* The size of the run with one more block: the copy's, not the header's in ram[].
Grown(header) == run.size + header.size + HEADER_SIZE

\* The block at offset joins the run: its header is now payload.
Merge(header) ==
  [p \in DOMAIN heap \ {offset} |->
     IF p = run.at THEN Header(Grown(header), STATUS_FREE, 0) ELSE heap[p]]

\* Variant: a USED block does not end the run.
RunAfterAcrossUsed(header) ==
  IF header.status # STATUS_FREE THEN run
  ELSE IF run.at = None THEN [at |-> offset, size |-> header.size]
  ELSE [at |-> run.at, size |-> Grown(header)]

\* Variant: the new size goes to ram[] and not to the copy.
RunAfterStaleCopy(header) ==
  IF header.status # STATUS_FREE THEN NoRun
  ELSE IF run.at = None THEN [at |-> offset, size |-> header.size]
  ELSE run

\* Variant: a merge ends the run.
RunAfterPairwise(header) ==
  IF header.status = STATUS_FREE /\ run.at = None
  THEN [at |-> offset, size |-> header.size]
  ELSE NoRun

RunAfter(header) ==
  IF header.status # STATUS_FREE THEN NoRun
  ELSE IF run.at = None THEN [at |-> offset, size |-> header.size]
  ELSE [at |-> run.at, size |-> Grown(header)]

\* The copy of the header at offset outlives the header itself.
SweepStep ==
  LET header == heap[offset]
  IN  /\ pc = "sweep" /\ DEVICE_RAM - HEADER_SIZE > offset
      /\ heap' = IF header.status = STATUS_FREE /\ run.at # None THEN Merge(header) ELSE heap
      /\ run' = RunAfter(header)
      /\ offset' = offset + header.size + HEADER_SIZE
      /\ UNCHANGED <<pc, call, best, stats>>

SweepEnd ==
  /\ pc = "sweep" /\ DEVICE_RAM - HEADER_SIZE <= offset
  /\ Return
  /\ UNCHANGED heap

-----------------------------------------------------------------------------
(***************************************************************************)
(* mem_stats and mem_init                                                  *)
(***************************************************************************)

MemStatsCall ==
  /\ pc = "idle"
  /\ pc' = "stats"
  /\ UNCHANGED <<heap, call, offset, best, run, stats>>

\* Variant: the largest block is the last one.
CountedLast(header) ==
  IF header.status # STATUS_FREE THEN stats
  ELSE [total_free_bytes |-> stats.total_free_bytes + header.size,
        largest_free_block |-> header.size,
        num_free_fragments |-> stats.num_free_fragments + 1]

Counted(header) ==
  IF header.status # STATUS_FREE THEN stats
  ELSE [total_free_bytes |-> stats.total_free_bytes + header.size,
        largest_free_block |-> IF stats.largest_free_block < header.size
                               THEN header.size ELSE stats.largest_free_block,
        num_free_fragments |-> stats.num_free_fragments + 1]

StatsStep ==
  /\ pc = "stats" /\ DEVICE_RAM - HEADER_SIZE > offset
  /\ stats' = Counted(heap[offset])
  /\ offset' = NextBlock(heap, offset)
  /\ UNCHANGED <<heap, pc, call, best, run>>

StatsEnd ==
  /\ pc = "stats" /\ DEVICE_RAM - HEADER_SIZE <= offset
  /\ Return
  /\ UNCHANGED heap

MemInit ==
  /\ pc = "idle"
  /\ heap' = InitialHeap
  /\ UNCHANGED <<pc, call, offset, best, run, stats>>

\* What goes on inside a call.
Step ==
  \/ SearchStep \/ SearchEnd \/ MemAllocEnd
  \/ SweepStep \/ SweepEnd
  \/ StatsStep \/ StatsEnd

Next ==
  \/ \E n \in Requests, t \in TaskIds, s \in Strategies : MemAlloc(n, t, s)
  \/ \E o \in DOMAIN heap : MemFree(o + HEADER_SIZE)
  \/ MemStatsCall
  \/ MemInit
  \/ Step

\* A call that has begun goes on: nothing preempts a sequential program.  No call
\* is ever owed.
Spec == Init /\ [][Next]_vars /\ WF_vars(Step)

=============================================================================
