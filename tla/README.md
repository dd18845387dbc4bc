# Verification of hackrush_malloc

TLA+ specifications of the memory allocator in this repository, the TLC runs that
check them on small instances, and TLAPS proofs of the main results for every size of
memory. File and line references are to the repository (`src/` here).

Contents: [the system](#the-system), [the modules](#the-modules),
[the correspondence](#correspondence-with-the-code), [the runs](#the-runs),
[what is proved](#what-is-proved), [what the checks found](#what-the-checks-found),
[what is not modelled](#what-is-not-modelled), [the plan](#the-plan).

## The system

`allocator.c` manages 64 KiB, `ram[]`, for a device without an operating system. It
is one sequential program: no threads, no interrupts, nothing persistent. What makes
it hard is that the blocks of the heap are found only by walking from header to
header, that three kinds of bookkeeping (headers, per-task counters, the handle
table) must stay consistent with one another through every order of calls, and that
the callers decide that order.

| Component | State | Operations | Interacts with |
|---|---|---|---|
| Block heap (`mem_init`, `mem_alloc`, `mem_free`, `mem_stats`, `find_free_block`, `sweep_and_merge`) | headers embedded in `ram[]` | search (first or best fit), split, free, coalesce, report | every other component reads and writes headers through it |
| Task sandbox (`task_spawn`, the quota parts of `mem_alloc` and `mem_free`) | `tasks[]`, the C stack of spawns under way | spawn, charge, refund, flag, report | runs a callback that may call anything, itself included; reads owners from headers |
| Handle table (`handles_init`, `mem_alloc_handle`, `mem_free_handle`, `deref_handle`) | `handle_table[]` | allocate, free, dereference | holds pointers into the heap |
| Compaction (`mem_compact`) | none of its own | slide USED blocks to the front | moves blocks under the handle table and patches it |
| Eviction (`mem_alloc_or_compact`, `free_task_blocks`) | none of its own | retry after compaction, then after evicting a task | reads `tasks[]` to pick a victim, frees its blocks in the heap, clears its handles |
| RAM image (`_write_header`, `_read_header`, `_compute_checksum`) | the bytes of `ram[]`: headers in use, headers left behind, the callers' data | pack, unpack, XOR checksum | all walks; `mem_compact` moves its bytes; callers write to it |
| `mem_dump` | none | prints the walk | output only |
| Fixed-block allocator (`progression/level_1.c`) | `used_blocks[]` | `mem_init`, `mem_alloc`, `mem_free`, `mem_stats` | none: an earlier program of its own |
| Level 2 allocator (`progression/level_2.c`) | `ram[]`, and the locals of a walk under way | the block heap without tasks: its loops are those of `allocator.c` | none: an earlier state of `allocator.c` |
| Level 4 snapshot (`progression/level_4.c`) | as `allocator.c` | as `allocator.c` | none: an earlier state of it |
| Level 3 snapshot (`progression/level_3.c`) | as `allocator.c`, without handles | as `allocator.c`, without handles | none: an earlier state of it |

What makes each of them correct:

- *Block heap*: the headers tile `ram[]` after every call; no two FREE blocks are
  neighbours; `mem_stats` accounts for every byte; regions handed out never overlap
  and stay as they are until freed.
- *The walks*: a loop never reads a header where there is none, although it rewrites
  and removes headers while it runs; the search ends with the block its strategy
  promises; one pass of the sweep merges everything; every call returns, and seen from
  outside it is one atomic change of the heap.
- *Task sandbox*: the counter of an active task is exactly what its footprint grew
  since its spawn, whoever frees its blocks and however spawns nest; the peak stays
  below the quota; the report of a task that ended is final (levels 1 to 3: at level 4 an
  eviction refunds an idle task); the heap changes only as the allocator without tasks would
  change it.
- *Handle table, compaction, eviction*: handles and live blocks correspond one to one, in
  the middle of a compaction or an eviction as well as between calls; an object keeps its
  size and owner for as long as its handle lives, through moves; a request takes the objects
  of one idle task, all of them and once, or none; compaction loses no free byte and keeps the
  live blocks in order; the attempt after it does not fail for fragmentation; every call
  returns.
- *RAM image*: `mem_compact` never overwrites a header it still has to read; handles and
  data follow their blocks at every step, not only at the end; on the bytes every step
  does what the model over headers says of blocks.
- *Fixed-block allocator*: every block in use belongs to exactly one allocation; the
  scan finds the first run that fits; regions never overlap.

The behaviours that are hard to test are listed, at their lines, under `hazards` in
`PROJECT.json`.

## The modules

    Heap --> TaskAllocator --> TaskLedger --> MCTaskLedger
     |            |                |  \
     |            |                |   implements RegionStore and CoreAllocator
     |            v                v
     |       HandleAllocator   TaskLedgerProofs
     |        ^   |
     |        |   v
     |        |  HandleProperties --> MCHandles
     |        |      |        \
     |        |      v         implements HandleStore
     |        |  HandleProofs
     |        |
     |---> Compaction --> RamImage --> RamProperties --> MCRam
     |                                  |        \
     |                                  v         implements HandleAllocator
     |                              RamProofs
     |---> CoreAllocator
     |
     '---> HeapWalks --> WalkProperties --> MCWalks
                               |        \
                               v         implements CoreAllocator
                           WalkProofs

    FixedBlocks --> MCFixedBlocks
     |         \
     v          implements RegionStore
    FixedBlocksProofs

`HeapLemmas` extends `Compaction` and `NatLemmas`, and `CallLemmas` extends it and
`TaskAllocator`. `WalkProofs` and `RamProofs` extend `HeapLemmas`, `TaskLedgerProofs` and
`HandleProofs` extend `CallLemmas`, and `FixedBlocksProofs` extends `NatLemmas`.

| Module | Contents |
|---|---|
| `Heap` | the block heap as a function from the offset of each header to the header; the operations on it, without variables |
| `RegionStore` | abstract: what a raw-pointer allocator promises, in terms of regions only |
| `TaskAllocator` | state machine of `mem_init`, `mem_alloc`, `mem_free`, `task_spawn` |
| `TaskLedger` | the properties of `TaskAllocator`, with one history variable |
| `CoreAllocator` | the heap without tasks, call by call (`level_2.c`): the abstract specification of the next module and of `TaskAllocator` |
| `HeapWalks` | the same calls with their loops run one header at a time |
| `WalkProperties` | the properties of `HeapWalks` |
| `Compaction` | the handle table as a function, and the parts of `mem_compact` that are the same over headers and over bytes |
| `HandleAllocator` | `TaskAllocator`'s operations under the handle table; `mem_compact` and `free_task_blocks` one header at a time; the three attempts of `mem_alloc_or_compact` |
| `HandleStore` | abstract: what the handle interface promises |
| `HandleProperties` | the properties of `HandleAllocator` |
| `RamImage` | the handle calls over the bytes of `ram[]`, with the loop of `mem_compact` (`level_4.c`) |
| `RamProperties` | the properties of `RamImage` |
| `FixedBlocks` | state machine and properties of `level_1.c` |
| `NatLemmas` | lemmas about least and greatest elements and sums over finite sets |
| `HeapLemmas` | lemmas about the operations of `Heap`, the sums `mem_stats` and the counters are compared with, a heap half compacted and a table that names its blocks |
| `CallLemmas` | lemmas about what a call of `mem_alloc` comes to |
| `TaskLedgerProofs`, `HandleProofs`, `WalkProofs`, `RamProofs`, `FixedBlocksProofs` | theorems |
| `MC*` | values of constants for TLC |

## Correspondence with the code

**The heap as a function.** `ram[]` is modelled by `heap`, a function whose domain is
the set of offsets that a walk visits. The walk of the code starts at 0 and adds
`header.size + HEADER_SIZE` until it reaches the end; as long as the headers tile
`ram[]` it visits exactly the domain, in order, so a loop of the code is a
quantification over the domain, its early exit the minimum (`FindFreeBlock`), its
accumulator a sum (`MemStats`) or the end of a run (`SweepAndMerge`). `Tiled` is an
invariant that is checked and proved, and that the loops then really compute what
these definitions say is the subject of `HeapWalks`.

`Heap` leaves out payload bytes and the checksum byte. `_write_header` recomputes the
checksum each time and no caller is assumed to overwrite a header, so at the offsets of
the domain it is right; `RamImage` keeps the bytes and checks it. Over `Heap`, no caller
hands `mem_free` a pointer into the middle of a block.

**The bytes of `ram[]`.** In `RamImage` the memory is a function from addresses to
bytes. `Packed` lays a header out as `BlockHeader` is packed and `Checksum` is the XOR of
its first seven bytes, bit by bit, each bit the parity of a count. `ReadHeader` reads a header
wherever it is asked to, `Visited` and `Walk` follow the sizes they read, and nothing erases what a
walk no longer reaches: headers of blocks that were merged or moved stay until something
is written over them. The heap operations are those of `Heap`, applied to what a walk
reads; only the headers they change are written back (`Written`). `Fill` is the owner of
a handle writing all of its block, each byte told apart by handle and position, both
modulo 16 (a byte has room for no more), so
`DataKept` sees a byte that is lost, moved wrongly or taken from another block. The data
survive in `ram[]` after their block is gone, as do the headers.

`CompactStep` reads one header at `read_head` and, if its block is USED, moves its bytes
down and patches the table; `CompactEnd` writes the FREE header and sweeps.
`MemAllocOrCompact` starts the same loop with its arguments in `retry`, and `Retry` is the
second `mem_alloc_handle`. The callers of this module pass ids of tasks that were never
spawned, so no quota refuses anything and the search for a victim finds none. The history
variable `filled` says whose data are known. `ImplementsHandles` maps the headers that a
walk reaches (`Front` and `Rear` of a compaction under way) to the heap of
`HandleAllocator`: every step over bytes is the step of that module, so what is proved
there of handles holds of `ram[]`.

**Calls as steps.** A call is one step, with everything it does: `MemFree` frees,
sweeps the whole heap and refunds. `MemAllocResult` has one arm per `return` of
`mem_alloc`, in their order, including the flag that two of the refusals leave.
`task_spawn` is two steps because `fn()` runs in between: `TaskSpawn` pushes on
`stack`, `TaskReturn` pops. Any other call may come between them, also another
`task_spawn`, also of the same id. A refused call that changes nothing is a stuttering
step.

**The calls that walk.** In `HandleAllocator` `pc` says where in a call the program is.
`mem_alloc_or_compact` whose first attempt succeeds is a `MemAllocHandle`; otherwise
`MemAllocOrCompact` keeps the arguments in `request` and enters `mem_compact`, whose loop
is `CompactUsed`, `CompactFree` and `CompactEnd`, with the locals `read_head` and
`write_head`. `Retry` is the second attempt and, if it fails, the choice of a victim;
`EvictOwned` and `EvictOther` are the iterations of `free_task_blocks`, with its local
`offset`, and `EvictEnd` its end; `LastTry` is the third attempt. `mem_alloc`, `mem_free`
and the sweep inside these are atomic: `HeapWalks` has their loops. A step of
`mem_compact` drops the headers it leaves behind from the domain of `heap`: they are still
in memory, where `RamImage` has them, but this walk and later ones do not read them.

**The promise of the handles.** `HandleStore` knows which kind of call is under way: `none`,
a compaction, a request, or a request that has reclaimed an owner's objects. An object is
deleted only while there is none, so no step of a compaction or of an eviction may lose one;
a `Reclaim` takes all objects of one idle owner and is possible once in a request. `Call`
maps `pc` and `request` to that variable; `Objects` hides the victim's objects from the moment
it is chosen, so that an eviction takes effect at once and its loop changes nothing the
callers can see. `ImplementsHandleStore` says one more thing, which the abstract module
cannot because calls have no names there: that a step between calls which deletes an object
is the `mem_free_handle` of its handle, or a reset.

**The walks.** `HeapWalks` is `level_2.c` at the grain of its loops: `pc` says which loop
of which call is under way, `offset`, `best`, `run` and `stats` are that loop's locals,
and a step is one iteration (`SearchStep`, `SweepStep`, `StatsStep`) or a call's
beginning or end. `run` keeps only what is used of `prev_free` and `prev_free_header`.
`WriteHeader` may put a header anywhere, as `_write_header` does; merging takes the
absorbed header out of the domain because a walk no longer reaches it. The loops of
`allocator.c` are the same, line for line (`allocator.c:439` on); only the checks between them
differ. The refinement mapping to `CoreAllocator` is `Settled`: in the middle of a sweep
it shows the heap the sweep will leave, so `mem_free` takes effect with its first write
and `mem_alloc` with its last.

**The sandbox over level 2.** `TaskLedger` states that `TaskAllocator`, with everything
that has to do with tasks hidden, implements `CoreAllocator`: quotas, flags, refunds
and nested spawns may refuse a request, but never change what a granted one does to the
heap.

**Callers.** Nothing in the code ties the `task_id` argument to the running task, so
callers pass any of `ClientIds`, and anybody frees anything. Three preconditions are
assumed, each kept by every caller in the repository: ids passed to `task_spawn` index
`tasks[]` (`SpawnIds`); the heap is reset between tasks, not inside one, and together
with the handle table where there is one (`test_allocator.c:254`, `test_level_4.c:27`);
a program that uses handles reaches its blocks through handles only (compaction does
not tell raw pointers).

**The counter and the heap.** `task_spawn` zeroes a task's counter whatever the heap
holds. `TaskLedger` adds the history variable `baseline`, the bytes tagged with the id
when it was last spawned, so that `LedgerExact` can say what the counter does mean. It
is updated beside `Next` and restricts nothing.

**The fixed-block table.** `FixedBlocks` keeps `used_blocks[]` as an array.
`FindFreeBlocks` is the specification of the search that `mem_alloc` uses and
`ScanFreeBlocks` the counting loop of the code; `ScanExact` says they agree.
`mem_free(DEVICE_RAM)` reads one past the array. In the build of the Makefile `ram[]`
is placed directly behind it, so the word read is the first of `ram[]`; that word is the
variable `ram_word`, written by the owner of pointer 0.

## The runs

Every run checks deadlock as well; none may stop.

| Run | Bounds | Shows |
|---|---|---|
| `heap` | 76 bytes, requests 3, 4, 9, 17, 28, 29, all strategies, no tasks | `HeapTiled`, `HeapCoalesced`, `StatsAccountForRam`, `ImplementsRegionStore` over every history of the raw heap |
| `tasks` | 32 bytes, two task ids, quota 25, two nested spawns | `TypeOK`, `LedgerExact`, `PeakWithinQuota`, `IdleEntriesFrozen`, `ImplementsCore` over every interleaving of spawns, returns, allocations and frees |
| `walks` | 64 bytes, requests 3, 4, 9, 20, 21, all strategies, one task id | `TypeOK`, `WalkOnHeaders`, `CopyIsFresh`, `SweptBehind`, `SearchExact`, `StatsExact`, `ImplementsCore`, `CallsReturn` at every iteration of every loop |
| `handles` | 36 bytes, three handles, one task and the unowned id 0, requests 4, 7, 20 | `HandleTypeOK`, `HandlesNameBlocks`, `HeapSound`, `CompactionConsolidates`, `CompactedRetryServed`, `ImplementsHandleStore`, `CallsReturn` at every iteration of `mem_compact` and `free_task_blocks` |
| `fixed_blocks` | seven blocks, requests of one to three, pointers every 32 bytes on both sides of the table | `TypeOK`, `RunsTile`, `ScanExact`, `ImplementsRegionStore` |
| `ram` | 36 bytes, three handles of which two have data, requests 4 and 9 | `TypeOK`, `HeadersIntact`, `DataKept`, `ImplementsHandles` at every iteration of `mem_compact` |
| `tail_free`, `nested_spawn`, `evict_needless`, `evict_stale`, `free_past_end` | as the passing runs, or smaller | one violated property each, see [what the checks found](#what-the-checks-found) |
| `stale_free` | 48 bytes, three handles, requests of 4, nobody writes to `ram[]` | `OnlyLivePointersAccepted` violated by a header that a compaction left behind |

*Why the bounds are enough.* A minimal block takes 12 bytes. 76 bytes hold up to six
blocks: a freed block with FREE neighbours on both sides between live ones, holes that
are too small, exact, too large by 4 or 8 bytes (given whole) and by 12 or more (split).
32 bytes hold two blocks with room for an unsplit one of 8 or 12 usable bytes more than
asked for, and with quota 25 each of the two quota checks refuses requests the other
lets through; two ids nested two deep give respawns, self-nesting, frees of another
task's blocks and of blocks older than the spawn. One strategy is enough there: with two
blocks there is never a choice between two FREE ones. 64 bytes hold five blocks: the
search then has several FREE blocks to compare, equally tight ones among them, before a
last one at the very end of `ram[]`, and a free between two FREE neighbours makes the
sweep merge twice in one run, with live blocks and another FREE one around it; requests
3 and 21 are outside `MIN_ALLOC .. MAX_ALLOC`. 36 bytes hold three blocks, so that
compaction moves two, in order, over one hole; request 7 leaves fragments that only
compaction joins, and request 20 fits only an almost empty heap. Compactions that make
an allocation succeed, evictions that do, and evictions after which the request still
fails are all reached, the last also with room to spare. The same 36 bytes serve `ram`: blocks of 12 and 20 bytes over holes
of 12 and 24 give moves that overlap their source and moves that do not, two moves in
one compaction, and retries that succeed and fail. Data are written through two of the
three handles; frees and compactions bring their blocks to every position, next to each
other and around the third. Sizes, offsets and counters are bounded by the memory, so nothing
else is cut off: `MaxNesting` is the only bound on a counter of the code, namely the
depth of the C stack. `stale_free` needs 48 bytes, a block more than its requests take, so
that the header of the block that moved is not written over; it has no writers, because the
bytes a caller writes may pass for a header as well. Overflow is out of the question: sizes are at most 64 KiB and the
counters are 32 bits wide.

*Fairness.* Only inside a call: `HeapWalks` and `HandleAllocator` (in `HFairSpec`) have
weak fairness of `Step`, the iterations and ends of the loops and the attempts between
them, because nothing preempts a sequential program. No call is ever owed, so the actions
that begin one have no fairness, and the specifications whose steps are whole calls have
none at all. `CallsReturn`, of both, is the liveness property: `mem_alloc_or_compact`
returns whichever of its attempts fail. The rest is safety. `RamImage` needs no fairness,
since its steps are those of `HandleAllocator`.

*Mutants.* For each property of each passing run, `PROJECT.json` names a variant of a
definition, a plausible slip in that part of the code, under which the run finds the
property violated. The variants stand beside the definitions, marked `Variant`.

## What is proved

For every size of `ram[]` that is a multiple of 4 and holds a block, every number of
tasks, any ids, quotas, requests, strategies and depth of nesting (`HeapAssumption`,
`TaskAssumption`):

| Theorem of `TaskLedgerProofs` | Property |
|---|---|
| `TypeCorrect` | `TypeOK` |
| `AlwaysTiled` | `HeapTiled` |
| `AlwaysCoalesced` | `HeapCoalesced` |
| `QuotaHolds` | `PeakWithinQuota` |
| `ReportsFinal` | `IdleEntriesFrozen` |
| `StatsHold` | `StatsAccountForRam` |
| `LedgerHolds` | `LedgerExact` |
| `RegionStoreImplemented` | `ImplementsRegionStore` |
| `CoreImplemented` | `ImplementsCore` |

*The argument.* The inductive invariant is `IInv == TypeOK /\ HeapTiled /\
HeapCoalesced`. None of the three is inductive alone. Alignment (in `TypeOK`) is what
guarantees that the rest of a split holds a block; tiling is what makes the block after
a FREE one the only candidate for a merge, so that the sweep leaves no two FREE
neighbours; and a heap must already be coalesced for a split to leave it so, since the
FREE remainder takes the place of a block whose successor is then USED. `HeapLemmas`
proves this of `Occupy`, `SweepAndMerge` and `Release` for all heaps; two facts carry
most of it: every block but the first has a predecessor (`Predecessor`, by a greatest
element below it) and the run a sweep merges ends where the next block it keeps begins
(`RunEndIsNext`). `Outcomes` in `TaskLedgerProofs` then reduces the steps of the program
to four shapes (nothing granted, one block granted, one released, all reset), from which
each theorem is one case split. `PeakWithinQuota` is inductive relative to `IInv`: a
charge is bounded by the second quota check, a refund is positive because sizes are.
The refinement maps the USED blocks to regions; a grant takes bytes of a FREE block,
which tiling keeps apart from every USED one. `CoreImplemented` needs no invariant: a step
of the sandbox that changes the heap is, word for word, one of level 2.

`LedgerHolds` is the one theorem with a hypothesis of its own, `IdsFit`: no id a caller
passes turns into another task's in the 16 bits of the header. Every caller in the
repository keeps it, `MCTaskLedger` has TLC evaluate it, and it cannot be left out: TLC
finds `LedgerExact` violated in two steps when task 1 runs and a block is allocated for 65537.
Its inductive invariant is `LedgerInv`, next to `IInv`: a task that is active is on the stack of
spawns, so a return can only deactivate and only a spawn, which moves `baseline`, can
activate. What a call does to one task's bytes is `OccupyAddsBytes` and
`ReleaseRemovesBytes`: exactly the block granted or released, header included, because
sweeping moves and resizes no USED block. `StatsHold` needs nothing but a well-formed heap.

*Sums.* `BlockBytes` and `total_free_bytes` are folds over sets of blocks, and a fold is a
function chosen to satisfy a recursive equation. `NatLemmas` proves that such a function
exists for every finite set and that its values are fixed (`SumsExist`, `SumsAgree`),
that any element may be counted first (`SumOfRemove`) and that sums split (`SumOfUnion`), and
`HeapLemmas` that the sizes of blocks laid end to end add up to the distance they cover
(`SumOfTiles`), from which `BytesOfRam` says that tiled headers account for every byte.
Each of these would be an induction; each is proved by a least counterexample instead:
`SmallestSubset` gives a smallest subset for which the claim fails, and the subset without
one element refutes it.

For the same memories, tasks and calls and every size of the handle table
(`HandleAssumption`):

| Theorem of `HandleProofs` | Property |
|---|---|
| `TypeCorrect` | `HandleTypeOK` |
| `HandlesFollowBlocks` | `HandlesNameBlocks` |
| `AlwaysSound` | `HeapSound` |
| `HandleStoreImplemented` | `ImplementsHandleStore` |
| `CompactionHolds` | `CompactionConsolidates` |
| `RetryHolds` | `CompactedRetryServed` |

*The argument.* The inductive invariant is `HInv`. During a compaction it says
`Compacting`: the moved blocks tile `ram[]` up to `write_head`, those not read yet tile it
from `read_head` on, nothing lies between, and the gap is either empty or at least as large
as a smallest block. The last part is what `HeapSound` lacks: without it a move could leave
a gap in which the closing FREE header does not fit, and `Closed` would lose bytes.
`CompactionMoves`, `CompactionPasses` and `CompactionCloses` take it through the loop.
`Names` says of the table what `HandlesNameBlocks` says, in the form in which a single
entry can be followed: an entry is added, cleared or repointed together with its block.
That it is one to one is what lets `mem_compact` stop at the first entry that matches
(`RepointedShape`), and that the place a block moves to is no live block's is what keeps it
one to one (`NamesRepointed`). During an eviction `EvictInv` says that no block of the victim lies behind
`offset`, so that at its end nothing hidden is left to be shown. For the refinement, an
attempt either creates the object of an unused handle or changes at most a flag
(`AttemptOutcome`); a move, a passed block and an evicted block change nothing that is shown
(`MoveHidden`, `WalkHidden`, `EvictionHidden`, `EvictEndHidden`); and the choice of the
victim reclaims its objects (`VictimReclaimed`), in a request that has not reclaimed any yet
(`HInvCall`). `OnlyFreeDeletes` goes through the steps that start between calls: all but
`mem_free_handle` and a reset leave every object that was there. The victim exists because there are
finitely many tasks (`HighestOfFinite`), and is idle because only idle ones are candidates.
`CompactionHolds` reads the end of a compaction off `Compacting`: all that is left are
live blocks before `write_head`, so `write_head` is the only place for a FREE one
(`CompactionGathers`), and since blocks cover all of `ram[]` again it has every byte the
live ones do not take (`BytesOfFreeAndUsed`). That its moves keep the order is
`MovesKeepOrder`: the blocks already moved lie before `write_head`, those still to be read
behind the one that moves. `RetryHolds` uses the part of `HInv` about the phase `retry`, one FREE
block at most: a request that fits in the bytes the live blocks leave finds that block
(`OneFreeBlockFound`), and of the two quota checks the second, on the size that is given, is
the stricter (`ConsolidatedServes`). The attempt after an eviction has no such invariant:
it does fail with room to spare.

For the same memories and any requests, ids and strategies (`HeapAssumption`,
`WalkAssumption`):

| Theorem of `WalkProofs` | Property |
|---|---|
| `TypeCorrect` | `TypeOK` |
| `NeverOffTheHeaders` | `WalkOnHeaders` |
| `CopyNeverStale` | `CopyIsFresh` |
| `OnePassSweeps` | `SweptBehind` |
| `SearchCorrect` | `SearchExact` |
| `StatsCorrect` | `StatsExact` |
| `AtomicImplemented` | `ImplementsCore` |

*The argument.* The inductive invariant of `WalkProofs` joins these properties to the
loop invariants. `SearchedBehind` says what the search knows of the blocks behind it:
none would have ended it, and `best` is the first of the tightest; at the end of `ram[]`
that is all blocks, and `ExhaustedIsFound` turns it into `FindFreeBlock`.
`RunReachesSweep` says that a FREE block that ends where the sweep stands is the run it
is building, so a FREE block further back is never skipped. The loops need each other:
the search and `Split` rely on a tiled and coalesced heap, which is what the last sweep
left, and the sweep starts from the heap of the last call, where only the freed block
can have FREE neighbours. For the refinement, one merge changes the heap but not what
merging the rest of it gives (`JoinedSweepsAlike` in `HeapLemmas`), so a `SweepStep`
leaves `Settled` as it was, and at the end of the sweep nothing is left to merge
(`SweepOfCoalesced`). `StatsCorrect` has an invariant of its own for the loop of `mem_stats`,
`StatsInv`: what it has counted is what `MemStats` says of the FREE blocks behind `offset`.

For every `ram[]` of less than 2^32 bytes, since `size` is a `uint32_t`, every size of the
handle table and any task ids of 16 bits, requests and writers (`HeapAssumption`,
`HandleAssumption`, `RamAssumption`):

| Theorem of `RamProofs` | Property |
|---|---|
| `TypeCorrect` | `TypeOK` |
| `HeadersHold` | `HeadersIntact` |
| `DataHolds` | `DataKept` |
| `HandlesImplemented` | `ImplementsHandles` |

*The argument.* The inductive invariant `RInv` speaks of `Blocks`, the headers that walks
read in `ram[]` as it is. `Memory` says that each of them is stored with its checksum right,
that the table names the live ones one to one, and that the owners in `filled` find their
data. `HeapFor` adds what `HInv` says of them: `Compacting` inside `mem_compact`,
`WellFormed` between calls. `CallFor` says what `mem_alloc_or_compact` keeps. None of the
properties is inductive alone: whether a byte is a header's or a caller's depends on the
tiling, whether the walk stays on the headers on the bytes, and whether a write of a caller
misses the headers on the table.

Three groups of lemmas carry it. *Headers*: `_read_header` returns what `_write_header`
wrote, sizes above 65535 and any owner included. *Walks*: `Visited` is a recursive function,
so it must be shown to exist (`VisitsExist`) and to be fixed by its equation; over a memory
that stores tiled headers it visits those and no others (`VisitsTiles`, `WalkReads`), whatever
bytes that look like headers lie between. *Writes*: writing the headers in which two heaps
differ gives a memory that stores the second (`WrittenStores`) and leaves the bytes of every
block that is live in both alone; a `memmove` of a compaction, whose target may overlap its
source, reaches no header that is still to be read (`MoveReachesNone`) and stores the block
where it is moved (`MemmoveStores`).
That a memory storing a heap makes this heap the next `Blocks` (`Carries`) then turns each
action into the operation of `Heap` or `Compaction` it is modelled on, for which `HeapLemmas`
has the rest.

For `HandlesImplemented` each action is shown to be the action of `HandleAllocator` of the same
name over `Blocks`, with one entry of `tasks[]`, never active, so that no quota is charged
and `Retry` finds no victim; writes of callers change nothing that is mapped.

For every number of blocks and any requests, pointers and words (`BlockAssumption`):

| Theorem of `FixedBlocksProofs` | Property |
|---|---|
| `TypeCorrect` | `TypeOK` |
| `AlwaysTiled` | `RunsTile` |
| `RegionStoreImplemented` | `ImplementsRegionStore` |
| `ScanHolds` | `ScanExact` |

Here `IInv == TypeOK /\ RunsTile`. Runs are disjoint because the first block of a run
holds a positive number and every other one -1. The read past the end is part of the
model and of the proof: what it clears is not in the table, so these hold in spite of
it. `ScanHolds` needs no invariant: `ScanFindsFirst` says of every table and every length
that the counting scan stops at the end of the first run of free blocks. Its counter is a
recursive function; `CountsAreRunLengths` shows, again by a least counterexample, that it
can only be the length of the run that ends where the scan stands.

The strengthened invariants were model-checked before they were proved: `LedgerInv` with
the bounds of `tasks`, `StatsInv` with those of `walks`, `RInv` with those of `ram`.

*Only model-checked*: `CallsReturn`, of `HeapWalks` and of `HandleAllocator`, because liveness
under fairness is out of the prover's reach. Every other property of a passing run is a
theorem.

## What the checks found

| Run | Finding |
|---|---|
| `tail_free` | `mem_free` refuses the live pointer of a 4-byte block at the very end of `ram[]`: its range check (`allocator.c:187`) excludes the last 8 bytes, where that block's payload begins |
| `evict_needless` | `mem_alloc_or_compact` evicts an idle task when the request failed for another reason than space, a refusal by the caller's own quota for example (`allocator.c:403`) |
| `evict_stale` | the victim is chosen by a counter that does not follow an idle task's blocks (`allocator.c:416`): a task that owns nothing is chosen again and again, and one that owns much never |
| `free_past_end` | in `level_1.c`, `mem_free(DEVICE_RAM)` reads past `used_blocks[]` and, once the memory there is positive, returns true and zeroes it (line 144) |
| `stale_free` | `mem_compact` leaves the header of a block it moved in `ram[]`, USED and with its checksum right, so `mem_free` accepts the pointer the block had before; what it then writes may lie inside a live block (`level_4.c:413`, `allocator.c:378`) |
| `nested_spawn` | a task that spawns its own id runs on unmetered after the inner return, which marks it inactive, and is given more than its quota (`allocator.c:285`) |

All were reproduced in C with the program's own constants. For `stale_free`: handles of 200
and 100 bytes, free the first, compact, allocate 400 bytes; `mem_free(216)` is accepted. For
`nested_spawn`: a task with quota 100 spawns itself and is then given 8192 bytes, with
`quota_exceeded` false in its report.

Three more disagreements with the documentation have no run of their own:

- *Payload that passes for a header.* Without any compaction `mem_free` accepts a pointer into
  a block whose owner wrote eight bytes of which the last is the XOR of the others
  (`level_4.c:213`, `allocator.c:193`). With 36 bytes, requests 4 and 9 and
  `Writers = {1}`, TLC finds `OnlyLivePointersAccepted` violated by two allocations and a
  `Fill`: the second block then holds the bytes 32 to 39 at offset 20. In C: fill a block of
  100 bytes with the letter `a`; `mem_free` of its pointer plus 40 is accepted.
- *No compaction after an eviction.* The third attempt of `mem_alloc_or_compact` runs on the
  holes the victim left (`allocator.c:429`, `level_4.c:465`). With 36 bytes, 12 of an idle
  task on each side of 12 of another owner, a request of 9 bytes evicts the task and fails
  with 24 bytes free. In C: eight handles of 8184 bytes, in turn of an idle task and of owner
  0; a request of 8192 bytes evicts the task and returns -1 with 32736 bytes free. This is
  why `CompactedRetryServed` speaks of the attempt after the compaction only.
- *Leaks from before the spawn.* `task_spawn` reports a leak when `current_alloc` is not 0
  (`allocator.c:280`), a counter that starts at 0 with each spawn; it does not scan the heap,
  as `README.md:61` says. By `LedgerExact` the counter is the bytes owned now less
  `baseline`, so blocks the id already owned when it was spawned go unreported.

Two smaller disagreements show in properties that hold. `PeakWithinQuota` says *below*
the quota: the second check has `>=` (`allocator.c:154`) where the first has `>`, so a
request that brings a task exactly to its quota is refused and flagged. `LedgerExact`
subtracts `baseline`, so a respawned task can hold more than its quota. `LedgerExact` and
`IdleEntriesFrozen` hold of a task that `nested_spawn` leaves unmetered, because they say
nothing, or only that nothing changes, of entries that are inactive.

## What is not modelled

- *Evictions over bytes.* `RamImage` has no tasks to evict; `free_task_blocks` is a loop over
  headers in `HandleAllocator`. Nor are `mem_free` and `sweep_and_merge` loops over bytes:
  over headers they are, in `HeapWalks`.
- *Raw pointers beside handles.* No model over `Heap` calls `mem_free` with a pointer it
  should not have; [above](#what-the-checks-found) are some that would be accepted.
- *`mem_dump`*: output only; that its `csum` column never says `BAD` is in `HeadersIntact`.
- *Snapshots.* `level_4.c` differs from `allocator.c` in one line: `mem_free_handle`
  returns -1, which is `true`, for an invalid handle (`level_4.c:365`; `allocator.c:331`
  returns false). What `RamImage` does not cover of it is modelled from `allocator.c`.
  `level_3.c` lacks the handles, has `MAX_ALLOC` 4096 and computes in `int` what
  `allocator.c` computes in `uint32_t` and casts; `TaskAllocator` is a model of it as well.
- *Undefined calls.* `task_spawn` with an id outside `tasks[]`, negative quotas near the
  limits of `int`, ids that do not fit the 16 bits of the header beyond what
  `TASK_ID_RANGE` says.
- *The C test and benchmark programs*: callers, subsumed by the callers of the models.

## The plan

Done, in this order: the heap and the sandbox with their proofs, the handle interface,
the fixed-block allocator with its proofs, the walks of level 2 with theirs, both the
walks and the sandbox as implementations of `CoreAllocator`, the bytes of `ram[]` with the
loop of `mem_compact`, the loops of `mem_compact` and `free_task_blocks` over headers with
their proofs, the bytes as an implementation of these, the sums (`mem_stats`, the
counters of the tasks and what a compaction leaves free), the theorems about the bytes, and
the promise of the handles by kind of call.
Still worth doing:

1. Evictions over bytes: `RamImage` with tasks, and its refinement of `HandleAllocator` with
   the tasks kept.
2. That every call returns, as far as the prover reaches: a measure that each step of a loop
   decreases, as an action property of `HeapWalks` and of `HandleAllocator`, of which
   `CallsReturn` is the consequence under weak fairness.
