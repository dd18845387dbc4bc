--------------------------- MODULE WalkProperties ---------------------------
(***************************************************************************)
(* What the loops of HeapWalks must do: compute what Heap says they do,    *)
(* without ever losing the chain of headers they walk along, and return.   *)
(***************************************************************************)
EXTENDS HeapWalks

\* Every variable has its type.
TypeOK ==
  /\ TypedHeap(heap)
  /\ pc \in Phases
  /\ call \in [need : Nat, task_id : Int, strategy : Int]
  /\ offset \in Nat
  /\ best \in [at : Offsets \cup {None}, diff : Nat]
  /\ run \in [at : Offsets \cup {None}, size : Nat]
  /\ stats \in [total_free_bytes : Nat, largest_free_block : Nat, num_free_fragments : Nat]

\* At every step of every loop, in the middle of a merge too, the headers tile
\* ram[] and the loop stands on one of them or has reached the end: no header is
\* read from payload.
WalkOnHeaders ==
  /\ Tiled(heap)
  /\ offset \in DOMAIN heap \cup {DEVICE_RAM}

\* The copy of a header that sweep_and_merge carries is still the header in ram[]
\* after every merge, and the run it stands for ends where the loop stands.
CopyIsFresh ==
  run.at # None =>
    /\ run.at \in FreeBlocks(heap)
    /\ heap[run.at].size = run.size
    /\ NextBlock(heap, run.at) = offset

\* No two FREE blocks are neighbours behind the sweep, and none at all in any
\* other call: the one pass over the heap that a free makes is enough.
SweptBehind ==
  \A o, p \in FreeBlocks(heap) :
    NextBlock(heap, o) = p => pc = "sweep" /\ p >= offset

\* The loop of find_free_block ends with the block that the strategy promises: the
\* first that is large enough, the first of the tightest ones, or the first
\* exact fit, and with -1 only if there is none.
SearchExact ==
  pc = "occupy" => best.at = FindFreeBlock(heap, call.need, call.strategy)

\* The loop of mem_stats adds up exactly the FREE blocks.
StatsExact ==
  pc = "stats" /\ offset >= DEVICE_RAM - HEADER_SIZE => stats = MemStats(heap)

\* The heap that an atomic mem_free would have left: merging what is left to merge
\* finishes the sweep under way.
Settled == IF pc = "sweep" THEN SweepAndMerge(heap) ELSE heap

Atomic == INSTANCE CoreAllocator WITH heap <- Settled

\* Seen from outside, every call is one atomic change of the heap, the one that
\* CoreAllocator says: mem_free takes effect with its first write and the steps
\* of its sweep are invisible.
ImplementsCore == Atomic!Spec

\* Every call returns: no loop stands still, and none runs past the end.
CallsReturn == pc # "idle" ~> pc = "idle"

=============================================================================
