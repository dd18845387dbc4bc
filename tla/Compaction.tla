----------------------------- MODULE Compaction -----------------------------
(***************************************************************************)
(* The handle table as a function, and the parts of mem_compact that are   *)
(* the same over headers (HandleAllocator) and over bytes (RamImage).      *)
(***************************************************************************)
EXTENDS Heap

CONSTANT MAX_HANDLES   \* entries of handle_table (4096 in the source)

ASSUME HandleAssumption == MAX_HANDLES \in Nat \ {0}

HandleRange == 0 .. MAX_HANDLES - 1

NoHandles == [i \in HandleRange |-> None]

UnusedHandles(table) == {i \in HandleRange : table[i] = None}

\* Variant: the patched entry gets the offset of the block's header.
RepointedToHeader(table, old, new) ==
  LET found == {i \in HandleRange : table[i] = old}
  IN  IF found = {} THEN table ELSE [table EXCEPT ![Min(found)] = new - HEADER_SIZE]

\* The first entry that names a block follows it when it moves.
Repointed(table, old, new) ==
  LET found == {i \in HandleRange : table[i] = old}
  IN  IF found = {} THEN table ELSE [table EXCEPT ![Min(found)] = new]

\* Variant: the rest must be able to hold a split block to become a FREE one.
LeavesBlockLarger(rest) == rest > HEADER_SIZE + MIN_ALLOC

\* What is left of ram[] behind the live blocks becomes a FREE block.
LeavesBlock(rest) == rest >= HEADER_SIZE + MIN_ALLOC

=============================================================================
