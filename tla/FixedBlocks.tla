----------------------------- MODULE FixedBlocks -----------------------------
(***************************************************************************)
(* progression/level_1.c, the first allocator of the repository: ram[] is  *)
(* cut into blocks of BLOCK_SIZE bytes and used_blocks[] says what each    *)
(* is.  The first block of an allocation holds the number of its blocks,   *)
(* the others hold -1, and a free block holds 0.                           *)
(*                                                                         *)
(* mem_free reads used_blocks[] one past its end when ptr is DEVICE_RAM.   *)
(* The build puts ram[] there, so what it reads is the first two bytes the *)
(* owner of pointer 0 wrote: the one word of ram[] that is modelled.       *)
(***************************************************************************)
EXTENDS Integers, FiniteSetsExt

CONSTANTS
  N_BLOCKS,    \* blocks of ram[] (1024 in the source)
  MAX_ALLOC,   \* the largest request accepted (4096 in the source)
  Requests,    \* n_bytes arguments of mem_alloc
  Pointers,    \* ptr arguments of mem_free
  Words        \* what a caller may leave in the first word of its memory

BLOCK_SIZE == 64
MIN_ALLOC == 4
DEVICE_RAM == N_BLOCKS * BLOCK_SIZE

ASSUME BlockAssumption ==
  /\ N_BLOCKS \in Nat \ {0}
  /\ MAX_ALLOC \in Nat
  /\ Requests \subseteq Int
  /\ Pointers \subseteq Int
  /\ Words \subseteq Int

VARIABLES
  used_blocks,   \* used_blocks[]
  ram_word       \* the first int16_t of ram[]

vars == <<used_blocks, ram_word>>

Indices == 0 .. N_BLOCKS - 1

\* "No such block": the -1 of the source.
None == -1

Init == used_blocks = [i \in Indices |-> 0] /\ ram_word = 0

-----------------------------------------------------------------------------
(***************************************************************************)
(* mem_alloc                                                               *)
(***************************************************************************)

\* Variant: the upper bound is not checked.
ValidRequestAnySize(n) == n >= MIN_ALLOC

ValidRequest(n) == n >= MIN_ALLOC /\ n <= MAX_ALLOC

RequiredBlocks(n) == n \div BLOCK_SIZE + (IF n % BLOCK_SIZE # 0 THEN 1 ELSE 0)

\* The first run of n free blocks.
FindFreeBlocks(table, n) ==
  LET starts == {i \in Indices : \A j \in i .. i + n - 1 : j \in Indices /\ table[j] = 0}
  IN  IF starts = {} THEN None ELSE Min(starts)

\* Variant: a used block does not end the count.
ScanFreeBlocksResumed(table, n) ==
  LET current_free_blocks[i \in Indices] ==
        IF i = 0 THEN (IF table[i] = 0 THEN 1 ELSE 0)
        ELSE IF table[i] = 0 THEN current_free_blocks[i - 1] + 1
        ELSE current_free_blocks[i - 1]
      stops == {i \in Indices : current_free_blocks[i] = n}
  IN  IF stops = {} THEN None ELSE Min(stops) - n + 1

\* The scan that finds it: it counts free blocks, from 0 again after a used one.
ScanFreeBlocks(table, n) ==
  LET current_free_blocks[i \in Indices] ==
        IF table[i] # 0 THEN 0
        ELSE IF i = 0 THEN 1
        ELSE current_free_blocks[i - 1] + 1
      stops == {i \in Indices : current_free_blocks[i] = n}
  IN  IF stops = {} THEN None ELSE Min(stops) - n + 1

\* Variant: the last block of an allocation is not marked.
OccupyShort(table, first, n) ==
  [i \in Indices |-> CASE i = first -> n
                       [] i \in first + 1 .. first + n - 2 -> -1
                       [] OTHER -> table[i]]

Occupy(table, first, n) ==
  [i \in Indices |-> CASE i = first -> n
                       [] i \in first + 1 .. first + n - 1 -> -1
                       [] OTHER -> table[i]]

MemAlloc(n) ==
  LET first == FindFreeBlocks(used_blocks, RequiredBlocks(n))
  IN  /\ ValidRequest(n)
      /\ first # None
      /\ used_blocks' = Occupy(used_blocks, first, RequiredBlocks(n))
      /\ UNCHANGED ram_word

(***************************************************************************)
(* mem_free                                                                *)
(***************************************************************************)

\* What mem_free reads at index i of used_blocks[].
EntryRead(i) == IF i \in Indices THEN used_blocks[i] ELSE ram_word

\* mem_free(ptr) returns true.
Accepted(ptr) ==
  /\ ptr >= 0
  /\ ptr <= DEVICE_RAM
  /\ ptr % BLOCK_SIZE = 0
  /\ EntryRead(ptr \div BLOCK_SIZE) > 0

\* Variant: only the first block of the allocation is freed.
ClearedHead(table, first, n) == [i \in Indices |-> IF i = first THEN 0 ELSE table[i]]

Cleared(table, first, n) ==
  [i \in Indices |-> IF i \in first .. first + n - 1 THEN 0 ELSE table[i]]

MemFree(ptr) ==
  LET first == ptr \div BLOCK_SIZE
      n == EntryRead(first)
  IN  /\ Accepted(ptr)
      /\ used_blocks' = Cleared(used_blocks, first, n)
      /\ ram_word' = IF N_BLOCKS \in first .. first + n - 1 THEN 0 ELSE ram_word

-----------------------------------------------------------------------------

MemInit == used_blocks' = [i \in Indices |-> 0] /\ ram_word' = 0

\* The owner of the memory at pointer 0 writes to it.
ClientWrite(word) ==
  /\ used_blocks[0] > 0
  /\ ram_word' = word
  /\ UNCHANGED used_blocks

Next ==
  \/ \E n \in Requests : MemAlloc(n)
  \/ \E ptr \in Pointers : MemFree(ptr)
  \/ MemInit
  \/ \E word \in Words : ClientWrite(word)

Spec == Init /\ [][Next]_vars

-----------------------------------------------------------------------------
(***************************************************************************)
(* Properties.                                                             *)
(***************************************************************************)

\* An allocation is at most as long as the largest request needs.
TypeOK ==
  /\ used_blocks \in [Indices -> -1 .. RequiredBlocks(MAX_ALLOC)]
  /\ ram_word \in Words \cup {0}

Heads == {i \in Indices : used_blocks[i] > 0}

Run(i) == i .. i + used_blocks[i] - 1

\* Every block that is not free belongs to one allocation, whose first block holds
\* its length: no call leaves a -1 that no free can reach, and no length reaches
\* into another allocation or past the table.
RunsTile ==
  /\ \A i \in Heads : \A j \in Run(i) : j \in Indices /\ (j # i => used_blocks[j] = -1)
  /\ \A j \in Indices : used_blocks[j] = -1 => \E i \in Heads : j \in Run(i)

\* The scan of find_free_blocks stops at the first run of n free blocks, or finds
\* none because there is none.
ScanExact ==
  \A n \in 1 .. RequiredBlocks(MAX_ALLOC) :
    ScanFreeBlocks(used_blocks, n) = FindFreeBlocks(used_blocks, n)

\* The memory each allocation was given, by its pointer.
Regions ==
  [ptr \in {i * BLOCK_SIZE : i \in Heads} |-> used_blocks[ptr \div BLOCK_SIZE] * BLOCK_SIZE]

Region == INSTANCE RegionStore
            WITH SIZE <- DEVICE_RAM, OVERHEAD <- 0, GRAIN <- BLOCK_SIZE,
                 regions <- Regions

\* Allocations never overlap, and a call adds or removes at most one.
ImplementsRegionStore == Region!Spec

\* mem_free returns true for the pointer of a live allocation only (the test of
\* invalid pointers in test_level_1.c, which passes DEVICE_RAM).
AcceptsLiveOnly == \A ptr \in Pointers : Accepted(ptr) => ptr \in DOMAIN Regions

=============================================================================
