---------------------------- MODULE RamProperties ----------------------------
(***************************************************************************)
(* The correctness properties of RamImage.                                 *)
(***************************************************************************)
EXTENDS RamImage

\* Every byte is a byte; a handle is invalid or holds a pointer into ram[].
TypeOK ==
  /\ ram \in [Bytes -> 0 .. 255]
  /\ handle_table \in [HandleRange -> {None} \cup {o + HEADER_SIZE : o \in Offsets}]
  /\ pc \in {"idle", "compact", "retry"}
  /\ read_head \in 0 .. DEVICE_RAM
  /\ write_head \in 0 .. DEVICE_RAM
  /\ retry \in {<< >>} \cup (Requests \X TaskIds)
  /\ filled \subseteq HandleRange

Named == {i \in HandleRange : handle_table[i] # None}

\* The blocks in ram[]: those the compaction under way has moved, and those it has
\* not read yet.
Front == Walk(ram, 0, write_head)

Rear == Walk(ram, read_head, DEVICE_RAM)

Blocks == Over(Rear, Front)

\* At every step of a compaction the blocks already moved fill ram[] up to
\* write_head, the blocks not read yet fill it from read_head to the end, and all
\* their checksums are right: no move touches a header that is still to be read,
\* and mem_dump never prints csum=BAD.
HeadersIntact ==
  /\ write_head <= read_head
  /\ \A o \in DOMAIN Blocks : Blocks[o] \in Headers /\ ChecksumOk(ram, o)
  /\ write_head # 0 => \E o \in DOMAIN Front : NextBlock(Front, o) = write_head
  /\ read_head # DEVICE_RAM => \E o \in DOMAIN Rear : NextBlock(Rear, o) = DEVICE_RAM

\* What an owner wrote to its block is what it reads through the handle, byte for
\* byte, wherever the block is now and whatever was split, merged or moved since.
DataKept ==
  \A i \in filled :
    \A k \in 0 .. SizeAt(ram, handle_table[i] - HEADER_SIZE) - 1 :
      ram[handle_table[i] + k] = Datum(i, k)

\* The heap of the abstract program is the blocks that are reached here; the ids the
\* callers pass name no entry of its tasks[].
NoTasks == [t \in {0} |-> [quota_bytes |-> 0,
                          bytes_allocated |-> 0,
                          quota_exceeded |-> FALSE,
                          current_alloc |-> 0,
                          active |-> FALSE]]

Abstract == INSTANCE HandleAllocator
              WITH heap <- Blocks, request <- retry, tasks <- NoTasks, stack <- << >>,
                   largest_idle_task <- None, offset <- 0, MAX_TASKS <- 1, ClientIds <- TaskIds,
                   SpawnIds <- {}, Quotas <- {}, Strategies <- {}, MaxNesting <- 0

\* Packed headers, memmove over the blocks that follow, and stale headers left about:
\* step for step, mem_compact and the calls around it do on the bytes what
\* HandleAllocator says of blocks, so what is shown of its handles and its heap holds
\* of ram[].
ImplementsHandles == Abstract!HSpec

-----------------------------------------------------------------------------
(***************************************************************************)
(* What the documentation says and the code does not do.                   *)
(***************************************************************************)

\* mem_free accepts a pointer only if it is that of a live block (README: "the
\* checksum validation fails and the double-free or invalid-free is safely
\* rejected").  Two things pass the checks that are no block: the header a moved block
\* left behind, and eight bytes of somebody's payload.
OnlyLivePointersAccepted ==
  pc = "idle" =>
    \A ptr \in 0 .. DEVICE_RAM : Accepts(ram, ptr) => \E i \in Named : handle_table[i] = ptr

=============================================================================
