------------------------------ MODULE RamImage ------------------------------
(***************************************************************************)
(* The handle interface over the bytes of ram[], as progression/level_4.c  *)
(* has it and allocator.c after it: packed headers with their checksum,    *)
(* the callers' data between them, and mem_compact as the loop that moves  *)
(* blocks over the headers it has read.  Bytes that no walk reaches stay   *)
(* what they were, headers of blocks that merged or moved away included.   *)
(*                                                                         *)
(* The callers pass ids of tasks that were never spawned, so nothing is    *)
(* metered and there is nobody to evict: quotas and evictions are          *)
(* HandleAllocator's.                                                      *)
(***************************************************************************)
EXTENDS Compaction, Sequences

CONSTANTS
  Writers,    \* the handles whose owners write to their blocks
  TaskIds,    \* task_id arguments of mem_alloc_handle and mem_alloc_or_compact
  Requests    \* their n_bytes arguments

ASSUME RamAssumption ==
  /\ Writers \subseteq HandleRange
  /\ TaskIds \subseteq 0 .. TASK_ID_RANGE - 1
  /\ Requests \subseteq Int
  /\ DEVICE_RAM \div (256 * 256) < 256 * 256   \* a size fits its four bytes

VARIABLES
  ram,
  handle_table,
  pc,           \* "compact" inside mem_compact, "retry" after it, "idle" between calls
  read_head,
  write_head,
  retry,        \* the arguments mem_alloc_or_compact tries again with, << >> outside it
  filled        \* history: the handles whose owner has written all of its block

vars == <<ram, handle_table, pc, read_head, write_head, retry, filled>>

Bytes == 0 .. DEVICE_RAM - 1

-----------------------------------------------------------------------------
(***************************************************************************)
(* Headers in bytes                                                        *)
(***************************************************************************)

\* r with the bytes of new written over its own.
Over(r, new) ==
  [b \in DOMAIN r \cup DOMAIN new |-> IF b \in DOMAIN new THEN new[b] ELSE r[b]]

\* The XOR of seven bytes: a bit is set if an odd number of them has it.
Checksum(bytes) ==
  LET Bit(p) == p * ((bytes[1] \div p + bytes[2] \div p + bytes[3] \div p + bytes[4] \div p
                        + bytes[5] \div p + bytes[6] \div p + bytes[7] \div p) % 2)
  IN  Bit(1) + Bit(2) + Bit(4) + Bit(8) + Bit(16) + Bit(32) + Bit(64) + Bit(128)

\* BlockHeader, packed and little-endian.
Packed(header) ==
  LET high == (header.size \div 256) \div 256
      fields == <<header.size % 256, (header.size \div 256) % 256, high % 256, high \div 256,
                  IF header.status = STATUS_FREE THEN 0 ELSE 1,
                  header.task_id % 256, header.task_id \div 256>>
  IN  Append(fields, Checksum(fields))

WriteHeader(r, o, header) ==
  Over(r, [b \in o .. o + HEADER_SIZE - 1 |-> Packed(header)[b - o + 1]])

SizeAt(r, o) == r[o] + 256 * (r[o + 1] + 256 * (r[o + 2] + 256 * r[o + 3]))

\* A status byte that is neither counts as not FREE in mem_free.
StatusAt(r, o) ==
  CASE r[o + 4] = 0 -> STATUS_FREE
    [] r[o + 4] = 1 -> STATUS_USED
    [] OTHER -> "neither"

ReadHeader(r, o) ==
  [size |-> SizeAt(r, o), status |-> StatusAt(r, o), task_id |-> r[o + 5] + 256 * r[o + 6]]

ChecksumOk(r, o) == r[o + 7] = Checksum([k \in 1 .. 7 |-> r[o + k - 1]])

\* The offsets a walk visits from offset o on, before it reaches end: the bound is that
\* of sweep_and_merge and mem_stats.  find_free_block and mem_compact go on to end
\* itself, which is the same where the blocks fill ram[].
Visited(r, o, end) ==
  LET from[p \in Nat] ==
        IF p >= end - HEADER_SIZE THEN {} ELSE {p} \cup from[p + SizeAt(r, p) + HEADER_SIZE]
  IN  from[o]

\* The headers it reads there.
Walk(r, o, end) == [p \in Visited(r, o, end) |-> ReadHeader(r, p)]

\* The bytes after the headers that differ between two heaps were written.
Written(r, old, new) ==
  LET changed == {o \in DOMAIN new : o \in DOMAIN old => new[o] # old[o]}
      HeaderOf(b) == CHOOSE o \in changed : b \in o .. o + HEADER_SIZE - 1
  IN  Over(r, [b \in UNION {o .. o + HEADER_SIZE - 1 : o \in changed} |->
                 Packed(new[HeaderOf(b)])[b - HeaderOf(b) + 1]])

\* sweep_and_merge.
Swept(r) ==
  LET h == Walk(r, 0, DEVICE_RAM) IN Written(r, h, SweepAndMerge(h))

-----------------------------------------------------------------------------
(***************************************************************************)
(* mem_init with handles_init, mem_alloc_handle and mem_free_handle        *)
(***************************************************************************)

Blank == WriteHeader([b \in Bytes |-> 0], 0, InitialHeap[0])

Init ==
  /\ ram = Blank
  /\ handle_table = NoHandles
  /\ pc = "idle"
  /\ read_head = 0
  /\ write_head = 0
  /\ retry = << >>
  /\ filled = {}

MemInit ==
  /\ pc = "idle"
  /\ ram' = Blank
  /\ handle_table' = NoHandles
  /\ filled' = {}
  /\ UNCHANGED <<pc, read_head, write_head, retry>>

\* mem_alloc, best fit: the pointer it returns and the bytes it leaves.
MemAllocResult(r, n, t) ==
  LET h == Walk(r, 0, DEVICE_RAM)
      o == FindFreeBlock(h, AlignBytes(n), 1)
  IN  IF n < MIN_ALLOC \/ n > MAX_ALLOC \/ o = None
      THEN [ptr |-> None, ram |-> r]
      ELSE [ptr |-> o + HEADER_SIZE, ram |-> Written(r, h, Occupy(h, o, AlignBytes(n), t))]

\* mem_alloc_handle: the bytes and the table it leaves, and whether it succeeds.
MemAllocHandleResult(r, table, n, t) ==
  LET unused == UnusedHandles(table)
      block == MemAllocResult(r, n, t)
  IN  IF unused = {} \/ block.ptr = None
      THEN [ok |-> FALSE, ram |-> r, table |-> table]
      ELSE [ok |-> TRUE, ram |-> block.ram, table |-> [table EXCEPT ![Min(unused)] = block.ptr]]

MemAllocHandle(n, t) ==
  LET m == MemAllocHandleResult(ram, handle_table, n, t)
  IN  /\ pc = "idle"
      /\ m.ok
      /\ ram' = m.ram
      /\ handle_table' = m.table
      /\ UNCHANGED <<pc, read_head, write_head, retry, filled>>

\* What mem_free checks of a pointer.
Accepts(r, ptr) ==
  /\ ptr >= HEADER_SIZE
  /\ ptr <= DEVICE_RAM - HEADER_SIZE
  /\ ChecksumOk(r, ptr - HEADER_SIZE)
  /\ StatusAt(r, ptr - HEADER_SIZE) # STATUS_FREE

\* What mem_free then does: the header keeps its size and its owner.
Released(r, ptr) ==
  LET o == ptr - HEADER_SIZE
  IN  Swept(WriteHeader(r, o, [ReadHeader(r, o) EXCEPT !.status = STATUS_FREE]))

MemFreeHandle(i) ==
  /\ pc = "idle"
  /\ Accepts(ram, handle_table[i])
  /\ ram' = Released(ram, handle_table[i])
  /\ handle_table' = [handle_table EXCEPT ![i] = None]
  /\ filled' = filled \ {i}
  /\ UNCHANGED <<pc, read_head, write_head, retry>>

\* What the owner of handle i writes to byte k of its block.
Datum(i, k) == (16 * (i + 1) + (k % 16)) % 256

Fill(i) ==
  LET ptr == handle_table[i]
  IN  /\ pc = "idle"
      /\ ptr # None
      /\ ram' = Over(ram, [b \in ptr .. ptr + SizeAt(ram, ptr - HEADER_SIZE) - 1 |-> Datum(i, b - ptr)])
      /\ filled' = filled \cup {i}
      /\ UNCHANGED <<handle_table, pc, read_head, write_head, retry>>

-----------------------------------------------------------------------------
(***************************************************************************)
(* mem_compact and mem_alloc_or_compact                                    *)
(***************************************************************************)

\* A call from outside (nothing to retry) or from mem_alloc_or_compact.
MemCompact(arguments) ==
  /\ pc = "idle"
  /\ pc' = "compact"
  /\ retry' = arguments
  /\ UNCHANGED <<ram, handle_table, read_head, write_head, filled>>

\* A first attempt that succeeds is a MemAllocHandle; one that fails is compacted for.
MemAllocOrCompact(n, t) ==
  ~ MemAllocHandleResult(ram, handle_table, n, t).ok /\ MemCompact(<<n, t>>)

\* Variant: the bytes of the header are not counted.
MemmovePayload(r, to, from, n) ==
  Over(r, [b \in to .. to + n - HEADER_SIZE - 1 |-> r[b - to + from]])

\* memmove: the blocks may overlap.
Memmove(r, to, from, n) == Over(r, [b \in to .. to + n - 1 |-> r[b - to + from]])

\* Variant: write_head stays behind at a block that was moved.
AdvancedUnmoved(header) ==
  IF header.status = STATUS_USED /\ write_head = read_head
  THEN write_head + header.size + HEADER_SIZE ELSE write_head

\* write_head after the block with this header.
Advanced(header) ==
  IF header.status = STATUS_USED THEN write_head + header.size + HEADER_SIZE ELSE write_head

CompactStep ==
  LET header == ReadHeader(ram, read_head)
      moves == header.status = STATUS_USED /\ write_head # read_head
  IN  /\ pc = "compact" /\ read_head < DEVICE_RAM
      /\ ram' = IF moves THEN Memmove(ram, write_head, read_head, header.size + HEADER_SIZE) ELSE ram
      /\ handle_table' = IF moves THEN Repointed(handle_table, read_head + HEADER_SIZE, write_head + HEADER_SIZE)
                      ELSE handle_table
      /\ write_head' = Advanced(header)
      /\ read_head' = read_head + header.size + HEADER_SIZE
      /\ UNCHANGED <<pc, retry, filled>>

\* Variant: the FREE block is a header too short.
ClosedShort(r) ==
  LET rest == DEVICE_RAM - write_head
  IN  IF LeavesBlock(rest) /\ rest >= 2 * HEADER_SIZE
      THEN WriteHeader(r, write_head, Header(rest - 2 * HEADER_SIZE, STATUS_FREE, 0))
      ELSE r

\* The rest of ram[] becomes one FREE block, if it can hold one.
Closed(r) ==
  LET rest == DEVICE_RAM - write_head
  IN  IF LeavesBlock(rest) THEN WriteHeader(r, write_head, Header(rest - HEADER_SIZE, STATUS_FREE, 0))
      ELSE r

CompactEnd ==
  /\ pc = "compact" /\ read_head >= DEVICE_RAM
  /\ ram' = Swept(Closed(ram))
  /\ pc' = IF retry = << >> THEN "idle" ELSE "retry"
  /\ read_head' = 0 /\ write_head' = 0
  /\ UNCHANGED <<handle_table, retry, filled>>

\* The second attempt of mem_alloc_or_compact, and here its last: with no task ever
\* spawned, the search for a victim finds none.
Retry ==
  LET m == MemAllocHandleResult(ram, handle_table, retry[1], retry[2])
  IN  /\ pc = "retry"
      /\ ram' = m.ram
      /\ handle_table' = m.table
      /\ pc' = "idle"
      /\ retry' = << >>
      /\ UNCHANGED <<read_head, write_head, filled>>

Next ==
  \/ \E n \in Requests, t \in TaskIds : MemAllocHandle(n, t) \/ MemAllocOrCompact(n, t)
  \/ \E i \in HandleRange : MemFreeHandle(i)
  \/ \E i \in Writers : Fill(i)
  \/ MemCompact(<< >>)
  \/ CompactStep
  \/ CompactEnd
  \/ Retry
  \/ MemInit

Spec == Init /\ [][Next]_vars

=============================================================================
