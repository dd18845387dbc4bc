------------------------------ MODULE RamProofs ------------------------------
(***************************************************************************)
(* Theorems about RamImage, for every size of ram[] and of the handle      *)
(* table and every choice of task ids, requests and writers.               *)
(*                                                                         *)
(* The lemmas lead from bytes to blocks: what _write_header puts into      *)
(* ram[] and _read_header makes of it; that a walk over a memory that      *)
(* stores tiled headers reads just these; which bytes a write leaves       *)
(* alone; what mem_alloc, mem_free and the loop of mem_compact leave in    *)
(* the memory, and in the parts of it the callers have written.  With      *)
(* them the invariant RInv is inductive, and every step over bytes is the  *)
(* step of HandleAllocator over the blocks.                                *)
(***************************************************************************)
EXTENDS RamProperties, HeapLemmas, SequenceTheorems

-----------------------------------------------------------------------------
(***************************************************************************)
(* Headers in bytes.                                                       *)
(***************************************************************************)

ByteRange == 0 .. 255

\* Whatever the bytes, their XOR is a byte.
LEMMA ChecksumTyped ==
  ASSUME NEW bytes, \A k \in 1 .. 7 : bytes[k] \in Int
  PROVE  Checksum(bytes) \in ByteRange
<1> DEFINE Odd(p) == (bytes[1] \div p + bytes[2] \div p + bytes[3] \div p + bytes[4] \div p
                        + bytes[5] \div p + bytes[6] \div p + bytes[7] \div p) % 2
<1>1. \A p \in Nat \ {0} : Odd(p) \in 0 .. 1
  <2> SUFFICES ASSUME NEW p \in Nat \ {0}
               PROVE  Odd(p) \in 0 .. 1
    OBVIOUS
  <2> DEFINE n == bytes[1] \div p + bytes[2] \div p + bytes[3] \div p + bytes[4] \div p
                    + bytes[5] \div p + bytes[6] \div p + bytes[7] \div p
  <2>1. n \in Int
    OBVIOUS
  <2> HIDE DEF n
  <2>2. n % 2 \in 0 .. 1
    BY <2>1
  <2> QED  BY <2>2 DEF n
<1>2. Checksum(bytes) = 1 * Odd(1) + 2 * Odd(2) + 4 * Odd(4) + 8 * Odd(8) + 16 * Odd(16)
                          + 32 * Odd(32) + 64 * Odd(64) + 128 * Odd(128)
  BY DEF Checksum
<1> HIDE DEF Odd
<1>3. /\ Odd(1) \in 0 .. 1 /\ Odd(2) \in 0 .. 1 /\ Odd(4) \in 0 .. 1 /\ Odd(8) \in 0 .. 1
      /\ Odd(16) \in 0 .. 1 /\ Odd(32) \in 0 .. 1 /\ Odd(64) \in 0 .. 1 /\ Odd(128) \in 0 .. 1
  BY <1>1
<1> QED  BY <1>2, <1>3 DEF ByteRange

\* The first seven bytes of a packed header.
Fields(header) ==
  <<header.size % 256, (header.size \div 256) % 256,
    ((header.size \div 256) \div 256) % 256, ((header.size \div 256) \div 256) \div 256,
    IF header.status = STATUS_FREE THEN 0 ELSE 1,
    header.task_id % 256, header.task_id \div 256>>

LEMMA FieldsTyped ==
  ASSUME NEW header \in Headers
  PROVE  /\ header.size \in Nat /\ header.task_id \in Nat
         /\ Fields(header) \in Seq(ByteRange) /\ Len(Fields(header)) = 7
         /\ \A k \in 1 .. 7 : Fields(header)[k] \in ByteRange
<1>1. /\ header.size \in Nat /\ header.size < 256 * 256 * 256 * 256
      /\ header.task_id \in Nat /\ header.task_id < 256 * 256
  <2>1. DEVICE_RAM \in Nat /\ header.size \in Nat /\ header.size <= DEVICE_RAM
    BY HeapAssumption DEF Headers, BlockSizes, MIN_ALLOC
  <2>2. header.task_id \in 0 .. TASK_ID_RANGE - 1
    BY DEF Headers
  <2>3. TASK_ID_RANGE \in Nat /\ TASK_ID_RANGE = 256 * 256
    BY SMT DEF TASK_ID_RANGE
  <2>4. DEVICE_RAM < 256 * 256 * 256 * 256
    <3>1. DEVICE_RAM \div (256 * 256) < 256 * 256
      BY RamAssumption
    <3> QED  BY <2>1, <3>1
  <2>5. header.size < 256 * 256 * 256 * 256
    BY <2>1, <2>4
  <2>6. header.task_id \in Nat /\ header.task_id < 256 * 256
    <3>1. PICK n \in Nat : n = TASK_ID_RANGE
      BY <2>3
    <3>2. header.task_id \in 0 .. n - 1
      BY <2>2, <3>1
    <3>3. n = 256 * 256
      BY <2>3, <3>1
    <3>4. PICK t \in Nat : t = header.task_id /\ t < n
      BY <3>1, <3>2
    <3>5. t < 256 * 256
      BY <3>3, <3>4
    <3> QED  BY <3>4, <3>5
  <2> QED  BY <2>1, <2>5, <2>6
<1> DEFINE a == header.size \div 256
           b == a \div 256
           c == b \div 256
           d == header.task_id \div 256
<1>2. /\ header.size % 256 \in ByteRange /\ a % 256 \in ByteRange /\ b % 256 \in ByteRange
      /\ header.task_id % 256 \in ByteRange
  <2>1. \A n \in Nat : n % 256 \in ByteRange /\ n \div 256 \in Nat
    BY DEF ByteRange
  <2>2. header.size \in Nat /\ a \in Nat /\ b \in Nat /\ header.task_id \in Nat
    BY <1>1, <2>1
  <2> HIDE DEF a, b
  <2> QED  BY <2>1, <2>2
<1>3. c \in ByteRange /\ d \in ByteRange
  <2>1. a \in Nat /\ a < 256 * 256 * 256
    BY <1>1
  <2> HIDE DEF a
  <2>2. b \in Nat /\ b < 256 * 256
    BY <2>1
  <2> HIDE DEF b
  <2>3. c \in Nat /\ c < 256
    BY <2>2
  <2>4. d \in Nat /\ d < 256
    BY <1>1
  <2> QED  BY <2>3, <2>4 DEF ByteRange
<1>4. Fields(header) = <<header.size % 256, a % 256, b % 256, c,
                         IF header.status = STATUS_FREE THEN 0 ELSE 1, header.task_id % 256, d>>
  BY DEF Fields
<1>5. (IF header.status = STATUS_FREE THEN 0 ELSE 1) \in ByteRange
  BY DEF ByteRange
<1> HIDE DEF a, b, c, d
<1> QED  BY <1>1, <1>2, <1>3, <1>4, <1>5

\* A packed header is eight bytes, the last of them the checksum of the others.
LEMMA PackedBytes ==
  ASSUME NEW header \in Headers
  PROVE  /\ \A k \in 1 .. 7 : Packed(header)[k] = Fields(header)[k]
         /\ Packed(header)[8] = Checksum(Fields(header))
         /\ \A k \in 1 .. 8 : Packed(header)[k] \in ByteRange
<1>1. Packed(header) = Append(Fields(header), Checksum(Fields(header)))
  BY DEF Packed, Fields
<1>2. Fields(header) \in Seq(ByteRange) /\ Len(Fields(header)) = 7
  BY FieldsTyped
<1>3. \A k \in 1 .. 7 : Fields(header)[k] \in ByteRange
  BY FieldsTyped
<1>4. Checksum(Fields(header)) \in ByteRange
  BY <1>3, ChecksumTyped DEF ByteRange
<1>5. PICK f \in Seq(ByteRange), c \in ByteRange : f = Fields(header) /\ c = Checksum(Fields(header))
  BY <1>2, <1>4
<1>6. Packed(header) = Append(f, c) /\ Len(f) = 7
  BY <1>1, <1>2, <1>5
<1>7. (\A k \in 1 .. 7 : Append(f, c)[k] = f[k]) /\ Append(f, c)[8] = c
  <2>1. /\ \A k \in 1 .. Len(f) : Append(f, c)[k] = f[k]
        /\ Append(f, c)[Len(f) + 1] = c
    BY <1>5, AppendProperties
  <2> QED  BY <1>6, <2>1
<1>8. \A k \in 1 .. 8 : k = 8 \/ k \in 1 .. 7
  OBVIOUS
<1> QED  BY <1>3, <1>5, <1>6, <1>7, <1>8

\* What a packed header is read as.
LEMMA HeaderWritten ==
  ASSUME NEW header \in Headers, NEW r, NEW o \in Nat,
         \A k \in 0 .. 7 : r[o + k] = Packed(header)[k + 1]
  PROVE  ReadHeader(r, o) = header /\ ChecksumOk(r, o)
<1> DEFINE f == Fields(header)
<1>1. \A k \in 1 .. 7 : r[o + k - 1] = f[k]
  <2> SUFFICES ASSUME NEW k \in 1 .. 7
               PROVE  r[o + k - 1] = f[k]
    OBVIOUS
  <2>1. k - 1 \in 0 .. 7 /\ o + (k - 1) = o + k - 1 /\ (k - 1) + 1 = k
    OBVIOUS
  <2>2. r[o + (k - 1)] = Packed(header)[(k - 1) + 1]
    BY <2>1
  <2> QED  BY <2>1, <2>2, PackedBytes
<1>2. r[o + 7] = Checksum(f)
  <2>1. r[o + 7] = Packed(header)[7 + 1]
    OBVIOUS
  <2> QED  BY <2>1, PackedBytes
<1>3. /\ r[o] = f[1] /\ r[o + 1] = f[2] /\ r[o + 2] = f[3] /\ r[o + 3] = f[4]
      /\ r[o + 4] = f[5] /\ r[o + 5] = f[6] /\ r[o + 6] = f[7]
  <2>1. \A k \in 0 .. 6 : r[o + k] = f[k + 1]
    <3> SUFFICES ASSUME NEW k \in 0 .. 6
                 PROVE  r[o + k] = f[k + 1]
      OBVIOUS
    <3>1. k + 1 \in 1 .. 7 /\ o + (k + 1) - 1 = o + k
      OBVIOUS
    <3> QED  BY <1>1, <3>1
  <2>2. o + 0 = o
    OBVIOUS
  <2> HIDE DEF f
  <2> QED  BY <2>1, <2>2
<1>4. header.size \in Nat /\ header.task_id \in Nat
  BY FieldsTyped
<1>5. SizeAt(r, o) = header.size
  <2> DEFINE a == header.size \div 256
             b == a \div 256
             c == b \div 256
  <2>1. SizeAt(r, o) = (header.size % 256) + 256 * ((a % 256) + 256 * ((b % 256) + 256 * c))
    BY <1>3 DEF SizeAt, Fields
  <2>2. header.size \in Nat /\ a \in Nat /\ b \in Nat
    BY <1>4
  <2>3. (header.size % 256) + 256 * a = header.size
    BY <2>2
  <2>4. (a % 256) + 256 * b = a
    BY <2>2
  <2>5. (b % 256) + 256 * c = b
    BY <2>2
  <2> HIDE DEF a, b, c
  <2> QED  BY <2>1, <2>3, <2>4, <2>5
<1>6. StatusAt(r, o) = header.status
  BY <1>3 DEF StatusAt, Fields, Headers, STATUS_FREE, STATUS_USED
<1>7. r[o + 5] + 256 * r[o + 6] = header.task_id
  BY <1>3, <1>4 DEF Fields
<1>8. ReadHeader(r, o) = header
  BY <1>5, <1>6, <1>7 DEF ReadHeader, Headers
<1>9. ChecksumOk(r, o)
  <2>1. Checksum([k \in 1 .. 7 |-> r[o + k - 1]]) = Checksum(f)
    <3> DEFINE g == [k \in 1 .. 7 |-> r[o + k - 1]]
    <3>1. \A k \in 1 .. 7 : g[k] = f[k]
      BY <1>1
    <3> HIDE DEF f, g
    <3>2. /\ g[1] = f[1] /\ g[2] = f[2] /\ g[3] = f[3] /\ g[4] = f[4]
          /\ g[5] = f[5] /\ g[6] = f[6] /\ g[7] = f[7]
      BY <3>1
    <3>3. Checksum(g) = Checksum(f)
      BY <3>2 DEF Checksum
    <3> QED  BY <3>3 DEF g
  <2> QED  BY <1>2, <2>1 DEF ChecksumOk
<1> QED  BY <1>8, <1>9

\* A header is in its eight bytes.
LEMMA HeaderLocal ==
  ASSUME NEW r, NEW s, NEW o \in Nat, NEW p \in Nat, \A k \in 0 .. 7 : r[o + k] = s[p + k]
  PROVE  /\ SizeAt(r, o) = SizeAt(s, p)
         /\ ReadHeader(r, o) = ReadHeader(s, p)
         /\ ChecksumOk(r, o) <=> ChecksumOk(s, p)
<1>1. /\ r[o] = s[p] /\ r[o + 1] = s[p + 1] /\ r[o + 2] = s[p + 2] /\ r[o + 3] = s[p + 3]
      /\ r[o + 4] = s[p + 4] /\ r[o + 5] = s[p + 5] /\ r[o + 6] = s[p + 6] /\ r[o + 7] = s[p + 7]
  <2>1. o + 0 = o /\ p + 0 = p
    OBVIOUS
  <2> QED  BY <2>1
<1>2. [k \in 1 .. 7 |-> r[o + k - 1]] = [k \in 1 .. 7 |-> s[p + k - 1]]
  <2> SUFFICES ASSUME NEW k \in 1 .. 7
               PROVE  r[o + k - 1] = s[p + k - 1]
    OBVIOUS
  <2>1. k - 1 \in 0 .. 7 /\ o + (k - 1) = o + k - 1 /\ p + (k - 1) = p + k - 1
    OBVIOUS
  <2>2. r[o + (k - 1)] = s[p + (k - 1)]
    BY <2>1
  <2> QED  BY <2>1, <2>2
<1> QED  BY <1>1, <1>2 DEF SizeAt, StatusAt, ReadHeader, ChecksumOk

\* So it is the same in two memories that have the same bytes there.
LEMMA HeaderKept ==
  ASSUME NEW r, NEW s, NEW o \in Nat, \A k \in 0 .. 7 : s[o + k] = r[o + k]
  PROVE  ReadHeader(s, o) = ReadHeader(r, o) /\ (ChecksumOk(s, o) <=> ChecksumOk(r, o))
<1>1. PICK p \in Nat : p = o
  OBVIOUS
<1>2. \A k \in 0 .. 7 : s[o + k] = r[p + k]
  BY <1>1
<1>3. ReadHeader(s, o) = ReadHeader(r, p) /\ (ChecksumOk(s, o) <=> ChecksumOk(r, p))
  BY ONLY <1>2, HeaderLocal
<1> QED  BY <1>1, <1>3

-----------------------------------------------------------------------------
(***************************************************************************)
(* What a walk reads.                                                      *)
(***************************************************************************)

IsRam(r) == r \in [Bytes -> ByteRange]

\* The headers of a heap are in r, with their checksums.
Stored(r, h) == \A o \in DOMAIN h : ReadHeader(r, o) = h[o] /\ ChecksumOk(r, o)

Beyond(r, p) == p + SizeAt(r, p) + HEADER_SIZE

\* The recursive function of Visited.
VisitsFrom(r, end, f) ==
  f = [p \in Nat |-> IF p >= end - HEADER_SIZE THEN {} ELSE {p} \cup f[p + SizeAt(r, p) + HEADER_SIZE]]

LEMMA SizeTyped ==
  ASSUME NEW r, IsRam(r), NEW o \in Nat, o <= DEVICE_RAM - HEADER_SIZE
  PROVE  SizeAt(r, o) \in Nat /\ Beyond(r, o) \in Nat /\ Beyond(r, o) > o
<1>1. /\ o \in Bytes /\ o + 1 \in Bytes /\ o + 2 \in Bytes /\ o + 3 \in Bytes
  BY HeapAssumption DEF Bytes, HEADER_SIZE
<1>2. r[o] \in Nat /\ r[o + 1] \in Nat /\ r[o + 2] \in Nat /\ r[o + 3] \in Nat
  <2>1. \A b \in Bytes : r[b] \in Nat
    BY DEF IsRam, ByteRange
  <2> QED  BY ONLY <1>1, <2>1
<1>3. SizeAt(r, o) \in Nat
  BY <1>2 DEF SizeAt
<1> QED  BY <1>3 DEF Beyond, HEADER_SIZE

\* Sets of offsets that contain with an offset the one a walk goes on to.
Closures(r, end) ==
  {S \in SUBSET Nat : \A p \in S : p < end - HEADER_SIZE => Beyond(r, p) \in S}

\* The offsets in all of them that contain p.
Reachable(r, end) ==
  [p \in Nat |-> {q \in Nat : q < end - HEADER_SIZE /\ \A S \in Closures(r, end) : p \in S => q \in S}]

\* The function exists: it gives the offsets that can be reached.
LEMMA VisitsExist ==
  ASSUME NEW r, IsRam(r), NEW end \in Nat, end <= DEVICE_RAM
  PROVE  VisitsFrom(r, end, Reachable(r, end))
<1> DEFINE f == Reachable(r, end)
<1>1. \A p \in Nat : p < end - HEADER_SIZE => Beyond(r, p) \in Nat /\ Beyond(r, p) > p
  BY SizeTyped, HeapAssumption DEF HEADER_SIZE
<1>2. \A p, q \in Nat :
        q \in f[p] <=> q < end - HEADER_SIZE /\ \A S \in Closures(r, end) : p \in S => q \in S
  BY DEF Reachable
<1> HIDE DEF f
<1>3. ASSUME NEW p \in Nat, p >= end - HEADER_SIZE
      PROVE  f[p] = {}
  <2> DEFINE S == {q \in Nat : q >= p}
  <2>1. S \in Closures(r, end) /\ p \in S
    BY <1>3 DEF Closures, HEADER_SIZE
  <2>2. \A q \in S : ~ (q < end - HEADER_SIZE)
    BY <1>3 DEF HEADER_SIZE
  <2> HIDE DEF S
  <2>3. \A q \in f[p] : FALSE
    <3> SUFFICES ASSUME NEW q \in f[p]
                 PROVE  FALSE
      OBVIOUS
    <3>1. q \in Nat
      BY DEF f, Reachable
    <3> QED  BY <1>2, <2>1, <2>2, <3>1
  <2> QED  BY <2>3
<1>4. ASSUME NEW p \in Nat, p < end - HEADER_SIZE
      PROVE  f[p] = {p} \cup f[Beyond(r, p)]
  <2>1. Beyond(r, p) \in Nat
    BY <1>1, <1>4
  <2>2. f[p] \subseteq Nat /\ f[Beyond(r, p)] \subseteq Nat
    BY <2>1 DEF f, Reachable
  <2>3. ASSUME NEW q \in Nat
        PROVE  q \in f[p] <=> q = p \/ q \in f[Beyond(r, p)]
    <3>1. p \in f[p]
      BY <1>2, <1>4
    <3>2. \A S \in Closures(r, end) : p \in S => Beyond(r, p) \in S
      BY <1>4 DEF Closures
    <3>3. q \in f[Beyond(r, p)] => q \in f[p]
      BY <1>2, <2>1, <3>2
    <3>4. ASSUME q \in f[p], q # p
          PROVE  q \in f[Beyond(r, p)]
      <4> SUFFICES ASSUME NEW S \in Closures(r, end), Beyond(r, p) \in S
                   PROVE  q \in S
        BY <1>2, <2>1, <3>4
      <4>1. S \cup {p} \in Closures(r, end)
        BY DEF Closures
      <4> QED  BY <1>2, <3>4, <4>1
    <3> QED  BY <3>1, <3>3, <3>4
  <2> QED  BY <2>2, <2>3
<1>5. f = [p \in Nat |-> f[p]]
  BY DEF f, Reachable
<1>6. \A p \in Nat : f[p] = IF p >= end - HEADER_SIZE THEN {} ELSE {p} \cup f[p + SizeAt(r, p) + HEADER_SIZE]
  <2> SUFFICES ASSUME NEW p \in Nat
               PROVE  f[p] = IF p >= end - HEADER_SIZE THEN {} ELSE {p} \cup f[p + SizeAt(r, p) + HEADER_SIZE]
    OBVIOUS
  <2>1. CASE p >= end - HEADER_SIZE
    BY <1>3, <2>1
  <2>2. CASE ~ (p >= end - HEADER_SIZE)
    <3>1. p < end - HEADER_SIZE
      BY <2>2 DEF HEADER_SIZE
    <3> QED  BY <1>4, <2>2, <3>1 DEF Beyond
  <2> QED  BY <2>1, <2>2
<1>7. VisitsFrom(r, end, f)
  BY <1>5, <1>6 DEF VisitsFrom
<1> QED  BY <1>7 DEF f

\* It visits the blocks laid end to end between a and b and nothing else.
LEMMA VisitsTiles ==
  ASSUME NEW r, IsRam(r), NEW S \in SUBSET Nat,
         NEW a \in Nat, NEW b \in Nat, b <= DEVICE_RAM, a = b \/ a \in S,
         \A o \in S : a <= o /\ o < b /\ Beyond(r, o) \in S \cup {b} /\ Beyond(r, o) > o + HEADER_SIZE,
         \A o, p \in S : o < p => Beyond(r, o) <= p
  PROVE  Visited(r, a, b) = S
<1> DEFINE E(f) == [p \in Nat |-> IF p >= b - HEADER_SIZE THEN {} ELSE {p} \cup f[p + SizeAt(r, p) + HEADER_SIZE]]
           F == CHOOSE f : f = E(f)
           From(o) == {q \in S : o <= q}
           bad == {o \in S \cup {b} : F[o] # From(o)}
<1>1. Visited(r, a, b) = F[a]
  BY DEF Visited
<1>2. F = E(F)
  <2>1. \E f : f = E(f)
    BY VisitsExist DEF VisitsFrom
  <2> HIDE DEF E
  <2> QED  BY <2>1
<1> HIDE DEF F
<1>3. \A p \in Nat : F[p] = IF p >= b - HEADER_SIZE THEN {} ELSE {p} \cup F[Beyond(r, p)]
  <2> DEFINE g == E(F)
  <2>1. \A p \in Nat : g[p] = IF p >= b - HEADER_SIZE THEN {} ELSE {p} \cup F[p + SizeAt(r, p) + HEADER_SIZE]
    OBVIOUS
  <2>2. F = g
    BY <1>2
  <2> HIDE DEF g
  <2> QED  BY <2>1, <2>2 DEF Beyond
<1>4. \A o \in S : /\ o \in Nat /\ a <= o /\ o < b - HEADER_SIZE
                   /\ Beyond(r, o) \in S \cup {b} /\ Beyond(r, o) \in Nat
                   /\ o < Beyond(r, o) /\ Beyond(r, o) <= b
  <2> SUFFICES ASSUME NEW o \in S
               PROVE  /\ o \in Nat /\ a <= o /\ o < b - HEADER_SIZE
                      /\ Beyond(r, o) \in S \cup {b} /\ Beyond(r, o) \in Nat
                      /\ o < Beyond(r, o) /\ Beyond(r, o) <= b
    OBVIOUS
  <2>1. PICK n \in S \cup {b} : n = Beyond(r, o) /\ n > o + HEADER_SIZE
    OBVIOUS
  <2>2. n \in Nat /\ n <= b
    BY <2>1
  <2>3. o \in Nat /\ a <= o
    OBVIOUS
  <2> QED  BY <2>1, <2>2, <2>3 DEF HEADER_SIZE
<1> HIDE DEF E
<1>5. bad = {}
  <2> SUFFICES ASSUME bad # {}
               PROVE  FALSE
    OBVIOUS
  <2>1. bad \in SUBSET Nat /\ \A o \in bad : o <= b
    <3>1. \A o \in S \cup {b} : o \in Nat /\ o <= b
      BY <1>4
    <3> QED  BY <3>1
  <2>2. PICK o \in bad : \A p \in bad : p <= o
    <3> HIDE DEF bad
    <3> QED  BY <2>1, GreatestOfNats
  <2>3. o \in S \cup {b} /\ F[o] # From(o)
    OBVIOUS
  <2>4. CASE o = b
    <3>1. F[b] = {}
      <4>1. b >= b - HEADER_SIZE
        BY DEF HEADER_SIZE
      <4> QED  BY <1>3, <4>1
    <3>2. From(b) = {}
      <4>1. \A q \in S : ~ (b <= q)
        BY <1>4
      <4> QED  BY <4>1
    <3> QED  BY <2>3, <2>4, <3>1, <3>2
  <2>5. CASE o \in S
    <3>1. PICK n \in S \cup {b} : n = Beyond(r, o) /\ n \in Nat /\ o < n /\ o \in Nat
      BY <1>4, <2>5
    <3>2. F[o] = {o} \cup F[n]
      <4>1. ~ (o >= b - HEADER_SIZE)
        BY <1>4, <2>5 DEF HEADER_SIZE
      <4> QED  BY <1>3, <3>1, <4>1
    <3>3. F[n] = From(n)
      <4>1. ~ (n <= o)
        BY <3>1
      <4>2. n \notin bad
        <5> HIDE DEF bad
        <5> QED  BY <2>2, <4>1
      <4> QED  BY <3>1, <4>2
    <3>4. From(o) = {o} \cup From(n)
      <4>1. \A q \in S : q \in Nat /\ (o < q => n <= q)
        BY <2>5, <3>1
      <4>2. \A q \in S : o <= q <=> q = o \/ n <= q
        BY <3>1, <4>1
      <4> QED  BY <2>5, <4>2
    <3> QED  BY <2>3, <3>2, <3>3, <3>4
  <2> QED  BY <2>3, <2>4, <2>5
<1>6. F[a] = From(a)
  BY <1>5
<1>7. From(a) = S
  OBVIOUS
<1> QED  BY <1>1, <1>6, <1>7

\* The headers between a and b.
Part(h, a, b) == [o \in {o \in DOMAIN h : a <= o /\ o < b} |-> h[o]]

\* A walk from a to b reads the blocks of the heap that tile the bytes between them.
LEMMA WalkReads ==
  ASSUME NEW r, IsRam(r), NEW h, TypedHeap(h), NEW a \in Nat, NEW b \in Nat, b <= DEVICE_RAM,
         TiledBetween(h, a, b), Stored(r, h)
  PROVE  Walk(r, a, b) = Part(h, a, b)
<1>0. \A o \in DOMAIN h : ReadHeader(r, o) = h[o]
  BY DEF Stored
<1> DEFINE S == {o \in DOMAIN h : a <= o /\ o < b}
<1>1. S \in SUBSET Nat
  BY HeapAssumption DEF TypedHeap, Offsets, HEADER_SIZE, MIN_ALLOC
<1>2. \A o \in S : Beyond(r, o) = NextBlock(h, o) /\ h[o].size \in Nat /\ h[o].size > 0
  <2> SUFFICES ASSUME NEW o \in S
               PROVE  Beyond(r, o) = NextBlock(h, o) /\ h[o].size \in Nat /\ h[o].size > 0
    OBVIOUS
  <2>1. SizeAt(r, o) = h[o].size
    BY <1>0 DEF ReadHeader
  <2>2. h[o].size \in Nat /\ h[o].size > 0
    BY DEF TypedHeap, Headers, BlockSizes, MIN_ALLOC
  <2> QED  BY <2>1, <2>2 DEF Beyond, NextBlock
<1>3. /\ a = b \/ a \in S
      /\ \A o \in S : NextBlock(h, o) \in S \cup {b}
      /\ \A o, p \in S : o < p => NextBlock(h, o) <= p
  BY DEF TiledBetween
<1>4. \A o \in S : NextBlock(h, o) > o + HEADER_SIZE
  BY <1>1, <1>2 DEF NextBlock, HEADER_SIZE
<1>5. Visited(r, a, b) = S
  <2>1. \A o \in S : a <= o /\ o < b
    OBVIOUS
  <2> HIDE DEF S
  <2> QED  BY <1>1, <1>2, <1>3, <1>4, <2>1, VisitsTiles
<1>6. \A o \in S : ReadHeader(r, o) = h[o]
  BY <1>0
<1> HIDE DEF S
<1>7. Walk(r, a, b) = [o \in S |-> h[o]]
  BY <1>5, <1>6 DEF Walk
<1> QED  BY <1>7 DEF S, Part

-----------------------------------------------------------------------------
(***************************************************************************)
(* What is written.                                                        *)
(***************************************************************************)

InHeader(b, o) == o <= b /\ b < o + HEADER_SIZE

\* Bytes written over bytes.
LEMMA OverTyped ==
  ASSUME NEW r, IsRam(r), NEW new, DOMAIN new \subseteq Bytes,
         \A b \in DOMAIN new : new[b] \in ByteRange
  PROVE  /\ IsRam(Over(r, new))
         /\ \A b \in DOMAIN new : Over(r, new)[b] = new[b]
         /\ \A b \in Bytes : b \notin DOMAIN new => Over(r, new)[b] = r[b]
<1>1. DOMAIN r \cup DOMAIN new = Bytes
  BY DEF IsRam
<1>2. Over(r, new) = [b \in Bytes |-> IF b \in DOMAIN new THEN new[b] ELSE r[b]]
  BY <1>1 DEF Over
<1> QED  BY <1>2 DEF IsRam

\* Headers stay stored as long as their bytes do.
LEMMA StoredKept ==
  ASSUME NEW r, NEW s, NEW h, Stored(r, h),
         \A o \in DOMAIN h : o \in Nat /\ \A k \in 0 .. 7 : s[o + k] = r[o + k]
  PROVE  Stored(s, h)
<1> SUFFICES ASSUME NEW o \in DOMAIN h
             PROVE  ReadHeader(s, o) = h[o] /\ ChecksumOk(s, o)
  BY DEF Stored
<1>1. o \in Nat /\ \A k \in 0 .. 7 : s[o + k] = r[o + k]
  OBVIOUS
<1>2. ReadHeader(s, o) = ReadHeader(r, o) /\ (ChecksumOk(s, o) <=> ChecksumOk(r, o))
  BY ONLY <1>1, HeaderKept
<1> QED  BY <1>2 DEF Stored

LEMMA HeaderBytes ==
  ASSUME NEW o \in Offsets
  PROVE  /\ o \in Nat
         /\ \A b : b \in o .. o + HEADER_SIZE - 1 <=> b \in Bytes /\ InHeader(b, o)
         /\ \A k \in 0 .. 7 : o + k \in o .. o + HEADER_SIZE - 1
BY HeapAssumption DEF Offsets, Bytes, InHeader, HEADER_SIZE, MIN_ALLOC

\* One header is written where it can be read, and nothing else is touched.
LEMMA HeaderStored ==
  ASSUME NEW r, IsRam(r), NEW o \in Offsets, NEW header \in Headers
  PROVE  LET w == WriteHeader(r, o, header)
         IN  /\ IsRam(w)
             /\ ReadHeader(w, o) = header /\ ChecksumOk(w, o)
             /\ \A b \in Bytes : ~ InHeader(b, o) => w[b] = r[b]
<1> DEFINE new == [b \in o .. o + HEADER_SIZE - 1 |-> Packed(header)[b - o + 1]]
           w == WriteHeader(r, o, header)
<1>1. w = Over(r, new)
  BY DEF WriteHeader
<1>2. /\ o \in Nat
      /\ \A b : b \in o .. o + HEADER_SIZE - 1 <=> b \in Bytes /\ InHeader(b, o)
      /\ \A k \in 0 .. 7 : o + k \in o .. o + HEADER_SIZE - 1
  BY HeaderBytes
<1>3. DOMAIN new = o .. o + HEADER_SIZE - 1
  OBVIOUS
<1>4. \A b \in DOMAIN new : new[b] \in ByteRange
  <2> SUFFICES ASSUME NEW b \in o .. o + HEADER_SIZE - 1
               PROVE  Packed(header)[b - o + 1] \in ByteRange
    OBVIOUS
  <2>1. b - o + 1 \in 1 .. 8
    BY <1>2 DEF HEADER_SIZE
  <2> QED  BY <2>1, PackedBytes
<1>5. \A k \in 0 .. 7 : new[o + k] = Packed(header)[k + 1]
  <2> SUFFICES ASSUME NEW k \in 0 .. 7
               PROVE  new[o + k] = Packed(header)[k + 1]
    OBVIOUS
  <2>1. (o + k) - o + 1 = k + 1
    BY <1>2
  <2> QED  BY <1>2, <2>1
<1> HIDE DEF new, w
<1>6. DOMAIN new \subseteq Bytes
  BY <1>2, <1>3
<1>7. /\ IsRam(w)
      /\ \A b \in DOMAIN new : w[b] = new[b]
      /\ \A b \in Bytes : b \notin DOMAIN new => w[b] = r[b]
  BY <1>1, <1>4, <1>6, OverTyped
<1>8. \A k \in 0 .. 7 : w[o + k] = Packed(header)[k + 1]
  BY <1>2, <1>3, <1>5, <1>7
<1>9. ReadHeader(w, o) = header /\ ChecksumOk(w, o)
  BY <1>2, <1>8, HeaderWritten
<1>10. \A b \in Bytes : ~ InHeader(b, o) => w[b] = r[b]
  BY <1>2, <1>3, <1>7
<1> QED  BY <1>7, <1>9, <1>10 DEF w

\* No header begins inside another.
Apart(h) == \A o, p \in DOMAIN h : o < p => o + HEADER_SIZE <= p

\* The headers of a heap are written where they differ from those of the heap that was
\* read: all of them can be read afterwards, and no other byte was touched.
LEMMA WrittenStores ==
  ASSUME NEW r, IsRam(r), NEW old, Stored(r, old),
         NEW new, TypedHeap(new), Apart(new)
  PROVE  LET w == Written(r, old, new)
         IN  /\ IsRam(w)
             /\ Stored(w, new)
             /\ \A b \in Bytes :
                  (\A o \in DOMAIN new : InHeader(b, o) => o \in DOMAIN old /\ new[o] = old[o])
                    => w[b] = r[b]
<1> DEFINE changed == {o \in DOMAIN new : o \in DOMAIN old => new[o] # old[o]}
           HeaderOf(b) == CHOOSE o \in changed : b \in o .. o + HEADER_SIZE - 1
           touched == UNION {o .. o + HEADER_SIZE - 1 : o \in changed}
           bytes == [b \in touched |-> Packed(new[HeaderOf(b)])[b - HeaderOf(b) + 1]]
           w == Written(r, old, new)
<1>1. w = Over(r, bytes)
  BY DEF Written
<1>2. \A o \in DOMAIN new : o \in Offsets /\ new[o] \in Headers
  BY DEF TypedHeap
<1>3. \A o \in DOMAIN new :
        /\ o \in Nat
        /\ \A b : b \in o .. o + HEADER_SIZE - 1 <=> b \in Bytes /\ InHeader(b, o)
        /\ \A k \in 0 .. 7 : o + k \in o .. o + HEADER_SIZE - 1
  BY <1>2, HeaderBytes
<1>4. \A o, p \in DOMAIN new : \A b \in Bytes : InHeader(b, o) /\ InHeader(b, p) => o = p
  <2> SUFFICES ASSUME NEW o \in DOMAIN new, NEW p \in DOMAIN new, NEW b \in Bytes,
                      InHeader(b, o), InHeader(b, p)
               PROVE  o = p
    OBVIOUS
  <2>1. ~ (o < p) /\ ~ (p < o)
    BY <1>3 DEF Apart, InHeader, Bytes, HEADER_SIZE
  <2> QED  BY <1>3, <2>1
<1>5. \A b : b \in touched <=> b \in Bytes /\ \E o \in changed : InHeader(b, o)
  BY <1>3
<1>6. ASSUME NEW o \in changed, NEW b \in o .. o + HEADER_SIZE - 1
      PROVE  b \in touched /\ bytes[b] = Packed(new[o])[b - o + 1]
  <2>1. b \in touched
    OBVIOUS
  <2>2. HeaderOf(b) \in changed /\ b \in HeaderOf(b) .. HeaderOf(b) + HEADER_SIZE - 1
    OBVIOUS
  <2>3. HeaderOf(b) = o
    <3>1. HeaderOf(b) \in DOMAIN new /\ o \in DOMAIN new
      BY <2>2
    <3> HIDE DEF HeaderOf
    <3> QED  BY <1>3, <1>4, <2>2, <3>1
  <2> HIDE DEF HeaderOf, touched
  <2> QED  BY <2>1, <2>3
<1>7. DOMAIN bytes = touched /\ touched \subseteq Bytes
  BY <1>5
<1>8. \A b \in touched : bytes[b] \in ByteRange
  <2> SUFFICES ASSUME NEW b \in touched
               PROVE  bytes[b] \in ByteRange
    OBVIOUS
  <2>1. PICK o \in changed : b \in o .. o + HEADER_SIZE - 1
    OBVIOUS
  <2>2. bytes[b] = Packed(new[o])[b - o + 1]
    BY <1>6, <2>1
  <2>3. b - o + 1 \in 1 .. 8
    <3>1. o \in Nat /\ b \in o .. o + 7
      BY <1>3, <2>1 DEF HEADER_SIZE
    <3> QED  BY <3>1
  <2> QED  BY <1>2, <2>2, <2>3, PackedBytes
<1>9. changed \subseteq DOMAIN new /\ \A o \in DOMAIN new \ changed : o \in DOMAIN old /\ new[o] = old[o]
  OBVIOUS
<1>10. \A o \in changed : ~ (o \in DOMAIN old /\ new[o] = old[o])
  OBVIOUS
<1> HIDE DEF bytes, touched, w, changed
<1>11. /\ IsRam(w)
       /\ \A b \in touched : w[b] = bytes[b]
       /\ \A b \in Bytes : b \notin touched => w[b] = r[b]
  BY <1>1, <1>7, <1>8, OverTyped
<1>12. ASSUME NEW o \in changed
       PROVE  ReadHeader(w, o) = new[o] /\ ChecksumOk(w, o)
  <2>1. \A k \in 0 .. 7 : w[o + k] = Packed(new[o])[k + 1]
    <3> SUFFICES ASSUME NEW k \in 0 .. 7
                 PROVE  w[o + k] = Packed(new[o])[k + 1]
      OBVIOUS
    <3>1. o + k \in o .. o + HEADER_SIZE - 1 /\ (o + k) - o + 1 = k + 1
      BY <1>3, <1>9
    <3> QED  BY <1>6, <1>11, <3>1
  <2> QED  BY <1>2, <1>3, <1>9, <2>1, HeaderWritten
<1>13. ASSUME NEW o \in DOMAIN new \ changed
       PROVE  ReadHeader(w, o) = new[o] /\ ChecksumOk(w, o)
  <2>1. \A k \in 0 .. 7 : w[o + k] = r[o + k]
    <3> SUFFICES ASSUME NEW k \in 0 .. 7
                 PROVE  w[o + k] = r[o + k]
      OBVIOUS
    <3>1. o + k \in Bytes /\ InHeader(o + k, o)
      BY <1>3
    <3>2. o + k \notin touched
      BY <1>4, <1>5, <1>9, <3>1
    <3> QED  BY <1>11, <3>1, <3>2
  <2>2. ReadHeader(w, o) = ReadHeader(r, o) /\ (ChecksumOk(w, o) <=> ChecksumOk(r, o))
    <3>1. o \in Nat
      BY <1>3, <1>9
    <3> HIDE DEF HeaderOf
    <3> QED  BY <2>1, <3>1, HeaderLocal
  <2> QED  BY <1>9, <2>2 DEF Stored
<1>14. Stored(w, new)
  BY <1>12, <1>13 DEF Stored
<1>15. ASSUME NEW b \in Bytes,
              \A o \in DOMAIN new : InHeader(b, o) => o \in DOMAIN old /\ new[o] = old[o]
       PROVE  w[b] = r[b]
  BY <1>5, <1>9, <1>10, <1>11, <1>15
<1> QED  BY <1>11, <1>14, <1>15 DEF w

-----------------------------------------------------------------------------
(***************************************************************************)
(* Blocks in bytes.                                                        *)
(***************************************************************************)

\* No block reaches into another one, or out of ram[].
Laid(h) ==
  /\ TypedHeap(h)
  /\ \A o, p \in DOMAIN h : o < p => NextBlock(h, o) <= p
  /\ \A o \in DOMAIN h : NextBlock(h, o) <= DEVICE_RAM

LEMMA CompactingLaid ==
  ASSUME NEW h, NEW w, NEW rd, Compacting(h, w, rd)
  PROVE  Laid(h) /\ w \in Nat /\ rd \in Nat /\ w <= rd /\ rd <= DEVICE_RAM
<1>1. /\ TypedHeap(h) /\ w \in Nat /\ rd \in Nat /\ w <= rd /\ rd <= DEVICE_RAM /\ DEVICE_RAM \in Nat
  BY HeapAssumption DEF Compacting, HEADER_SIZE, MIN_ALLOC
<1>2. \A o \in DOMAIN h : o \in Nat /\ o < DEVICE_RAM /\ NextBlock(h, o) \in Nat
  BY <1>1, OffsetBounds DEF HEADER_SIZE, MIN_ALLOC
<1>3. \A o \in DOMAIN h : o < w \/ o >= rd
  BY DEF Compacting
<1>4. ASSUME NEW o \in DOMAIN h
      PROVE  /\ NextBlock(h, o) <= DEVICE_RAM
             /\ o < w => NextBlock(h, o) <= w
  <2>1. CASE o < w
    <3> DEFINE front == {p \in DOMAIN h : 0 <= p /\ p < w}
    <3>1. o \in front /\ \A p \in front : p < w
      BY <1>2, <2>1
    <3>2. NextBlock(h, o) \in front \cup {w}
      BY <3>1 DEF Compacting, TiledBetween
    <3> HIDE DEF front
    <3>3. NextBlock(h, o) <= w
      BY <1>1, <1>2, <3>1, <3>2
    <3> QED  BY <1>1, <1>2, <3>3
  <2>2. CASE o >= rd
    <3> DEFINE rear == {p \in DOMAIN h : rd <= p /\ p < DEVICE_RAM}
    <3>1. o \in rear /\ \A p \in rear : p < DEVICE_RAM
      BY <1>1, <1>2, <2>2
    <3>2. NextBlock(h, o) \in rear \cup {DEVICE_RAM}
      BY <3>1 DEF Compacting, TiledBetween
    <3> HIDE DEF rear
    <3>3. NextBlock(h, o) <= DEVICE_RAM
      BY <1>1, <1>2, <3>1, <3>2
    <3>4. ~ (o < w)
      BY <1>1, <1>2, <2>2
    <3> QED  BY <3>3, <3>4
  <2> QED  BY <1>3, <2>1, <2>2
<1>5. ASSUME NEW o \in DOMAIN h, NEW p \in DOMAIN h, o < p
      PROVE  NextBlock(h, o) <= p
  <2>1. CASE p < w
    <3>1. o < w
      BY <1>1, <1>2, <1>5, <2>1
    <3> QED  BY <1>2, <1>5, <2>1, <3>1 DEF Compacting, TiledBetween
  <2>2. CASE p >= rd /\ o < w
    BY <1>1, <1>2, <1>4, <2>2
  <2>3. CASE p >= rd /\ o >= rd
    BY <1>2, <1>5, <2>3 DEF Compacting, TiledBetween
  <2> QED  BY <1>3, <2>1, <2>2, <2>3
<1> QED  BY <1>1, <1>4, <1>5 DEF Laid

LEMMA TiledLaid ==
  ASSUME NEW h, TypedHeap(h), Tiled(h)
  PROVE  Laid(h) /\ Apart(h)
<1>1. Laid(h)
  BY CompactionBegins, CompactingLaid
<1>2. \A o \in DOMAIN h : NextBlock(h, o) >= o + HEADER_SIZE /\ o \in Nat /\ NextBlock(h, o) \in Nat
  BY OffsetBounds DEF HEADER_SIZE, MIN_ALLOC
<1>3. Apart(h)
  BY <1>1, <1>2 DEF Apart, Laid, HEADER_SIZE
<1> QED  BY <1>1, <1>3

\* Byte k of the block at o.
ByteOf(o, k) == o + HEADER_SIZE + k

\* Its bytes are in no header and in no other block.
LEMMA BytesOfBlock ==
  ASSUME NEW h, Laid(h), NEW o \in DOMAIN h, NEW k \in 0 .. h[o].size - 1
  PROVE  /\ ByteOf(o, k) \in Bytes
         /\ k \in Nat /\ o \in Nat
         /\ ByteOf(o, k) >= o + HEADER_SIZE /\ ByteOf(o, k) < NextBlock(h, o)
         /\ \A p \in DOMAIN h : ~ InHeader(ByteOf(o, k), p)
         /\ \A p \in DOMAIN h \ {o} : ByteOf(o, k) < p \/ ByteOf(o, k) >= NextBlock(h, p)
<1>1. TypedHeap(h)
  BY DEF Laid
<1>2. \A p \in DOMAIN h : /\ p \in Nat /\ h[p].size \in Nat /\ NextBlock(h, p) \in Nat
                          /\ NextBlock(h, p) = p + h[p].size + HEADER_SIZE
  BY <1>1, OffsetBounds DEF NextBlock
<1>3. o \in Nat /\ h[o].size \in Nat /\ k \in Nat /\ k < h[o].size
  BY <1>2
<1>4. ByteOf(o, k) \in Nat /\ ByteOf(o, k) >= o + HEADER_SIZE /\ ByteOf(o, k) < NextBlock(h, o)
  BY <1>2, <1>3 DEF ByteOf, HEADER_SIZE
<1>5. ByteOf(o, k) \in Bytes
  <2>1. NextBlock(h, o) <= DEVICE_RAM /\ NextBlock(h, o) \in Nat /\ DEVICE_RAM \in Nat
    BY <1>2, HeapAssumption DEF Laid
  <2> QED  BY <1>4, <2>1 DEF Bytes
<1>6. ASSUME NEW p \in DOMAIN h \ {o}
      PROVE  ByteOf(o, k) < p \/ ByteOf(o, k) >= NextBlock(h, p)
  <2>1. p \in Nat /\ NextBlock(h, p) \in Nat /\ NextBlock(h, o) \in Nat /\ (p < o \/ o < p)
    BY <1>2
  <2>2. CASE o < p
    <3>1. NextBlock(h, o) <= p
      BY <2>2 DEF Laid
    <3> QED  BY <1>4, <2>1, <3>1
  <2>3. CASE p < o
    <3>1. NextBlock(h, p) <= o
      BY <2>3 DEF Laid
    <3> QED  BY <1>3, <1>4, <2>1, <3>1 DEF HEADER_SIZE
  <2> QED  BY <2>1, <2>2, <2>3
<1>7. ASSUME NEW p \in DOMAIN h
      PROVE  ~ InHeader(ByteOf(o, k), p)
  <2>1. CASE p = o
    BY <1>3, <1>4, <2>1 DEF InHeader, HEADER_SIZE
  <2>2. CASE p # o
    <3>1. p \in Nat /\ NextBlock(h, p) >= p + HEADER_SIZE /\ NextBlock(h, p) \in Nat
      BY <1>2 DEF HEADER_SIZE
    <3>2. ByteOf(o, k) < p \/ ByteOf(o, k) >= NextBlock(h, p)
      BY <1>6, <2>2
    <3> QED  BY <1>4, <3>1, <3>2 DEF InHeader, HEADER_SIZE
  <2> QED  BY <2>1, <2>2
<1> QED  BY <1>3, <1>4, <1>5, <1>6, <1>7

\* What the walks of ram[] over a half compacted heap read.
LEMMA BlocksRead ==
  ASSUME NEW r, IsRam(r), NEW h, NEW w, NEW rd, Compacting(h, w, rd), Stored(r, h)
  PROVE  /\ Walk(r, 0, w) = Part(h, 0, w)
         /\ Walk(r, rd, DEVICE_RAM) = Part(h, rd, DEVICE_RAM)
         /\ Over(Walk(r, rd, DEVICE_RAM), Walk(r, 0, w)) = h
<1> DEFINE front == {o \in DOMAIN h : 0 <= o /\ o < w}
           rear == {o \in DOMAIN h : rd <= o /\ o < DEVICE_RAM}
<1>1. /\ w \in Nat /\ rd \in Nat /\ w <= rd /\ rd <= DEVICE_RAM /\ DEVICE_RAM \in Nat
      /\ TypedHeap(h)
  BY CompactingLaid, HeapAssumption DEF Compacting
<1>3. TiledBetween(h, 0, w) /\ TiledBetween(h, rd, DEVICE_RAM)
  BY DEF Compacting
<1>4. Walk(r, 0, w) = Part(h, 0, w)
  <2>1. w <= DEVICE_RAM
    BY <1>1
  <2> QED  BY <1>1, <1>3, <2>1, WalkReads
<1>5. Walk(r, rd, DEVICE_RAM) = Part(h, rd, DEVICE_RAM)
  <2>1. DEVICE_RAM <= DEVICE_RAM
    BY <1>1
  <2> QED  BY <1>1, <1>3, <2>1, WalkReads
<1>6. rear \cup front = DOMAIN h
  <2>1. \A o \in DOMAIN h : o \in Nat /\ o < DEVICE_RAM
    BY <1>1, OffsetBounds DEF HEADER_SIZE, MIN_ALLOC
  <2>2. \A o \in DOMAIN h : o >= rd \/ o < w
    BY DEF Compacting
  <2> QED  BY <1>1, <2>1, <2>2
<1>9. Part(h, 0, w) = [o \in front |-> h[o]] /\ Part(h, rd, DEVICE_RAM) = [o \in rear |-> h[o]]
  BY DEF Part
<1> HIDE DEF front, rear
<1>7. Over([o \in rear |-> h[o]], [o \in front |-> h[o]]) = [o \in DOMAIN h |-> h[o]]
  BY <1>6 DEF Over
<1>8. h = [o \in DOMAIN h |-> h[o]]
  BY <1>1 DEF TypedHeap
<1> QED  BY <1>4, <1>5, <1>7, <1>8, <1>9

\* ... and over one that is not under compaction.
LEMMA HeapRead ==
  ASSUME NEW r, IsRam(r), NEW h, TypedHeap(h), Tiled(h), Stored(r, h)
  PROVE  Walk(r, 0, DEVICE_RAM) = h
<1>1. Compacting(h, 0, 0)
  BY CompactionBegins
<1>2. Walk(r, 0, DEVICE_RAM) = Part(h, 0, DEVICE_RAM)
  BY <1>1, BlocksRead
<1>3. {o \in DOMAIN h : 0 <= o /\ o < DEVICE_RAM} = DOMAIN h
  BY OffsetBounds, HeapAssumption DEF HEADER_SIZE, MIN_ALLOC
<1>4. h = [o \in DOMAIN h |-> h[o]]
  BY DEF TypedHeap
<1> QED  BY <1>2, <1>3, <1>4 DEF Part

-----------------------------------------------------------------------------
(***************************************************************************)
(* What the operations on ram[] leave in it.                               *)
(***************************************************************************)

\* The bytes of the blocks are those of the heap that was read.
LEMMA WrittenKeeps ==
  ASSUME NEW r, IsRam(r), NEW old, Stored(r, old), NEW new, TypedHeap(new), Tiled(new)
  PROVE  LET w == Written(r, old, new)
         IN  /\ IsRam(w) /\ Stored(w, new)
             /\ \A o \in DOMAIN new : \A k \in 0 .. new[o].size - 1 :
                  w[ByteOf(o, k)] = r[ByteOf(o, k)]
<1> DEFINE w == Written(r, old, new)
<1>1. Laid(new) /\ Apart(new)
  BY TiledLaid
<1>2. /\ IsRam(w) /\ Stored(w, new)
      /\ \A b \in Bytes :
           (\A o \in DOMAIN new : InHeader(b, o) => o \in DOMAIN old /\ new[o] = old[o]) => w[b] = r[b]
  BY <1>1, WrittenStores
<1> HIDE DEF w
<1>3. ASSUME NEW o \in DOMAIN new, NEW k \in 0 .. new[o].size - 1
      PROVE  w[ByteOf(o, k)] = r[ByteOf(o, k)]
  <2>1. ByteOf(o, k) \in Bytes /\ \A p \in DOMAIN new : ~ InHeader(ByteOf(o, k), p)
    BY <1>1, BytesOfBlock
  <2> QED  BY <1>2, <2>1
<1> QED  BY <1>2, <1>3 DEF w

\* One header is written: it is the only one that changes.
LEMMA HeaderAdded ==
  ASSUME NEW r, IsRam(r), NEW h, Stored(r, h), NEW g, Laid(g), Apart(g), NEW p \in DOMAIN g,
         DOMAIN g \subseteq DOMAIN h \cup {p}, \A q \in DOMAIN g \ {p} : g[q] = h[q],
         NEW w, w = WriteHeader(r, p, g[p])
  PROVE  /\ IsRam(w) /\ Stored(w, g)
         /\ \A o \in DOMAIN g : \A k \in 0 .. g[o].size - 1 : w[ByteOf(o, k)] = r[ByteOf(o, k)]
<1>1. \A q \in DOMAIN g : q \in Offsets /\ g[q] \in Headers
  BY DEF Laid, TypedHeap
<1>2. /\ IsRam(w)
      /\ ReadHeader(w, p) = g[p] /\ ChecksumOk(w, p)
      /\ \A b \in Bytes : ~ InHeader(b, p) => w[b] = r[b]
  BY <1>1, HeaderStored
<1>3. ASSUME NEW q \in DOMAIN g \ {p}
      PROVE  ReadHeader(w, q) = g[q] /\ ChecksumOk(w, q)
  <2>1. q \in Nat /\ p \in Nat
    BY <1>1, HeaderBytes
  <2>2. \A k \in 0 .. 7 : w[q + k] = r[q + k]
    <3> SUFFICES ASSUME NEW k \in 0 .. 7
                 PROVE  w[q + k] = r[q + k]
      OBVIOUS
    <3>1. q + k \in q .. q + HEADER_SIZE - 1
      BY <1>1, HeaderBytes
    <3>2. q + k \in Bytes
      BY <1>1, <3>1, HeaderBytes
    <3>3. q + HEADER_SIZE <= p \/ p + HEADER_SIZE <= q
      <4>1. q < p \/ p < q
        BY <2>1
      <4> QED  BY <4>1 DEF Apart
    <3>4. ~ InHeader(q + k, p)
      BY <2>1, <3>3 DEF InHeader, HEADER_SIZE
    <3> QED  BY <1>2, <3>2, <3>4
  <2>3. ReadHeader(w, q) = ReadHeader(r, q) /\ (ChecksumOk(w, q) <=> ChecksumOk(r, q))
    BY <2>1, <2>2, HeaderKept
  <2>4. q \in DOMAIN h /\ g[q] = h[q]
    OBVIOUS
  <2> QED  BY <2>3, <2>4 DEF Stored
<1>4. ASSUME NEW o \in DOMAIN g, NEW k \in 0 .. g[o].size - 1
      PROVE  w[ByteOf(o, k)] = r[ByteOf(o, k)]
  <2>1. ByteOf(o, k) \in Bytes /\ ~ InHeader(ByteOf(o, k), p)
    BY BytesOfBlock
  <2> QED  BY <1>2, <2>1
<1> QED  BY <1>2, <1>3, <1>4 DEF Stored

\* The sweep reads the heap and writes what the sweep of Heap makes of it.
LEMMA SweptStores ==
  ASSUME NEW r, IsRam(r), NEW h, TypedHeap(h), Tiled(h), Stored(r, h)
  PROVE  LET g == SweepAndMerge(h)
             s == Swept(r)
         IN  /\ WellFormed(g) /\ IsRam(s) /\ Stored(s, g)
             /\ UsedBlocks(g) = UsedBlocks(h)
             /\ \A o \in UsedBlocks(h) :
                  g[o] = h[o] /\ \A k \in 0 .. h[o].size - 1 : s[ByteOf(o, k)] = r[ByteOf(o, k)]
<1> DEFINE g == SweepAndMerge(h)
           s == Swept(r)
<1>1. s = Written(r, h, g)
  BY HeapRead DEF Swept
<1>2. WellFormed(g)
  BY SweepWellFormed
<1>3. UsedBlocks(g) = UsedBlocks(h) /\ \A o \in UsedBlocks(h) : g[o] = h[o]
  BY SweepKeepsUsed
<1> HIDE DEF g, s
<1>4. /\ IsRam(s) /\ Stored(s, g)
      /\ \A o \in DOMAIN g : \A k \in 0 .. g[o].size - 1 : s[ByteOf(o, k)] = r[ByteOf(o, k)]
  BY <1>1, <1>2, WrittenKeeps DEF WellFormed
<1>5. \A o \in UsedBlocks(h) : o \in DOMAIN g /\ g[o] = h[o]
  BY <1>3 DEF UsedBlocks
<1> QED  BY <1>2, <1>3, <1>4, <1>5 DEF g, s

\* memmove carries the header of the block at rd and its bytes to w, and the others stay
\* readable, those it is moved onto the old place of included.
LEMMA MemmoveStores ==
  ASSUME NEW r, IsRam(r), NEW h, NEW w, NEW rd, Compacting(h, w, rd), rd \in UsedBlocks(h),
         Stored(r, h),
         NEW s, s = Memmove(r, w, rd, h[rd].size + HEADER_SIZE)
  PROVE  /\ IsRam(s) /\ Stored(s, Transferred(h, rd, w))
         /\ \A k \in 0 .. h[rd].size - 1 : s[ByteOf(w, k)] = r[ByteOf(rd, k)]
         /\ \A o \in DOMAIN h \ {rd} : \A k \in 0 .. h[o].size - 1 : s[ByteOf(o, k)] = r[ByteOf(o, k)]
<1> DEFINE n == h[rd].size + HEADER_SIZE
           new == [b \in w .. w + n - 1 |-> r[b - w + rd]]
<1>1. Laid(h) /\ TypedHeap(h) /\ rd \in DOMAIN h /\ w \in Nat /\ rd \in Nat /\ w <= rd
  BY CompactingLaid DEF Laid, UsedBlocks
<1>2. /\ \A p \in DOMAIN h : /\ p \in Nat /\ h[p].size \in Nat /\ NextBlock(h, p) \in Nat
                             /\ NextBlock(h, p) = p + h[p].size + HEADER_SIZE
                             /\ NextBlock(h, p) >= p + HEADER_SIZE
                             /\ NextBlock(h, p) <= DEVICE_RAM
      /\ DEVICE_RAM \in Nat
  BY <1>1, OffsetBounds, HeapAssumption DEF NextBlock, Laid, HEADER_SIZE, MIN_ALLOC
<1>3. n \in Nat /\ n >= HEADER_SIZE /\ rd + n <= DEVICE_RAM /\ rd + n = NextBlock(h, rd)
  BY <1>1, <1>2 DEF HEADER_SIZE
<1>4. \A p \in DOMAIN h \ {rd} : (p < w /\ NextBlock(h, p) <= w) \/ p >= w + n
  BY <1>1, <1>2, MoveReachesNone DEF HEADER_SIZE
<1>5. s = Over(r, new)
  BY DEF Memmove
<1>6. DOMAIN new = w .. w + n - 1
  OBVIOUS
<1>7. \A b \in w .. w + n - 1 : b \in Bytes /\ b - w + rd \in Bytes /\ new[b] = r[b - w + rd]
  <2> SUFFICES ASSUME NEW b \in w .. w + n - 1
               PROVE  b \in Bytes /\ b - w + rd \in Bytes /\ new[b] = r[b - w + rd]
    OBVIOUS
  <2>1. new[b] = r[b - w + rd]
    OBVIOUS
  <2>2. w \in Nat /\ rd \in Nat /\ w <= rd /\ DEVICE_RAM \in Nat
    BY <1>1, <1>2
  <2> HIDE DEF n, new
  <2>3. b \in Bytes /\ b - w + rd \in Bytes
    BY ONLY b \in w .. w + n - 1, <1>3, <2>2 DEF Bytes
  <2> QED  BY <2>1, <2>3
<1> HIDE DEF n, new
<1>8. /\ IsRam(s)
      /\ \A b \in w .. w + n - 1 : s[b] = r[b - w + rd]
      /\ \A b \in Bytes : b \notin w .. w + n - 1 => s[b] = r[b]
  <2>1. DOMAIN new \subseteq Bytes
    BY <1>6, <1>7
  <2>2. \A b \in DOMAIN new : new[b] \in ByteRange
    BY <1>6, <1>7 DEF IsRam
  <2>3. /\ IsRam(s)
        /\ \A b \in DOMAIN new : s[b] = new[b]
        /\ \A b \in Bytes : b \notin DOMAIN new => s[b] = r[b]
    BY <1>5, <2>1, <2>2, OverTyped
  <2> QED  BY <1>6, <1>7, <2>3
<1>9. \A k \in Nat : k < n => s[w + k] = r[rd + k]
  <2> SUFFICES ASSUME NEW k \in Nat, k < n
               PROVE  s[w + k] = r[rd + k]
    OBVIOUS
  <2>1. w + k \in w .. w + n - 1 /\ (w + k) - w + rd = rd + k
    BY <1>1, <1>3
  <2> QED  BY <1>8, <2>1
<1>10. ASSUME NEW p \in DOMAIN h \ {rd}, NEW b \in Bytes, p <= b, b < NextBlock(h, p)
       PROVE  s[b] = r[b]
  <2>1. b \in Nat /\ p \in Nat
    BY <1>2 DEF Bytes
  <2>2. b \notin w .. w + n - 1
    BY <1>1, <1>2, <1>3, <1>4, <1>10, <2>1
  <2> QED  BY <1>8, <2>2
<1>11. Stored(s, Transferred(h, rd, w))
  <2> DEFINE g == Transferred(h, rd, w)
  <2>1. MovesOnly(h, w, rd, g)
    BY MovedShape
  <2>2. /\ DOMAIN g = (DOMAIN h \ {rd}) \cup {w}
        /\ g[w] = h[rd]
        /\ \A p \in DOMAIN h \ {rd} : p # w /\ g[p] = h[p]
    BY <2>1 DEF MovesOnly
  <2> HIDE DEF g
  <2>3. ReadHeader(s, w) = h[rd] /\ ChecksumOk(s, w)
    <3>1. \A k \in 0 .. 7 : s[w + k] = r[rd + k]
      BY <1>3, <1>9 DEF HEADER_SIZE
    <3>2. ReadHeader(s, w) = ReadHeader(r, rd) /\ (ChecksumOk(s, w) <=> ChecksumOk(r, rd))
      <4>1. w \in Nat /\ rd \in Nat
        BY <1>1
      <4>2. \A k \in 0 .. 7 : s[w + k] = r[rd + k]
        BY <3>1
      <4> QED  BY ONLY <4>1, <4>2, HeaderLocal, SMTT(30)
    <3> QED  BY <1>1, <3>2 DEF Stored
  <2>4. ASSUME NEW p \in DOMAIN h \ {rd}
        PROVE  ReadHeader(s, p) = h[p] /\ ChecksumOk(s, p)
    <3>1. \A k \in 0 .. 7 : s[p + k] = r[p + k]
      <4> SUFFICES ASSUME NEW k \in 0 .. 7
                   PROVE  s[p + k] = r[p + k]
        OBVIOUS
      <4>1. p + k \in Bytes /\ p <= p + k /\ p + k < NextBlock(h, p)
        BY <1>2 DEF HEADER_SIZE, Bytes
      <4> QED  BY <1>10, <4>1
    <3>2. p \in Nat
      BY <1>2
    <3>3. ReadHeader(s, p) = ReadHeader(r, p) /\ (ChecksumOk(s, p) <=> ChecksumOk(r, p))
      BY <3>1, <3>2, HeaderKept
    <3> QED  BY <3>3 DEF Stored
  <2>5. \A p \in DOMAIN g : p = w \/ p \in DOMAIN h \ {rd}
    BY <2>2
  <2>6. Stored(s, g)
    BY <2>2, <2>3, <2>4, <2>5 DEF Stored
  <2> QED  BY <2>6 DEF g
<1>12. ASSUME NEW k \in 0 .. h[rd].size - 1
       PROVE  s[ByteOf(w, k)] = r[ByteOf(rd, k)]
  <2>1. HEADER_SIZE + k \in Nat /\ HEADER_SIZE + k < n
    BY <1>1, <1>2 DEF n, HEADER_SIZE
  <2>2. s[w + (HEADER_SIZE + k)] = r[rd + (HEADER_SIZE + k)]
    BY <1>9, <2>1
  <2>3. ByteOf(w, k) = w + (HEADER_SIZE + k) /\ ByteOf(rd, k) = rd + (HEADER_SIZE + k)
    BY <1>1, <1>2 DEF ByteOf, HEADER_SIZE
  <2> QED  BY <2>2, <2>3
<1>13. ASSUME NEW o \in DOMAIN h \ {rd}, NEW k \in 0 .. h[o].size - 1
       PROVE  s[ByteOf(o, k)] = r[ByteOf(o, k)]
  <2>1. /\ ByteOf(o, k) \in Bytes /\ o \in Nat
        /\ ByteOf(o, k) >= o + HEADER_SIZE /\ ByteOf(o, k) < NextBlock(h, o)
    BY <1>1, BytesOfBlock
  <2>2. o <= ByteOf(o, k)
    BY <2>1 DEF HEADER_SIZE, Bytes
  <2> QED  BY <1>10, <2>1, <2>2
<1> QED  BY <1>8, <1>11, <1>12, <1>13

-----------------------------------------------------------------------------
(***************************************************************************)
(* The memory of the callers.                                              *)
(***************************************************************************)

\* The owners of the handles in S find what they wrote.
Kept(r, table, h, S) ==
  \A i \in S : /\ table[i] # None
               /\ \A k \in 0 .. h[table[i] - HEADER_SIZE].size - 1 : r[table[i] + k] = Datum(i, k)

\* r holds the heap h, the table names its live blocks, and the owners of S have written.
Memory(r, table, h, S) ==
  /\ IsRam(r)
  /\ Stored(r, h)
  /\ Names(table, UsedBlocks(h))
  /\ S \subseteq HandleRange
  /\ Kept(r, table, h, S)

LEMMA DatumTyped ==
  ASSUME NEW i \in HandleRange, NEW k \in Nat
  PROVE  Datum(i, k) \in ByteRange
<1>1. i \in Nat
  BY HandleAssumption DEF HandleRange
<1>2. 16 * (i + 1) + (k % 16) \in Nat
  BY <1>1
<1> DEFINE n == 16 * (i + 1) + (k % 16)
<1>3. Datum(i, k) = n % 256
  BY DEF Datum
<1> HIDE DEF n
<1>4. n \in Nat
  BY <1>2 DEF n
<1> QED  BY <1>3, <1>4 DEF ByteRange

\* A valid handle is that of a live block.
LEMMA NamedBlock ==
  ASSUME NEW table, NEW h, TypedHeap(h), Names(table, UsedBlocks(h)),
         NEW i \in HandleRange, table[i] # None
  PROVE  LET o == table[i] - HEADER_SIZE
         IN  /\ o \in UsedBlocks(h) /\ o \in DOMAIN h /\ o \in Nat
             /\ table[i] \in Nat /\ table[i] = o + HEADER_SIZE
             /\ h[o] \in Headers /\ h[o].size \in Nat
             /\ \A k : table[i] + k = ByteOf(o, k)
<1> DEFINE o == table[i] - HEADER_SIZE
<1>1. table[i] \in Nat /\ o \in Offsets /\ o + HEADER_SIZE = table[i]
  BY EntryTyped
<1>2. o \in UsedBlocks(h)
  BY DEF Names
<1> HIDE DEF o
<1>3. o \in DOMAIN h
  BY <1>2 DEF UsedBlocks
<1>4. o \in Nat /\ h[o] \in Headers /\ h[o].size \in Nat
  BY <1>3, OffsetBounds
<1>5. \A k : table[i] + k = ByteOf(o, k)
  BY <1>1 DEF ByteOf
<1> QED  BY <1>1, <1>2, <1>3, <1>4, <1>5 DEF o

\* The blocks K of two heaps have the same size and the same bytes.
SameBlocks(K, h, r, g, s) ==
  \A o \in K : g[o].size = h[o].size /\ \A k \in 0 .. h[o].size - 1 : s[ByteOf(o, k)] = r[ByteOf(o, k)]

\* The handles T name blocks of K before and after.
SameHandles(T, K, table, table2) ==
  \A i \in T : table2[i] = table[i] /\ table[i] - HEADER_SIZE \in K

\* Blocks that stay where they are with their bytes.
LEMMA KeptInPlace ==
  ASSUME NEW r, NEW table, NEW h, TypedHeap(h), Names(table, UsedBlocks(h)),
         NEW S \in SUBSET HandleRange, Kept(r, table, h, S),
         NEW s, NEW table2, NEW g, NEW T \in SUBSET S, NEW K,
         SameHandles(T, K, table, table2), SameBlocks(K, h, r, g, s)
  PROVE  Kept(s, table2, g, T)
<1> SUFFICES ASSUME NEW i \in T
             PROVE  /\ table2[i] # None
                    /\ \A k \in 0 .. g[table2[i] - HEADER_SIZE].size - 1 : s[table2[i] + k] = Datum(i, k)
  BY DEF Kept
<1> DEFINE o == table[i] - HEADER_SIZE
<1>1. /\ table[i] # None
      /\ \A k \in 0 .. h[o].size - 1 : r[table[i] + k] = Datum(i, k)
  BY DEF Kept
<1>2. o \in DOMAIN h /\ \A k : table[i] + k = ByteOf(o, k)
  BY <1>1, NamedBlock
<1>3. table2[i] = table[i] /\ o \in K
  BY DEF SameHandles
<1> HIDE DEF o
<1>4. g[o].size = h[o].size /\ \A k \in 0 .. h[o].size - 1 : s[ByteOf(o, k)] = r[ByteOf(o, k)]
  BY <1>3 DEF SameBlocks
<1>5. \A k \in 0 .. g[o].size - 1 : s[table2[i] + k] = Datum(i, k)
  BY <1>1, <1>2, <1>3, <1>4
<1> QED  BY <1>1, <1>3, <1>5 DEF o

\* The block mem_alloc_handle is after, if there is one.
Found(h, n) == FindFreeBlock(h, AlignBytes(n), 1)

\* Whether it gets one.
Grants(table, h, n) ==
  UnusedHandles(table) # {} /\ n >= MIN_ALLOC /\ n <= MAX_ALLOC /\ Found(h, n) # None

\* What mem_alloc_handle makes of the bytes is what it makes of the heap.
LEMMA AllocRemembers ==
  ASSUME NEW r, NEW table, NEW h, NEW S, Memory(r, table, h, S), WellFormed(h),
         NEW n \in Int, NEW t \in Int,
         NEW m, m = MemAllocHandleResult(r, table, n, t),
         NEW g, g = Occupy(h, Found(h, n), AlignBytes(n), t)
  PROVE  /\ m.ok <=> Grants(table, h, n)
         /\ ~ m.ok => m.ram = r /\ m.table = table
         /\ m.ok => /\ WellFormed(g) /\ Memory(m.ram, m.table, g, S)
                    /\ m.ram = Written(r, h, g)
                    /\ m.table = [table EXCEPT ![Min(UnusedHandles(table))] = Found(h, n) + HEADER_SIZE]
                    /\ Min(UnusedHandles(table)) \in UnusedHandles(table)
                    /\ Found(h, n) \in FreeBlocks(h)
<1> DEFINE o == Found(h, n)
           unused == UnusedHandles(table)
           block == MemAllocResult(r, n, t)
           valid == n >= MIN_ALLOC /\ n <= MAX_ALLOC
           i == Min(unused)
<1>1. /\ IsRam(r) /\ Stored(r, h) /\ Names(table, UsedBlocks(h))
      /\ S \in SUBSET HandleRange /\ Kept(r, table, h, S)
      /\ TypedHeap(h) /\ Tiled(h)
  BY DEF Memory, WellFormed
<1>2. Walk(r, 0, DEVICE_RAM) = h
  BY <1>1, HeapRead
<1>3. block = IF ~ valid \/ o = None THEN [ptr |-> None, ram |-> r]
              ELSE [ptr |-> o + HEADER_SIZE, ram |-> Written(r, h, g)]
  <2>1. block = LET w == Walk(r, 0, DEVICE_RAM)
                    q == FindFreeBlock(w, AlignBytes(n), 1)
                IN  IF n < MIN_ALLOC \/ n > MAX_ALLOC \/ q = None
                    THEN [ptr |-> None, ram |-> r]
                    ELSE [ptr |-> q + HEADER_SIZE,
                          ram |-> Written(r, w, Occupy(w, q, AlignBytes(n), t))]
    BY DEF MemAllocResult
  <2>2. block = IF n < MIN_ALLOC \/ n > MAX_ALLOC \/ o = None
                THEN [ptr |-> None, ram |-> r]
                ELSE [ptr |-> o + HEADER_SIZE, ram |-> Written(r, h, g)]
    BY <1>2, <2>1 DEF Found
  <2>3. ~ valid <=> n < MIN_ALLOC \/ n > MAX_ALLOC
    BY HeapAssumption DEF MIN_ALLOC
  <2> HIDE DEF block, valid, o
  <2> QED  BY <2>2, <2>3
<1>4. o # None => o \in FreeBlocks(h) /\ AlignBytes(n) <= h[o].size
  <2>1. o # None => o \in FreeBlocks(h) /\ h[o].size >= AlignBytes(n)
    BY <1>1, FindFreeBlockFits DEF Found
  <2>2. o # None => h[o].size \in Nat
    BY <1>1, <2>1, OffsetBounds DEF FreeBlocks
  <2>3. AlignBytes(n) \in Int
    BY DEF AlignBytes, ALIGNMENT
  <2> HIDE DEF o
  <2> QED  BY <2>1, <2>2, <2>3
<1>5. o # None => o \in Offsets /\ o + HEADER_SIZE # None
  BY <1>1, <1>4, HeapAssumption DEF TypedHeap, FreeBlocks, Offsets, HEADER_SIZE, MIN_ALLOC, None
<1>6. m = IF unused = {} \/ block.ptr = None THEN [ok |-> FALSE, ram |-> r, table |-> table]
          ELSE [ok |-> TRUE, ram |-> block.ram, table |-> [table EXCEPT ![i] = block.ptr]]
  BY DEF MemAllocHandleResult
<1>7. block.ptr = None <=> ~ valid \/ o = None
  BY <1>3, <1>5
<1>8. CASE ~ Grants(table, h, n)
  <2>1. unused = {} \/ block.ptr = None
    BY <1>7, <1>8 DEF Grants
  <2>2. m.ok = FALSE /\ m.ram = r /\ m.table = table
    BY <1>6, <2>1
  <2> QED  BY <1>8, <2>2
<1>9. CASE Grants(table, h, n)
  <2>1. unused # {} /\ valid /\ o # None
    BY <1>9 DEF Grants
  <2>2. block.ptr # None
    BY <1>7, <2>1
  <2>3. block.ptr = o + HEADER_SIZE /\ block.ram = Written(r, h, g)
    BY <1>3, <2>1
  <2> HIDE DEF block
  <2>4. m.ok = TRUE /\ m.ram = block.ram /\ m.table = [table EXCEPT ![i] = block.ptr]
    BY <1>6, <2>1, <2>2
  <2>5. i \in unused
    <3>1. unused \in SUBSET Nat
      BY DEF UnusedHandles, HandleRange
    <3> QED  BY <2>1, <3>1, MinOfNats
  <2>6. i \in HandleRange /\ table[i] = None
    BY <2>5 DEF UnusedHandles
  <2>7. o \in FreeBlocks(h) /\ AlignBytes(n) <= h[o].size /\ o \in Offsets
    BY <1>4, <1>5, <2>1
  <2>8. AlignBytes(n) \in BlockSizes
    <3>1. n \in Nat /\ n >= MIN_ALLOC
      BY <2>1 DEF MIN_ALLOC
    <3>2. AlignBytes(n) \in Nat /\ AlignBytes(n) % ALIGNMENT = 0 /\ n <= AlignBytes(n)
      BY <3>1, AlignBytesRoundsUp
    <3>3. h[o].size \in BlockSizes
      BY <1>1, <2>7, BlockBounds DEF FreeBlocks
    <3> QED  BY <2>7, <3>1, <3>2, <3>3, HeapAssumption DEF BlockSizes, MIN_ALLOC
  <2> HIDE DEF o, i
  <2>9. g = Occupy(h, o, AlignBytes(n), t)
    BY DEF o
  <2>10. WellFormed(g)
    BY <2>7, <2>8, <2>9, OccupyWellFormed
  <2>11. /\ UsedBlocks(g) = UsedBlocks(h) \cup {o}
         /\ \A p \in UsedBlocks(h) : p # o /\ g[p] = h[p]
    BY <2>7, <2>8, <2>9, OccupyAddsUsed
  <2>12. /\ IsRam(m.ram) /\ Stored(m.ram, g)
         /\ \A p \in DOMAIN g : \A k \in 0 .. g[p].size - 1 : m.ram[ByteOf(p, k)] = r[ByteOf(p, k)]
    BY <1>1, <2>3, <2>4, <2>10, WrittenKeeps DEF WellFormed
  <2>13. Names(m.table, UsedBlocks(g))
    <3>1. o \notin UsedBlocks(h)
      BY <2>7 DEF FreeBlocks, UsedBlocks, STATUS_FREE, STATUS_USED
    <3>2. Names([table EXCEPT ![i] = o + HEADER_SIZE], UsedBlocks(h) \cup {o})
      BY <1>1, <2>6, <2>7, <3>1, NamesAdded
    <3> QED  BY <2>3, <2>4, <2>11, <3>2
  <2>14. Kept(m.ram, m.table, g, S)
    <3>1. table \in [HandleRange -> {None} \cup {p + HEADER_SIZE : p \in Offsets}]
      BY <1>1 DEF Names
    <3>2. \A j \in S : j # i
      BY <1>1, <2>6 DEF Kept
    <3>3. \A j \in S : m.table[j] = table[j]
      BY <1>1, <2>4, <3>1, <3>2
    <3>4. \A j \in S : table[j] - HEADER_SIZE \in UsedBlocks(h)
      BY <1>1 DEF Kept, Names
    <3>5. \A p \in UsedBlocks(h) :
            g[p].size = h[p].size /\ \A k \in 0 .. h[p].size - 1 : m.ram[ByteOf(p, k)] = r[ByteOf(p, k)]
      <4>1. \A p \in UsedBlocks(h) : p \in DOMAIN g /\ g[p] = h[p]
        BY <2>11 DEF UsedBlocks
      <4> QED  BY <2>12, <4>1
    <3>6. SameHandles(S, UsedBlocks(h), table, m.table) /\ SameBlocks(UsedBlocks(h), h, r, g, m.ram)
      BY <3>3, <3>4, <3>5 DEF SameHandles, SameBlocks
    <3>7. S \in SUBSET S
      OBVIOUS
    <3> QED  BY <1>1, <3>6, <3>7, KeptInPlace
  <2>15. Memory(m.ram, m.table, g, S)
    BY <1>1, <2>12, <2>13, <2>14 DEF Memory
  <2> QED  BY <1>9, <2>3, <2>4, <2>5, <2>7, <2>10, <2>15 DEF o, i
<1> QED  BY <1>8, <1>9

\* It succeeds when there is a block for it.
LEMMA AllocGrants ==
  ASSUME NEW r, NEW table, NEW h, NEW S, Memory(r, table, h, S), WellFormed(h),
         NEW n \in Int, NEW t \in Int
  PROVE  MemAllocHandleResult(r, table, n, t).ok <=> Grants(table, h, n)
<1>1. PICK m, g : /\ m = MemAllocHandleResult(r, table, n, t)
                  /\ g = Occupy(h, Found(h, n), AlignBytes(n), t)
  OBVIOUS
<1>2. Memory(r, table, h, S) /\ WellFormed(h) /\ n \in Int /\ t \in Int
  OBVIOUS
<1>3. /\ m.ok <=> Grants(table, h, n)
      /\ ~ m.ok => m.ram = r /\ m.table = table
      /\ m.ok => /\ WellFormed(g) /\ Memory(m.ram, m.table, g, S)
                 /\ m.ram = Written(r, h, g)
                 /\ m.table = [table EXCEPT ![Min(UnusedHandles(table))] = Found(h, n) + HEADER_SIZE]
                 /\ Min(UnusedHandles(table)) \in UnusedHandles(table)
                 /\ Found(h, n) \in FreeBlocks(h)
  BY ONLY <1>1, <1>2, AllocRemembers
<1> QED  BY <1>1, <1>3

\* mem_free accepts the pointer of a valid handle unless it is too close to the end, and
\* frees the block.
LEMMA FreeRemembers ==
  ASSUME NEW r, NEW table, NEW h, NEW S, Memory(r, table, h, S), WellFormed(h),
         NEW i \in HandleRange, Accepts(r, table[i]),
         NEW g, g = Release(h, table[i] - HEADER_SIZE)
  PROVE  /\ Freeable(h, table[i])
         /\ WellFormed(g)
         /\ Memory(Released(r, table[i]), [table EXCEPT ![i] = None], g, S \ {i})
<1> DEFINE o == table[i] - HEADER_SIZE
           freed == Header(h[o].size, STATUS_FREE, h[o].task_id)
           c == [h EXCEPT ![o] = freed]
           w == WriteHeader(r, o, freed)
           s == Released(r, table[i])
           table2 == [table EXCEPT ![i] = None]
<1>1. /\ IsRam(r) /\ Stored(r, h) /\ Names(table, UsedBlocks(h))
      /\ S \in SUBSET HandleRange /\ Kept(r, table, h, S)
      /\ TypedHeap(h) /\ Tiled(h)
  BY DEF Memory, WellFormed
<1>2. table[i] # None
  BY DEF Accepts, None, HEADER_SIZE
<1>3. o \in UsedBlocks(h) /\ o \in DOMAIN h /\ h[o] \in Headers
  BY <1>1, <1>2, NamedBlock
<1>4. Freeable(h, table[i])
  BY <1>3 DEF Freeable, Accepts
<1> HIDE DEF o
<1>5. freed = [h[o] EXCEPT !.status = STATUS_FREE]
  <2>1. PICK n \in Nat : n = TASK_ID_RANGE
    BY SMT DEF TASK_ID_RANGE
  <2>2. h[o].task_id \in 0 .. n - 1
    BY <1>3, <2>1 DEF Headers
  <2>3. h[o].task_id % n = h[o].task_id
    BY <2>2
  <2>4. h[o].task_id % TASK_ID_RANGE = h[o].task_id
    BY <2>1, <2>3
  <2>5. freed = [size |-> h[o].size, status |-> STATUS_FREE, task_id |-> h[o].task_id]
    BY <2>4, Zenon DEF Header
  <2>6. h[o] = [size |-> h[o].size, status |-> h[o].status, task_id |-> h[o].task_id]
    BY <1>3 DEF Headers
  <2> HIDE DEF freed
  <2>7. [h[o] EXCEPT !.status = STATUS_FREE]
          = [size |-> h[o].size, status |-> STATUS_FREE, task_id |-> h[o].task_id]
    BY <2>6
  <2> QED  BY <2>5, <2>7
<1>6. s = Swept(w)
  <2>1. ReadHeader(r, o) = h[o]
    BY <1>1, <1>3 DEF Stored
  <2>2. s = Swept(WriteHeader(r, o, [ReadHeader(r, o) EXCEPT !.status = STATUS_FREE]))
    BY DEF Released, o
  <2> HIDE DEF freed, s
  <2> QED  BY <1>5, <2>1, <2>2
<1>7. /\ TypedHeap(c) /\ Tiled(c)
      /\ UsedBlocks(c) = UsedBlocks(h) \ {o}
      /\ \A p \in UsedBlocks(c) : c[p] = h[p]
  <2>1. TypedHeap(h) /\ Tiled(h) /\ o \in UsedBlocks(h) /\ h[o].task_id \in Int
    BY <1>1, <1>3 DEF Headers
  <2>2. c = [h EXCEPT ![o] = Header(h[o].size, STATUS_FREE, h[o].task_id)]
    OBVIOUS
  <2> HIDE DEF c
  <2>3. LosesOnly(h, o, c)
    BY ONLY <2>1, <2>2, MarkFree
  <2> QED  BY <2>3 DEF LosesOnly
<1>8. g = SweepAndMerge(c)
  BY DEF Release, o
<1>9. /\ IsRam(w) /\ Stored(w, c)
      /\ \A p \in DOMAIN c : \A k \in 0 .. c[p].size - 1 : w[ByteOf(p, k)] = r[ByteOf(p, k)]
  <2>1. Laid(c) /\ Apart(c)
    BY <1>7, TiledLaid
  <2>2. /\ DOMAIN c = DOMAIN h /\ o \in DOMAIN c /\ c[o] = freed
        /\ \A p \in DOMAIN c \ {o} : c[p] = h[p]
    BY <1>1, <1>3 DEF TypedHeap
  <2>3. DOMAIN c \subseteq DOMAIN h \cup {o} /\ w = WriteHeader(r, o, c[o])
    BY <2>2
  <2> HIDE DEF c, w
  <2> QED  BY <1>1, <2>1, <2>2, <2>3, HeaderAdded
<1> HIDE DEF freed, c, w, s
<1>10. /\ WellFormed(g) /\ IsRam(s) /\ Stored(s, g)
       /\ UsedBlocks(g) = UsedBlocks(c)
       /\ \A p \in UsedBlocks(c) :
            g[p] = c[p] /\ \A k \in 0 .. c[p].size - 1 : s[ByteOf(p, k)] = w[ByteOf(p, k)]
  BY <1>6, <1>7, <1>8, <1>9, SweptStores
<1>11. Names(table2, UsedBlocks(g))
  BY <1>1, <1>2, <1>7, <1>10, NamesDeleted DEF o
<1>12. Kept(s, table2, g, S \ {i})
  <2>1. table \in [HandleRange -> {None} \cup {p + HEADER_SIZE : p \in Offsets}]
    BY <1>1 DEF Names
  <2>2. \A j \in S \ {i} : table2[j] = table[j]
    BY <1>1, <2>1
  <2>3. ASSUME NEW j \in S \ {i}
        PROVE  table[j] - HEADER_SIZE \in UsedBlocks(c)
    <3>1. j \in HandleRange /\ j # i /\ table[j] # None
      BY <1>1 DEF Kept
    <3>2. table[j] # table[i]
      BY <1>1, <3>1 DEF Names
    <3>3. /\ table[j] - HEADER_SIZE \in UsedBlocks(h)
          /\ table[j] = (table[j] - HEADER_SIZE) + HEADER_SIZE
          /\ table[i] = (table[i] - HEADER_SIZE) + HEADER_SIZE
      BY <1>1, <1>2, <3>1, NamedBlock
    <3>4. table[j] - HEADER_SIZE # o
      BY <3>2, <3>3 DEF o
    <3> QED  BY <1>7, <3>3, <3>4
  <2>4. \A p \in UsedBlocks(c) :
          g[p].size = h[p].size /\ \A k \in 0 .. h[p].size - 1 : s[ByteOf(p, k)] = r[ByteOf(p, k)]
    <3>1. \A p \in UsedBlocks(c) : p \in DOMAIN c /\ g[p] = h[p] /\ c[p] = h[p]
      BY <1>7, <1>10 DEF UsedBlocks
    <3> QED  BY <1>9, <1>10, <3>1
  <2> HIDE DEF table2
  <2>5. S \ {i} \in SUBSET S
    OBVIOUS
  <2>6. SameHandles(S \ {i}, UsedBlocks(c), table, table2) /\ SameBlocks(UsedBlocks(c), h, r, g, s)
    BY <2>2, <2>3, <2>4 DEF SameHandles, SameBlocks
  <2> QED  BY <1>1, <2>5, <2>6, KeptInPlace
<1>13. S \ {i} \subseteq HandleRange
  BY <1>1
<1>14. Memory(s, table2, g, S \ {i})
  BY <1>10, <1>11, <1>12, <1>13 DEF Memory
<1> QED  BY <1>4, <1>10, <1>14 DEF s

\* The owner of a handle writes to its block and to nothing else.
LEMMA FillRemembers ==
  ASSUME NEW r, NEW table, NEW h, NEW S, Memory(r, table, h, S), WellFormed(h),
         NEW i \in HandleRange, table[i] # None,
         NEW s, s = Over(r, [b \in table[i] .. table[i] + SizeAt(r, table[i] - HEADER_SIZE) - 1
                               |-> Datum(i, b - table[i])])
  PROVE  Memory(s, table, h, S \cup {i})
<1> DEFINE o == table[i] - HEADER_SIZE
           ptr == table[i]
           size == h[o].size
           new == [b \in ptr .. ptr + size - 1 |-> Datum(i, b - ptr)]
<1>1. /\ IsRam(r) /\ Stored(r, h) /\ Names(table, UsedBlocks(h))
      /\ S \in SUBSET HandleRange /\ Kept(r, table, h, S)
      /\ TypedHeap(h) /\ Tiled(h)
  BY DEF Memory, WellFormed
<1>2. Laid(h)
  BY <1>1, TiledLaid
<1>3. /\ o \in UsedBlocks(h) /\ o \in DOMAIN h /\ o \in Nat /\ ptr \in Nat /\ size \in Nat
      /\ ptr = o + HEADER_SIZE /\ \A k : ptr + k = ByteOf(o, k)
  BY <1>1, NamedBlock
<1>4. s = Over(r, new)
  <2>1. SizeAt(r, o) = size
    BY <1>1, <1>3 DEF Stored, ReadHeader
  <2> QED  BY <2>1
<1>5. DOMAIN new = ptr .. ptr + size - 1
  OBVIOUS
<1> HIDE DEF o, ptr, size
<1>6. ASSUME NEW b \in ptr .. ptr + size - 1
      PROVE  /\ b - ptr \in 0 .. size - 1 /\ b = ByteOf(o, b - ptr)
             /\ new[b] = Datum(i, b - ptr) /\ new[b] \in ByteRange
             /\ b \in Bytes
  <2>1. b - ptr \in 0 .. size - 1 /\ ptr + (b - ptr) = b /\ b - ptr \in Nat
    BY <1>3
  <2>2. b = ByteOf(o, b - ptr)
    BY <1>3, <2>1
  <2>3. b \in Bytes
    BY <1>2, <1>3, <2>1, <2>2, BytesOfBlock DEF size
  <2> QED  BY <2>1, <2>2, <2>3, DatumTyped
<1> HIDE DEF new
<1>7. /\ IsRam(s)
      /\ \A b \in ptr .. ptr + size - 1 : s[b] = Datum(i, b - ptr)
      /\ \A b \in Bytes : b \notin ptr .. ptr + size - 1 => s[b] = r[b]
  <2>1. DOMAIN new \subseteq Bytes /\ \A b \in DOMAIN new : new[b] \in ByteRange
    BY <1>5, <1>6
  <2>2. /\ IsRam(s)
        /\ \A b \in DOMAIN new : s[b] = new[b]
        /\ \A b \in Bytes : b \notin DOMAIN new => s[b] = r[b]
    <3>1. IsRam(r)
      BY <1>1
    <3> QED  BY ONLY <1>4, <2>1, <3>1, OverTyped
  <2> QED  BY <1>5, <1>6, <2>2
<1>8. Stored(s, h)
  <2>1. ASSUME NEW p \in DOMAIN h
        PROVE  p \in Nat /\ \A k \in 0 .. 7 : s[p + k] = r[p + k]
    <3>1. p \in Offsets /\ p \in Nat
      BY <1>1, HeaderBytes DEF TypedHeap
    <3>2. ASSUME NEW k \in 0 .. 7
          PROVE  s[p + k] = r[p + k]
      <4>1. p + k \in p .. p + HEADER_SIZE - 1
        BY <3>1, HeaderBytes
      <4>2. p + k \in Bytes /\ InHeader(p + k, p)
        BY <3>1, <4>1, HeaderBytes
      <4>3. p + k \notin ptr .. ptr + size - 1
        <5> SUFFICES ASSUME p + k \in ptr .. ptr + size - 1
                     PROVE  FALSE
          OBVIOUS
        <5>1. PICK b \in ptr .. ptr + size - 1 : b = p + k
          OBVIOUS
        <5>2. b - ptr \in 0 .. size - 1 /\ b = ByteOf(o, b - ptr)
          BY <1>6
        <5>3. ~ InHeader(ByteOf(o, b - ptr), p)
          BY <1>2, <1>3, <5>2, BytesOfBlock DEF size
        <5> QED  BY <4>2, <5>1, <5>2, <5>3
      <4> QED  BY <1>7, <4>2, <4>3
    <3> QED  BY <3>1, <3>2
  <2> QED  BY <1>1, <2>1, StoredKept
<1>9. ASSUME NEW p \in UsedBlocks(h) \ {o}, NEW k \in 0 .. h[p].size - 1
      PROVE  s[ByteOf(p, k)] = r[ByteOf(p, k)]
  <2>1. p \in DOMAIN h \ {o}
    BY DEF UsedBlocks
  <2>2. ByteOf(p, k) \in Bytes /\ (ByteOf(p, k) < o \/ ByteOf(p, k) >= NextBlock(h, o))
    BY <1>2, <1>3, <2>1, BytesOfBlock
  <2>3. NextBlock(h, o) = ptr + size
    BY <1>3 DEF NextBlock, size, HEADER_SIZE
  <2>4. ByteOf(p, k) \notin ptr .. ptr + size - 1
    BY <1>3, <2>2, <2>3 DEF Bytes, HEADER_SIZE
  <2> QED  BY <1>7, <2>2, <2>4
<1>10. Kept(s, table, h, S \cup {i})
  <2>1. Kept(s, table, h, S \ {i})
    <3>1. ASSUME NEW j \in S \ {i}
          PROVE  table[j] - HEADER_SIZE \in UsedBlocks(h) \ {o}
      <4>1. j \in HandleRange /\ j # i /\ table[j] # None
        BY <1>1 DEF Kept
      <4>2. table[j] # ptr
        BY <1>1, <4>1 DEF Names, ptr
      <4>3. table[j] - HEADER_SIZE \in UsedBlocks(h) /\ table[j] = (table[j] - HEADER_SIZE) + HEADER_SIZE
        BY <1>1, <4>1, NamedBlock
      <4> QED  BY <1>3, <4>2, <4>3
    <3>2. S \ {i} \in SUBSET S
      OBVIOUS
    <3>3. SameHandles(S \ {i}, UsedBlocks(h) \ {o}, table, table)
      BY <3>1 DEF SameHandles
    <3>4. SameBlocks(UsedBlocks(h) \ {o}, h, r, h, s)
      BY <1>9 DEF SameBlocks
    <3> QED  BY <1>1, <3>2, <3>3, <3>4, KeptInPlace
  <2>2. \A k \in 0 .. size - 1 : s[ptr + k] = Datum(i, k)
    <3> SUFFICES ASSUME NEW k \in 0 .. size - 1
                 PROVE  s[ptr + k] = Datum(i, k)
      OBVIOUS
    <3>1. ptr + k \in ptr .. ptr + size - 1 /\ (ptr + k) - ptr = k
      BY <1>3
    <3> QED  BY <1>7, <3>1
  <2>3. table[i] # None /\ \A k \in 0 .. h[table[i] - HEADER_SIZE].size - 1 : s[table[i] + k] = Datum(i, k)
    BY <2>2 DEF size, o, ptr
  <2> QED  BY <2>1, <2>3 DEF Kept
<1>11. S \cup {i} \subseteq HandleRange
  BY <1>1
<1> QED  BY <1>1, <1>7, <1>8, <1>10, <1>11 DEF Memory

\* A step of mem_compact at a USED block: the block goes to w with its bytes, and its
\* handle follows it.
LEMMA MoveRemembers ==
  ASSUME NEW r, NEW table, NEW h, NEW S, Memory(r, table, h, S),
         NEW w, NEW rd, Compacting(h, w, rd), rd \in UsedBlocks(h),
         NEW s, s = IF w # rd THEN Memmove(r, w, rd, h[rd].size + HEADER_SIZE) ELSE r,
         NEW table2,
         table2 = IF w # rd THEN Repointed(table, rd + HEADER_SIZE, w + HEADER_SIZE) ELSE table,
         NEW g, g = Transferred(h, rd, w)
  PROVE  /\ table2 = Repointed(table, rd + HEADER_SIZE, w + HEADER_SIZE)
         /\ Memory(s, table2, g, S)
<1>1. /\ IsRam(r) /\ Stored(r, h) /\ Names(table, UsedBlocks(h))
      /\ S \in SUBSET HandleRange /\ Kept(r, table, h, S)
      /\ TypedHeap(h) /\ rd \in DOMAIN h
  BY DEF Memory, Compacting, UsedBlocks
<1>2. MovesOnly(h, w, rd, g)
  BY MovedShape
<1>3. Repointed(table, rd + HEADER_SIZE, w + HEADER_SIZE)
        = [i \in HandleRange |-> IF table[i] = rd + HEADER_SIZE THEN w + HEADER_SIZE ELSE table[i]]
  BY <1>1, RepointedShape
<1>4. table2 = [i \in HandleRange |-> IF table[i] = rd + HEADER_SIZE THEN w + HEADER_SIZE ELSE table[i]]
  <2>1. CASE w # rd
    BY <1>3, <2>1
  <2>2. CASE w = rd
    <3>1. table \in [HandleRange -> {None} \cup {o + HEADER_SIZE : o \in Offsets}]
      BY <1>1 DEF Names
    <3> QED  BY <2>2, <3>1
  <2> QED  BY <2>1, <2>2
<1>5. /\ IsRam(s) /\ Stored(s, g)
      /\ \A k \in 0 .. h[rd].size - 1 : s[ByteOf(w, k)] = r[ByteOf(rd, k)]
      /\ \A o \in DOMAIN h \ {rd} : \A k \in 0 .. h[o].size - 1 : s[ByteOf(o, k)] = r[ByteOf(o, k)]
  <2>1. CASE w # rd
    <3>1. s = Memmove(r, w, rd, h[rd].size + HEADER_SIZE)
      BY <2>1
    <3> QED  BY <1>1, <3>1, MemmoveStores
  <2>2. CASE w = rd
    <3>1. s = r
      BY <2>2
    <3>2. Stored(r, g)
      <4>1. DOMAIN g = DOMAIN h /\ \A o \in DOMAIN h : g[o] = h[o]
        BY <1>1, <1>2, <2>2 DEF MovesOnly
      <4> QED  BY <1>1, <4>1 DEF Stored
    <3> QED  BY <1>1, <2>2, <3>1, <3>2
  <2> QED  BY <2>1, <2>2
<1>6. Names(table2, UsedBlocks(g))
  <2>1. w \in Offsets /\ (w = rd \/ w \notin UsedBlocks(h)) /\ UsedBlocks(g) = (UsedBlocks(h) \ {rd}) \cup {w}
    BY <1>2 DEF MovesOnly, UsedBlocks
  <2>2. Names(table2, (UsedBlocks(h) \ {rd}) \cup {w})
    BY <1>1, <1>4, <2>1, NamesRepointed
  <2> QED  BY <2>1, <2>2
<1> DEFINE moved == {i \in S : table[i] = rd + HEADER_SIZE}
<1>7. Kept(s, table2, g, S \ moved)
  <2>1. S \ moved \in SUBSET S
    OBVIOUS
  <2>2. SameHandles(S \ moved, UsedBlocks(h) \ {rd}, table, table2)
    <3> SUFFICES ASSUME NEW i \in S \ moved
                 PROVE  table2[i] = table[i] /\ table[i] - HEADER_SIZE \in UsedBlocks(h) \ {rd}
      BY DEF SameHandles
    <3>1. i \in HandleRange /\ table[i] # rd + HEADER_SIZE /\ table[i] # None
      BY <1>1 DEF Kept
    <3>2. table[i] - HEADER_SIZE \in UsedBlocks(h) /\ table[i] = (table[i] - HEADER_SIZE) + HEADER_SIZE
      BY <1>1, <3>1, NamedBlock
    <3> QED  BY <1>4, <3>1, <3>2
  <2>3. SameBlocks(UsedBlocks(h) \ {rd}, h, r, g, s)
    <3>1. \A o \in UsedBlocks(h) \ {rd} : o \in DOMAIN h \ {rd} /\ g[o] = h[o]
      BY <1>2 DEF MovesOnly, UsedBlocks
    <3> QED  BY <1>5, <3>1 DEF SameBlocks
  <2> HIDE DEF moved
  <2> QED  BY <1>1, <2>1, <2>2, <2>3, KeptInPlace
<1>8. Kept(s, table2, g, moved)
  <2> SUFFICES ASSUME NEW i \in moved
               PROVE  /\ table2[i] # None
                      /\ \A k \in 0 .. g[table2[i] - HEADER_SIZE].size - 1 : s[table2[i] + k] = Datum(i, k)
    BY DEF Kept
  <2>1. i \in S /\ i \in HandleRange /\ table[i] = rd + HEADER_SIZE
    BY <1>1
  <2>2. table2[i] = w + HEADER_SIZE
    BY <1>4, <2>1
  <2>3. /\ w \in Nat /\ w \in Offsets /\ rd \in Nat /\ table2[i] - HEADER_SIZE = w /\ table2[i] # None
        /\ table[i] - HEADER_SIZE = rd /\ g[w] = h[rd]
    <3>1. w \in Offsets /\ g[w] = h[rd]
      BY <1>2 DEF MovesOnly
    <3>2. w \in Nat /\ rd \in Nat
      BY CompactingLaid
    <3> QED  BY <2>1, <2>2, <3>1, <3>2 DEF HEADER_SIZE, None
  <2>4. \A k \in 0 .. h[rd].size - 1 : r[table[i] + k] = Datum(i, k)
    BY <1>1, <2>1, <2>3 DEF Kept
  <2>5. \A k : table[i] + k = ByteOf(rd, k) /\ table2[i] + k = ByteOf(w, k)
    BY <2>1, <2>2 DEF ByteOf
  <2>6. \A k \in 0 .. h[rd].size - 1 : s[table2[i] + k] = Datum(i, k)
    BY <1>5, <2>4, <2>5
  <2> QED  BY <2>3, <2>6
<1>9. Kept(s, table2, g, S)
  <2>1. \A i \in S : i \in S \ moved \/ i \in moved
    OBVIOUS
  <2> HIDE DEF moved
  <2> QED  BY <1>7, <1>8, <2>1 DEF Kept
<1>10. S \subseteq HandleRange
  BY <1>1
<1> QED  BY <1>3, <1>4, <1>5, <1>6, <1>9, <1>10 DEF Memory

\* ... and at a FREE block, which is not read again.
LEMMA PassRemembers ==
  ASSUME NEW r, NEW table, NEW h, NEW S, Memory(r, table, h, S), TypedHeap(h),
         NEW rd, rd \in FreeBlocks(h), NEW g, g = Skipped(h, rd)
  PROVE  Memory(r, table, g, S)
<1>1. /\ DOMAIN g = DOMAIN h \ {rd}
      /\ \A o \in DOMAIN g : g[o] = h[o]
  BY DEF Skipped
<1>2. UsedBlocks(g) = UsedBlocks(h) /\ rd \notin UsedBlocks(h)
  BY <1>1 DEF UsedBlocks, FreeBlocks, STATUS_FREE, STATUS_USED
<1>3. Stored(r, g)
  BY <1>1 DEF Memory, Stored
<1>4. Kept(r, table, g, S)
  <2>1. /\ Kept(r, table, h, S) /\ Names(table, UsedBlocks(h)) /\ S \in SUBSET HandleRange
        /\ S \in SUBSET S
    BY DEF Memory
  <2>2. SameHandles(S, UsedBlocks(h), table, table)
    BY <2>1 DEF SameHandles, Kept, Names
  <2>3. SameBlocks(UsedBlocks(h), h, r, g, r)
    <3>1. \A o \in UsedBlocks(h) : g[o] = h[o]
      BY <1>1, <1>2 DEF UsedBlocks
    <3> QED  BY <3>1 DEF SameBlocks
  <2> QED  BY <2>1, <2>2, <2>3, KeptInPlace
<1> QED  BY <1>2, <1>3, <1>4 DEF Memory

\* What is left behind w becomes a FREE block and the sweep follows.
LEMMA CloseRemembers ==
  ASSUME NEW r, NEW table, NEW h, NEW S, Memory(r, table, h, S),
         NEW w, NEW rd, Compacting(h, w, rd), rd >= DEVICE_RAM,
         NEW d, d = IF LeavesBlock(DEVICE_RAM - w)
                    THEN WriteHeader(r, w, Header(DEVICE_RAM - w - HEADER_SIZE, STATUS_FREE, 0)) ELSE r,
         NEW s, s = Swept(d),
         NEW g, g = SweepAndMerge(Completed(h, w))
  PROVE  /\ WellFormed(g)
         /\ Memory(s, table, g, S)
<1> DEFINE c == Completed(h, w)
           rest == DEVICE_RAM - w
<1>1. /\ IsRam(r) /\ Stored(r, h) /\ Names(table, UsedBlocks(h))
      /\ S \in SUBSET HandleRange /\ Kept(r, table, h, S) /\ TypedHeap(h)
  BY DEF Memory, Compacting
<1>2. /\ TypedHeap(c) /\ Tiled(c)
      /\ UsedBlocks(c) = UsedBlocks(h)
      /\ \A o \in UsedBlocks(h) : c[o] = h[o]
  BY CompactionCloses
<1>3. Laid(c) /\ Apart(c)
  BY <1>2, TiledLaid
<1>4. WellFormed(g)
  BY CompactionGathers
<1>5. /\ IsRam(d) /\ Stored(d, c)
      /\ \A o \in UsedBlocks(c) : \A k \in 0 .. c[o].size - 1 : d[ByteOf(o, k)] = r[ByteOf(o, k)]
  <2>1. CASE LeavesBlock(rest)
    <3>1. /\ DOMAIN c = DOMAIN h \cup {w}
          /\ c[w] = Header(rest - HEADER_SIZE, STATUS_FREE, 0)
          /\ \A p \in DOMAIN c \ {w} : c[p] = h[p]
      BY <2>1 DEF Completed
    <3>2. d = WriteHeader(r, w, c[w])
      BY <2>1, <3>1
    <3> HIDE DEF c
    <3>3. /\ IsRam(d) /\ Stored(d, c)
          /\ \A o \in DOMAIN c : \A k \in 0 .. c[o].size - 1 : d[ByteOf(o, k)] = r[ByteOf(o, k)]
      <4>1. w \in DOMAIN c /\ DOMAIN c \subseteq DOMAIN h \cup {w} /\ \A p \in DOMAIN c \ {w} : c[p] = h[p]
        BY <3>1
      <4>2. IsRam(r) /\ Stored(r, h)
        BY <1>1
      <4> QED  BY ONLY <1>3, <3>2, <4>1, <4>2, HeaderAdded
    <3> QED  BY <3>3 DEF UsedBlocks
  <2>2. CASE ~ LeavesBlock(rest)
    <3>1. DOMAIN c = DOMAIN h /\ \A p \in DOMAIN c : c[p] = h[p]
      BY <2>2 DEF Completed
    <3>2. d = r
      BY <2>2
    <3> HIDE DEF c
    <3> QED  BY <1>1, <3>1, <3>2 DEF Stored
  <2> QED  BY <2>1, <2>2
<1>6. /\ IsRam(s) /\ Stored(s, g)
      /\ UsedBlocks(g) = UsedBlocks(c)
      /\ \A o \in UsedBlocks(c) :
           g[o] = c[o] /\ \A k \in 0 .. c[o].size - 1 : s[ByteOf(o, k)] = d[ByteOf(o, k)]
  <2>1. g = SweepAndMerge(c)
    OBVIOUS
  <2> HIDE DEF c
  <2> QED  BY <1>2, <1>5, <2>1, SweptStores
<1> HIDE DEF c
<1>7. Kept(s, table, g, S)
  <2>1. S \in SUBSET S
    OBVIOUS
  <2>2. SameHandles(S, UsedBlocks(h), table, table)
    BY <1>1 DEF SameHandles, Kept, Names
  <2>3. SameBlocks(UsedBlocks(h), h, r, g, s)
    BY <1>2, <1>5, <1>6 DEF SameBlocks
  <2> QED  BY <1>1, <2>1, <2>2, <2>3, KeptInPlace
<1> QED  BY <1>1, <1>2, <1>4, <1>6, <1>7 DEF Memory

\* The memory mem_init and handles_init leave.
LEMMA BlankRemembers == Memory(Blank, NoHandles, InitialHeap, {})
<1> DEFINE zero == [b \in Bytes |-> 0]
<1>1. WellFormed(InitialHeap)
  BY InitialHeapWellFormed
<1>2. TypedHeap(InitialHeap) /\ Tiled(InitialHeap) /\ Laid(InitialHeap) /\ Apart(InitialHeap)
  BY <1>1, TiledLaid DEF WellFormed
<1>3. DOMAIN InitialHeap = {0}
  BY DEF InitialHeap
<1>4. IsRam(zero)
  BY DEF IsRam, ByteRange
<1>5. Blank = WriteHeader(zero, 0, InitialHeap[0])
  BY DEF Blank
<1>6. 0 \in Offsets /\ InitialHeap[0] \in Headers
  BY <1>2, <1>3 DEF TypedHeap
<1> HIDE DEF zero
<1>7. IsRam(Blank) /\ ReadHeader(Blank, 0) = InitialHeap[0] /\ ChecksumOk(Blank, 0)
  BY <1>4, <1>5, <1>6, HeaderStored
<1>8. Stored(Blank, InitialHeap)
  BY <1>3, <1>7 DEF Stored
<1> QED  BY <1>7, <1>8, NoneNamed DEF Memory, Kept

-----------------------------------------------------------------------------
(***************************************************************************)
(* The inductive invariant.                                                *)
(***************************************************************************)

\* The heap between calls, and inside mem_compact.
HeapFor(h, at, w, rd) ==
  IF at = "compact" THEN Compacting(h, w, rd) ELSE WellFormed(h) /\ w = 0 /\ rd = 0

\* What mem_alloc_or_compact keeps.
CallFor(at, arguments) ==
  /\ at \in {"idle", "compact", "retry"}
  /\ arguments \in {<< >>} \cup (Requests \X TaskIds)
  /\ at = "idle" => arguments = << >>
  /\ at = "retry" => arguments \in Requests \X TaskIds

RInv ==
  /\ Memory(ram, handle_table, Blocks, filled)
  /\ HeapFor(Blocks, pc, write_head, read_head)
  /\ CallFor(pc, retry)

\* What the walks read is the heap that was stored.
LEMMA BlocksKnown ==
  ASSUME NEW r, NEW table, NEW h, NEW S, Memory(r, table, h, S),
         NEW at, NEW w, NEW rd, HeapFor(h, at, w, rd)
  PROVE  /\ Over(Walk(r, rd, DEVICE_RAM), Walk(r, 0, w)) = h
         /\ Compacting(h, w, rd)
<1>1. IsRam(r) /\ Stored(r, h)
  BY DEF Memory
<1>2. Compacting(h, w, rd)
  <2>1. CASE at = "compact"
    BY <2>1 DEF HeapFor
  <2>2. CASE at # "compact"
    <3>1. WellFormed(h) /\ w = 0 /\ rd = 0
      BY <2>2 DEF HeapFor
    <3> QED  BY <3>1, CompactionBegins DEF WellFormed
  <2> QED  BY <2>1, <2>2
<1> QED  BY <1>1, <1>2, BlocksRead

\* So a step that stores g makes it the heap.
LEMMA Carries ==
  ASSUME NEW g, Memory(ram', handle_table', g, filled'),
         HeapFor(g, pc', write_head', read_head'), CallFor(pc', retry')
  PROVE  RInv' /\ Blocks' = g
<1>1. Blocks' = g
  BY BlocksKnown DEF Blocks, Front, Rear
<1> QED  BY <1>1 DEF RInv

LEMMA InitRInv == Init => RInv
<1> SUFFICES ASSUME Init
             PROVE  RInv
  OBVIOUS
<1>1. /\ ram = Blank /\ handle_table = NoHandles /\ pc = "idle" /\ read_head = 0 /\ write_head = 0
      /\ retry = << >> /\ filled = {}
  BY DEF Init
<1>2. Memory(ram, handle_table, InitialHeap, filled)
  BY <1>1, BlankRemembers
<1>3. HeapFor(InitialHeap, pc, write_head, read_head)
  BY <1>1, InitialHeapWellFormed DEF HeapFor
<1>4. CallFor(pc, retry)
  BY <1>1 DEF CallFor
<1>5. Blocks = InitialHeap
  BY <1>2, <1>3, BlocksKnown DEF Blocks, Front, Rear
<1> QED  BY <1>2, <1>3, <1>4, <1>5 DEF RInv

\* Between two calls.
LEMMA AtRest ==
  ASSUME RInv, pc # "compact"
  PROVE  /\ Memory(ram, handle_table, Blocks, filled)
         /\ WellFormed(Blocks) /\ TypedHeap(Blocks) /\ Tiled(Blocks)
         /\ read_head = 0 /\ write_head = 0
         /\ pc = "idle" => retry = << >>
         /\ pc = "retry" => retry \in Requests \X TaskIds
BY DEF RInv, HeapFor, CallFor, WellFormed

LEMMA MemAllocHandleStores ==
  ASSUME RInv, NEW n \in Requests, NEW t \in TaskIds, MemAllocHandle(n, t)
  PROVE  /\ RInv'
         /\ Grants(handle_table, Blocks, n)
         /\ Blocks' = Occupy(Blocks, Found(Blocks, n), AlignBytes(n), t)
         /\ handle_table' = [handle_table EXCEPT ![Min(UnusedHandles(handle_table))]
                                                  = Found(Blocks, n) + HEADER_SIZE]
<1> DEFINE m == MemAllocHandleResult(ram, handle_table, n, t)
           g == Occupy(Blocks, Found(Blocks, n), AlignBytes(n), t)
<1>1. /\ pc = "idle" /\ m.ok /\ ram' = m.ram /\ handle_table' = m.table
      /\ pc' = pc /\ read_head' = read_head /\ write_head' = write_head
      /\ retry' = retry /\ filled' = filled
  BY DEF MemAllocHandle
<1>2. /\ Memory(ram, handle_table, Blocks, filled) /\ WellFormed(Blocks)
      /\ read_head = 0 /\ write_head = 0 /\ retry = << >>
  BY <1>1, AtRest
<1>3. n \in Int /\ t \in Int
  BY RamAssumption
<1>4. /\ Grants(handle_table, Blocks, n)
      /\ WellFormed(g) /\ Memory(m.ram, m.table, g, filled)
      /\ m.table = [handle_table EXCEPT ![Min(UnusedHandles(handle_table))] = Found(Blocks, n) + HEADER_SIZE]
  BY <1>1, <1>2, <1>3, AllocRemembers
<1> HIDE DEF m, g
<1>5. HeapFor(g, pc', write_head', read_head') /\ CallFor(pc', retry')
  BY <1>1, <1>2, <1>4 DEF HeapFor, CallFor
<1>6. Memory(ram', handle_table', g, filled')
  BY <1>1, <1>4
<1>7. RInv' /\ Blocks' = g
  BY <1>5, <1>6, Carries
<1> QED  BY <1>1, <1>4, <1>7 DEF g

LEMMA MemCompactStores ==
  ASSUME RInv, NEW arguments \in {<< >>} \cup (Requests \X TaskIds), MemCompact(arguments)
  PROVE  RInv' /\ Blocks' = Blocks
<1>1. /\ pc = "idle" /\ pc' = "compact" /\ retry' = arguments /\ ram' = ram
      /\ handle_table' = handle_table /\ read_head' = read_head /\ write_head' = write_head
      /\ filled' = filled
  BY DEF MemCompact
<1>2. /\ Memory(ram, handle_table, Blocks, filled) /\ TypedHeap(Blocks) /\ Tiled(Blocks)
      /\ read_head = 0 /\ write_head = 0
  BY <1>1, AtRest
<1>3. HeapFor(Blocks, pc', write_head', read_head') /\ CallFor(pc', retry')
  BY <1>1, <1>2, CompactionBegins DEF HeapFor, CallFor
<1>4. Memory(ram', handle_table', Blocks, filled')
  BY <1>1, <1>2
<1> QED  BY <1>3, <1>4, Carries

LEMMA MemFreeHandleStores ==
  ASSUME RInv, NEW i \in HandleRange, MemFreeHandle(i)
  PROVE  /\ RInv'
         /\ Freeable(Blocks, handle_table[i])
         /\ Blocks' = Release(Blocks, handle_table[i] - HEADER_SIZE)
<1> DEFINE g == Release(Blocks, handle_table[i] - HEADER_SIZE)
<1>1. /\ pc = "idle" /\ Accepts(ram, handle_table[i]) /\ ram' = Released(ram, handle_table[i])
      /\ handle_table' = [handle_table EXCEPT ![i] = None] /\ filled' = filled \ {i}
      /\ pc' = pc /\ read_head' = read_head /\ write_head' = write_head /\ retry' = retry
  BY DEF MemFreeHandle
<1>2. /\ Memory(ram, handle_table, Blocks, filled) /\ WellFormed(Blocks)
      /\ read_head = 0 /\ write_head = 0 /\ retry = << >>
  BY <1>1, AtRest
<1>3. /\ Freeable(Blocks, handle_table[i]) /\ WellFormed(g)
      /\ Memory(Released(ram, handle_table[i]), [handle_table EXCEPT ![i] = None], g, filled \ {i})
  BY <1>1, <1>2, FreeRemembers
<1> HIDE DEF g
<1>4. HeapFor(g, pc', write_head', read_head') /\ CallFor(pc', retry')
  BY <1>1, <1>2, <1>3 DEF HeapFor, CallFor
<1>5. Memory(ram', handle_table', g, filled')
  BY <1>1, <1>3
<1>6. RInv' /\ Blocks' = g
  BY <1>4, <1>5, Carries
<1> QED  BY <1>3, <1>6 DEF g

LEMMA FillStores ==
  ASSUME RInv, NEW i \in HandleRange, Fill(i)
  PROVE  RInv' /\ Blocks' = Blocks
<1>1. /\ pc = "idle" /\ handle_table[i] # None
      /\ ram' = Over(ram, [b \in handle_table[i] .. handle_table[i]
                                   + SizeAt(ram, handle_table[i] - HEADER_SIZE) - 1
                             |-> Datum(i, b - handle_table[i])])
      /\ handle_table' = handle_table /\ filled' = filled \cup {i}
      /\ pc' = pc /\ read_head' = read_head /\ write_head' = write_head /\ retry' = retry
  BY DEF Fill
<1>2. Memory(ram, handle_table, Blocks, filled) /\ WellFormed(Blocks)
  BY <1>1, AtRest
<1>3. Memory(ram', handle_table, Blocks, filled \cup {i})
  BY <1>1, <1>2, FillRemembers
<1>4. HeapFor(Blocks, pc', write_head', read_head') /\ CallFor(pc', retry')
  BY <1>1 DEF RInv
<1>5. Memory(ram', handle_table', Blocks, filled')
  BY <1>1, <1>3
<1> QED  BY <1>4, <1>5, Carries

\* A step of mem_compact reads the header of a block.
LEMMA CompactStepReads ==
  ASSUME RInv, CompactStep
  PROVE  /\ pc = "compact" /\ Compacting(Blocks, write_head, read_head)
         /\ Memory(ram, handle_table, Blocks, filled)
         /\ read_head \in DOMAIN Blocks /\ ReadHeader(ram, read_head) = Blocks[read_head]
         /\ read_head \in UsedBlocks(Blocks) \/ read_head \in FreeBlocks(Blocks)
<1>1. pc = "compact" /\ read_head < DEVICE_RAM
  BY DEF CompactStep
<1>2. Compacting(Blocks, write_head, read_head) /\ Memory(ram, handle_table, Blocks, filled)
  BY <1>1 DEF RInv, HeapFor
<1>3. read_head \in DOMAIN Blocks
  <2>1. read_head \in DOMAIN Blocks \/ read_head = DEVICE_RAM
    BY <1>2, AtABlock
  <2> QED  BY <1>1, <2>1, HeapAssumption
<1>4. ReadHeader(ram, read_head) = Blocks[read_head]
  BY <1>2, <1>3 DEF Memory, Stored
<1>5. read_head \in UsedBlocks(Blocks) \/ read_head \in FreeBlocks(Blocks)
  BY <1>2, <1>3 DEF Compacting, TypedHeap, Headers, UsedBlocks, FreeBlocks
<1> QED  BY <1>1, <1>2, <1>3, <1>4, <1>5

\* It moves a USED block ...
LEMMA CompactStepMoves ==
  ASSUME RInv, CompactStep, read_head \in UsedBlocks(Blocks)
  PROVE  /\ RInv'
         /\ Blocks' = Transferred(Blocks, read_head, write_head)
         /\ handle_table' = Repointed(handle_table, read_head + HEADER_SIZE, write_head + HEADER_SIZE)
         /\ write_head' = write_head + Blocks[read_head].size + HEADER_SIZE
         /\ read_head' = NextBlock(Blocks, read_head)
<1> DEFINE header == ReadHeader(ram, read_head)
           g == Transferred(Blocks, read_head, write_head)
<1>1. /\ pc = "compact" /\ Compacting(Blocks, write_head, read_head)
      /\ Memory(ram, handle_table, Blocks, filled)
      /\ read_head \in DOMAIN Blocks /\ header = Blocks[read_head]
  BY CompactStepReads
<1>2. header.status = STATUS_USED
  BY <1>1 DEF UsedBlocks
<1>3. /\ ram' = IF write_head # read_head
                THEN Memmove(ram, write_head, read_head, header.size + HEADER_SIZE) ELSE ram
      /\ handle_table' = IF write_head # read_head
                         THEN Repointed(handle_table, read_head + HEADER_SIZE, write_head + HEADER_SIZE)
                         ELSE handle_table
      /\ write_head' = write_head + header.size + HEADER_SIZE
      /\ read_head' = read_head + header.size + HEADER_SIZE
      /\ pc' = pc /\ retry' = retry /\ filled' = filled
  <2> HIDE DEF header
  <2> QED  BY <1>2 DEF CompactStep, Advanced, header
<1> HIDE DEF header
<1>4. /\ ram' = IF write_head # read_head
                THEN Memmove(ram, write_head, read_head, Blocks[read_head].size + HEADER_SIZE) ELSE ram
      /\ write_head' = write_head + Blocks[read_head].size + HEADER_SIZE
      /\ read_head' = NextBlock(Blocks, read_head)
  BY <1>1, <1>3 DEF NextBlock
<1>5. /\ handle_table' = Repointed(handle_table, read_head + HEADER_SIZE, write_head + HEADER_SIZE)
      /\ Memory(ram', handle_table', g, filled)
  BY <1>1, <1>3, <1>4, MoveRemembers
<1>6. Compacting(g, write_head', read_head')
  BY <1>1, <1>4, CompactionMoves
<1> HIDE DEF g
<1>7. HeapFor(g, pc', write_head', read_head') /\ CallFor(pc', retry')
  BY <1>1, <1>3, <1>6 DEF HeapFor, CallFor, RInv
<1>8. Memory(ram', handle_table', g, filled')
  BY <1>3, <1>5
<1>9. RInv' /\ Blocks' = g
  BY <1>7, <1>8, Carries
<1> QED  BY <1>4, <1>5, <1>9 DEF g

\* ... and passes over a FREE one.
LEMMA CompactStepPasses ==
  ASSUME RInv, CompactStep, read_head \in FreeBlocks(Blocks)
  PROVE  /\ RInv'
         /\ Blocks' = Skipped(Blocks, read_head)
         /\ handle_table' = handle_table /\ write_head' = write_head
         /\ read_head' = NextBlock(Blocks, read_head)
<1> DEFINE header == ReadHeader(ram, read_head)
           g == Skipped(Blocks, read_head)
<1>1. /\ pc = "compact" /\ Compacting(Blocks, write_head, read_head)
      /\ Memory(ram, handle_table, Blocks, filled)
      /\ read_head \in DOMAIN Blocks /\ header = Blocks[read_head]
  BY CompactStepReads
<1>2. header.status # STATUS_USED
  BY <1>1 DEF FreeBlocks, STATUS_FREE, STATUS_USED
<1>3. /\ ram' = ram /\ handle_table' = handle_table /\ write_head' = write_head
      /\ read_head' = read_head + header.size + HEADER_SIZE
      /\ pc' = pc /\ retry' = retry /\ filled' = filled
  <2> HIDE DEF header
  <2> QED  BY <1>2 DEF CompactStep, Advanced, header
<1> HIDE DEF header
<1>4. read_head' = NextBlock(Blocks, read_head)
  BY <1>1, <1>3 DEF NextBlock
<1>5. Memory(ram, handle_table, g, filled)
  BY <1>1, PassRemembers DEF Compacting
<1>6. Compacting(g, write_head', read_head')
  BY <1>1, <1>3, <1>4, CompactionPasses
<1> HIDE DEF g
<1>7. HeapFor(g, pc', write_head', read_head') /\ CallFor(pc', retry')
  BY <1>1, <1>3, <1>6 DEF HeapFor, CallFor, RInv
<1>8. Memory(ram', handle_table', g, filled')
  BY <1>3, <1>5
<1>9. RInv' /\ Blocks' = g
  BY <1>7, <1>8, Carries
<1> QED  BY <1>3, <1>4, <1>9 DEF g

LEMMA CompactEndStores ==
  ASSUME RInv, CompactEnd
  PROVE  RInv' /\ Blocks' = SweepAndMerge(Completed(Blocks, write_head))
<1> DEFINE g == SweepAndMerge(Completed(Blocks, write_head))
<1>1. /\ pc = "compact" /\ read_head >= DEVICE_RAM
      /\ ram' = Swept(Closed(ram))
      /\ pc' = IF retry = << >> THEN "idle" ELSE "retry"
      /\ read_head' = 0 /\ write_head' = 0
      /\ handle_table' = handle_table /\ retry' = retry /\ filled' = filled
  BY DEF CompactEnd
<1>2. Compacting(Blocks, write_head, read_head) /\ Memory(ram, handle_table, Blocks, filled)
  BY <1>1 DEF RInv, HeapFor
<1>3. Closed(ram) = IF LeavesBlock(DEVICE_RAM - write_head)
                    THEN WriteHeader(ram, write_head,
                                     Header(DEVICE_RAM - write_head - HEADER_SIZE, STATUS_FREE, 0))
                    ELSE ram
  BY DEF Closed
<1>4. /\ WellFormed(g)
      /\ Memory(Swept(Closed(ram)), handle_table, g, filled)
  BY <1>1, <1>2, <1>3, CloseRemembers
<1> HIDE DEF g
<1>5. HeapFor(g, pc', write_head', read_head')
  BY <1>1, <1>4 DEF HeapFor
<1>6. CallFor(pc', retry')
  <2>1. retry \in {<< >>} \cup (Requests \X TaskIds)
    BY DEF RInv, CallFor
  <2> QED  BY <1>1, <2>1 DEF CallFor
<1>7. Memory(ram', handle_table', g, filled')
  BY <1>1, <1>4
<1>8. RInv' /\ Blocks' = g
  BY <1>5, <1>6, <1>7, Carries
<1> QED  BY <1>8 DEF g

\* The second attempt, whether it finds a block or not.
LEMMA RetryStores ==
  ASSUME RInv, Retry
  PROVE  /\ RInv'
         /\ retry \in Requests \X TaskIds
         /\ IF Grants(handle_table, Blocks, retry[1])
            THEN /\ Blocks' = Occupy(Blocks, Found(Blocks, retry[1]), AlignBytes(retry[1]), retry[2])
                 /\ handle_table' = [handle_table EXCEPT ![Min(UnusedHandles(handle_table))]
                                                          = Found(Blocks, retry[1]) + HEADER_SIZE]
            ELSE Blocks' = Blocks /\ handle_table' = handle_table
<1> DEFINE n == retry[1]
           t == retry[2]
           m == MemAllocHandleResult(ram, handle_table, n, t)
           g == Occupy(Blocks, Found(Blocks, n), AlignBytes(n), t)
<1>1. /\ pc = "retry" /\ ram' = m.ram /\ handle_table' = m.table
      /\ pc' = "idle" /\ retry' = << >>
      /\ read_head' = read_head /\ write_head' = write_head /\ filled' = filled
  BY DEF Retry
<1>2. /\ Memory(ram, handle_table, Blocks, filled) /\ WellFormed(Blocks)
      /\ read_head = 0 /\ write_head = 0 /\ retry \in Requests \X TaskIds
  BY <1>1, AtRest
<1>3. n \in Int /\ t \in Int
  <2>1. n \in Requests /\ t \in TaskIds
    BY <1>2
  <2> HIDE DEF n, t
  <2> QED  BY <2>1, RamAssumption
<1> HIDE DEF n, t
<1>4. /\ m.ok <=> Grants(handle_table, Blocks, n)
      /\ ~ m.ok => m.ram = ram /\ m.table = handle_table
      /\ m.ok =>
           /\ WellFormed(g) /\ Memory(m.ram, m.table, g, filled)
           /\ m.table = [handle_table EXCEPT ![Min(UnusedHandles(handle_table))] = Found(Blocks, n) + HEADER_SIZE]
  BY <1>2, <1>3, AllocRemembers
<1> HIDE DEF m, g
<1>5. CASE Grants(handle_table, Blocks, n)
  <2>1. HeapFor(g, pc', write_head', read_head') /\ CallFor(pc', retry')
    BY <1>1, <1>2, <1>4, <1>5 DEF HeapFor, CallFor
  <2>2. Memory(ram', handle_table', g, filled')
    BY <1>1, <1>4, <1>5
  <2>3. RInv' /\ Blocks' = g
    BY <2>1, <2>2, Carries
  <2> QED  BY <1>1, <1>2, <1>4, <1>5, <2>3 DEF g, n, t
<1>6. CASE ~ Grants(handle_table, Blocks, n)
  <2>1. HeapFor(Blocks, pc', write_head', read_head') /\ CallFor(pc', retry')
    BY <1>1, <1>2 DEF HeapFor, CallFor
  <2>2. Memory(ram', handle_table', Blocks, filled')
    BY <1>1, <1>2, <1>4, <1>6
  <2>3. RInv' /\ Blocks' = Blocks
    BY <2>1, <2>2, Carries
  <2> QED  BY <1>1, <1>2, <1>4, <1>6, <2>3 DEF n
<1> QED  BY <1>5, <1>6

LEMMA MemInitStores ==
  ASSUME RInv, MemInit
  PROVE  RInv' /\ Blocks' = InitialHeap
<1>1. /\ pc = "idle" /\ ram' = Blank /\ handle_table' = NoHandles /\ filled' = {}
      /\ pc' = pc /\ read_head' = read_head /\ write_head' = write_head /\ retry' = retry
  BY DEF MemInit
<1>2. read_head = 0 /\ write_head = 0 /\ retry = << >>
  BY <1>1, AtRest
<1>3. HeapFor(InitialHeap, pc', write_head', read_head') /\ CallFor(pc', retry')
  BY <1>1, <1>2, InitialHeapWellFormed DEF HeapFor, CallFor
<1>4. Memory(ram', handle_table', InitialHeap, filled')
  BY <1>1, BlankRemembers
<1> QED  BY <1>3, <1>4, Carries

LEMMA NextRInv == RInv /\ [Next]_vars => RInv'
<1> SUFFICES ASSUME RInv, [Next]_vars
             PROVE  RInv'
  OBVIOUS
<1>1. ASSUME NEW n \in Requests, NEW t \in TaskIds, MemAllocHandle(n, t)
      PROVE  RInv'
  BY <1>1, MemAllocHandleStores
<1>2. ASSUME NEW n \in Requests, NEW t \in TaskIds, MemAllocOrCompact(n, t)
      PROVE  RInv'
  <2>1. MemCompact(<<n, t>>)
    BY <1>2 DEF MemAllocOrCompact
  <2>2. <<n, t>> \in {<< >>} \cup (Requests \X TaskIds)
    OBVIOUS
  <2> QED  BY <2>1, <2>2, MemCompactStores
<1>3. ASSUME NEW i \in HandleRange, MemFreeHandle(i)
      PROVE  RInv'
  BY <1>3, MemFreeHandleStores
<1>4. ASSUME NEW i \in Writers, Fill(i)
      PROVE  RInv'
  <2>1. i \in HandleRange
    BY RamAssumption
  <2> QED  BY <1>4, <2>1, FillStores
<1>5. CASE MemCompact(<< >>)
  <2>1. << >> \in {<< >>} \cup (Requests \X TaskIds)
    OBVIOUS
  <2> QED  BY <1>5, <2>1, MemCompactStores
<1>6. CASE CompactStep
  BY <1>6, CompactStepReads, CompactStepMoves, CompactStepPasses
<1>7. CASE CompactEnd
  BY <1>7, CompactEndStores
<1>8. CASE Retry
  BY <1>8, RetryStores
<1>9. CASE MemInit
  BY <1>9, MemInitStores
<1>10. CASE UNCHANGED vars
  BY <1>10 DEF vars, RInv, Blocks, Front, Rear
<1> QED  BY <1>1, <1>2, <1>3, <1>4, <1>5, <1>6, <1>7, <1>8, <1>9, <1>10 DEF Next

\* The invariant holds in every reachable state.
THEOREM Invariance == Spec => []RInv
BY InitRInv, NextRInv, PTL DEF Spec

LEMMA RInvTyped == RInv => TypeOK
<1> SUFFICES ASSUME RInv
             PROVE  TypeOK
  OBVIOUS
<1>1. Compacting(Blocks, write_head, read_head)
  BY BlocksKnown DEF RInv
<1>2. read_head \in 0 .. DEVICE_RAM /\ write_head \in 0 .. DEVICE_RAM
  <2>1. write_head \in Nat /\ read_head \in Nat /\ write_head <= read_head /\ read_head <= DEVICE_RAM
    BY <1>1, CompactingLaid
  <2> QED  BY <2>1, HeapAssumption
<1>3. /\ ram \in [Bytes -> 0 .. 255]
      /\ handle_table \in [HandleRange -> {None} \cup {o + HEADER_SIZE : o \in Offsets}]
      /\ filled \subseteq HandleRange
  BY DEF RInv, Memory, IsRam, ByteRange, Names
<1>4. pc \in {"idle", "compact", "retry"} /\ retry \in {<< >>} \cup (Requests \X TaskIds)
  BY DEF RInv, CallFor
<1> QED  BY <1>2, <1>3, <1>4 DEF TypeOK

\* Bytes stay bytes, and the loop of mem_compact stays in ram[].
THEOREM TypeCorrect == Spec => []TypeOK
BY Invariance, RInvTyped, PTL

\* The last of the blocks between a and b ends at b.
LEMMA LastBlock ==
  ASSUME NEW h, TypedHeap(h), NEW a \in Nat, NEW b \in Nat, TiledBetween(h, a, b), a # b
  PROVE  \E o \in DOMAIN Part(h, a, b) : NextBlock(Part(h, a, b), o) = b
<1> DEFINE S == {o \in DOMAIN h : a <= o /\ o < b}
<1>1. /\ a \in S
      /\ \A o \in S : NextBlock(h, o) \in S \cup {b}
  BY DEF TiledBetween
<1>2. /\ S \in SUBSET Nat
      /\ \A o \in S : o <= b /\ NextBlock(h, o) \in Nat /\ NextBlock(h, o) > o
  BY OffsetBounds DEF HEADER_SIZE, MIN_ALLOC
<1>3. DOMAIN Part(h, a, b) = S /\ \A o \in S : Part(h, a, b)[o] = h[o]
  BY DEF Part
<1> HIDE DEF S
<1>4. PICK o \in S : \A p \in S : p <= o
  BY <1>1, <1>2, GreatestOfNats
<1>5. NextBlock(h, o) \notin S
  <2>1. o \in Nat /\ NextBlock(h, o) \in Nat /\ NextBlock(h, o) > o
    BY <1>2
  <2>2. ~ (NextBlock(h, o) <= o)
    BY <2>1
  <2> QED  BY <1>4, <2>2
<1>6. NextBlock(h, o) = b
  BY <1>1, <1>5
<1> QED  BY <1>3, <1>6 DEF NextBlock

LEMMA RInvHeaders == RInv => HeadersIntact
<1> SUFFICES ASSUME RInv
             PROVE  HeadersIntact
  OBVIOUS
<1>1. Compacting(Blocks, write_head, read_head) /\ IsRam(ram) /\ Stored(ram, Blocks)
  BY BlocksKnown DEF RInv, Memory
<1>2. /\ write_head \in Nat /\ read_head \in Nat /\ write_head <= read_head
      /\ TypedHeap(Blocks) /\ DEVICE_RAM \in Nat
  BY <1>1, CompactingLaid, HeapAssumption DEF Laid
<1>3. /\ Front = Part(Blocks, 0, write_head)
      /\ Rear = Part(Blocks, read_head, DEVICE_RAM)
  BY <1>1, BlocksRead DEF Front, Rear
<1>4. TiledBetween(Blocks, 0, write_head) /\ TiledBetween(Blocks, read_head, DEVICE_RAM)
  BY <1>1 DEF Compacting
<1>5. \A o \in DOMAIN Blocks : Blocks[o] \in Headers /\ ChecksumOk(ram, o)
  BY <1>1, <1>2 DEF TypedHeap, Stored
<1>6. write_head # 0 => \E o \in DOMAIN Front : NextBlock(Front, o) = write_head
  <2>1. 0 \in Nat
    OBVIOUS
  <2> QED  BY <1>2, <1>3, <1>4, <2>1, LastBlock
<1>7. read_head # DEVICE_RAM => \E o \in DOMAIN Rear : NextBlock(Rear, o) = DEVICE_RAM
  BY <1>2, <1>3, <1>4, LastBlock
<1> QED  BY <1>2, <1>5, <1>6, <1>7 DEF HeadersIntact

\* No memmove reaches a header that is still to be read, whatever is live and wherever.
THEOREM HeadersHold == Spec => []HeadersIntact
BY Invariance, RInvHeaders, PTL

LEMMA RInvData == RInv => DataKept
<1> SUFFICES ASSUME RInv, NEW i \in filled
             PROVE  \A k \in 0 .. SizeAt(ram, handle_table[i] - HEADER_SIZE) - 1 :
                      ram[handle_table[i] + k] = Datum(i, k)
  BY DEF DataKept
<1> DEFINE o == handle_table[i] - HEADER_SIZE
<1>1. /\ Memory(ram, handle_table, Blocks, filled) /\ TypedHeap(Blocks)
  BY BlocksKnown DEF RInv, Compacting
<1>2. /\ i \in HandleRange /\ handle_table[i] # None
      /\ \A k \in 0 .. Blocks[o].size - 1 : ram[handle_table[i] + k] = Datum(i, k)
  BY <1>1 DEF Memory, Kept
<1>3. o \in DOMAIN Blocks
  BY <1>1, <1>2, NamedBlock DEF Memory
<1>4. ReadHeader(ram, o) = Blocks[o]
  BY <1>1, <1>3 DEF Memory, Stored
<1>5. SizeAt(ram, o) = Blocks[o].size
  BY <1>4 DEF ReadHeader
<1> QED  BY <1>2, <1>5

\* What was written is read back, however blocks were split, merged and moved.
THEOREM DataHolds == Spec => []DataKept
BY Invariance, RInvData, PTL

-----------------------------------------------------------------------------
(***************************************************************************)
(* The handle allocator.                                                   *)
(***************************************************************************)

\* HandleAllocator's copy of the operators of Heap and Compaction is theirs.
LEMMA SameNames ==
  /\ Abstract!HEADER_SIZE = HEADER_SIZE /\ Abstract!MIN_ALLOC = MIN_ALLOC
  /\ Abstract!ALIGNMENT = ALIGNMENT /\ Abstract!None = None
  /\ Abstract!STATUS_FREE = STATUS_FREE /\ Abstract!STATUS_USED = STATUS_USED
  /\ Abstract!TASK_ID_RANGE = TASK_ID_RANGE
  /\ Abstract!HandleRange = HandleRange /\ Abstract!NoHandles = NoHandles
BY DEF Abstract!HEADER_SIZE, HEADER_SIZE, Abstract!MIN_ALLOC, MIN_ALLOC,
       Abstract!ALIGNMENT, ALIGNMENT, Abstract!None, None, Abstract!STATUS_FREE, STATUS_FREE,
       Abstract!STATUS_USED, STATUS_USED, Abstract!TASK_ID_RANGE, TASK_ID_RANGE,
       Abstract!HandleRange, HandleRange, Abstract!NoHandles, NoHandles

LEMMA SameHeaders ==
  /\ \A size, status, t : Abstract!Header(size, status, t) = Header(size, status, t)
  /\ \A h : Abstract!FreeBlocks(h) = FreeBlocks(h)
  /\ \A h : Abstract!UsedBlocks(h) = UsedBlocks(h)
  /\ \A h, o : Abstract!NextBlock(h, o) = NextBlock(h, o)
  /\ \A n : Abstract!AlignBytes(n) = AlignBytes(n)
BY DEF Abstract!Header, Header, Abstract!TASK_ID_RANGE, TASK_ID_RANGE,
       Abstract!FreeBlocks, FreeBlocks, Abstract!UsedBlocks, UsedBlocks,
       Abstract!STATUS_FREE, STATUS_FREE, Abstract!STATUS_USED, STATUS_USED,
       Abstract!NextBlock, NextBlock, Abstract!HEADER_SIZE, HEADER_SIZE,
       Abstract!AlignBytes, AlignBytes, Abstract!ALIGNMENT, ALIGNMENT

LEMMA SameSearch ==
  ASSUME NEW h, NEW need, NEW strategy
  PROVE  Abstract!FindFreeBlock(h, need, strategy) = FindFreeBlock(h, need, strategy)
BY DEF Abstract!FindFreeBlock, FindFreeBlock, Abstract!FreeBlocks, FreeBlocks,
       Abstract!STATUS_FREE, STATUS_FREE, Abstract!None, None, Abstract!Min, Min

LEMMA SameOccupy ==
  ASSUME NEW h, NEW o, NEW need, NEW t
  PROVE  Abstract!Occupy(h, o, need, t) = Occupy(h, o, need, t)
<1>1. Abstract!GivenSize(h[o].size, need) = GivenSize(h[o].size, need)
  BY DEF Abstract!GivenSize, GivenSize, Abstract!WillSplit, WillSplit,
         Abstract!HEADER_SIZE, HEADER_SIZE, Abstract!MIN_ALLOC, MIN_ALLOC
<1> QED  BY <1>1, SameHeaders
         DEF Abstract!Occupy, Occupy, Abstract!HEADER_SIZE, HEADER_SIZE,
             Abstract!STATUS_FREE, STATUS_FREE, Abstract!STATUS_USED, STATUS_USED

LEMMA SameSweep ==
  ASSUME NEW h
  PROVE  Abstract!SweepAndMerge(h) = SweepAndMerge(h)
<1>1. \A g : Abstract!Absorbed(g) = Absorbed(g)
  BY SameHeaders DEF Abstract!Absorbed, Absorbed
<1>2. \A g, p : Abstract!RunEnd(g, p) = RunEnd(g, p)
  BY <1>1 DEF Abstract!RunEnd, RunEnd, Abstract!Min, Min
<1> QED  BY <1>1, <1>2, SameHeaders
         DEF Abstract!SweepAndMerge, SweepAndMerge, Abstract!HEADER_SIZE, HEADER_SIZE,
             Abstract!STATUS_FREE, STATUS_FREE

LEMMA SameRelease ==
  ASSUME NEW h, NEW o
  PROVE  Abstract!Release(h, o) = Release(h, o)
BY SameSweep, SameHeaders DEF Abstract!Release, Release, Abstract!STATUS_FREE, STATUS_FREE

LEMMA SameTable ==
  ASSUME NEW table
  PROVE  /\ Abstract!UnusedHandles(table) = UnusedHandles(table)
         /\ \A S : Abstract!Min(S) = Min(S)
         /\ \A old, new : Abstract!Repointed(table, old, new) = Repointed(table, old, new)
BY SameNames DEF Abstract!UnusedHandles, UnusedHandles, Abstract!Min, Min, Abstract!Repointed, Repointed

\* Compaction moves the block over bytes of no other one, so no header is lost.
LEMMA SameMove ==
  ASSUME NEW h, NEW w, NEW rd, Compacting(h, w, rd)
  PROVE  /\ rd \in UsedBlocks(h) => Abstract!Moved(h, rd, w) = Transferred(h, rd, w)
         /\ Abstract!Closed(h, w) = Completed(h, w)
<1>1. ASSUME rd \in UsedBlocks(h)
      PROVE  Abstract!Moved(h, rd, w) = Transferred(h, rd, w)
  <2> DEFINE beyond == w + h[rd].size + HEADER_SIZE
  <2>1. \A p \in DOMAIN h \ {rd} : p < w \/ p >= beyond
    BY <1>1, MoveReachesNone
  <2>2. {p \in DOMAIN h : p < w \/ p >= beyond} \ {rd} = DOMAIN h \ {rd}
    BY <2>1
  <2>3. Abstract!Moved(h, rd, w)
          = [p \in ({p \in DOMAIN h : p < w \/ p >= beyond} \ {rd}) \cup {w} |->
               IF p = w THEN h[rd] ELSE h[p]]
    BY SameNames, Zenon DEF Abstract!Moved
  <2> QED  BY <2>2, <2>3, Zenon DEF Transferred
<1>2. Abstract!Closed(h, w) = Completed(h, w)
  BY SameHeaders, SameNames
  DEF Abstract!Closed, Completed, Abstract!LeavesBlock, LeavesBlock,
      Abstract!HEADER_SIZE, HEADER_SIZE, Abstract!MIN_ALLOC, MIN_ALLOC
<1> QED  BY <1>1, <1>2

\* No id names an entry of the abstract tasks[]: nothing is metered and nobody is idle.
LEMMA NobodyMetered ==
  /\ \A t \in Int : ~ Abstract!TaskIsActive(NoTasks, t)
  /\ Abstract!Victim(NoTasks) = None
  /\ \A h, o : h[o].task_id \in Int => Abstract!Refund(h, NoTasks, o) = NoTasks
<1>1. \A t \in Int : ~ Abstract!TaskIsActive(NoTasks, t)
  BY DEF Abstract!TaskIsActive
<1>2. Abstract!TaskTable \ {0} = {}
  BY DEF Abstract!TaskTable
<1>3. Abstract!Victim(NoTasks) = None
  BY <1>2, SameNames DEF Abstract!Victim
<1> QED  BY <1>1, <1>3 DEF Abstract!Refund

\* What mem_alloc_handle comes to in the abstract program.
LEMMA AbstractAttempt ==
  ASSUME TypedHeap(Blocks), NEW n \in Int, NEW t \in Int
  PROVE  LET i == Min(UnusedHandles(handle_table))
             result == Abstract!MemAllocHandleResult(n, t)
         IN  IF Grants(handle_table, Blocks, n)
             THEN /\ result.handle = i
                  /\ result.heap = Occupy(Blocks, Found(Blocks, n), AlignBytes(n), t)
                  /\ result.tasks = NoTasks
                  /\ result.table = [handle_table EXCEPT ![i] = Found(Blocks, n) + HEADER_SIZE]
             ELSE /\ result.handle = None /\ result.heap = Blocks
                  /\ result.tasks = NoTasks /\ result.table = handle_table
<1> DEFINE i == Min(UnusedHandles(handle_table))
           need == AlignBytes(n)
           o == Found(Blocks, n)
           g == Occupy(Blocks, o, need, t)
           block == Abstract!MemAllocResult(Blocks, NoTasks, n, t, 1)
           result == Abstract!MemAllocHandleResult(n, t)
           unused == UnusedHandles(handle_table)
           valid == n >= MIN_ALLOC /\ n <= MAX_ALLOC
<1>1. \A given : /\ ~ Abstract!OverQuota(NoTasks, t, need)
                 /\ ~ Abstract!ReachesQuota(NoTasks, t, given)
                 /\ Abstract!Charge(NoTasks, t, given) = NoTasks
  BY NobodyMetered DEF Abstract!OverQuota, Abstract!ReachesQuota, Abstract!Charge
<1>2. Abstract!FindFreeBlock(Blocks, need, 1) = o
  BY SameSearch DEF Found
<1>3. Abstract!ValidRequest(n) <=> valid
  BY SameNames DEF Abstract!ValidRequest
<1>4. Abstract!AlignBytes(n) = need
  BY SameHeaders
<1>5. Abstract!Occupy(Blocks, o, need, t) = g
  BY SameOccupy
<1> HIDE DEF need, o, g, valid
<1>6. block = IF ~ valid \/ o = None THEN [ptr |-> None, heap |-> Blocks, tasks |-> NoTasks]
              ELSE [ptr |-> o + HEADER_SIZE, heap |-> g, tasks |-> NoTasks]
  BY <1>1, <1>2, <1>3, <1>4, <1>5, SameNames DEF Abstract!MemAllocResult
<1> HIDE DEF block, unused, i
<1>7. o # None => o + HEADER_SIZE # None
  <2>1. ASSUME o # None
        PROVE  o \in Nat
    <3>1. o \in FreeBlocks(Blocks)
      BY <2>1, FindFreeBlockFits DEF o, Found
    <3> QED  BY <3>1, OffsetBounds DEF FreeBlocks
  <2> QED  BY <2>1 DEF None, HEADER_SIZE
<1>8. Grants(handle_table, Blocks, n) <=> unused # {} /\ valid /\ o # None
  BY DEF Grants, unused, valid, o
<1>9. result = IF unused = {} THEN [handle |-> None, heap |-> Blocks, tasks |-> NoTasks, table |-> handle_table]
               ELSE IF block.ptr = None
               THEN [handle |-> None, heap |-> block.heap, tasks |-> block.tasks, table |-> handle_table]
               ELSE [handle |-> i, heap |-> block.heap, tasks |-> block.tasks,
                     table |-> [handle_table EXCEPT ![i] = block.ptr]]
  <2>1. /\ Abstract!UnusedHandles(handle_table) = unused
        /\ Abstract!Min(unused) = i
        /\ Abstract!None = None
    BY SameTable, SameNames DEF unused, i
  <2> HIDE DEF result
  <2> QED  BY <2>1 DEF result, block, Abstract!MemAllocHandleResult
<1> HIDE DEF result
<1>10. CASE Grants(handle_table, Blocks, n)
  <2>1. block = [ptr |-> o + HEADER_SIZE, heap |-> g, tasks |-> NoTasks]
    BY <1>6, <1>8, <1>10
  <2>2. block.ptr # None /\ unused # {}
    BY <1>7, <1>8, <1>10, <2>1
  <2>3. result = [handle |-> i, heap |-> g, tasks |-> NoTasks,
                  table |-> [handle_table EXCEPT ![i] = o + HEADER_SIZE]]
    BY <1>9, <2>1, <2>2
  <2>4. /\ result.handle = i /\ result.heap = g /\ result.tasks = NoTasks
        /\ result.table = [handle_table EXCEPT ![i] = o + HEADER_SIZE]
    BY <2>3
  <2> QED  BY <1>10, <2>4 DEF i, g, o, need, result
<1>11. CASE ~ Grants(handle_table, Blocks, n)
  <2>1. unused = {} \/ block = [ptr |-> None, heap |-> Blocks, tasks |-> NoTasks]
    BY <1>6, <1>8, <1>11
  <2>2. result = [handle |-> None, heap |-> Blocks, tasks |-> NoTasks, table |-> handle_table]
    BY <1>9, <2>1
  <2>3. /\ result.handle = None /\ result.heap = Blocks
        /\ result.tasks = NoTasks /\ result.table = handle_table
    BY <2>2
  <2> QED  BY <1>11, <2>3 DEF result
<1> QED  BY <1>10, <1>11

LEMMA AttemptIsAttempt ==
  ASSUME RInv, pc # "compact", NEW n \in Int, NEW t \in Int,
         IF Grants(handle_table, Blocks, n)
         THEN /\ Blocks' = Occupy(Blocks, Found(Blocks, n), AlignBytes(n), t)
              /\ handle_table' = [handle_table EXCEPT ![Min(UnusedHandles(handle_table))]
                                                       = Found(Blocks, n) + HEADER_SIZE]
         ELSE Blocks' = Blocks /\ handle_table' = handle_table
  PROVE  /\ Abstract!Attempt(n, t)
         /\ Abstract!Served(n, t) <=> Grants(handle_table, Blocks, n)
<1> DEFINE i == Min(UnusedHandles(handle_table))
           result == Abstract!MemAllocHandleResult(n, t)
<1>1. TypedHeap(Blocks)
  BY AtRest
<1>2. Grants(handle_table, Blocks, n) => i # None
  <2>1. UnusedHandles(handle_table) \in SUBSET Nat
    BY DEF UnusedHandles, HandleRange
  <2>2. Grants(handle_table, Blocks, n) => i \in Nat
    BY <2>1, MinOfNats DEF Grants
  <2> QED  BY <2>2 DEF None
<1>3. IF Grants(handle_table, Blocks, n)
      THEN /\ result.handle = i
           /\ result.heap = Occupy(Blocks, Found(Blocks, n), AlignBytes(n), t)
           /\ result.tasks = NoTasks
           /\ result.table = [handle_table EXCEPT ![i] = Found(Blocks, n) + HEADER_SIZE]
      ELSE /\ result.handle = None /\ result.heap = Blocks
           /\ result.tasks = NoTasks /\ result.table = handle_table
  BY <1>1, AbstractAttempt
<1> HIDE DEF i, result
<1>4. Blocks' = result.heap /\ handle_table' = result.table /\ NoTasks = result.tasks
  BY <1>3 DEF i
<1>5. Abstract!Attempt(n, t)
  BY <1>4 DEF Abstract!Attempt, result, NoTasks
<1>6. Abstract!Served(n, t) <=> result.handle # None
  BY SameNames DEF Abstract!Served, result
<1> QED  BY <1>2, <1>3, <1>5, <1>6

LEMMA RamInit == Init => Abstract!HInit
<1> SUFFICES ASSUME Init
             PROVE  Abstract!HInit
  OBVIOUS
<1>1. /\ handle_table = NoHandles /\ pc = "idle" /\ read_head = 0 /\ write_head = 0 /\ retry = << >>
  BY DEF Init
<1>2. Blocks = InitialHeap
  <2>1. Memory(ram, handle_table, InitialHeap, filled) /\ HeapFor(InitialHeap, pc, write_head, read_head)
    BY BlankRemembers, InitialHeapWellFormed DEF Init, HeapFor
  <2> QED  BY <2>1, BlocksKnown DEF Blocks, Front, Rear
<1>3. Abstract!InitialHeap = InitialHeap
  BY SameHeaders, SameNames DEF Abstract!InitialHeap, InitialHeap
<1>4. NoTasks = [t \in Abstract!TaskTable |-> Abstract!UnusedTask]
  BY DEF NoTasks, Abstract!TaskTable, Abstract!UnusedTask
<1> QED  BY <1>1, <1>2, <1>3, <1>4, SameNames DEF Abstract!HInit, Abstract!Init

\* Each step on the bytes is the step on the blocks it stands for.
LEMMA RamStep == RInv /\ [Next]_vars => [Abstract!HNext]_Abstract!hvars
<1> SUFFICES ASSUME RInv, [Next]_vars
             PROVE  [Abstract!HNext]_Abstract!hvars
  OBVIOUS
<1> USE DEF Abstract!lvars
<1>1. \A n \in Requests : n \in Int
  BY RamAssumption
<1>2. \A t \in TaskIds : t \in Int
  BY RamAssumption
<1>3. ASSUME NEW n \in Requests, NEW t \in TaskIds, MemAllocHandle(n, t)
      PROVE  Abstract!HNext
  <2>1. /\ pc = "idle" /\ pc' = pc /\ read_head' = read_head /\ write_head' = write_head
        /\ retry' = retry
    BY <1>3 DEF MemAllocHandle
  <2>2. Abstract!Attempt(n, t)
    BY <1>1, <1>2, <1>3, <2>1, MemAllocHandleStores, AttemptIsAttempt
  <2>3. Abstract!MemAllocHandle(n, t)
    BY <2>1, <2>2 DEF Abstract!MemAllocHandle, None
  <2> QED  BY <2>3 DEF Abstract!HNext
<1>4. ASSUME NEW n \in Requests, NEW t \in TaskIds, MemAllocOrCompact(n, t)
      PROVE  Abstract!HNext
  <2>1. /\ pc = "idle" /\ pc' = "compact" /\ read_head' = read_head /\ write_head' = write_head
        /\ retry' = <<n, t>> /\ handle_table' = handle_table
        /\ ~ MemAllocHandleResult(ram, handle_table, n, t).ok
        /\ MemCompact(<<n, t>>)
    BY <1>4 DEF MemAllocOrCompact, MemCompact
  <2>2. Blocks' = Blocks
    <3>1. <<n, t>> \in {<< >>} \cup (Requests \X TaskIds)
      OBVIOUS
    <3> QED  BY <2>1, <3>1, MemCompactStores
  <2>3. ~ Grants(handle_table, Blocks, n)
    <3>1. Memory(ram, handle_table, Blocks, filled) /\ WellFormed(Blocks)
      BY <2>1, AtRest
    <3>2. n \in Int /\ t \in Int
      BY <1>1, <1>2
    <3>3. MemAllocHandleResult(ram, handle_table, n, t).ok <=> Grants(handle_table, Blocks, n)
      BY ONLY <3>1, <3>2, AllocGrants
    <3> QED  BY <2>1, <3>3
  <2>4. Abstract!Attempt(n, t) /\ ~ Abstract!Served(n, t)
    BY <1>1, <1>2, <2>1, <2>2, <2>3, AttemptIsAttempt
  <2>5. Abstract!MemAllocOrCompact(n, t)
    BY <2>1, <2>4 DEF Abstract!MemAllocOrCompact, None
  <2> QED  BY <2>5 DEF Abstract!HNext
<1>5. ASSUME NEW i \in HandleRange, MemFreeHandle(i)
      PROVE  Abstract!HNext
  <2>1. /\ pc = "idle" /\ pc' = pc /\ read_head' = read_head /\ write_head' = write_head
        /\ retry' = retry /\ handle_table' = [handle_table EXCEPT ![i] = None]
    BY <1>5 DEF MemFreeHandle
  <2> DEFINE ptr == handle_table[i]
             o == ptr - HEADER_SIZE
  <2>2. Freeable(Blocks, ptr) /\ Blocks' = Release(Blocks, o)
    BY <1>5, MemFreeHandleStores
  <2>3. Blocks[o].task_id \in Int
    <3>1. TypedHeap(Blocks)
      BY <2>1, AtRest
    <3>2. o \in UsedBlocks(Blocks)
      BY <2>2 DEF Freeable
    <3> QED  BY <3>1, <3>2 DEF UsedBlocks, TypedHeap, Headers
  <2> HIDE DEF ptr
  <2>4. Abstract!MemFree(ptr)
    <3>1. Abstract!Freeable(Blocks, ptr)
      BY <2>2, SameNames, SameHeaders DEF Abstract!Freeable, Freeable
    <3>2. Blocks' = Abstract!Release(Blocks, o)
      BY <2>2, SameRelease
    <3>3. NoTasks = Abstract!Refund(Blocks, NoTasks, o)
      BY <2>3, NobodyMetered
    <3> QED  BY <3>1, <3>2, <3>3, SameNames DEF Abstract!MemFree, NoTasks
  <2>5. Abstract!MemFreeHandle(i)
    BY <2>1, <2>4, SameNames DEF Abstract!MemFreeHandle, ptr, None
  <2> QED  BY <2>5, SameNames DEF Abstract!HNext
<1>6. ASSUME NEW i \in Writers, Fill(i)
      PROVE  UNCHANGED Abstract!hvars
  <2>1. i \in HandleRange
    BY RamAssumption
  <2>2. Blocks' = Blocks
    BY <1>6, <2>1, FillStores
  <2>3. /\ pc' = pc /\ read_head' = read_head /\ write_head' = write_head
        /\ retry' = retry /\ handle_table' = handle_table
    BY <1>6 DEF Fill
  <2> QED  BY <2>2, <2>3 DEF Abstract!hvars, NoTasks, None
<1>7. CASE MemCompact(<< >>)
  <2>1. << >> \in {<< >>} \cup (Requests \X TaskIds)
    OBVIOUS
  <2>2. Blocks' = Blocks
    BY <1>7, <2>1, MemCompactStores
  <2>3. /\ pc = "idle" /\ pc' = "compact" /\ read_head' = read_head /\ write_head' = write_head
        /\ retry' = << >> /\ handle_table' = handle_table
    BY <1>7 DEF MemCompact
  <2>4. retry = << >>
    BY <2>3, AtRest
  <2>5. Abstract!MemCompact
    BY <2>2, <2>3, <2>4 DEF Abstract!MemCompact, NoTasks, None
  <2> QED  BY <2>5 DEF Abstract!HNext
<1>8. CASE CompactStep
  <2>1. pc = "compact" /\ Compacting(Blocks, write_head, read_head)
    BY <1>8, CompactStepReads
  <2>2. pc' = pc /\ retry' = retry
    BY <1>8 DEF CompactStep
  <2>3. CASE read_head \in UsedBlocks(Blocks)
    <3>1. /\ Blocks' = Transferred(Blocks, read_head, write_head)
          /\ handle_table' = Repointed(handle_table, read_head + HEADER_SIZE, write_head + HEADER_SIZE)
          /\ write_head' = write_head + Blocks[read_head].size + HEADER_SIZE
          /\ read_head' = NextBlock(Blocks, read_head)
      BY <1>8, <2>3, CompactStepMoves
    <3>2. Abstract!Moved(Blocks, read_head, write_head) = Transferred(Blocks, read_head, write_head)
      BY <2>1, <2>3, SameMove
    <3>3. Abstract!CompactUsed
      BY <2>1, <2>2, <2>3, <3>1, <3>2, SameNames, SameHeaders, SameTable
      DEF Abstract!CompactUsed, Abstract!Advanced, NoTasks, None
    <3> QED  BY <3>3 DEF Abstract!HNext, Abstract!Step
  <2>4. CASE read_head \in FreeBlocks(Blocks)
    <3>1. /\ Blocks' = Skipped(Blocks, read_head)
          /\ handle_table' = handle_table /\ write_head' = write_head
          /\ read_head' = NextBlock(Blocks, read_head)
      BY <1>8, <2>4, CompactStepPasses
    <3>2. Abstract!CompactFree
      BY <2>1, <2>2, <2>4, <3>1, SameHeaders DEF Abstract!CompactFree, Skipped, NoTasks, None
    <3> QED  BY <3>2 DEF Abstract!HNext, Abstract!Step
  <2> QED  BY <1>8, <2>3, <2>4, CompactStepReads
<1>9. CASE CompactEnd
  <2>1. /\ pc = "compact" /\ read_head >= DEVICE_RAM
        /\ pc' = IF retry = << >> THEN "idle" ELSE "retry"
        /\ read_head' = 0 /\ write_head' = 0 /\ handle_table' = handle_table /\ retry' = retry
    BY <1>9 DEF CompactEnd
  <2>2. Compacting(Blocks, write_head, read_head)
    BY <2>1 DEF RInv, HeapFor
  <2>3. Blocks' = SweepAndMerge(Completed(Blocks, write_head))
    BY <1>9, CompactEndStores
  <2>4. Blocks' = Abstract!SweepAndMerge(Abstract!Closed(Blocks, write_head))
    BY <2>2, <2>3, SameMove, SameSweep
  <2>5. Abstract!CompactEnd
    BY <2>1, <2>4 DEF Abstract!CompactEnd, NoTasks, None
  <2> QED  BY <2>5 DEF Abstract!HNext, Abstract!Step
<1>10. CASE Retry
  <2>1. /\ pc = "retry" /\ pc' = "idle" /\ retry' = << >>
        /\ read_head' = read_head /\ write_head' = write_head
    BY <1>10 DEF Retry
  <2>2. /\ retry \in Requests \X TaskIds
        /\ IF Grants(handle_table, Blocks, retry[1])
           THEN /\ Blocks' = Occupy(Blocks, Found(Blocks, retry[1]), AlignBytes(retry[1]), retry[2])
                /\ handle_table' = [handle_table EXCEPT ![Min(UnusedHandles(handle_table))]
                                                         = Found(Blocks, retry[1]) + HEADER_SIZE]
           ELSE Blocks' = Blocks /\ handle_table' = handle_table
    BY <1>10, RetryStores
  <2>3. retry[1] \in Int /\ retry[2] \in Int
    BY <1>1, <1>2, <2>2
  <2>4. Abstract!Attempt(retry[1], retry[2])
    BY <2>1, <2>2, <2>3, AttemptIsAttempt
  <2>5. None = IF Abstract!Served(retry[1], retry[2]) THEN None ELSE Abstract!Victim(NoTasks)
    BY NobodyMetered
  <2>6. Abstract!Retry
    BY <2>1, <2>4, <2>5, SameNames DEF Abstract!Retry, NoTasks, None
  <2> QED  BY <2>6 DEF Abstract!HNext, Abstract!Step
<1>11. CASE MemInit
  <2>1. /\ pc = "idle" /\ pc' = pc /\ read_head' = read_head /\ write_head' = write_head
        /\ retry' = retry /\ handle_table' = NoHandles
    BY <1>11 DEF MemInit
  <2>2. Blocks' = InitialHeap
    BY <1>11, MemInitStores
  <2>3. Abstract!InitialHeap = InitialHeap
    BY SameHeaders, SameNames DEF Abstract!InitialHeap, InitialHeap
  <2>4. Abstract!HandlesInit
    BY <2>1, <2>2, <2>3, SameNames DEF Abstract!HandlesInit, Abstract!MemInit, NoTasks, None
  <2> QED  BY <2>4 DEF Abstract!HNext
<1>12. CASE UNCHANGED vars
  <2>1. UNCHANGED Abstract!hvars
    BY <1>12 DEF vars, Abstract!hvars, Blocks, Front, Rear, NoTasks, None
  <2> QED  BY <2>1
<1> QED  BY <1>3, <1>4, <1>5, <1>6, <1>7, <1>8, <1>9, <1>10, <1>11, <1>12 DEF Next

\* mem_compact and the calls around it do on the bytes what HandleAllocator says of blocks.
THEOREM HandlesImplemented == Spec => ImplementsHandles
BY RamInit, RamStep, Invariance, PTL DEF Spec, ImplementsHandles, Abstract!HSpec

=============================================================================
