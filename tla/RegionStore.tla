----------------------------- MODULE RegionStore -----------------------------
(***************************************************************************)
(* What a raw allocator promises its callers, whatever its block layout,   *)
(* its search strategy and its bookkeeping: it hands out aligned regions   *)
(* of ram[] that never overlap, it moves and resizes none of them, a call  *)
(* that does not reset the memory drops at most one, and a region that was *)
(* returned may be handed out again.                                       *)
(*                                                                         *)
(* A region is identified by the offset of its first usable byte, the      *)
(* pointer mem_alloc returns, and it also owns the OVERHEAD bytes before   *)
(* that offset.                                                            *)
(***************************************************************************)
EXTENDS Integers

CONSTANTS
  SIZE,        \* bytes of memory
  OVERHEAD,    \* bytes of bookkeeping in front of a region
  GRAIN        \* alignment of pointers and sizes

VARIABLE regions   \* pointer of every region handed out -> its usable bytes

Grains(S) == {n \in S : n % GRAIN = 0}

\* The region of n bytes at ptr and the region at p share no byte.
Apart(ptr, n, p) ==
  \/ ptr + n <= p - OVERHEAD
  \/ p + regions[p] <= ptr - OVERHEAD

Init == regions = [p \in {} |-> 0]

Allocate(ptr, n) ==
  /\ \A p \in DOMAIN regions : Apart(ptr, n, p)
  /\ regions' = [p \in DOMAIN regions \cup {ptr} |->
                   IF p = ptr THEN n ELSE regions[p]]

Free(ptr) ==
  /\ ptr \in DOMAIN regions
  /\ regions' = [p \in DOMAIN regions \ {ptr} |-> regions[p]]

\* mem_init forgets every region at once.
Reset == regions' = [p \in {} |-> 0]

Next ==
  \/ \E ptr \in Grains(OVERHEAD .. SIZE) : \E n \in Grains(1 .. SIZE - ptr) : Allocate(ptr, n)
  \/ \E ptr \in DOMAIN regions : Free(ptr)
  \/ Reset

Spec == Init /\ [][Next]_regions

=============================================================================
