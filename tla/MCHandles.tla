------------------------------ MODULE MCHandles ------------------------------
(* Values of the constants of HandleAllocator for TLC. *)
EXTENDS HandleProperties

\* The smallest block; one that is not a multiple of 4; one that
\* only a compacted heap may hold.
MCRequests == {4, 7, 20}

=============================================================================
