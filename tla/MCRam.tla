-------------------------------- MODULE MCRam --------------------------------
(* Values of the constants of RamImage for TLC. *)
EXTENDS RamProperties

\* The smallest block, and one that needs rounding and, in a fragmented heap, compaction.
MCRamRequests == {4, 9}

=============================================================================
