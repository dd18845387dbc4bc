---------------------------- MODULE MCFixedBlocks ----------------------------
(* Values of the constants of FixedBlocks for TLC. *)
EXTENDS FixedBlocks

\* Below MIN_ALLOC; one, two and three blocks, exactly filled and one byte over;
\* above MAX_ALLOC.
MCRequests == {3, 4, 64, 65, 129, 192, 193}

\* Every block boundary and the middle of every block, from one below 0 to one past
\* the end.
MCPointers == {32 * i : i \in -2 .. 2 * N_BLOCKS + 2}

\* Zero, -1, a length that stays in the first word and one that does not (the
\* canary bytes 0, 1 of test_level_1.c).
MCWords == {-1, 0, 1, 256}

=============================================================================
