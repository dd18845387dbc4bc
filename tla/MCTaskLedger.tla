----------------------------- MODULE MCTaskLedger -----------------------------
(* Values of the constants of TaskLedger for TLC. *)
EXTENDS TaskLedger

\* The hypothesis of LedgerHolds.
ASSUME IdsAssumption == IdsFit

\* The small heap of the runs about tasks, whose MAX_ALLOC is 12: a request below
\* MIN_ALLOC, the smallest block, one that is not a multiple of 4, and one above
\* MAX_ALLOC.
MCTaskRequests == {3, 4, 9, 13}

\* The larger heap, whose MAX_ALLOC is 28: two more sizes, so that a hole can be
\* too small, fit exactly, fit unsplit or be split.
MCHeapRequests == {3, 4, 9, 17, 28, 29}

=============================================================================
