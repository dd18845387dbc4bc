------------------------------- MODULE MCWalks -------------------------------
(* Values of the constants of WalkProperties for TLC. *)
EXTENDS WalkProperties

\* Both ends of the legal range are crossed (MAX_ALLOC is 20), one request is not
\* a multiple of 4, and holes can be too small, exact, unsplit and split.
MCWalkRequests == {3, 4, 9, 20, 21}

=============================================================================
