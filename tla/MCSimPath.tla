----------------------------- MODULE MCSimPath -----------------------------
(* Instances of SimPath for TLC. *)
EXTENDS SimPath

\* Two-page and one-page transfers that overlap, and one past the end of a
\* device of 6 blocks.
MCRequests == {[op |-> "read",  lba |-> 0, n |-> 3], [op |-> "write", lba |-> 1, n |-> 3],
               [op |-> "read",  lba |-> 2, n |-> 1], [op |-> "write", lba |-> 5, n |-> 2]}
============================================================================
