----------------------------- MODULE MCKmodDma -----------------------------
(* An instance of KmodDma for TLC. *)
EXTENDS KmodDma, TLC

\* Threads do the same things and are never compared but for equality.
ThreadSymmetry == Permutations(Threads)
=============================================================================
