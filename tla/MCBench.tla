------------------------------ MODULE MCBench ------------------------------
(* An instance of Bench for TLC. *)
EXTENDS Bench

Line(d, n, pattern, start, max) ==
    [depth |-> d, ops |-> 4, pages |-> n, pattern |-> pattern, start |-> start, max |-> max]

\* Sequential reads that fit, that wrap unaligned and that start unaligned;
\* random reads, of a namespace no larger than one operation too; a depth whose
\* queue size does not fit its type.
MCConfigs ==
    {Line(2, 1, "seq", 0, 4), Line(2, 3, "seq", 0, 5), Line(2, 2, "seq", 1, 4),
     Line(2, 2, "rand", 0, 4), Line(1, 2, "rand", 0, 2), Line(3, 1, "seq", 0, 4), Line(3, 3, "seq", 0, 6),
     Line(5, 1, "seq", 0, 4)}
=============================================================================
