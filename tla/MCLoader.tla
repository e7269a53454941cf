------------------------------ MODULE MCLoader ------------------------------
(* An instance of Loader for TLC. *)
EXTENDS Loader

\* One buffer with all its pages, scattered, and one whose third page was never
\* touched.
MCPinned == {<<15, 12, 17, 13>>, <<11, 18, 0, 14>>}
MCPool == [i \in 0 .. 1 |-> 21 + i]

\* Contiguous, across two windows or in the second; scattered at the midpoint;
\* scattered only past it.
MCPlacements ==
    {[k \in 0 .. 2 |-> 2 + k],
     [k \in 0 .. 1 |-> 3 + k],
     [k \in 0 .. 1 |-> IF k = 0 THEN 1 ELSE 3],
     [k \in 0 .. 2 |-> IF k < 2 THEN 1 + k ELSE 4]}
=============================================================================
