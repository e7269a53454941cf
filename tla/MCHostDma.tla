----------------------------- MODULE MCHostDma -----------------------------
(* An instance of HostDma for TLC: two data areas, scattered frames. *)
EXTENDS HostDma

MCVPages == 1 .. 9
MCFrames == 1 .. 10

MCAreas == {[base |-> 1, pages |-> 4], [base |-> 5, pages |-> 2]}

\* No two neighbours are neighbours in physical memory; in the second table a
\* page of the first area and the buffer's page are not present.
Scattered == [v \in MCVPages |-> (v * 7) % 11]
MCPagemaps == {Scattered, [Scattered EXCEPT ![3] = 0, ![7] = 0]}

=============================================================================
