---------------------------- MODULE MCLayerLoad ----------------------------
(* Instances of LayerLoad for TLC. *)
EXTENDS LayerLoadInv, LayerLoadRefines

\* Block size 2 bytes and 2 blocks per command: 4 commands with a short last
\* one from a byte size that is no multiple of the block size, and a request
\* too large for the loader.
MCRequests == {[lba |-> 10, bytes |-> 13], [lba |-> 70, bytes |-> 22]}

\* Five commands, one command, and one too large.
MCRequestsMany == {[lba |-> 10, bytes |-> 20], [lba |-> 40, bytes |-> 1],
                   [lba |-> 70, bytes |-> 22]}

============================================================================
