-------------------------- MODULE LayerLoadRefines --------------------------
(***************************************************************************)
(* The pipelined loader implements the atomic read of module AtomicRead.    *)
(* What a caller sees of the loader's state: whether a call runs, what it   *)
(* returned, and, once it returned OK, the blocks in the buffer.            *)
(***************************************************************************)
EXTENDS LayerLoad

Seen == [k \in 0 .. BlocksPer * MaxCommands - 1 |->
            IF ret = "ok" THEN BlockAt(req.dest, k) ELSE -1]

Abstract == INSTANCE AtomicRead WITH
                MaxBlocks <- BlocksPer * MaxCommands,
                LaunchFails <- "launch" \in Faults,
                busy      <- pc = "run",
                want      <- [lba |-> req.lba, blocks |-> req.blocks],
                answer    <- ret,
                data      <- Seen,
                abandoned <- desync

\* Every step of host, kernel and controller is a step of the atomic read or
\* invisible to the caller: completions in any order, the ring that rolls from
\* call to call and the short last command never show, an answer is given once
\* per call, and delivered data stays until the next call.
ImplementsAtomicRead == Abstract!AbsSpec

----------------------------------------------------------------------------
\* The ring slots the controller has yet to fetch.
Unfetched == {s \in SqSlots : Dist(dev_sq_head, s, SqSize) < Dist(dev_sq_head, sq_tail, SqSize)}

\* No two commands at the controller carry the same identifier, although
\* gpu_nvme_next_cid is a counter that wraps and never looks at what is in
\* flight.  The bounded pipeline alone does not give this -- one slow command
\* may be overtaken by any number of others -- a load of at most 2^16 commands
\* does.
CidsDistinct ==
    ~desync /\ MaxCommands <= CidMod =>
        /\ \A s, t \in Unfetched : sq[s].cid = sq[t].cid => s = t
        /\ \A c, d \in fetched \cup done : c.cid = d.cid => c = d
        /\ \A s \in Unfetched : \A c \in fetched \cup done : sq[s].cid # c.cid
=============================================================================
