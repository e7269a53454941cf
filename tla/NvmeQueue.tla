----------------------------- MODULE NvmeQueue -----------------------------
(***************************************************************************)
(* The arithmetic of one NVMe submission/completion queue pair, shared by   *)
(* every component that owns an end of it: the GPU kernels                  *)
(* (src/device/queue_state.cuh), the simulated controller                   *)
(* (src/sim/nvme_sim.c) and the host's admin queue (src/host/controller.c). *)
(*                                                                         *)
(* A ring of size N has slots 0 .. N-1.  The submission ring is advanced    *)
(* modulo its size; the completion ring is advanced with a wrap that flips  *)
(* the phase bit, so that a consumer can tell an entry of this lap from one *)
(* left over from the previous lap.                                         *)
(***************************************************************************)
EXTENDS Naturals

CONSTANTS
    SqSize,     \* sq_size: entries of the submission queue
    CqSize,     \* cq_size: entries of the completion queue
    CidMod      \* command identifiers are counted modulo this (2^16 in the code)

ASSUME SqSizeAssumption == SqSize \in Nat /\ SqSize >= 2
ASSUME CqSizeAssumption == CqSize \in Nat /\ CqSize >= 2
ASSUME CidModAssumption == CidMod \in Nat /\ CidMod >= 1

SqSlots == 0 .. SqSize - 1
CqSlots == 0 .. CqSize - 1
Phases  == {0, 1}
Cids    == 0 .. CidMod - 1

----------------------------------------------------------------------------
(* Plausible defects of the operators below, used to show that the          *)
(* properties depend on them.                                               *)
AdvanceSqTailNoWrap(t)    == t + 1
AdvanceCqPhaseNoFlip(h, p) == p
NextCidStuck(c)           == c

----------------------------------------------------------------------------
(* gpu_nvme_advance_sq_tail *)
AdvanceSqTail(t) == (t + 1) % SqSize

(* gpu_nvme_advance_cq_head: the new head ... *)
AdvanceCqHead(h) == IF h + 1 >= CqSize THEN 0 ELSE h + 1

(* ... and the phase expected there *)
AdvanceCqPhase(h, p) == IF h + 1 >= CqSize THEN 1 - p ELSE p

(* gpu_nvme_next_cid: a 16-bit post-increment *)
NextCid(c) == (c + 1) % CidMod

(* gpu_nvme_sq_has_room: the code defines it and never calls it; here it    *)
(* states what every submission needs.                                      *)
SqHasRoom(tail, head) == AdvanceSqTail(tail) # head

(* How many slots lie from `from' up to, not including, `to' on a ring of   *)
(* size n.                                                                  *)
Dist(from, to, n) == IF to >= from THEN to - from ELSE to - from + n
============================================================================
