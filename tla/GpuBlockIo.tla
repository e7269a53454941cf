----------------------------- MODULE GpuBlockIo -----------------------------
(***************************************************************************)
(* The single GPU thread of gpunvme_read_blocks_kernel and                  *)
(* gpunvme_write_blocks_kernel (src/device/block_io.cu) with the submission *)
(* and polling code it inlines (sq_submit.cuh, cq_poll.cuh).                *)
(*                                                                         *)
(* The stores that build a submission entry become visible to others one    *)
(* by one and in any order until __threadfence_system: they wait in `sb'.   *)
(* The GPU clock is abstracted: a poll that finds nothing new may time out. *)
(***************************************************************************)
EXTENDS NvmeQueue, FiniteSets

CONSTANTS
    BlocksPerPage,  \* 4096 / block_size: blocks of one command (one PRP)
    MaxTimeouts     \* bound: how many polls time out

VARIABLES
    sq, cq, sq_doorbell, cq_doorbell,               \* shared memory
    sq_tail, cq_head, cq_phase, cid_counter,        \* struct gpu_nvme_queue
    sb,                                             \* stores not yet visible
    gpu_pc, io, done, target,                       \* the kernel
    res, blocks_done, timeouts                      \* gpunvme_io_result

memory == <<sq, cq, sq_doorbell, cq_doorbell>>
queue  == <<sq_tail, cq_head, cq_phase, cid_counter>>
result == <<res, blocks_done, timeouts>>
vars   == <<memory, queue, sb, gpu_pc, io, done, target, result>>

Init ==
    /\ sq_tail = 0 /\ cq_head = 0 /\ cq_phase = 1 /\ cid_counter = 0
    /\ sq_doorbell = 0 /\ cq_doorbell = 0
    /\ sb = {}
    /\ gpu_pc = "idle" /\ io = [op |-> "read", lba |-> 0, n |-> 0] /\ done = 0 /\ target = 0
    /\ res = "ok" /\ blocks_done = 0 /\ timeouts = 0

----------------------------------------------------------------------------
(* Defects: the fence is left out; any completion is taken for the awaited  *)
(* one; the doorbell is rung with the slot instead of the new tail; every   *)
(* batch uses the start of the buffer.                                      *)
FenceSkipped == TRUE
MatchesAny(cqe) == TRUE
DoorbellOldTail == (sq_tail + SqSize - 1) % SqSize
CurPhysFixed == 0

----------------------------------------------------------------------------
Batch == IF io.n - done > BlocksPerPage THEN BlocksPerPage ELSE io.n - done

\* cur_phys, as a block offset into the caller's buffer
CurPhys == done

\* The command of this iteration.
Command(cid) == [dw0  |-> [op |-> io.op, cid |-> cid],
                 args |-> [prp |-> CurPhys, slba |-> io.lba + done, nlb |-> Batch]]

\* One of the pending stores reaches memory.
GpuStore ==
    \E w \in sb :
        /\ sb' = sb \ {w}
        /\ sq' = [sq EXCEPT ![w.slot] = IF w.dw0 THEN [@ EXCEPT !.dw0 = w.sqe.dw0]
                                                 ELSE [@ EXCEPT !.args = w.sqe.args]]
        /\ UNCHANGED <<cq, sq_doorbell, cq_doorbell, queue, gpu_pc, io, done, target, result>>

\* The kernel is launched on a request: the result is cleared.
GpuStart(r) ==
    /\ gpu_pc = "idle"
    /\ io' = r /\ done' = 0
    /\ res' = "run" /\ blocks_done' = 0
    /\ gpu_pc' = "loop"
    /\ UNCHANGED <<memory, queue, sb, target, timeouts>>

\* sq_submit_read / sq_submit_write up to the fence
GpuSubmit ==
    /\ gpu_pc = "loop" /\ done < io.n
    /\ LET sqe == Command(cid_counter)
       IN  sb' = {[slot |-> sq_tail, dw0 |-> f, sqe |-> sqe] : f \in BOOLEAN}
    /\ target' = cid_counter
    /\ cid_counter' = NextCid(cid_counter)
    /\ sq_tail' = AdvanceSqTail(sq_tail)
    /\ gpu_pc' = "fence"
    /\ UNCHANGED <<memory, cq_head, cq_phase, io, done, result>>

FenceDone == sb = {}

DoorbellValue == sq_tail

\* __threadfence_system, then the doorbell
GpuDoorbell ==
    /\ gpu_pc = "fence" /\ FenceDone
    /\ sq_doorbell' = DoorbellValue
    /\ gpu_pc' = "outer"
    /\ UNCHANGED <<sq, cq, cq_doorbell, queue, sb, io, done, target, result>>

\* Return with an error: the command may still be on its way.
Return(code) ==
    /\ gpu_pc' = "idle" /\ res' = code /\ blocks_done' = done

TimeOut ==
    /\ timeouts < MaxTimeouts /\ timeouts' = timeouts + 1
    /\ Return("timeout")

\* Top of the loop of cq_poll_for_cid: the deadline may have passed while
\* other completions were discarded.
GpuOuter ==
    /\ gpu_pc = "outer"
    /\ \/ gpu_pc' = "poll" /\ UNCHANGED result
       \/ TimeOut
    /\ UNCHANGED <<memory, queue, sb, io, done, target>>

CqeReady == cq[cq_head].phase = cq_phase

\* The loop of cq_poll_completion without a new entry.
GpuPollTimeout ==
    /\ gpu_pc = "poll" /\ ~CqeReady
    /\ TimeOut
    /\ UNCHANGED <<memory, queue, sb, io, done, target>>

ConsumeCqe ==
    /\ cq_head' = AdvanceCqHead(cq_head)
    /\ cq_phase' = AdvanceCqPhase(cq_head, cq_phase)
    /\ cq_doorbell' = cq_head'
    /\ UNCHANGED <<sq, cq, sq_doorbell, sq_tail, cid_counter>>

Matches(cqe) == cqe.cid = target

\* A completion of an abandoned command is consumed and dropped.
GpuDiscard ==
    /\ gpu_pc = "poll" /\ CqeReady /\ ~Matches(cq[cq_head])
    /\ ConsumeCqe
    /\ gpu_pc' = "outer"
    /\ UNCHANGED <<sb, io, done, target, result>>

GpuBatchDone ==
    /\ gpu_pc = "poll" /\ CqeReady /\ Matches(cq[cq_head]) /\ cq[cq_head].status = 0
    /\ ConsumeCqe
    /\ done' = done + Batch
    /\ gpu_pc' = "loop"
    /\ UNCHANGED <<sb, io, target, result>>

GpuBatchError ==
    /\ gpu_pc = "poll" /\ CqeReady /\ Matches(cq[cq_head]) /\ cq[cq_head].status # 0
    /\ ConsumeCqe
    /\ Return("nvme")
    /\ UNCHANGED <<sb, io, done, target, timeouts>>

GpuFinish ==
    /\ gpu_pc = "loop" /\ done >= io.n
    /\ Return("ok")
    /\ UNCHANGED <<memory, queue, sb, io, done, target, timeouts>>
=============================================================================
