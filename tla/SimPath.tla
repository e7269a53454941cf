------------------------------ MODULE SimPath ------------------------------
(***************************************************************************)
(* GPU block I/O through the simulator: one GPU thread (GpuBlockIo) and the *)
(* simulator's poller thread (NvmeSim) share the rings, the doorbell and a  *)
(* data buffer, and run concurrently.  The caller launches one kernel after *)
(* another on the same queue and the same buffer, also after a time-out.    *)
(***************************************************************************)
EXTENDS NvmeQueue, Sequences, FiniteSets

CONSTANTS
    NumBlocks, BlocksPerPage, LbaMod,
    BufSize,       \* blocks of the caller's buffer
    Requests,      \* what the caller may ask: [op, lba, n]
    MaxCalls,      \* bound: kernels launched
    MaxTimeouts    \* bound: polls that time out

ASSUME BlocksAssumption == BlocksPerPage \in Nat \ {0} /\ NumBlocks \in Nat /\ BufSize \in Nat
ASSUME RequestAssumption ==
    Requests \subseteq [op : {"read", "write"}, lba : Nat, n : 0 .. BufSize]

\* The simulator's range check would let a request pass whose end wraps at 64
\* bits, and copy outside its device: no caller names such blocks.
ASSUME LbaAssumption == LbaMod \in Nat \ {0} /\ \A r \in Requests : r.lba + r.n < LbaMod

\* Nobody asks whether the rings have room: they do as long as no more kernels
\* give up than there are slots, and identifiers, beside the current command.
ASSUME CapacityAssumption ==
    /\ MaxTimeouts \in Nat
    /\ MaxTimeouts + 1 < SqSize /\ MaxTimeouts < CqSize /\ MaxTimeouts < CidMod

BufBlocks == 0 .. BufSize - 1

VARIABLES
    sq, cq, sq_doorbell, cq_doorbell, vdev, buf,
    sim_pc, sim_cmd, sim_status, sim_sq_head, sim_cq_tail, sim_phase, sim_running, sim_held,
    sq_tail, cq_head, cq_phase, cid_counter, sb,
    gpu_pc, io, done, target, res, blocks_done, timeouts,
    calls,
    \* history: commands submitted and not yet copied by the simulator, the one
    \* it copied last, whether this call began with old ones unprocessed, and
    \* the blocks that calls have asked to write
    pend, want, late, asked

Gpu == INSTANCE GpuBlockIo
Sim == INSTANCE NvmeSim

gpuLocal == <<sq_tail, cq_head, cq_phase, cid_counter, sb, gpu_pc, io, done, target,
              res, blocks_done, timeouts, cq_doorbell>>
simLocal == <<sim_pc, sim_cmd, sim_status, sim_sq_head, sim_cq_tail, sim_phase, sim_running, sim_held>>
vars == <<sq, cq, sq_doorbell, vdev, buf, gpuLocal, simLocal, calls, pend, want, late, asked>>

\* What a caller puts into the buffer before its k-th call, when it writes.
CallerData(k, i) == <<"caller", k, i>>

Init ==
    /\ Gpu!Init /\ Sim!Init
    /\ sq = [s \in SqSlots |-> Sim!ZeroSqe]
    /\ cq = [s \in CqSlots |-> Sim!ZeroCqe]
    /\ buf = [i \in BufBlocks |-> CallerData(0, i)]
    /\ calls = 0 /\ pend = <<>> /\ want = Sim!ZeroSqe /\ late = FALSE /\ asked = {}

\* The caller fills the buffer of a write and launches the kernel.
Start(r) ==
    /\ calls < MaxCalls /\ sim_running
    /\ Gpu!GpuStart(r)
    /\ calls' = calls + 1
    /\ buf' = IF r.op = "write" THEN [i \in BufBlocks |-> CallerData(calls + 1, i)] ELSE buf
    /\ late' = (pend # <<>> \/ sim_pc # "poll")
    /\ asked' = IF r.op = "write" THEN asked \cup r.lba .. r.lba + r.n - 1 ELSE asked
    /\ UNCHANGED <<vdev, simLocal, pend, want>>

Submit ==
    /\ Gpu!GpuSubmit
    /\ pend' = Append(pend, Gpu!Command(cid_counter))
    /\ UNCHANGED <<vdev, buf, simLocal, calls, want, late, asked>>

GpuOther ==
    /\ \/ Gpu!GpuStore \/ Gpu!GpuDoorbell \/ Gpu!GpuOuter \/ Gpu!GpuPollTimeout
       \/ Gpu!GpuDiscard \/ Gpu!GpuBatchDone \/ Gpu!GpuBatchError \/ Gpu!GpuFinish
    /\ UNCHANGED <<vdev, buf, simLocal, calls, pend, want, late, asked>>

Copy ==
    /\ Sim!SimCopy
    /\ want' = Head(pend) /\ pend' = Tail(pend)
    /\ UNCHANGED <<gpuLocal, calls, late, asked>>

SimOther ==
    /\ \/ Sim!SimSeeDoorbell \/ Sim!SimExecute \/ Sim!SimCqeBody
       \/ Sim!SimCqePhase \/ Sim!SimExit \/ Sim!SimFree
    /\ UNCHANGED <<gpuLocal, calls, pend, want, late, asked>>

\* The program creates one simulator and gives up when it cannot.
Create ==
    /\ Sim!SimCreate \/ \E k \in 1 .. Len(Sim!SimSteps) : Sim!SimCreateFails(k)
    /\ UNCHANGED <<gpuLocal, calls, pend, want, late, asked>>

\* The program destroys the simulator when no kernel runs.
Destroy ==
    /\ gpu_pc = "idle" /\ Sim!SimDestroy
    /\ UNCHANGED <<gpuLocal, calls, pend, want, late, asked>>

GpuStep == Submit \/ GpuOther
SimStep == Copy \/ SimOther

Next == (\E r \in Requests : Start(r)) \/ GpuStep \/ SimStep \/ Create \/ Destroy

Spec == Init /\ [][Next]_vars

\* The GPU thread and the poller thread both keep running; the caller need
\* not call again.
FairSpec == Spec /\ WF_vars(GpuStep) /\ WF_vars(SimStep)

----------------------------------------------------------------------------
(* Properties *)

\* Positions of GPU and simulator stay inside the rings, identifiers and phases
\* in range.
TypeOK ==
    /\ sq_tail \in SqSlots /\ sq_doorbell \in SqSlots /\ sim_sq_head \in SqSlots
    /\ cq_head \in CqSlots /\ cq_doorbell \in CqSlots /\ sim_cq_tail \in CqSlots
    /\ cq_phase \in Phases /\ sim_phase \in Phases /\ cid_counter \in Cids
    /\ \A s \in CqSlots : cq[s].cid \in Cids /\ cq[s].phase \in Phases
    /\ gpu_pc \in {"idle", "loop", "fence", "outer", "poll"}
    /\ sim_pc \in {"poll", "copy", "exec", "cqe", "phase", "exited", "none", "gone", "crashed"}
    /\ res \in {"run", "ok", "timeout", "nvme"}
    /\ done \in Nat /\ blocks_done \in 0 .. io.n

\* The simulator executes exactly the commands that were submitted, whole and
\* in order: it never copies an entry whose stores are not all visible, nor
\* one overwritten before it was copied.
CopiedAsSubmitted == sim_pc \in {"exec", "cqe", "phase"} => sim_cmd = want

\* When a kernel returns, with success or not, the blocks it reports done are
\* the same in the buffer and on the device -- even if earlier kernels timed
\* out on this queue and their completions and data arrived late.
DoneBlocksAgree ==
    gpu_pc = "idle" /\ res # "run" =>
        /\ \A i \in 0 .. blocks_done - 1 : buf[i] = vdev[io.lba + i]
        /\ res = "ok" => blocks_done = io.n

\* A write that succeeds has put the caller's data on the device, if no
\* command of an earlier call was still unprocessed when it began (a late
\* read would land in the buffer that is being written out).
WrittenIsCallers ==
    gpu_pc = "idle" /\ res = "ok" /\ io.op = "write" /\ ~late =>
        \A i \in 0 .. io.n - 1 : vdev[io.lba + i] = CallerData(calls, i)

\* The poller thread works only on memory that nvme_sim_destroy has not freed:
\* destroy waits for it, wherever in a command the flag found it.
SimMemoryHeld == sim_pc \in {"copy", "exec", "cqe", "phase"} => sim_held = Sim!SimMemory

\* A block of the device that no call ever asked to write keeps its contents,
\* however a request is split into commands, whatever reads, errors and
\* abandoned commands go on beside it and whichever stale entries are left in
\* the ring; and no call on blocks the device does not have is a success.
OnlyAskedWritten ==
    /\ \A l \in DOMAIN vdev \ asked : vdev[l] = Sim!Formatted(l)
    /\ gpu_pc = "idle" /\ res = "ok" /\ io.n > 0 => io.lba + io.n <= NumBlocks

\* Every launched kernel returns, because the simulator answers: once the
\* allowed time-outs are spent nothing else can end the wait.
IoReturns == gpu_pc # "idle" ~> gpu_pc = "idle"

\* Every submitted command is executed, also those of kernels that gave up,
\* as long as fewer than SqSize - 1 of them are left behind.
SubmittedIsExecuted == pend # <<>> ~> pend = <<>> \/ ~sim_running
============================================================================
