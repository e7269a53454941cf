------------------------------ MODULE NvmeSim ------------------------------
(***************************************************************************)
(* The software controller of src/sim/nvme_sim.c: a host thread that polls  *)
(* the SQ tail doorbell, copies the command at its head, moves the data,    *)
(* writes the completion entry field by field, the word with the phase bit  *)
(* last, and advances.  It never reads the CQ head doorbell.                *)
(*                                                                         *)
(* Each action ends where another thread can see a difference; the stores   *)
(* of one action that only this thread reads are made together.             *)
(***************************************************************************)
EXTENDS NvmeQueue, Sequences

CONSTANTS
    NumBlocks,     \* cfg.num_blocks of the virtual device
    LbaMod         \* 2^64: block addresses are uint64_t

VARIABLES
    sq, cq, sq_doorbell, vdev, buf,                    \* shared memory
    sim_pc, sim_cmd, sim_status,                       \* the thread
    sim_sq_head, sim_cq_tail, sim_phase, sim_running,  \* struct nvme_sim
    sim_held                                           \* its allocations

shared == <<sq, cq, sq_doorbell, vdev, buf>>
rings  == <<sim_sq_head, sim_cq_tail, sim_phase, sim_running, sim_held>>
vars   == <<shared, rings, sim_pc, sim_cmd, sim_status>>

\* A submission entry: the dword with opcode and identifier, and the rest.
\* Zeroed memory reads as a FLUSH (opcode 0) with identifier 0.
ZeroSqe == [dw0 |-> [op |-> "flush", cid |-> 0], args |-> [prp |-> 0, slba |-> 0, nlb |-> 0]]
ZeroCqe == [cid |-> 0, status |-> 0, phase |-> 0]

SUCCESS        == 0
INVALID_OPCODE == 1
INVALID_FIELD  == 2

\* What is on the device when nothing has been written.
Formatted(l) == <<"vdev", l>>

Init ==
    /\ sim_pc = "none" /\ sim_cmd = ZeroSqe /\ sim_status = SUCCESS
    /\ sim_sq_head = 0 /\ sim_cq_tail = 0 /\ sim_phase = 1
    /\ sim_running = FALSE /\ sim_held = {}
    /\ vdev = [l \in 0 .. NumBlocks - 1 |-> Formatted(l)]

----------------------------------------------------------------------------
(* Defects: the identifier is left out of the completion entry; the 0-based *)
(* block count of the command is taken for the count itself plus one; the   *)
(* thread is not joined.                                                    *)
CqeBodyNoCid(old, cmd) == old
WriteFromTooLong(cmd) == [l \in DOMAIN vdev |->
    IF l \in cmd.args.slba .. cmd.args.slba + cmd.args.nlb
    THEN buf[cmd.args.prp + (l - cmd.args.slba)] ELSE vdev[l]]
NotJoined == ~sim_running

----------------------------------------------------------------------------
(* nvme_sim_create.  The memory it zeroes is the memory of Init.            *)

SimSteps == <<"sim", "vdev", "sq", "cq", "doorbells", "data", "bar0", "thread">>
SimMemory == {SimSteps[i] : i \in 1 .. Len(SimSteps) - 1}

SimCreate ==
    /\ sim_pc = "none" /\ sim_pc' = "poll"
    /\ sim_running' = TRUE /\ sim_held' = SimMemory
    /\ UNCHANGED <<shared, sim_cmd, sim_status, sim_sq_head, sim_cq_tail, sim_phase>>

\* Step k fails: nvme_sim_destroy frees what there is.  `running' is set before
\* pthread_create: when that fails, destroy joins a thread that was never made,
\* which is undefined.  Either nothing happens or the program dies.
SimCreateFails(k) ==
    /\ sim_pc = "none"
    /\ sim_held' = {SimSteps[i] : i \in 1 .. k - 1}
    /\ \/ sim_pc' = "exited"
       \/ SimSteps[k] = "thread" /\ sim_pc' = "crashed"
    /\ UNCHANGED <<shared, sim_cmd, sim_status, sim_sq_head, sim_cq_tail, sim_phase, sim_running>>

----------------------------------------------------------------------------
\* Opcode dispatch of sim_poller_thread and the range check of
\* sim_process_read and sim_process_write, whose sum wraps at 64 bits.
StatusOf(cmd) ==
    CASE cmd.dw0.op \in {"read", "write"} ->
            IF (cmd.args.slba + cmd.args.nlb) % LbaMod > NumBlocks THEN INVALID_FIELD ELSE SUCCESS
      [] cmd.dw0.op = "flush" -> SUCCESS
      [] OTHER -> INVALID_OPCODE

\* memcpy from the virtual device to PRP1
ReadInto(cmd) == [i \in DOMAIN buf |->
    IF i \in cmd.args.prp .. cmd.args.prp + cmd.args.nlb - 1
    THEN vdev[cmd.args.slba + (i - cmd.args.prp)] ELSE buf[i]]

\* memcpy from PRP1 to the virtual device
WriteFrom(cmd) == [l \in DOMAIN vdev |->
    IF l \in cmd.args.slba .. cmd.args.slba + cmd.args.nlb - 1
    THEN buf[cmd.args.prp + (l - cmd.args.slba)] ELSE vdev[l]]

\* The acquire load of the doorbell finds work.
SimSeeDoorbell ==
    /\ sim_pc = "poll" /\ sim_running
    /\ sq_doorbell # sim_sq_head
    /\ sim_pc' = "copy"
    /\ UNCHANGED <<shared, rings, sim_cmd, sim_status>>

SimCopy ==
    /\ sim_pc = "copy"
    /\ sim_cmd' = sq[sim_sq_head]
    /\ sim_pc' = "exec"
    /\ UNCHANGED <<shared, rings, sim_status>>

SimExecute ==
    /\ sim_pc = "exec"
    /\ LET status == StatusOf(sim_cmd)
           moves(op) == status = SUCCESS /\ sim_cmd.dw0.op = op
       IN  /\ sim_status' = status
           /\ buf' = IF moves("read") THEN ReadInto(sim_cmd) ELSE buf
           /\ vdev' = IF moves("write") THEN WriteFrom(sim_cmd) ELSE vdev
    /\ sim_pc' = "cqe"
    /\ UNCHANGED <<sq, cq, sq_doorbell, rings, sim_cmd>>

\* What the stores before the one of status_phase leave in the entry: the
\* status and the phase bit are still those of the last lap.
CqeBody(old, cmd) == [old EXCEPT !.cid = cmd.dw0.cid]

SimCqeBody ==
    /\ sim_pc = "cqe"
    /\ cq' = [cq EXCEPT ![sim_cq_tail] = CqeBody(@, sim_cmd)]
    /\ sim_pc' = "phase"
    /\ UNCHANGED <<sq, sq_doorbell, vdev, buf, rings, sim_cmd, sim_status>>

\* status_phase, sim_advance_cq_tail, the SQ head, the release fence
SimCqePhase ==
    /\ sim_pc = "phase"
    /\ cq' = [cq EXCEPT ![sim_cq_tail].status = sim_status,
                        ![sim_cq_tail].phase = sim_phase]
    /\ sim_cq_tail' = AdvanceCqHead(sim_cq_tail)
    /\ sim_phase' = AdvanceCqPhase(sim_cq_tail, sim_phase)
    /\ sim_sq_head' = AdvanceSqTail(sim_sq_head)
    /\ sim_pc' = "poll"
    /\ UNCHANGED <<sq, sq_doorbell, vdev, buf, sim_cmd, sim_status, sim_running, sim_held>>

\* nvme_sim_destroy clears `running' and joins: the thread leaves at the top
\* of its loop, whatever is still in the ring.
SimDestroy ==
    /\ sim_running
    /\ sim_running' = FALSE
    /\ UNCHANGED <<shared, sim_pc, sim_cmd, sim_status, sim_sq_head, sim_cq_tail, sim_phase,
                   sim_held>>

SimExit ==
    /\ sim_pc = "poll" /\ ~sim_running
    /\ sim_pc' = "exited"
    /\ UNCHANGED <<shared, rings, sim_cmd, sim_status>>

\* pthread_join returned.
Joined == sim_pc = "exited"

SimFree ==
    /\ Joined /\ sim_held # {}
    /\ sim_held' = {}
    /\ sim_pc' = IF sim_pc = "exited" THEN "gone" ELSE sim_pc
    /\ UNCHANGED <<shared, sim_cmd, sim_status, sim_sq_head, sim_cq_tail, sim_phase, sim_running>>
============================================================================
