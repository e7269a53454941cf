----------------------------- MODULE LayerLoad -----------------------------
(***************************************************************************)
(* The pipelined layer loader: gpunvme_load_layer prepares a request on the *)
(* host, the one-thread GPU kernel gpu_layer_read submits READ commands up  *)
(* to a pipeline depth and counts completions, whichever command they       *)
(* belong to, and the NVMe controller (external) fetches commands in ring   *)
(* order, transfers and completes them in any order.                        *)
(*                                                                         *)
(* Data is abstracted to what a loaded layer is made of: the destination of *)
(* command i of a request is chunk i of the caller's buffer, and a chunk    *)
(* that received data holds the LBA range that was read into it.  A command *)
(* is submitted in one step: the fence and the doorbell that make this      *)
(* legitimate are the subject of module SimPath.                            *)
(***************************************************************************)
EXTENDS NvmeQueue, Integers, FiniteSets

CONSTANTS
    PipeDepth,    \* loader->pipeline_depth after the clamp to 60
    BlocksPer,    \* loader->blocks_per_cmd = max_transfer_bytes / block_size
    BlockSize,    \* ctrl->block_size, in bytes
    CountMod,     \* 2^32: counts of blocks and commands are uint32_t
    MaxCommands,  \* loader->max_commands, from max_layer_bytes
    Requests,     \* what callers ask for: [lba, bytes]
    Buffers,      \* the callers' pinned destination buffers
    Faults,       \* which failures the environment may produce
    MaxCalls      \* bound: how many loads are launched

\* 60 < 64: the loader's clamp against the depth it asks for.  The queue is
\* created with min(64, CAP.MQES + 1) entries, so this is also an assumption
\* on the controller.
ASSUME PipeAssumption == PipeDepth \in Nat /\ PipeDepth >= 1 /\ PipeDepth < SqSize
ASSUME SizeAssumption == /\ BlocksPer \in Nat \ {0}
                         /\ BlockSize \in Nat \ {0}
                         /\ MaxCommands \in Nat /\ MaxCalls \in Nat
ASSUME RequestAssumption == Requests \subseteq [lba : Nat, bytes : Nat \ {0}]
\* A load of 2^32 blocks would be cut down to its low 32 bits and then pass as
\* a short one: no caller has a pinned buffer of that size (2 TB and more).
ASSUME CountAssumption ==
    /\ CountMod \in Nat \ {0}
    /\ \A r \in Requests : r.bytes \div BlockSize + BlocksPer < CountMod
ASSUME BufferAssumption == Buffers # {}
ASSUME FaultAssumption == Faults \subseteq {"timeout", "nvme", "cuda", "dma", "launch"}

VARIABLES
    \* struct gpu_nvme_queue, rings and doorbells
    sq, cq, sq_tail, cq_head, cq_phase, cid_counter, sq_doorbell, cq_doorbell,
    \* the controller's side
    dev_sq_head, dev_cq_tail, dev_phase, fetched, done,
    \* the callers' buffers
    buf,
    \* the kernel: params, loop counters; the host: what the call returned
    pc, req, submitted, completed, ret, gpu_ok, calls,
    \* history: the commands of this call whose completion was taken, whether a
    \* call ever returned with commands still in flight, and whether the kernel
    \* of the last accepted call was started at all
    taken, desync, ran

queue   == <<sq, cq, sq_tail, cq_head, cq_phase, cid_counter, sq_doorbell, cq_doorbell>>
device  == <<dev_sq_head, dev_cq_tail, dev_phase, fetched, done>>
kernel  == <<pc, req, submitted, completed, ret, gpu_ok, calls>>
history == <<taken, desync, ran>>
vars    == <<queue, device, buf, kernel, history>>

----------------------------------------------------------------------------
(* Commands, completions and requests *)

NoData    == [slba |-> 0, nlb |-> 0]
Chunks    == [slba : Int, nlb : Int]
ChunkIdx  == 0 .. MaxCommands - 1

NoReq     == [lba |-> 0, blocks |-> 0, n |-> 0, dest |-> CHOOSE b \in Buffers : TRUE]
ReqType   == [lba : Nat, blocks : Nat, n : Nat, dest : Buffers]

\* A submission queue entry; its PRPs name chunk idx of buffer dest.
NoSqe     == [cid |-> 0, slba |-> 0, nlb |-> 0, dest |-> CHOOSE b \in Buffers : TRUE, idx |-> -1]
Sqes      == [cid : Cids, slba : Int, nlb : Int, dest : Buffers, idx : Nat]

\* A completion queue entry.  idx is not in the entry: it names the command
\* the entry is about, for the properties only, and the kernel never reads it.
NoCqe     == [cid |-> 0, ok |-> TRUE, phase |-> 0, idx |-> -1]
Cqes      == [cid : Cids, ok : BOOLEAN, phase : Phases, idx : Int]

TotalBlocksDown(bytes) == bytes \div BlockSize
TotalBlocks(bytes) == ((bytes + BlockSize - 1) \div BlockSize) % CountMod
NCommands(blocks)  == ((blocks + BlocksPer - 1) % CountMod) \div BlocksPer

CmdLba(r, i) == r.lba + i * BlocksPer

\* "Last command may be smaller"
CmdNlbFull(r, i) == BlocksPer
CmdNlb(r, i) ==
    LET remaining == r.blocks - i * BlocksPer
    IN  IF remaining < BlocksPer THEN remaining ELSE BlocksPer

----------------------------------------------------------------------------
Init ==
    /\ sq = [s \in SqSlots |-> NoSqe]
    /\ cq = [s \in CqSlots |-> NoCqe]
    /\ sq_tail = 0 /\ cq_head = 0 /\ cq_phase = 1 /\ cid_counter = 0
    /\ sq_doorbell = 0 /\ cq_doorbell = 0
    /\ dev_sq_head = 0 /\ dev_cq_tail = 0 /\ dev_phase = 1
    /\ fetched = {} /\ done = {}
    /\ buf = [b \in Buffers |-> [i \in ChunkIdx |-> NoData]]
    /\ pc = "idle" /\ req = NoReq /\ submitted = 0 /\ completed = 0
    /\ ret = "none" /\ gpu_ok = TRUE /\ calls = 0
    /\ taken = {} /\ desync = FALSE /\ ran = TRUE

----------------------------------------------------------------------------
(* gpunvme_load_layer *)

\* The call is refused, or fails while the PRPs are built: nothing is launched.
LoadRefused(r) ==
    /\ pc = "idle"
    /\ NCommands(TotalBlocks(r.bytes)) > MaxCommands
    /\ ret' = "invalid"
    /\ UNCHANGED <<queue, device, buf, pc, req, submitted, completed, gpu_ok, calls, history>>

LoadUnmapped(r) ==
    /\ pc = "idle" /\ "dma" \in Faults
    /\ NCommands(TotalBlocks(r.bytes)) <= MaxCommands
    /\ ret' = "dma"
    /\ UNCHANGED <<queue, device, buf, pc, req, submitted, completed, gpu_ok, calls, history>>

\* A CUDA error is sticky: once a kernel died every later launch fails.
LoadOnDeadGpu(r) ==
    /\ pc = "idle" /\ ~gpu_ok
    /\ NCommands(TotalBlocks(r.bytes)) <= MaxCommands
    /\ ret' = "cuda"
    /\ UNCHANGED <<queue, device, buf, pc, req, submitted, completed, gpu_ok, calls, history>>

\* PRPs built, params filled, result cleared.  What the caller's buffer held
\* before is of no interest to it: it is blanked so that data loaded by this
\* call can be told from what was there.
Prepare(r, b) ==
    LET blocks == TotalBlocks(r.bytes)
        n      == NCommands(blocks)
    IN  /\ pc = "idle" /\ gpu_ok /\ calls < MaxCalls
        /\ n <= MaxCommands
        /\ req' = [lba |-> r.lba, blocks |-> blocks, n |-> n, dest |-> b]
        /\ buf' = [buf EXCEPT ![b] = [i \in ChunkIdx |-> NoData]]
        /\ submitted' = 0 /\ completed' = 0
        /\ calls' = calls + 1
        /\ taken' = {}
        /\ UNCHANGED <<queue, device, gpu_ok, desync>>

Launch(r, b) ==
    /\ Prepare(r, b)
    /\ pc' = "run" /\ ret' = "none" /\ ran' = TRUE

\* The launch itself is refused (no kernel image for this GPU, no resources).
\* Nobody asks cudaGetLastError, cudaDeviceSynchronize has nothing to report,
\* and the cleared result reads as a success.
LaunchRefused(r, b) ==
    /\ Prepare(r, b) /\ "launch" \in Faults
    /\ pc' = "idle" /\ ret' = "ok" /\ ran' = FALSE

----------------------------------------------------------------------------
(* gpu_layer_read *)

CanSubmitOneMore == submitted < req.n /\ submitted - completed <= PipeDepth
CanSubmit == submitted < req.n /\ submitted - completed < PipeDepth

LoopDoneOnSubmitted == submitted >= req.n
LoopDone == completed >= req.n

\* sq_submit_read for command number `submitted'
SubmitRead ==
    /\ pc = "run" /\ ~LoopDone /\ CanSubmit
    /\ sq' = [sq EXCEPT ![sq_tail] = [cid  |-> cid_counter,
                                      slba |-> CmdLba(req, submitted),
                                      nlb  |-> CmdNlb(req, submitted),
                                      dest |-> req.dest,
                                      idx  |-> submitted]]
    /\ sq_tail' = AdvanceSqTail(sq_tail)
    /\ cid_counter' = NextCid(cid_counter)
    /\ sq_doorbell' = sq_tail'
    /\ submitted' = submitted + 1
    /\ UNCHANGED <<cq, cq_head, cq_phase, cq_doorbell, device, buf,
                   pc, req, completed, ret, gpu_ok, calls, history>>

\* cq_poll_completion: an entry of this lap is at the head
CqeReady == cq[cq_head].phase = cq_phase

RingCqDoorbellNot(h) == cq_doorbell
RingCqDoorbell(h)    == h

ConsumeCqe ==
    /\ cq_head' = AdvanceCqHead(cq_head)
    /\ cq_phase' = AdvanceCqPhase(cq_head, cq_phase)
    /\ cq_doorbell' = RingCqDoorbell(cq_head')
    /\ taken' = taken \cup {cq[cq_head].idx}

Polling == pc = "run" /\ ~LoopDone /\ ~CanSubmit

PollSuccess ==
    /\ Polling /\ CqeReady /\ cq[cq_head].ok
    /\ ConsumeCqe
    /\ completed' = completed + 1
    /\ UNCHANGED <<sq, cq, sq_tail, cid_counter, sq_doorbell, device, buf,
                   pc, req, submitted, ret, gpu_ok, calls, desync, ran>>

\* The kernel returns at once, with the other commands still in flight.
PollError ==
    /\ Polling /\ CqeReady /\ ~cq[cq_head].ok
    /\ ConsumeCqe
    /\ pc' = "idle" /\ ret' = "nvme"
    /\ desync' = (desync \/ submitted # completed + 1)
    /\ UNCHANGED <<sq, cq, sq_tail, cid_counter, sq_doorbell, device, buf,
                   req, submitted, completed, gpu_ok, calls, ran>>

PollTimeout ==
    /\ Polling /\ ~CqeReady /\ "timeout" \in Faults
    /\ pc' = "idle" /\ ret' = "timeout"
    /\ desync' = (desync \/ submitted # completed)
    /\ UNCHANGED <<queue, device, buf, req, submitted, completed, gpu_ok, calls, taken, ran>>

KernelDone ==
    /\ pc = "run" /\ LoopDone
    /\ pc' = "idle" /\ ret' = "ok"
    /\ UNCHANGED <<queue, device, buf, req, submitted, completed, gpu_ok, calls, history>>

\* The kernel is killed (watchdog, fault): cudaDeviceSynchronize reports it.
KernelDies ==
    /\ pc = "run" /\ "cuda" \in Faults
    /\ pc' = "idle" /\ ret' = "cuda" /\ gpu_ok' = FALSE
    /\ desync' = (desync \/ submitted # completed)
    /\ UNCHANGED <<queue, device, buf, req, submitted, completed, calls, taken, ran>>

----------------------------------------------------------------------------
(* The NVMe controller, external: in-order fetch, out-of-order execution,   *)
(* completions posted in a ring it never overruns (it knows the CQ head     *)
(* from the doorbell).                                                      *)

DevFetch ==
    /\ dev_sq_head # sq_doorbell
    /\ fetched' = fetched \cup {sq[dev_sq_head]}
    /\ dev_sq_head' = AdvanceSqTail(dev_sq_head)
    /\ UNCHANGED <<queue, dev_cq_tail, dev_phase, done, buf, kernel, history>>

DevTransfer(c) ==
    /\ c \in fetched
    /\ fetched' = fetched \ {c}
    /\ done' = done \cup {c}
    /\ buf' = [buf EXCEPT ![c.dest][c.idx] = [slba |-> c.slba, nlb |-> c.nlb]]
    /\ UNCHANGED <<queue, dev_sq_head, dev_cq_tail, dev_phase, kernel, history>>

DevPost(c, ok) ==
    /\ AdvanceCqHead(dev_cq_tail) # cq_doorbell
    /\ cq' = [cq EXCEPT ![dev_cq_tail] = [cid |-> c.cid, ok |-> ok,
                                          phase |-> dev_phase, idx |-> c.idx]]
    /\ dev_cq_tail' = AdvanceCqHead(dev_cq_tail)
    /\ dev_phase' = AdvanceCqPhase(dev_cq_tail, dev_phase)
    /\ UNCHANGED <<sq, sq_tail, cq_head, cq_phase, cid_counter, sq_doorbell,
                   cq_doorbell, dev_sq_head, buf, kernel, history>>

DevComplete(c) ==
    /\ c \in done /\ DevPost(c, TRUE)
    /\ done' = done \ {c} /\ UNCHANGED fetched

DevFail(c) ==
    /\ c \in fetched /\ "nvme" \in Faults /\ DevPost(c, FALSE)
    /\ fetched' = fetched \ {c} /\ UNCHANGED done

----------------------------------------------------------------------------
Call   == \E r \in Requests :
            \/ LoadRefused(r) \/ LoadUnmapped(r) \/ LoadOnDeadGpu(r)
            \/ \E b \in Buffers : Launch(r, b) \/ LaunchRefused(r, b)

Kernel == SubmitRead \/ PollSuccess \/ PollError \/ PollTimeout \/ KernelDone \/ KernelDies

Device == \/ DevFetch
          \/ \E c \in fetched : DevTransfer(c) \/ DevFail(c)
          \/ \E c \in done : DevComplete(c)

Next == Call \/ Kernel \/ Device

Spec == Init /\ [][Next]_vars

\* The GPU runs its one thread, and the controller fetches, executes and
\* completes what it is given.
Fairness == WF_vars(Kernel) /\ WF_vars(Device)

FairSpec == Spec /\ Fairness

----------------------------------------------------------------------------
(* Properties *)

\* Ring positions, phases, identifiers and counters of gpu_layer_read keep
\* their ranges.
TypeOK ==
    /\ sq \in [SqSlots -> Sqes \cup {NoSqe}]
    /\ cq \in [CqSlots -> Cqes]
    /\ sq_tail \in SqSlots /\ sq_doorbell \in SqSlots /\ dev_sq_head \in SqSlots
    /\ cq_head \in CqSlots /\ cq_doorbell \in CqSlots /\ dev_cq_tail \in CqSlots
    /\ cq_phase \in Phases /\ dev_phase \in Phases
    /\ cid_counter \in Cids
    /\ fetched \subseteq Sqes \cup {NoSqe} /\ done \subseteq Sqes \cup {NoSqe}
    /\ buf \in [Buffers -> [ChunkIdx -> Chunks]]
    /\ pc \in {"idle", "run"}
    /\ req \in ReqType
    /\ submitted \in Nat /\ completed \in Nat /\ calls \in Nat
    /\ ret \in {"none", "ok", "invalid", "dma", "cuda", "timeout", "nvme"}
    /\ gpu_ok \in BOOLEAN /\ desync \in BOOLEAN /\ ran \in BOOLEAN
    /\ taken \subseteq Int

\* The block of the caller's buffer at block offset k, -1 when nothing was
\* loaded there.
BlockAt(b, k) ==
    LET chunk == buf[b][k \div BlocksPer]
        off   == k % BlocksPer
    IN  IF off < chunk.nlb THEN chunk.slba + off ELSE -1

LayerInBuffer ==
    \A k \in 0 .. BlocksPer * MaxCommands - 1 :
        BlockAt(req.dest, k) = IF k < req.blocks THEN req.lba + k ELSE -1

\* A load that returns GPUNVME_OK has put exactly the requested blocks, in
\* order, into the caller's buffer, and nothing behind them -- as long as no
\* earlier load returned with commands in flight, and unless its own launch
\* was refused.  The kernel only counts completions; this is what the count
\* is worth.
OkMeansLoaded == ret = "ok" /\ ran /\ ~desync => LayerInBuffer

\* What the API comment promises without the proviso.
OkMeansLoadedAlways == ret = "ok" => LayerInBuffer

Quiet == /\ dev_sq_head = sq_tail /\ sq_doorbell = sq_tail
         /\ dev_cq_tail = cq_head /\ cq_phase = dev_phase
         /\ fetched = {} /\ done = {}

\* Between calls nothing is in flight and both rings are in step, unless a
\* call was abandoned: the next kernel starts from a clean queue.
QuietBetweenCalls == pc = "idle" /\ ~desync => Quiet

\* A submission never overwrites an entry the controller has yet to fetch,
\* although the code never asks gpu_nvme_sq_has_room.
SubmitHasRoom ==
    [][sq_tail' # sq_tail /\ ~desync => SqHasRoom(sq_tail, dev_sq_head)]_vars

\* With a controller that answers, a launched load ends, and ends well.
LoadCompletes == pc = "run" ~> ret = "ok"
============================================================================
