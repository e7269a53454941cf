------------------------------- MODULE Bench -------------------------------
(***************************************************************************)
(* The GPU-direct benchmark on hardware (bench/bench_gpu_direct.cu): the    *)
(* set-up ladder, the PRPs of the buffer slots, the LBA array, the warm-up  *)
(* launches, the measured launch and the clean-up.  The host waits for each *)
(* kernel; the controller (external) fetches commands in order, executes    *)
(* them in any order, late included, and posts completions.                 *)
(*                                                                         *)
(* Operations are whole pages; a slot holds one operation's pages.          *)
(***************************************************************************)
EXTENDS PrpList, Integers, Sequences, FiniteSets

CONSTANTS
    Configs,      \* command lines: [depth, ops, pages, pattern, start, max]
    RingCaps,     \* max_queue_entries of the controller
    MinRing, Headroom,  \* 16 and 4 in the code
    WordMod,      \* 2^16: the queue size is a uint16_t
    Warmups,      \* WARMUP_ITERATIONS
    BlocksPerPage,
    BenchFaults   \* what may fail: steps of the set-up, "cuda", "launch", "media"

\* parse_args refuses a depth, a number of operations or a block size of 0; a
\* namespace is not empty.
ASSUME ConfigAssumption ==
    Configs \subseteq [depth : Nat \ {0}, ops : Nat \ {0}, pages : Nat \ {0},
                      pattern : {"seq", "rand"}, start : Nat, max : Nat \ {0}]
\* One list page per slot: true of controllers with MDTS of at most 9, to which
\* the block size is clamped; not checked by the code.
ASSUME MdtsAssumption == \A c \in Configs : c.pages <= PerPage + 1
ASSUME QueueAssumption == /\ RingCaps \subseteq Nat \ {0} /\ MinRing \in Nat \ {0}
                          /\ Headroom \in Nat /\ WordMod \in Nat \ {0}
ASSUME CountAssumption == Warmups \in Nat /\ BlocksPerPage \in Nat \ {0}

VARIABLES
    cfg, cap,     \* the command line and the controller's limit
    bpc,          \* "setup" | "ready" | "kernel" | "between" | "cleanup" | "exited" | "aborted"
    bheld, btodo, \* what the program holds, and has still to release
    mem, prp1, prp2,    \* the list pool by physical page, the arrays by slot
    lba,          \* lba_array
    k,            \* the kernel: [ops, pipe, submitted, completed, error]
    warm,         \* warm-up launches made
    ret,          \* exit status of the program
    sq, inflight, cq,   \* commands not fetched, being executed, completions
    reads,        \* history: how often each operation of the measured launch ran
    overrun, inorder, gaveUp   \* history

hostVars == <<cfg, cap, bpc, bheld, btodo, mem, prp1, prp2, lba, warm, ret>>
devVars  == <<sq, inflight, cq, reads, inorder>>
vars     == <<hostVars, devVars, k, overrun, gaveUp>>

Slots == 0 .. cfg.depth - 1

----------------------------------------------------------------------------
(* Defects: the pipeline is filled without limit; the loop ends when all    *)
(* is submitted; one slot too few; a time-out polls again; the measured     *)
(* launch keeps the count of a warm-up.                                     *)
FillUnbounded == k.submitted < k.ops
KernelDoneOnSubmitted == k.submitted = k.ops
SlotOfLess(i) == i % (IF k.pipe > 1 THEN k.pipe - 1 ELSE 1)
AfterTimeoutPolls == "kernel"
MeasuredOpsWarmup == 1

----------------------------------------------------------------------------
(* The set-up of main *)

BlocksPerOp == cfg.pages * BlocksPerPage

\* queue_size, then clamped by gpunvme_create_io_queue
RingSize(d) == LET q == (d + Headroom) % WordMod IN IF q < MinRing THEN MinRing ELSE q
Ring == IF RingSize(cfg.depth) > cap THEN cap ELSE RingSize(cfg.depth)

SetupSteps == <<"fd", "map", "reg", "ctrl", "ioq", "data", "arr1", "arr2", "pool", "pagemap">>

\* A list pool is allocated for transfers of more than two pages only.
Acquired(n) == {SetupSteps[i] : i \in 1 .. n} \ (IF cfg.pages > 2 THEN {} ELSE {"pool"})

CleanupHw   == <<"pool", "data", "ioq", "ctrl", "reg", "map", "fd">>
FullCleanup == <<"arr1", "arr2", "pool", "data", "ioq", "ctrl", "reg", "map", "fd">>

Init ==
    /\ cfg \in Configs /\ cap \in RingCaps
    /\ bpc = "setup" /\ bheld = {} /\ btodo = <<>> /\ mem = <<>>
    /\ prp1 = <<>> /\ prp2 = <<>> /\ lba = <<>> /\ warm = 0 /\ ret = 0
    /\ k = [ops |-> 0, pipe |-> 0, submitted |-> 0, completed |-> 0, error |-> 0]
    /\ sq = <<>> /\ inflight = {} /\ cq = <<>>
    /\ reads = [i \in 0 .. cfg.ops - 1 |-> 0]
    /\ overrun = FALSE /\ inorder = TRUE /\ gaveUp = FALSE

\* Physical pages: the data buffer lies scattered, the pool above it.
DataPage(s, p) == 2 * (s * cfg.pages + p) + 1
ListPage(s)    == 100 + s

\* lba_range
LbaRange(max, n) == IF max > n THEN max - n ELSE max

Lbas == IF cfg.pattern = "seq"
        THEN {[i \in 0 .. cfg.ops - 1 |-> (cfg.start + i * BlocksPerOp) % cfg.max]}
        ELSE [0 .. cfg.ops - 1 -> 0 .. LbaRange(cfg.max, BlocksPerOp) - 1]

\* Everything is allocated, the pagemap is read for every page and closed, and
\* the LBA array is filled.
SetupOk ==
    /\ bpc = "setup" /\ bpc' = "ready"
    /\ bheld' = Acquired(Len(SetupSteps)) \ {"pagemap"}
    /\ mem' = [f \in {ListPage(s) : s \in Slots} |-> [e \in Entries |->
                 LET s == f - 100
                     p == {q \in 1 .. cfg.pages - 1 : cfg.pages > 2 /\ ListSlot(q) = e}
                 IN  IF p = {} THEN 0 ELSE DataPage(s, CHOOSE q \in p : TRUE)]]
    /\ prp1' = [s \in Slots |-> DataPage(s, 0)]
    /\ prp2' = [s \in Slots |-> Prp2For(cfg.pages, DataPage(s, 1), ListPage(s))]
    /\ lba' \in Lbas
    /\ UNCHANGED <<cfg, cap, btodo, warm, ret, devVars, k, overrun, gaveUp>>

\* What a failed gpunvme_ctrl_init leaves: nothing, the admin rings whose address
\* it cannot tell, or the rings and a controller that it has enabled.
CtrlLeaves == {{}, {"rings"}, {"rings", "enabled"}}

Things == {SetupSteps[i] : i \in DOMAIN SetupSteps} \cup {"rings", "enabled"}

\* Step n fails and leaves `left'.  Up to the data buffer the program undoes what
\* it has and returns; from the pool on, pages without an address included, it
\* goes to cleanup_hw, which leaves the two arrays.  The arrays are CUDA_CHECKed.
SetupFails(n, left) ==
    /\ bpc = "setup" /\ SetupSteps[n] \in BenchFaults \ {"arr1", "arr2"}
    /\ SetupSteps[n] = "pool" => cfg.pages > 2
    /\ left # {} => SetupSteps[n] = "ctrl"
    /\ bpc' = "cleanup" /\ ret' = 1
    /\ bheld' = Acquired(n - 1) \cup left
    /\ btodo' = CleanupHw
    /\ UNCHANGED <<cfg, cap, mem, prp1, prp2, lba, warm, devVars, k, overrun, gaveUp>>

----------------------------------------------------------------------------
(* Launches *)

Launch(ops, pipe) == k' = [ops |-> ops, pipe |-> pipe, submitted |-> 0, completed |-> 0, error |-> 0]

\* One operation, one in flight, on the first entries of the arrays.
LaunchWarmup ==
    /\ bpc = "ready" /\ warm < Warmups
    /\ bpc' = "kernel" /\ warm' = warm + 1 /\ Launch(1, 1)
    /\ UNCHANGED <<cfg, cap, bheld, btodo, mem, prp1, prp2, lba, ret, devVars, overrun, gaveUp>>

\* h_params->num_ops is set again
MeasuredOps == cfg.ops

LaunchBench ==
    /\ bpc = "ready" /\ warm = Warmups
    /\ bpc' = "kernel" /\ warm' = warm + 1 /\ Launch(MeasuredOps, cfg.depth)
    /\ UNCHANGED <<cfg, cap, bheld, btodo, mem, prp1, prp2, lba, ret, devVars, overrun, gaveUp>>

\* The launch is refused: nobody asks cudaGetLastError, cudaDeviceSynchronize has
\* nothing to report, and the result block is as it was cleared.
LaunchRefused ==
    /\ bpc = "ready" /\ warm <= Warmups /\ "launch" \in BenchFaults
    /\ bpc' = "between" /\ warm' = warm + 1 /\ Launch(0, 0)
    /\ UNCHANGED <<cfg, cap, bheld, btodo, mem, prp1, prp2, lba, ret, devVars, overrun, gaveUp>>

Measured == warm = Warmups + 1

\* warmup_ok
WarmupOk == k.error = 0

\* cudaDeviceSynchronize returned: on to the next warm-up or the measured
\* launch, or to the end of main.
Synchronized ==
    /\ bpc = "between"
    /\ ret' = IF k.error # 0 THEN 1 ELSE ret
    /\ IF ~Measured /\ WarmupOk
       THEN bpc' = "ready" /\ UNCHANGED btodo
       ELSE bpc' = "cleanup" /\ btodo' = FullCleanup
    /\ UNCHANGED <<cfg, cap, bheld, mem, prp1, prp2, lba, warm, devVars, k, overrun, gaveUp>>

----------------------------------------------------------------------------
(* bench_read_pipelined *)

SlotOf(i) == i % k.pipe

CanFill == k.submitted < k.ops /\ k.submitted - k.completed < k.pipe

KernelDone == k.completed = k.ops

KSubmit ==
    LET i == k.submitted
        c == [op |-> i, lba |-> lba[i], prp1 |-> prp1[SlotOf(i)], prp2 |-> prp2[SlotOf(i)]]
    IN  /\ bpc = "kernel" /\ ~KernelDone /\ CanFill
        /\ k' = [k EXCEPT !.submitted = i + 1]
        \* With Ring - 1 entries waiting the tail comes round to the head and the
        \* controller sees an empty queue.
        /\ sq' = IF Len(sq) = Ring - 1 THEN <<>> ELSE Append(sq, c)
        /\ overrun' = (overrun \/ Len(sq) = Ring - 1)
        /\ UNCHANGED <<hostVars, inflight, cq, reads, inorder, gaveUp>>

KernelReturns(error) ==
    /\ bpc' = "between" /\ k' = [k EXCEPT !.error = error]
    /\ UNCHANGED <<cfg, cap, bheld, btodo, mem, prp1, prp2, lba, warm, ret, overrun>>

KPoll ==
    /\ bpc = "kernel" /\ ~KernelDone /\ ~CanFill /\ cq # <<>>
    /\ cq' = Tail(cq)
    /\ \/ /\ Head(cq) /\ k' = [k EXCEPT !.completed = @ + 1]
          /\ UNCHANGED <<hostVars, overrun, gaveUp>>
       \/ /\ ~Head(cq) /\ KernelReturns(3)
          /\ gaveUp' = (sq # <<>> \/ inflight # {} \/ Len(cq) > 1)
    /\ UNCHANGED <<sq, inflight, reads, inorder>>

AfterTimeout == "between"

KTimeout ==
    /\ bpc = "kernel" /\ ~KernelDone /\ ~CanFill /\ cq = <<>>
    /\ bpc' = AfterTimeout /\ k' = [k EXCEPT !.error = 2]
    /\ gaveUp' = TRUE
    /\ UNCHANGED <<cfg, cap, bheld, btodo, mem, prp1, prp2, lba, warm, ret, overrun, devVars>>

KReturn ==
    /\ bpc = "kernel" /\ KernelDone
    /\ KernelReturns(0) /\ UNCHANGED <<devVars, gaveUp>>

\* The kernel dies: cudaDeviceSynchronize fails, CUDA_CHECK ends the process, and
\* what is in the queues stays there.
KernelDies ==
    /\ bpc = "kernel" /\ "cuda" \in BenchFaults
    /\ bpc' = "aborted" /\ ret' = 1 /\ bheld' = bheld \cap {"ctrl", "ioq"}
    /\ gaveUp' = (sq # <<>> \/ inflight # {} \/ cq # <<>>)
    /\ UNCHANGED <<cfg, cap, btodo, mem, prp1, prp2, lba, warm, devVars, k, overrun>>

----------------------------------------------------------------------------
(* The end of main *)

\* What was not acquired is passed over.  Deleting the queue pair ends every
\* command in it.
Cleanup ==
    /\ bpc = "cleanup" /\ btodo # <<>>
    /\ bheld' = bheld \ {Head(btodo)} /\ btodo' = Tail(btodo)
    /\ IF Head(btodo) = "ioq"
       THEN sq' = <<>> /\ inflight' = {} /\ cq' = <<>>
       ELSE UNCHANGED <<sq, inflight, cq>>
    /\ UNCHANGED <<cfg, cap, bpc, mem, prp1, prp2, lba, warm, ret, reads, inorder, k, overrun, gaveUp>>

Exit ==
    /\ bpc = "cleanup" /\ btodo = <<>> /\ bpc' = "exited"
    /\ UNCHANGED <<cfg, cap, bheld, btodo, mem, prp1, prp2, lba, warm, ret, devVars, k, overrun, gaveUp>>

\* A CUDA_CHECK fails with no kernel running and calls exit: the process is gone
\* with its memory, the controller goes on.
CudaExit ==
    /\ "cuda" \in BenchFaults
    /\ \/ bpc \in {"setup", "ready", "between"}
       \/ bpc = "cleanup" /\ btodo # <<>> /\ Head(btodo) \in {"arr1", "arr2"}
    /\ bpc' = "aborted" /\ ret' = 1 /\ btodo' = <<>>
    /\ bheld' \in IF bpc = "setup" THEN {{}, {"ctrl", "ioq"}} ELSE {bheld \cap {"ctrl", "ioq"}}
    /\ UNCHANGED <<cfg, cap, mem, prp1, prp2, lba, warm, devVars, k, overrun, gaveUp>>

----------------------------------------------------------------------------
(* The controller, external *)

DevFetch ==
    /\ sq # <<>> /\ "ioq" \in bheld
    /\ sq' = Tail(sq) /\ inflight' = inflight \cup {Head(sq)}
    /\ UNCHANGED <<hostVars, k, cq, reads, overrun, inorder, gaveUp>>

InRange(c) == c.lba + BlocksPerOp <= cfg.max

\* Data is moved and a completion posted, with an error for a read past the end
\* or from a bad block.
DevComplete(c, ok) ==
    /\ c \in inflight /\ "ioq" \in bheld /\ Len(cq) < Ring - 1
    /\ ok => InRange(c)
    /\ ~ok => ~InRange(c) \/ "media" \in BenchFaults
    /\ inflight' = inflight \ {c} /\ cq' = Append(cq, ok)
    /\ reads' = IF Measured /\ ok THEN [reads EXCEPT ![c.op] = @ + 1] ELSE reads
    /\ inorder' = (inorder /\ \A d \in inflight : d.op >= c.op)
    /\ UNCHANGED <<hostVars, k, sq, overrun, gaveUp>>

----------------------------------------------------------------------------
Host   == \/ SetupOk
          \/ \E n \in 1 .. Len(SetupSteps), left \in CtrlLeaves : SetupFails(n, left)
          \/ LaunchWarmup \/ LaunchBench \/ LaunchRefused \/ Synchronized
          \/ Cleanup \/ Exit \/ CudaExit
Kernel == KSubmit \/ KPoll \/ KTimeout \/ KReturn
Device == DevFetch \/ \E c \in inflight, ok \in BOOLEAN : DevComplete(c, ok)

Next == Host \/ Kernel \/ KernelDies \/ Device

\* The host thread and the GPU make progress; the controller need not.
Spec == Init /\ [][Next]_vars /\ WF_vars(Host) /\ WF_vars(Kernel)

----------------------------------------------------------------------------
(* Properties *)

\* Counters, rings and the LBA array of the benchmark keep their ranges: no LBA
\* lies past the namespace (the modulus of the array).
TypeOK ==
    /\ bpc \in {"setup", "ready", "kernel", "between", "cleanup", "exited", "aborted"}
    /\ bheld \subseteq Things
    /\ k.submitted \in 0 .. k.ops /\ k.completed \in 0 .. k.submitted
    /\ Len(sq) <= Ring - 1 /\ Len(cq) <= Ring - 1
    /\ \A i \in DOMAIN lba : lba[i] \in 0 .. cfg.max - 1

\* The program that reports success has had every operation of the measured
\* launch executed exactly once, whatever order the completions came in, unless
\* the launch was refused: then it reports 0 operations, and success.
Refused == k.ops = 0

SuccessMeansRead ==
    bpc = "exited" /\ ret = 0 /\ ~Refused => \A i \in DOMAIN reads : reads[i] = 1

\* The submission ring never overruns, unless the controller's limit or the
\* 16-bit queue size leaves it no larger than the depth that was asked for.
RingHasRoom == overrun => cfg.depth >= Ring

\* A command moves its data to one whole slot of the data buffer, and two that
\* the controller has at the same time to different ones, as long as it
\* completes in order: the slot of an operation is its number modulo the depth,
\* and is taken again when as many have completed.
Outstanding == {sq[i] : i \in DOMAIN sq} \cup inflight
PagesOf(c) == LET ps == Pages(mem, c.prp1, c.prp2, cfg.pages) IN {ps[p] : p \in DOMAIN ps}

SlotsDistinct ==
    /\ \A c \in Outstanding : \E s \in Slots :
        PagesOf(c) = {DataPage(s, p) : p \in 0 .. cfg.pages - 1}
    /\ inorder /\ ~gaveUp => \A c, d \in Outstanding :
        c # d => PagesOf(c) \cap PagesOf(d) = {}

\* Data buffer and list pool are freed before the queue is deleted, or by the
\* exit of a failed CUDA_CHECK with the queue still there; no command is about
\* then, unless the last kernel gave up, or died, and left one behind.
QuietWhenFreed == Outstanding # {} /\ "data" \notin bheld => gaveUp

Released ==
    \/ bheld = {}
    \/ ret = 1 /\ bheld \in {{"arr1", "arr2"}, {"rings"}, {"rings", "enabled"}}

\* The program ends, although the controller may never answer, and unless a
\* CUDA_CHECK ended it, it has released what it had, but for the two arrays that
\* the goto to cleanup_hw passes over, and what a failed gpunvme_ctrl_init left:
\* nothing shuts that controller down.
BenchEnds == <>(bpc = "aborted" \/ (bpc = "exited" /\ Released))
=============================================================================
