# gpu-nvme-direct: TLA+ models, checks and proofs

gpu-nvme-direct lets a CUDA kernel drive an NVMe controller: the GPU writes
submission entries, rings doorbells and polls completions itself, and the host
only sets the controller up. This directory models that path, checks it with
TLC on small instances and proves the central results with TLAPS for all sizes.

## 1. Inventory

| Part | Source | State | Operations | Interaction |
|---|---|---|---|---|
| GPU queue state | `src/device/queue_state.cuh`, `doorbell.cuh`, `mmio_ops.cuh` | tail, head, phase, identifier counter | advance, next cid, room | used by every kernel |
| Submission, polling | `src/device/sq_submit.cuh`, `cq_poll.cuh` | ring entries, clock | submit read/write, poll any, poll for a cid | stores + fence + doorbell to the controller, CQEs back |
| Block I/O kernels | `src/device/block_io.cu` | blocks done, result | read, write | one command at a time, `cq_poll_for_cid` |
| Simulator | `src/sim/nvme_sim.c` | virtual device, its ring positions, thread | create, poll, process, destroy | concurrent host thread on the same memory |
| Layer loader | `src/host/layer_loader.cu` | PRP pool, params, result, queue, BAR1 descriptor | init, load, load to VRAM, BAR1 init and resolve, destroy | pipelined kernel, any completion counts |
| Controller management | `src/host/controller.c`, `admin.c` | registers, admin rings, identify data | init, admin submit, shutdown | MMIO with a controller that acts on its own |
| I/O queue pair | `src/host/io_queue.c` | ring memory, controller's queues | create, delete | several admin commands in a row |
| DMA and PRP | `src/host/dma_alloc.c` | PRP lists | alloc, build, free | physical addresses for commands |
| Monitor | `src/host/monitor.c` | two flags, a thread | start, stop | reads CSTS |
| BAR mapping, PCI | `src/host/bar_map.c`, `pci_util.c` | a mapping | map, register, unmap | sysfs |
| Kernel module | `kmod/` | device list, open files, DMA mappings | load, unload, probe, remove, open, mmap, ioctl, map, unmap, free callback | user processes, NVIDIA driver |
| GPU-direct benchmark | `bench/bench_gpu_direct.cu` | ladder of resources, LBA and PRP arrays | set up, warm up, measure, clean up | pipelined kernel, one buffer slot per operation in flight |

What is hard: the order in which the GPU's stores and its doorbell become
visible; rings that wrap with only a phase bit to tell laps apart; out-of-order
completions that the loader counts without looking at them; time-outs that
leave commands in flight and the reuse of the queue afterwards; a controller
that resets, fails and answers in its own time; multi-step creation that fails
half-way. `PROJECT.json` lists the main hazards at their lines, section 3 the
smaller ones met on the way.

What makes the parts correct:

* *submission*: no entry is overwritten before it is fetched, none is fetched
  before it is complete;
* *loader*: GPUNVME_OK means the requested blocks, all and only they, are in
  the caller's buffer; the queue is empty between calls;
* *block I/O*: the blocks a kernel reports done agree between buffer and
  device; only blocks some caller asked to write ever change; kernels return;
* *polling*: no early time-out, no endless wait;
* *controller*: an answer is the answer to the command waited for; parsed data
  is the controller's; the controller's queues lie in live memory;
* *DMA and PRP*: what the controller reads out of PRP1, PRP2 and the list are
  the pages the data belongs in, although lists are reused; every error path
  undoes what its step had done, in order;
* *loader's life*: init and destroy release everything, once, and nothing
  before what depends on it; a resolved VRAM address is the buffer's;
* *monitor*: a fatal status is reported, once; stop returns; the registers are
  read only while they are mapped;
* *BAR mapping*: released once, structure and process agree;
* *kernel module*: pinned GPU memory is released exactly once, a handle names
  the mapping it was given for, load, probe and remove leave nothing behind,
  users keep their device unless it is unbound under them;
* *benchmark*: success means that every operation ran once; operations in
  flight do not share a slot; the program ends and releases what it has.

## 2. Modules

```
NvmeQueue --+-- LayerLoad --+-- LayerLoadInv ------+-- MCLayerLoad
            |               |                      +-- LayerLoadProofs
            |               +-- LayerLoadRefines --+
            |                     (of AtomicRead)
            +-- GpuBlockIo --+
            +-- NvmeSim -----+-- SimPath --+-- MCSimPath
            |                              +-- SimPathProofs
            +-- Controller -- ControllerProofs
PrpList ----+-- HostDma (with BarMap) --+-- MCHostDma
            |                           +-- HostDmaProofs
            +-- Bench --+-- MCBench
            |           +-- BenchProofs
            +-- LoaderPrp --+
                LoaderLife -+-- Loader --+-- MCLoader
                Bar1 -------+            +-- LoaderProofs
                Monitor ----+
CqPoll -- CqPollProofs
KmodDma --+-- MCKmodDma
          +-- KmodDmaInv -- KmodDmaProofs
```

`...Inv` and `...Proofs` hold inductive invariants and theorems (section 4); the
other modules are models or instances of them.

* **NvmeQueue** - ring arithmetic: `AdvanceSqTail`, `AdvanceCqHead`,
  `AdvanceCqPhase`, `NextCid`, `SqHasRoom`. Sizes and the identifier modulus
  are constants (64 or 32 entries and 2^16 in the code).
* **LayerLoad** - `gpunvme_load_layer` and `gpu_layer_read`. Host:
  `LoadRefused`, `LoadUnmapped`, `LoadOnDeadGpu`, `Launch`, and `LaunchRefused`,
  a launch CUDA refuses without anybody noticing. Kernel:
  `SubmitRead`, `PollSuccess`, `PollError`, `PollTimeout`, `KernelDone`,
  `KernelDies`. Controller (external): `DevFetch` in ring order,
  `DevTransfer`, `DevComplete` and `DevFail` in any order. A buffer is a
  sequence of chunks, one per command, and a chunk holds the LBA range read
  into it. Counts are taken modulo `CountMod`, as the code's 32 bits do. `desync`
  remembers that a call returned with commands in flight, `ran` that its kernel
  was launched.
* **AtomicRead, LayerLoadRefines** - what a caller relies on, without queues
  and commands: a load is refused or begins, and is answered once; an answer of
  OK comes with exactly the blocks asked for and they stay until the next call
  (`Unlaunched`: or with none of them, when the launch was refused).
  `LayerLoadRefines` instantiates it with what a caller sees of `LayerLoad` and
  states the refinement, `ImplementsAtomicRead`. From the moment a load is
  abandoned with commands in flight the abstract specification promises nothing
  about the data (`abandoned`), as the code does.
* **GpuBlockIo, NvmeSim, SimPath** - the read and write kernels and the
  simulator thread, composed on shared memory. The GPU's stores wait in `sb`
  and land in any order until the fence; the simulator writes a completion in
  two steps, the phase bit last. The caller reuses queue and buffer after
  time-outs. The simulator is created step by step (`SimCreate`,
  `SimCreateFails`) and freed (`SimFree`) after its thread was joined. `asked`
  remembers the blocks callers asked to write. The simulator's range check is
  done modulo `LbaMod`, as in 64 bits.
* **CqPoll** - the deadline arithmetic of `cq_poll_for_cid` with an explicit
  clock; the ring is reduced to what arrives in front of the awaited entry.
* **Controller** - initialisation, admin commands, creation and deletion of a
  queue pair and shutdown, as one host thread that waits at `pc`; the
  controller (external) has a state (`off`, `starting`, `ready`, `stopping`),
  latches rings when it becomes ready and loses everything on reset. Address
  lookups may fail unnoticed (`Lookup`; `blind` remembers for which buffers), and
  the controller then moves nothing to or from them. `masked` remembers that an error with status code 0 was taken for success since the
  last enable, `leak` that queue memory was freed under the controller.
* **PrpList** - the writer of PRPs as the code has it three times (`ListSlot`,
  `Prp2For`) and the reader as the NVMe controller is (external, `Pages`):
  entries in order, the last entry of a full list page being the next page of
  the list. Each user compares what the reader finds with where the data
  belongs.
* **HostDma, BarMap** - `dma_alloc.c` over a page table: address lookup,
  allocation of a list step by step (`Memalign`, `Mlock`, `Register`,
  `ListLookup`), its three error paths (`UndoFrom`) and its release over the same
  steps backwards, `PrpListBuildOk`, `PrpListBuildFails` at each page (which leaves
  PRP1 and the head of the list new and the rest old), free, host and GPU
  buffers; `bar_map.c` with each failure and an owner that may unmap after it.
  One command at a time is submitted and the controller reads its list when it
  likes.
* **LoaderLife** - `gpunvme_layer_loader_init` as a ladder of steps that can
  each fail, `Unwind` the releases of its label, `destroy` the same one by one,
  each testing its pointer or flag when its turn comes (`Released`);
  `stray` remembers a release of something not held, `leaks` what a failed
  init is known to leave behind, among it what a failing `gpunvme_ctrl_init`
  leaves (`CtrlLeaves`: admin rings, an enabled controller).
* **LoaderPrp** - the PRP loops of both load functions (`BuildPrps`) over the
  pool and arrays that every load reuses. One list page per command is enough
  only up to MDTS 9, which the code does not check (`MdtsAssumption`).
* **Bar1** - the VRAM path's address discovery: a pattern is written into the
  buffer, BAR1 is scanned window by window for it, and the page in the middle
  is looked at to see whether the buffer is contiguous.
* **Monitor** - `monitor.c`: the two flags, the thread's loop step by step,
  stop and join, the controller's fatal status.
* **Loader** - the four above under one owner that keeps the calling protocol
  of the tests and headers; what the kernel does with the PRPs is `LayerLoad`'s
  subject.
* **Bench** - `bench_gpu_direct.cu` on hardware: set-up, warm-ups, measured
  launch, `bench_read_pipelined`, clean-up, exit. `SetupFails` is a set-up step
  that fails and, for `gpunvme_ctrl_init`, what it leaves; `KernelDies` a kernel
  whose error the CUDA_CHECK after it reports; `LaunchRefused` a launch nobody
  checks. The controller (external)
  fetches in order and completes in any order, or never.
* **KmodDma** - the kernel module for one device. `LoadOk`, `LoadFails`,
  `UnloadStart`, `UnloadEnd` are `gpunvme_init` and `gpunvme_exit`, `Open`,
  `Mmap`, `Munmap`, `Close` the character device. `ProbeStart`, `ProbeStep`,
  `ProbeFails` walk `gpunvme_pci_probe` and its error labels (`Ladder`,
  `FailLabel`, `Undo`); `Map...` are the steps of `gpunvme_gpu_mem_map` between
  which other threads run, `Unmap...` those of `gpunvme_gpu_mem_unmap`, which
  the removal (`RemoveStart`, `RemoveScan`, `RemoveEnd`) uses too;
  `FreeCallback` is the application freeing pinned memory. The NVIDIA driver
  (external) is a state per pin. `Overlap` says whether a removal or a free may
  coincide with an ioctl on the same slot, `met` remembers that one did.

Abstractions common to all: payloads are model values; log output, throughput
figures and strings are left out; a command's PRPs are the chunk or buffer
offset they point to. Operators named after a defect (`...NoWrap`,
`...Skipped`, ...) are variants used to show that the properties depend on the
code; no specification uses them.

## 3. Runs

| Run | Instance | Shows |
|---|---|---|
| `layer_load` | rings of 3, pipeline 2, up to 4 commands with a short last one, 2 calls, all faults | `OkMeansLoaded`, `QuietBetweenCalls`, `SubmitHasRoom`, `CidsDistinct`, `ImplementsAtomicRead`, types |
| `layer_load_live` | rings of 4, pipeline 3, up to 5 commands, no faults, fair | `LoadCompletes` |
| `layer_load_rolls` | rings of 4, pipeline 3, up to 4 commands, time-outs | **violated**: `OkMeansLoadedAlways` |
| `sim_path` | rings of 4, a device of 6 blocks, a buffer of 4, 2 blocks per page, 3 calls, 2 time-outs, fair | `CopiedAsSubmitted`, `DoneBlocksAgree`, `WrittenIsCallers`, `SimMemoryHeld`, `OnlyAskedWritten`, `IoReturns`, `SubmittedIsExecuted` |
| `cq_poll` | timeouts 0, 2, 5; ticks of 1 to 3; up to 3 foreign completions | `NoEarlyTimeout`, `ReturnsOnTime`, `ReturnsUnlessLost` |
| `controller` | submission ring of 2, completion ring of 3, 2 identifiers, 2 initialisations, error codes 0 and 1 of every admin command, all faults, 1 abandoned command, failed lookup or error taken for success at a time | `AnswersAreMine`, `IdentifiedIsReal`, `QueuesBacked`, `CreatedMeansCreated` |
| `controller_reset` | rings of 3, 2 initialisations, no faults | **violated**: `EnableAfterReset` |
| `kmod` | 2 threads (symmetric), 2 slots, 2 pins, 3 probes of which 2 get an index, `Overlap` = {"remove", "free"} | `ReleasedOnce`, `HandleNamesMapping`, `RemovedMeansReleased`, `AllOrNothing`, `UsersHaveDevice` |
| `kmod_removal` | 2 pins, 1 probe, `Overlap` = {"remove"} | **violated**: `RemovedMeansReleasedAlways` |
| `loader` | commands of 3 pages of 2 blocks, 2 commands, layers of 3, 8 and 13 blocks (the last refused), 2 pinned buffers of which one lacks a page, 4 GPU pages in windows of 2, 4 placements, all faults, fair | `BuiltOnHeld`, `ReleasedOnce`, `PrpsDescribeChunks`, `ResolvedIsBuffer`, `FatalReported`, `StopReturns` |
| `host_dma` | 2 entries per list page, areas of 4 and 2 pages, 2 page tables, lists for 1 and 4 pages, 2 commands, all faults | `DataReachesArea`, `AllocsAccounted`, `BarReleasedOnce` |
| `bench` | depths 1, 2, 3, 5; 4 operations of 1 to 3 pages; controllers with rings of 2, 3, 8; 2 warm-ups, all faults, refused launches, fair | `SuccessMeansRead`, `RingHasRoom`, `SlotsDistinct`, `QuietWhenFreed`, `BenchEnds` |

**Types.** Every module states its type invariant `TypeOK`, next to its other
properties. The run checks `LayerLoad`'s; it is proved there and in `SimPath`,
`Controller`, `KmodDma`, `HostDma`, `Loader` and `Bench`, as is what
`CqPollProofs` needs of `CqPoll`'s.

**Bounds.** Every ring wraps at least once with commands around the wrap:
calls times commands exceed the ring size in each instance. Two loads are
enough for what one leaves behind to meet the next; three kernels in `sim_path`
let completions of two abandoned ones be discarded by the third. `MaxTimeouts`
stays below `SqSize - 1` there: with as many abandoned commands as free slots
the tail meets the simulator's head and the ring looks empty, the known
consequence of never asking for room (`CapacityAssumption`). In `CqPoll` times are cut off at
`Horizon`, past which no comparison changes, so the cut-off loses nothing.
In `KmodDma` two slots for two threads make the slots run out, and two pins
let a slot be used again after a release or a free, or both be filled at once.
In `Loader` a command of 3 pages uses a list, one of 2 the second entry, one of
1 neither, and loads of all three follow each other in the same pool; four GPU
pages in two windows let a buffer lie across windows, and leave room for an old
pattern. In `HostDma` two entries per list page make a four-page transfer need
a second list page. In `Bench` the depth of 5 does not fit the queue size's
type (`WordMod` 6 for 2^16), and rings of 2 and 3 are at and below the depth.
`CountMod` (32) and `LbaMod` (16) stand for 2^32 and 2^64; requests stay below
them, as real ones do, which `CountAssumption` and `LbaAssumption` say.
`MaxUpsets` keeps abandoned commands, failing lookups and code-0 errors from
piling up in `Controller`: one at a time is enough for each of the exceptions the
properties make, and the theorems of section 4 have any number.
`Bench`'s operations are whole pages and its random reads all arrays of LBAs.
`Loader` has no bound on calls; all its histories are sets or flags.
Ring sizes and identifier moduli are small; where both wrap, the instance goes
past both. Deadlock checking is off where the bound on calls ends the behaviour or
the simulator may be destroyed.

**Fairness.** `LayerLoad`: weak fairness of the kernel, one resident GPU thread
that nothing preempts for good, and of the controller as a whole. `SimPath`:
the same of the GPU thread and of the simulator's thread; the caller is under
no obligation. `CqPoll`: only of the poller; the controller may never answer.
`Loader`: of the monitor's thread, which the operating system runs, and of the
join; nothing makes the owner call or a kernel end. `Bench`: of the host thread
and of the kernel, whose polls have a deadline; the controller need not answer,
and no kernel need die.
`Controller`, `HostDma` and `KmodDma` are checked for safety only.

### What the violated runs show

1. `layer_load_rolls` - after a load that timed out or failed, the commands
   left in flight complete during the next load, which counts them as its own
   and returns GPUNVME_OK for a layer with missing parts.
   `layer_loader.h` says "Queue state rolls naturally between calls."
2. `controller_reset` - shutdown does not wait for RDY = 0 and init waits only
   if it finds EN = 1, so a prompt re-initialisation enables a controller that
   is still resetting and accepts its old RDY. The same happens on the second
   attempt after a fatal status. `docs/safety.md`: "CC.EN=0 -> wait RDY=0 ->
   reinitialize".
3. `kmod_removal` - unbinding the device while another thread is inside the
   mapping ioctl: `gpunvme_gpu_mem_unmap_all` finds the slot claimed but not yet
   filled, releases nothing, and the context is freed with the pages pinned.
   `gpunvme_dma.c`: "to ensure all GPU memory is released".

### Seen while modelling

Behaviour of the code that the models follow and that the properties name as
their exceptions or premises:

* *polling*: if the clock reads exactly `timeout_cycles`, the inner poll is
  given 0 cycles, its code for "spin forever" (`cq_poll.cuh:119`;
  `docs/safety.md:47` says "All polling loops have bounded timeouts").
  `ReturnsUnlessLost` excepts it.
* *controller*: `gpunvme_admin_submit` masks the status code type, so that an
  error of type 1 and code 0 counts as success (`controller.c:262`; `masked`);
  a failed address lookup is ignored for the identify buffers and the queue
  rings, so that the controller is given address 0 and an unfilled buffer is
  parsed (`controller.c:161`, `:208`, `io_queue.c:102`; `blind`);
  a failed identify is ignored and leaves limits of 0, by which the loader
  divides (`controller.c:166`); the last allocation of
  `gpunvme_create_io_queue` fails after both queues exist, whose memory is then
  freed under the controller (`leak`); `gpunvme_ctrl_shutdown` deletes no queues
  although its header lists it.
* *loader*: when the result block cannot be allocated the parameter block is
  leaked (`layer_loader.cu:230`); when `gpunvme_ctrl_init` fails the admin rings
  are leaked and, late enough, the controller stays enabled (`:187`); a launch
  that CUDA refuses gives GPUNVME_OK with nothing read (`:353`; `ran`); a destroy after a failed init would free
  twice (`:668`); MDTS of 10 or more overruns the list page (`:326`);
  `gpunvme_bar1_resolve` looks only at the midpoint although
  `layer_loader.h:111` says "Verifies physical contiguity.", and a pattern left
  by an earlier resolve misleads the scan (`found.fresh`).
* *DMA*: a host buffer whose address is not found gets its virtual address
  (`dma_alloc.c:90`); without CAP_SYS_ADMIN frame 0 is accepted (`:62`); lists
  of more than a page are not chained (`:146`); GPU memory gets address 0, never
  the GPUNVME_ERR_P2P that `dma.h:44` promises.
* *BAR mapping*: after a failed mmap the closed descriptor stays in the
  structure and an unmap closes it again (`bar_map.c:70`, `closedEarly`).
* *benchmark*: slots are reused by count, right only for in-order completion
  (which the comment at line 67 takes for granted); the depth is not clamped
  with the queue size; the `goto` to `cleanup_hw` leaks two arrays; a failing
  `CUDA_CHECK`, a dead kernel's among them, exits with the controller running; a
  `gpunvme_ctrl_init` that fails late leaves it enabled; a refused launch gives
  exit status 0 with no operation done (`Refused`); sequential reads wrap at a
  size that need not be a multiple of an operation. In `bench_cpu_pinned.cu`
  every copy is waited for although its comment speaks of overlap.
* *kernel module*: a free callback that meets an ioctl leads to a second
  release, because it clears a slot that a map is filling or an error path is
  about to put (`ReleasedOnce` says that nothing else does); an unbind takes the
  device from under its open files and mappings (`UsersHaveDevice` says that
  nothing else does); device indices are never reused.
* *what the exceptions hide*: a read abandoned by a time-out still lands in a
  buffer its caller may since have filled for a write (`block_io.cu:91`, `late`);
  a PRP list whose rebuild failed half-way is never submitted by the model's
  application (`dma_alloc.c:224`); the PRP pool is freed before the queue that
  may still read it (`layer_loader.cu:681`), harmless while the queue is idle.
* *not in the models*: MQES of 0xFFFF wraps to a limit of 0 entries
  (`controller.c:60`); a list page whose address cannot be resolved is used as
  address 0 (`layer_loader.cu:309`); a second `gpunvme_bar1_init` loses the
  descriptor of the first (`:448`); a load after one that timed out rewrites
  list pages old commands may still read (`:326`); an unmap by the handle of
  memory since freed releases whatever mapping has the slot now
  (`gpunvme_dma.c:186`); a monitor whose thread was not created must not be
  stopped (`monitor.c:74`). The models' owners avoid these calls, as the
  callers in the repository do.
* *elsewhere*: the write kernel checks no LBA range although `docs/safety.md`
  asks for it; identifiers can repeat in flight when one command is overtaken
  by 65535 others, in one load of more than 2^16 commands or after a time-out.

## 4. Proofs

Every theorem holds for all values of the constants that satisfy the named
ASSUMEs, which TLC evaluates on the instances of section 3. Each inductive
invariant was checked with TLC on such an instance before it was proved.

**LayerLoadProofs**, for all ring sizes of at least 2, pipeline depths below
the ring size, block and transfer sizes, requests and fault sets (the named
ASSUMEs of `NvmeQueue` and `LayerLoad`; that the depth is below the ring is the
loader's clamp to 60 against the 64 entries it asks for, hence also an
assumption on CAP.MQES):

* `TypeCorrect`: types; `Invariance`: the inductive invariant `IInv`;
* `QuietTheorem`, `RoomTheorem`, `OkMeansLoadedTheorem`: `QuietBetweenCalls`,
  `SubmitHasRoom`, `OkMeansLoaded`.

The properties are not inductive: "all completions were counted" says nothing
about which commands they belong to. `IInv` (in `LayerLoadInv`) adds, for a
run that is in step, that the window of the SQ, the fetched, the transferred,
the posted and the taken commands partition 0 .. submitted - 1 (`CountInv`,
`SqInv`, `DeviceInv`, `CqInv`), that entries outside the posted window carry
the other phase (`RingInv`), and that exactly the transferred chunks hold
their data (`BufInv`). Taking a completion moves one number from posted to
taken; when n are taken, by cardinality all of 0 .. n-1 are, and
`ChunksMakeLayer` puts the chunks together to the layer. The division by
`BlocksPer` this needs is isolated in `DivMod`, `MulOrder`, `CommandsCover`.

From the same invariant follow `RefinementTheorem`
(`ImplementsAtomicRead`: initial states map to initial states, a refusal, a
launch and an answer to the abstract one, everything else to a stutter; the
answer of OK needs `IInv` for the blocks, and `RefusalBound` relates the two
ways in which the loader and its abstraction count a request that is too
large), and `CidsTheorem` (`CidsDistinct`: identifiers are consecutive numbers
modulo `CidMod`, and a load has no more commands than there are identifiers).

**CqPollProofs**, for all timeouts and tick sizes: `NoEarlyTimeoutTheorem` and
`ReturnsOnTimeTheorem`. The invariant relates the two elapsed times:
`timeout - remaining + inner < elapsed <= timeout - remaining + inner + MaxTick`.

**SimPathProofs**, for all ring sizes, devices, buffers, page sizes, requests
and numbers of calls: `CopiedTheorem`, `AgreeTheorem`, `WrittenTheorem`,
`MemoryTheorem`, `OnlyAskedTheorem` and `TypeCorrect`. Requests do not wrap
(`LbaAssumption`). The other restriction is `CapacityAssumption`, which bounds the
kernels that give up by the room in the rings and in the identifiers: past it
the code itself loses commands. Slots, phases and identifiers are all counted
modulo something, and none of them alone says which command is meant. The
invariant therefore speaks of three natural numbers that the program does not
keep - S commands submitted, H answered, C consumed - and states everything as
a function of them (`CountInv`, `PosInv`, `SqInv`, `CqInv`): S - C is at most
the number of kernels that gave up plus the one waiting. Then the awaited
identifier can only be that of command S - 1, an entry with the expected phase
is one of C .. H - 1, and the slots written are not among those still needed
(`ModApart`). `DataInv` adds that the command of the current batch is the last
one, that it cannot touch the blocks of earlier batches, and that after its
success its blocks agree. `AskedInv` says of every write command still in the
ring, the simulator or the call that its range was asked for (`Covered`).

**ControllerProofs**, for all ring sizes, fault sets and any number of
initialisations and time-outs: `AnswersTheorem`, `IdentifiedTheorem`,
`BackedTheorem`, `CreatedTheorem` and `TypeCorrect`. The host compares no
identifiers, so an answer is its own only because nothing else can be on its
way: `SyncInv` says that since an enable that found the controller reset, there
is exactly the one command the host waits for, in the ring, at the controller or
answered, and none between commands. `QueueInv` derives from it which I/O queues
the controller has at each command of a creation or deletion. The exceptions are
those of the properties themselves (`desync`, `masked`, `leak`, `blind`).

**KmodDmaProofs**, for any number of threads, slots, devices and pins.
`AllOrNothingTheorem` and `TypeCorrect` hold for every `Overlap`, from
`LadderInv`: what is acquired follows from how far load or probe got.
So do `ReleasedOnceTheorem`, `HandleTheorem`, `RemovedTheorem` and `UsersTheorem`:
removals and callbacks come at any time, and the properties say what holds until
one of them meets a user or an ioctl at work (`met`), and what holds after it; that
not more does, `kmod_removal` shows. `UsersTheorem` rests on `HoldersInv`: a user holds a
count of the module from open to close, whatever happens to the device, and the
device goes only through a removal. The mappings need `MappingInv`, an invariant
as long as `met` is empty: most of a map runs
without `gpu_map_lock`, and what keeps threads apart is `in_use`, which makes a
slot the business of at most one thread (`OwnInv`), so that its contents follow
from where that thread is (`WorkInv`) and no pin is without a slot or a thread
that names it (`PinsInv`).

**LoaderProofs**, for every set of steps that may fail, every layer and buffer
size, every placement in VRAM and every MDTS that keeps a list to one page
(`MdtsAssumption`): `BuiltTheorem`, `ReleasedTheorem`, `PrpsTheorem`,
`ResolvedTheorem`, `TypeCorrect`, and `CallbackTheorem`, the safety half of
`FatalReported`. A cleanup is right because of what it has still to do:
`CleanupInv` says that all that is held and not known to leak is on the list,
once, after everything built on it, and that nothing else will be released.

**HostDmaProofs**, for every page table, layout and list size
(`TableAssumption`: address 0 is nobody's; `LayoutAssumption`: the allocators
hand out disjoint memory, and a caller passes an area it has): `DataTheorem`,
`AllocsTheorem`, `BarTheorem`, `TypeCorrect`. The invariant says of each step of
an allocation or a release what the list's memory is by then and who names it.
`DataReachesArea` speaks of the moment a command is executed, its reason is
older: the list described its area when it was built (`BuiltInv`), and nothing
changed it until, or while, the application waits (`CmdInv`).

**BenchProofs**, for every command line (`ConfigAssumption`: what `parse_args`
accepts; `MdtsAssumption`: a list fits one page), every limit of the controller,
queue-size width and number of warm-ups (`QueueAssumption`, `CountAssumption`)
and every fault set: `SuccessTheorem`, `RoomTheorem`, `SlotsTheorem`,
`QuietTheorem`, `TypeCorrect`, and `ExitTheorem`, the safety half of `BenchEnds`.
The kernel counts completions and does not look whose they are. `CountInv` says
that what waits in the ring, is at the controller, waits in the completion queue
or was taken is no more than what was submitted: a kernel that has counted all
its operations therefore leaves nothing behind (`QuietInv`), and a full ring
means a depth of at least the ring. `ReadInv` says that in the measured launch
the operations that ran are as many as the good completions taken or waiting, so
that when all are taken, by cardinality every operation ran. `OrderInv` says that
commands are fetched in the order of their operations, so that with completions
in order those outstanding lie in a window of the pipeline depth, whose numbers
differ modulo the depth (`ModApart`); `SlotInv` and `SlotsBuilt` lead from the
number to the pages, `RowUnique` from different slots to different pages. An
overrun loses commands; that is why `CountInv` is an inequality, and none of the
arguments needs more. `ReleaseInv`, an invariant of its own, says that what is
held is still on the clean-up list or was left by `gpunvme_ctrl_init`.

**Only model-checked**: all liveness (`LoadCompletes`, `IoReturns`,
`SubmittedIsExecuted`, `ReturnsUnlessLost`, `StopReturns`, and `FatalReported`
and `BenchEnds` but for their safety halves): fairness and ENABLED are outside
the prover's reach. Every safety property of the passing runs is proved.
`OkMeansLoadedAlways`, `EnableAfterReset` and `RemovedMeansReleasedAlways` are
violated.

## 5. Not modelled, and what could follow

Not modelled:

* `pci_util.c`: reads and writes sysfs files and keeps no state.
* The host benchmarks (`bench_cpu_pinned.cu`, `bench_cpu_memcpy.cu`,
  `bench_cufile.cu`) and `bench_common.h`: sequential loops around a timer that
  wait for each operation; what is left is statistics and output. Of
  `bench_gpu_direct.cu`: its simulator path, argument parsing and CSV.
* Tools, scripts and tests: run once from top to bottom; they were read for the
  calling protocols the models' owners keep.
* Simulator: getters, the BAR0 register image nobody reads back, the test
  helpers on an idle device. The PCIe flush (`pcie_flush_addr`) is always NULL.
* Kernel module: several devices at once (they share only the index counter)
  and the two ioctls that only read.
* Query functions of loader, monitor and controller: they change nothing.

No safety property of a passing run is left unproved. Two restrictions could be
lifted next: `MdtsAssumption`, by modelling what the writers of the lists do past
the end of a list page, and `CapacityAssumption` of `SimPath`, by saying which
commands are lost past it.
