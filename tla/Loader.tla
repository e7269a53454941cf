------------------------------- MODULE Loader -------------------------------
(***************************************************************************)
(* The layer loader as its owner uses it (src/host/layer_loader.cu,         *)
(* src/host/monitor.c): one owner thread builds the loader up, loads layers *)
(* into pinned memory or through BAR1 into VRAM, runs a fatal-status        *)
(* monitor beside it and tears the loader down; the monitor thread and the  *)
(* controller run on their own.  What the kernel does with the PRPs is      *)
(* LayerLoad's subject; here a launch ends well or badly.                   *)
(*                                                                         *)
(* The owner keeps the calling protocol of the tests: it destroys a loader  *)
(* whose init succeeded and no other, after it stopped the monitor and      *)
(* freed its VRAM buffer, and never loads more than a buffer holds.         *)
(***************************************************************************)
EXTENDS LoaderLife, LoaderPrp, Bar1, Monitor

CONSTANTS
    Pinned,       \* pinned buffers: sequences of physical pages, 0 where absent
    LayerBlocks,  \* sizes of layers, in blocks
    VramBase      \* bus address of GPU page f is VramBase + f

\* A layer of no bytes is refused by both functions.
ASSUME LayerAssumption ==
    LayerBlocks \subseteq Nat \ {0} /\ Pinned \subseteq Seq(Nat) /\ VramBase \in Nat

vars == <<lifeVars, prpVars, bar1Vars, monVars>>

Init == LifeInit /\ PrpInit /\ Bar1Init /\ MonInit

\* The owner is between two calls, and has a loader.
Idle  == lpc = "up" /\ owner # "stopping"
Still == UNCHANGED <<bar1Vars, monVars>>

----------------------------------------------------------------------------
(* gpunvme_layer_loader_init and gpunvme_layer_loader_destroy *)

\* The owner does not go on after an init that left something behind.
CleanStart == leaks = {}

\* The controller was reset on the way.
Start ==
    /\ CleanStart /\ InitOk /\ CtrlReset
    /\ UNCHANGED <<prpVars, bar1Vars>>

StartFails ==
    /\ CleanStart
    /\ \E k \in 1 .. Len(Steps), left \in CtrlLeaves : InitFails(k, left)
    /\ Still /\ UNCHANGED prpVars

Stop ==
    /\ Idle /\ owner = "none" /\ vbuf = NoBuf
    /\ Destroy
    /\ Still /\ UNCHANGED prpVars

ReleaseStep == Release /\ Still /\ UNCHANGED prpVars

FinishStep ==
    /\ Finish
    /\ bar1_fd' = FALSE /\ DropPrps
    /\ UNCHANGED <<vmem, vbuf, found, monVars>>

----------------------------------------------------------------------------
(* gpunvme_load_layer and gpunvme_load_layer_vram *)

Refused(blocks) == NCommands(blocks) > MaxCommands

Load(addr, blocks, want) ==
    /\ BuildPrps(addr, blocks, LayerPages(blocks))
    /\ StartJob(blocks, want)
    /\ lpc' = "call"
    /\ UNCHANGED <<held, fields, todo, stray, leaks>> /\ Still

PinnedAddr(b) == [g \in 0 .. Len(b) - 1 |-> b[g + 1]]

LoadPinned(b, blocks) ==
    /\ Idle /\ ~Refused(blocks) /\ LayerPages(blocks) <= Len(b)
    /\ \A g \in 0 .. LayerPages(blocks) - 1 : PinnedAddr(b)[g] # 0
    /\ Load(PinnedAddr(b), blocks, PinnedAddr(b))

\* Page g has no physical address: GPUNVME_ERR_DMA, with the entries of the
\* pages before it already written.
LoadPinnedFails(b, blocks, g) ==
    /\ Idle /\ ~Refused(blocks) /\ LayerPages(blocks) <= Len(b)
    /\ g < LayerPages(blocks) /\ PinnedAddr(b)[g] = 0
    /\ \A h \in 0 .. g - 1 : PinnedAddr(b)[h] # 0
    /\ BuildPrps(PinnedAddr(b), blocks, g)
    /\ UNCHANGED <<lifeVars, job>> /\ Still

\* chunk_phys + p * page_size, from the address the last resolve gave
VramAddr == [g \in 0 .. Size(vbuf) - 1 |-> VramBase + found.at + g]

LoadVram(blocks) ==
    /\ Idle /\ bar1_fd /\ found.ok /\ ~Refused(blocks)
    /\ LayerPages(blocks) <= Size(vbuf)
    /\ Load(VramAddr, blocks, [g \in DOMAIN vbuf |-> VramBase + vbuf[g]])

\* The arguments are rejected and nothing is touched: too large a layer, or a
\* VRAM load before gpunvme_bar1_init.
LoadRefused(blocks) == Idle /\ (Refused(blocks) \/ ~bar1_fd) /\ UNCHANGED vars

\* The kernel ends, with an error or not.  The data of a VRAM load has
\* overwritten the patterns in the pages it reached.
Targets == UNION {{MovesTo(i)[p] : p \in DOMAIN MovesTo(i)} : i \in 0 .. job.n - 1}

LoadReturns(moved) ==
    /\ lpc = "call" /\ lpc' = "up" /\ moved \subseteq Targets
    /\ job' = NoJob
    /\ vmem' = [f \in VFrames |-> IF VramBase + f \in moved THEN 0 ELSE vmem[f]]
    /\ UNCHANGED <<held, fields, todo, stray, leaks, pool, prp1, prp2,
                   bar1_fd, vbuf, found, monVars>>

----------------------------------------------------------------------------
(* BAR1: the owner's calls *)

OpenBar1 ==
    /\ Idle /\ Bar1InitOk
    /\ held' = held \cup {"bar1"} /\ fields' = fields \cup {"bar1"}
    /\ UNCHANGED <<lpc, todo, stray, leaks, prpVars, monVars>>

Vram ==
    /\ Idle
    /\ \/ Bar1InitFails
       \/ \E b \in Placements : VramAlloc(b)
       \/ VramFree
       \/ \E skip \in {{}} \cup {{w} : w \in Windows}, looked \in BOOLEAN :
            Bar1Resolve(skip, looked)
    /\ UNCHANGED <<lifeVars, prpVars, monVars>>

----------------------------------------------------------------------------
(* The monitor *)

MonOwner == /\ Idle
            /\ MonitorStart \/ MonitorStartFails \/ MonitorStop
            /\ UNCHANGED <<lifeVars, prpVars, bar1Vars>>
MonStep  == MonThread /\ UNCHANGED <<lifeVars, prpVars, bar1Vars>>
MonJoin  == MonitorJoin /\ UNCHANGED <<lifeVars, prpVars, bar1Vars>>
Fatal    == "ctrl" \in held /\ CtrlFatal /\ UNCHANGED <<lifeVars, prpVars, bar1Vars>>

----------------------------------------------------------------------------
Next ==
    \/ Start \/ StartFails \/ Stop \/ ReleaseStep \/ FinishStep
    \/ \E b \in Pinned, blocks \in LayerBlocks :
        \/ LoadPinned(b, blocks)
        \/ \E g \in 0 .. Len(b) - 1 : LoadPinnedFails(b, blocks, g)
    \/ \E blocks \in LayerBlocks : LoadVram(blocks) \/ LoadRefused(blocks)
    \/ \E moved \in {{}, Targets} : LoadReturns(moved)
    \/ OpenBar1 \/ Vram
    \/ MonOwner \/ MonStep \/ MonJoin \/ Fatal

\* The operating system runs the monitor thread, and a join returns when the
\* thread has ended.  Nothing makes the owner call, or a kernel end.
Fairness == WF_vars(MonStep) /\ WF_vars(MonJoin)

Spec == Init /\ [][Next]_vars /\ Fairness

----------------------------------------------------------------------------
(* Properties *)

\* A loader that is up has all its resources and pointers; one that is not
\* keeps no pointer to BAR0 (gpunvme_layer_loader_init, _destroy).
TypeOK ==
    /\ held \cup fields \subseteq Resources \cup {"bar1", "rings"}
    /\ lpc \in {"none", "unwind", "up", "call", "teardown"}
    /\ mth \in {"none", "check", "read", "report", "sleep", "done"}
    /\ vmem \in [VFrames -> 0 .. 2]
    /\ lpc \in {"up", "call"} => Resources \subseteq held /\ fields = held
    /\ lpc = "none" => fields \cap {"map", "fd"} = {}

\* No resource outlives what it is built on, at any point of either cleanup:
\* the mapping goes after its CUDA registration and after the controller that
\* is driven through it, the queue pair before the controller.  Not so when
\* gpunvme_ctrl_init fails with the controller enabled, which nobody disables.
\* The monitor thread, too, reads its register only while BAR0 is mapped.
BuiltOnHeld ==
    /\ \A r \in held : Needs(r) \subseteq held \/ r \in leaks
    /\ mth = "read" => "map" \in held

\* A cleanup releases only what is held: the labels of init test the pointers
\* set so far, destroy those of a loader that is up.  And it releases all of
\* it but what is known to be left behind: the parameter block when the result
\* block cannot be allocated, the admin rings and the enabled controller when
\* gpunvme_ctrl_init fails itself.
ReleasedOnce == ~stray /\ (lpc = "none" => held \subseteq leaks)

\* While the kernel runs, every command's PRPs lead to the pages its data
\* belongs in, although lists and arrays still hold the entries of earlier
\* loads, half-built ones included.  For VRAM: provided the buffer is
\* contiguous and no old pattern was about when it was resolved.
PrpsDescribeChunks ==
    lpc = "call" /\ (job.want[0] >= VramBase => found.fresh /\ Contiguous) =>
        \A i \in 0 .. job.n - 1 : \A p \in 0 .. job.pages[i] - 1 :
            MovesTo(i)[p] = job.want[i * CmdMax + p]

\* gpunvme_bar1_resolve returns the address of the buffer it was asked about,
\* in whichever window it lies and whichever windows could not be mapped, and
\* if the midpoint could be looked at it is where the address says: unless a
\* pattern from an earlier resolve is still in memory.
ResolvedIsBuffer ==
    found.ok /\ found.fresh =>
        /\ found.at = vbuf[0]
        /\ found.checked => vbuf[Midpoint] = found.at + Midpoint

\* A fatal status that a monitor could see is flagged, unless the owner stops
\* the monitor first; the callback is called at most once per monitor, with the
\* flag set for the owner to see.
FatalReported ==
    /\ (cfs /\ owner = "started") ~> (fatal_detected \/ owner # "started")
    /\ [](callbacks <= 1 /\ (callbacks = 1 => fatal_detected))

\* gpunvme_monitor_stop returns.
StopReturns == owner = "stopping" ~> owner = "none"
=============================================================================
