------------------------------ MODULE KmodDma ------------------------------
(***************************************************************************)
(* The kernel module and one NVMe device: load and unload                   *)
(* (kmod/gpunvme_main.c), probe and remove (gpunvme_pci.c), the character   *)
(* device and its files (gpunvme_chrdev.c) and the mappings of GPU memory   *)
(* that processes make through ioctls (gpunvme_dma.c).                      *)
(*                                                                         *)
(* Threads that have the device open map and unmap concurrently.  Only the  *)
(* search for a slot, its release and the whole of an unmap are under       *)
(* gpu_map_lock; the rest of a map and the NVIDIA driver's free callback    *)
(* are not.  The driver (external) keeps one pin per successful             *)
(* nvidia_p2p_get_pages; a page table and its DMA mapping are named by it.  *)
(* Requests refused before they touch anything (bad address or size, no     *)
(* free slot, another device's BDF) change no state and are no actions.     *)
(***************************************************************************)
EXTENDS Naturals, Sequences, FiniteSetsExt

CONSTANTS
    Threads,     \* threads that call ioctl
    Remover,     \* the thread that runs gpunvme_pci_remove
    MaxMaps,     \* GPUNVME_MAX_GPU_MAPPINGS
    MaxDevices,  \* GPUNVME_MAX_DEVICES
    Overlap,     \* "remove": the device may be unbound while it is in use;
                 \* "free": GPU memory may be freed during an ioctl on its slot
    MaxPins,     \* bound: how often GPU memory is pinned
    MaxProbes    \* bound: how often the device is probed after a load

ASSUME ThreadsAssumption == Remover \notin Threads
ASSUME SizesAssumption == MaxMaps \in Nat \ {0} /\ MaxDevices \in Nat \ {0}
ASSUME OverlapAssumption == Overlap \subseteq {"remove", "free"}
ASSUME PinsAssumption == MaxPins \in Nat /\ MaxProbes \in Nat

VARIABLES
    mod,        \* "out", "in" or "going" (pci_unregister_driver has begun)
    modres,     \* what gpunvme_init has acquired and not given back
    held,       \* per thread: an open "file", a "bar" mapping made through one
    dev,        \* "unbound", "probing", "ready" or "removing"
    step,       \* probe: the next entry of Ladder
    res,        \* what probe has acquired and not given back
    dev_count,  \* gpunvme_dev_count
    gpu_maps,   \* the slots: in_use, page_table, dma_mapping
    locked,     \* gpu_map_lock
    th,         \* per thread: where it is, its slot and its local pointers
    known,      \* handles that user space holds
    pin,        \* the driver: state of each pin, and the slot its callback gets
    data,
    bad,        \* history: the driver was handed something it no longer has
    met         \* history: what has met a user of the device, a removal that is
                \* not an unload's or a callback for the slot a call is at work on

modVars == <<mod, modres>>
devVars == <<dev, step, res, dev_count>>
probeVars == <<modVars, held, devVars>>
vars == <<probeVars, gpu_maps, locked, th, known, pin, data, bad, met>>

Slots == 0 .. MaxMaps - 1
Pins  == 1 .. MaxPins
Null  == 0
All   == Threads \cup {Remover}

FreeSlot == [in_use |-> FALSE, page_table |-> Null, dma_mapping |-> Null]
Idle     == [pc |-> "idle", slot |-> 0, page_table |-> Null, dma_mapping |-> Null]

NoUsers == \A t \in Threads : held[t] = {}
Live(p)  == pin[p] \in {"pinned", "mapped"}

Init ==
    /\ mod = "out" /\ modres = {} /\ held = [t \in Threads |-> {}]
    /\ dev = "unbound" /\ step = 1 /\ res = {} /\ dev_count = 0
    /\ gpu_maps = [s \in Slots |-> FreeSlot] /\ locked = FALSE
    /\ th = [t \in All |-> Idle] /\ known = {}
    /\ pin = [p \in Pins |-> "unused"] /\ data = [p \in Pins |-> 0]
    /\ bad = FALSE /\ met = {}

----------------------------------------------------------------------------
(* Defects: a slot found free is not marked; pages whose DMA mapping failed *)
(* stay pinned; the callback leaves the slot as it is; a BAR0 that cannot   *)
(* be mapped is not released; the file operations name no owner, so that    *)
(* open files do not hold the module.                                       *)
ClaimedUnmarked(m) == m
AfterDmaFailureNoPut == "unclaim"
CallbackResultIgnored(m) == m
FailLabelLate(s) == CASE s \in {"index", "enable"} -> 4 [] s \in {"mask", "cdev", "node"} -> 1 [] OTHER -> 3
ModuleUnusedNoOwner == TRUE

----------------------------------------------------------------------------
(* gpunvme_init and gpunvme_exit *)

LoadSteps == <<"numbers", "class", "driver">>

\* What the labels release when a step fails: err_chrdev, and err_class above it.
LoadUndo(s) == CASE s = "numbers" -> {} [] s = "class" -> {"numbers"}
                 [] OTHER -> {"class", "numbers"}

\* The counter of devices is the module's own and starts again at 0.
LoadOk ==
    /\ mod = "out"
    /\ mod' = "in" /\ modres' = {LoadSteps[i] : i \in DOMAIN LoadSteps}
    /\ dev_count' = 0
    /\ UNCHANGED <<held, dev, step, res, gpu_maps, locked, th, known, pin, data, bad, met>>

LoadFails(k) ==
    /\ mod = "out"
    /\ modres' = {LoadSteps[i] : i \in 1 .. k - 1} \ LoadUndo(LoadSteps[k])
    /\ UNCHANGED <<mod, held, devVars, gpu_maps, locked, th, known, pin, data, bad, met>>

\* .owner = THIS_MODULE: every file, and every mapping made through one,
\* counts as a use of the module.
ModuleUnused == NoUsers

UnloadStart ==
    /\ mod = "in" /\ ModuleUnused
    /\ mod' = "going"
    /\ UNCHANGED <<modres, held, devVars, gpu_maps, locked, th, known, pin, data, bad, met>>

\* pci_unregister_driver has removed the device; class and numbers follow.
UnloadEnd ==
    /\ mod = "going" /\ dev = "unbound"
    /\ mod' = "out" /\ modres' = modres \ {"driver", "class", "numbers"}
    /\ UNCHANGED <<held, devVars, gpu_maps, locked, th, known, pin, data, bad, met>>

----------------------------------------------------------------------------
(* gpunvme_pci_probe *)

Ladder == <<"index", "enable", "region", "barsize", "iomap", "mask", "cdev", "node">>

Acquires(s) ==
    CASE s = "enable" -> {"enabled"}
      [] s = "region" -> {"region"}
      [] s = "iomap"  -> {"iomap", "master"}
      [] s \in {"cdev", "node"} -> {s}
      [] OTHER -> {}

\* err_unmap, err_release, err_disable, err_free: each falls through.
Undo == <<{"master", "iomap"}, {"region"}, {"enabled"}, {"ctx"}>>

FailLabel(s) ==
    CASE s \in {"index", "enable"} -> 4
      [] s = "region" -> 3
      [] s \in {"barsize", "iomap"} -> 2
      [] OTHER -> 1

\* gpunvme_chrdev_create takes its cdev back if there is no device node for it.
ChrdevUndo(s) == IF s = "node" THEN {"cdev"} ELSE {}

\* A fresh context takes an index, which is never given back.  Threads still
\* inside a call would be on the context of an earlier probe.
ProbeStart ==
    /\ mod = "in" /\ dev = "unbound" /\ dev_count < MaxProbes
    /\ NoUsers /\ \A t \in All : th[t] = Idle
    /\ dev' = "probing" /\ step' = 1
    /\ res' = {"ctx"} /\ dev_count' = dev_count + 1
    /\ gpu_maps' = [s \in Slots |-> FreeSlot] /\ locked' = FALSE
    /\ UNCHANGED <<modVars, held, th, known, pin, data, bad, met>>

IndexTooLarge == dev_count > MaxDevices

ProbeStep ==
    /\ dev = "probing"
    /\ Ladder[step] = "index" => ~IndexTooLarge
    /\ res' = res \cup Acquires(Ladder[step])
    /\ IF step = Len(Ladder) THEN dev' = "ready" /\ UNCHANGED step
                      ELSE step' = step + 1 /\ UNCHANGED dev
    /\ UNCHANGED <<modVars, held, dev_count, gpu_maps, locked, th, known, pin, data, bad, met>>

ProbeFails ==
    /\ dev = "probing"
    /\ Ladder[step] = "index" => IndexTooLarge
    /\ res' = res \ (ChrdevUndo(Ladder[step])
                         \cup UNION {Undo[l] : l \in FailLabel(Ladder[step]) .. 4})
    /\ dev' = "unbound"
    /\ UNCHANGED <<modVars, held, step, dev_count, gpu_maps, locked, th, known, pin, data, bad, met>>

----------------------------------------------------------------------------
(* The NVIDIA driver, external *)

\* nvidia_p2p_put_pages: the state of the pins, and whether the call is wrong
PutPages(p) == [q \in Pins |-> IF q = p THEN "put" ELSE pin[q]]
WrongPut(p) == p = Null \/ pin[p] # "pinned"

\* nvidia_p2p_dma_unmap_pages, likewise
DmaUnmapPages(p) == [q \in Pins |-> IF q = p /\ pin[q] = "mapped" THEN "pinned" ELSE pin[q]]
WrongUnmap(p) == pin[p] # "mapped"

At(t, where) == th[t].pc = where /\ dev \in {"ready", "removing"}
Goto(t, where) == th' = [th EXCEPT ![t].pc = where]
Mine(t) == gpu_maps[th[t].slot]

\* A thread with an open file makes one call at a time.
CanCall(t) == th[t].pc = "idle" /\ "file" \in held[t] /\ dev \in {"ready", "removing"}

----------------------------------------------------------------------------
(* gpunvme_open, gpunvme_mmap, gpunvme_release *)

Holds(t, h) ==
    /\ held' = [held EXCEPT ![t] = h]
    /\ UNCHANGED <<modVars, devVars, gpu_maps, locked, th, known, pin, data, bad, met>>

\* There is a node to open, and the module is not going.
Open(t) ==
    /\ "node" \in res /\ mod = "in" /\ "file" \notin held[t]
    /\ dev = "removing" => "remove" \in Overlap
    /\ held' = [held EXCEPT ![t] = held[t] \cup {"file"}]
    /\ met' = met \cup (IF dev = "removing" THEN {"remove"} ELSE {})
    /\ UNCHANGED <<modVars, devVars, gpu_maps, locked, th, known, pin, data, bad>>

\* A request within BAR0; one outside changes nothing.
Mmap(t) == CanCall(t) /\ "bar" \notin held[t] /\ Holds(t, held[t] \cup {"bar"})

Munmap(t) == "bar" \in held[t] /\ Holds(t, held[t] \ {"bar"})

\* The mappings of GPU memory made through the file stay.
Close(t) == th[t].pc = "idle" /\ "file" \in held[t] /\ Holds(t, held[t] \ {"file"})

File(t) == Open(t) \/ Mmap(t) \/ Munmap(t) \/ Close(t)

----------------------------------------------------------------------------
(* gpunvme_gpu_mem_map *)

Claimed(m) == [m EXCEPT !.in_use = TRUE]

\* The first free slot, under the lock.
MapClaim(t) ==
    /\ CanCall(t) /\ ~locked
    /\ LET free == {s \in Slots : ~gpu_maps[s].in_use}
       IN  /\ free # {}
           /\ gpu_maps' = [gpu_maps EXCEPT ![Min(free)] = Claimed(@)]
           /\ th' = [th EXCEPT ![t] = [Idle EXCEPT !.pc = "get_pages", !.slot = Min(free)]]
    /\ UNCHANGED <<probeVars, locked, known, pin, data, bad, met>>

\* nvidia_p2p_get_pages gives a page table and registers the callback.
MapGetPages(t) ==
    /\ At(t, "get_pages")
    /\ \E p \in Pins :
           /\ pin[p] = "unused" /\ \A q \in 1 .. p - 1 : pin[q] # "unused"
           /\ pin' = [pin EXCEPT ![p] = "pinned"]
           /\ data' = [data EXCEPT ![p] = th[t].slot]
           /\ th' = [th EXCEPT ![t].page_table = p, ![t].pc = "record"]
    /\ UNCHANGED <<probeVars, gpu_maps, locked, known, bad, met>>

MapGetPagesFails(t) ==
    /\ At(t, "get_pages") /\ Goto(t, "unclaim")
    /\ UNCHANGED <<probeVars, gpu_maps, locked, known, pin, data, bad, met>>

MapRecord(t) ==
    /\ At(t, "record")
    /\ gpu_maps' = [gpu_maps EXCEPT ![th[t].slot].page_table = th[t].page_table]
    /\ Goto(t, "dma_map")
    /\ UNCHANGED <<probeVars, locked, known, pin, data, bad, met>>

\* nvidia_p2p_dma_map_pages, which fails for pages that are gone.
MapDma(t) ==
    /\ At(t, "dma_map")
    /\ pin[th[t].page_table] = "pinned"
    /\ pin' = [pin EXCEPT ![th[t].page_table] = "mapped"]
    /\ th' = [th EXCEPT ![t].dma_mapping = th[t].page_table, ![t].pc = "return"]
    /\ UNCHANGED <<probeVars, gpu_maps, locked, known, data, bad, met>>

AfterDmaFailure == "put"

MapDmaFails(t) ==
    /\ At(t, "dma_map") /\ Goto(t, AfterDmaFailure)
    /\ UNCHANGED <<probeVars, gpu_maps, locked, known, pin, data, bad, met>>

\* The result is recorded and copied to the caller; if the copy fails the
\* mapping stays and nobody knows its handle.
MapReturn(t) ==
    /\ At(t, "return")
    /\ gpu_maps' = [gpu_maps EXCEPT ![th[t].slot].dma_mapping = th[t].dma_mapping]
    /\ th' = [th EXCEPT ![t] = Idle]
    /\ \/ known' = known \cup {[slot |-> th[t].slot, page_table |-> th[t].page_table]}
       \/ known' = known
    /\ UNCHANGED <<probeVars, locked, pin, data, bad, met>>

\* err_put_pages
MapPut(t) ==
    /\ At(t, "put")
    /\ pin' = PutPages(Mine(t).page_table)
    /\ bad' = (bad \/ WrongPut(Mine(t).page_table))
    /\ gpu_maps' = [gpu_maps EXCEPT ![th[t].slot].page_table = Null]
    /\ Goto(t, "unclaim")
    /\ UNCHANGED <<probeVars, locked, known, data, met>>

\* err_slot
MapUnclaim(t) ==
    /\ At(t, "unclaim") /\ ~locked
    /\ gpu_maps' = [gpu_maps EXCEPT ![th[t].slot].in_use = FALSE]
    /\ th' = [th EXCEPT ![t] = Idle]
    /\ UNCHANGED <<probeVars, locked, known, pin, data, bad, met>>

Map(t) == \/ MapClaim(t) \/ MapGetPages(t) \/ MapGetPagesFails(t) \/ MapRecord(t)
          \/ MapDma(t) \/ MapDmaFails(t) \/ MapReturn(t) \/ MapPut(t) \/ MapUnclaim(t)

----------------------------------------------------------------------------
(* gpunvme_gpu_mem_unmap, for an ioctl or for gpunvme_gpu_mem_unmap_all *)

\* User space gives back a handle it holds, once.
UnmapCall(t) ==
    /\ CanCall(t)
    /\ \E h \in known :
           /\ known' = known \ {h}
           /\ th' = [th EXCEPT ![t] = [Idle EXCEPT !.pc = "unmap", !.slot = h.slot]]
    /\ UNCHANGED <<probeVars, gpu_maps, locked, pin, data, bad, met>>

\* Back to the caller; unmap_all goes on with the next slot.
Leave(t) ==
    th' = [th EXCEPT ![t] =
              IF t = Remover THEN [th[t] EXCEPT !.pc = "scan", !.slot = th[t].slot + 1]
                             ELSE Idle]

UnmapLock(t) ==
    /\ At(t, "unmap") /\ ~locked
    /\ IF Mine(t).in_use THEN locked' = TRUE /\ Goto(t, "dma_unmap")
                         ELSE locked' = FALSE /\ Leave(t)
    /\ UNCHANGED <<probeVars, gpu_maps, known, pin, data, bad, met>>

\* DMA unmap first, then the pages; each only if there is one.
UnmapDma(t) ==
    /\ At(t, "dma_unmap")
    /\ pin' = DmaUnmapPages(Mine(t).dma_mapping)
    /\ bad' = (bad \/ (Mine(t).dma_mapping # Null /\ WrongUnmap(Mine(t).dma_mapping)))
    /\ gpu_maps' = [gpu_maps EXCEPT ![th[t].slot].dma_mapping = Null]
    /\ Goto(t, "put_pages")
    /\ UNCHANGED <<probeVars, locked, known, data, met>>

UnmapPut(t) ==
    /\ At(t, "put_pages")
    /\ pin' = PutPages(Mine(t).page_table)
    /\ bad' = (bad \/ (Mine(t).page_table # Null /\ WrongPut(Mine(t).page_table)))
    /\ gpu_maps' = [gpu_maps EXCEPT ![th[t].slot].page_table = Null]
    /\ Goto(t, "unlock")
    /\ UNCHANGED <<probeVars, locked, known, data, met>>

UnmapUnlock(t) ==
    /\ At(t, "unlock")
    /\ gpu_maps' = [gpu_maps EXCEPT ![th[t].slot].in_use = FALSE]
    /\ locked' = FALSE /\ Leave(t)
    /\ UNCHANGED <<probeVars, known, pin, data, bad, met>>

Unmap(t) == UnmapLock(t) \/ UnmapDma(t) \/ UnmapPut(t) \/ UnmapUnlock(t)

----------------------------------------------------------------------------
(* gpunvme_p2p_free_callback: GPU memory is freed while it is pinned *)

CallbackResult(m) == [m EXCEPT !.page_table = Null, !.dma_mapping = Null, !.in_use = FALSE]

\* t is at work on slot s.  A removal that has only chosen s is not: it looks
\* at the slot again under the lock.
Busy(t, s) ==
    /\ th[t].slot = s /\ th[t].pc \notin {"idle", "scan"}
    /\ ~(t = Remover /\ th[t].pc = "unmap")

\* Whoever freed the memory does not unmap it later.
FreeCallback(p) ==
    /\ dev \in {"ready", "removing"} /\ Live(p)
    /\ "free" \in Overlap \/ ~\E t \in All : Busy(t, data[p])
    /\ pin' = [pin EXCEPT ![p] = "freed"]
    /\ gpu_maps' = [gpu_maps EXCEPT ![data[p]] = CallbackResult(@)]
    /\ known' = {h \in known : h.page_table # p}
    /\ met' = met \cup (IF \E t \in All : Busy(t, data[p]) THEN {"free"} ELSE {})
    /\ UNCHANGED <<probeVars, locked, th, data, bad>>

----------------------------------------------------------------------------
(* gpunvme_pci_remove *)

RemoveStart ==
    /\ dev = "ready"
    /\ "remove" \in Overlap \/ mod = "going" \/ NoUsers
    /\ dev' = "removing"
    /\ th' = [th EXCEPT ![Remover] = [Idle EXCEPT !.pc = "scan"]]
    /\ met' = met \cup (IF mod = "in" /\ ~NoUsers THEN {"remove"} ELSE {})
    /\ UNCHANGED <<modVars, held, step, res, dev_count, gpu_maps, locked, known, pin, data, bad>>

ToUnmap == {s \in Slots : s >= th[Remover].slot /\ gpu_maps[s].in_use}

RemoveScan ==
    /\ dev = "removing" /\ th[Remover].pc = "scan" /\ ~locked /\ ToUnmap # {}
    /\ th' = [th EXCEPT ![Remover].pc = "unmap", ![Remover].slot = Min(ToUnmap)]
    /\ UNCHANGED <<probeVars, gpu_maps, locked, known, pin, data, bad, met>>

\* The character device, BAR0, the region, the device and the context go.
RemoveEnd ==
    /\ dev = "removing" /\ th[Remover].pc = "scan" /\ ~locked /\ ToUnmap = {}
    /\ res' = res \ {"node", "cdev", "master", "iomap", "region", "enabled", "ctx"}
    /\ dev' = "unbound" /\ known' = {}
    /\ th' = [th EXCEPT ![Remover] = Idle]
    /\ UNCHANGED <<modVars, held, step, dev_count, gpu_maps, locked, pin, data, bad, met>>

----------------------------------------------------------------------------
Next == \/ LoadOk \/ UnloadStart \/ UnloadEnd
        \/ \E k \in DOMAIN LoadSteps : LoadFails(k)
        \/ ProbeStart \/ ProbeStep \/ ProbeFails
        \/ \E t \in Threads : File(t) \/ Map(t) \/ UnmapCall(t)
        \/ \E t \in All : Unmap(t)
        \/ \E p \in Pins : FreeCallback(p)
        \/ RemoveStart \/ RemoveScan \/ RemoveEnd

Spec == Init /\ [][Next]_vars

----------------------------------------------------------------------------
(* Properties *)

\* Slots, handles and pins of the kernel module keep their types; indices stay
\* within gpu_maps, also in gpunvme_gpu_mem_unmap_all's loop.
TypeOK ==
    /\ mod \in {"out", "in", "going"} /\ modres \subseteq {"numbers", "class", "driver"}
    /\ held \in [Threads -> SUBSET {"file", "bar"}]
    /\ dev \in {"unbound", "probing", "ready", "removing"} /\ step \in DOMAIN Ladder
    /\ res \subseteq {"ctx", "enabled", "region", "iomap", "master", "cdev", "node"}
    /\ dev_count \in 0 .. MaxProbes /\ {locked, bad} \subseteq BOOLEAN
    /\ met \subseteq {"remove", "free"}
    /\ gpu_maps \in [Slots -> [in_use : BOOLEAN, page_table : {Null} \cup Pins,
                               dma_mapping : {Null} \cup Pins]]
    /\ th \in [All -> [pc : {"idle", "get_pages", "record", "dma_map", "return", "put",
                             "unclaim", "unmap", "dma_unmap", "put_pages", "unlock", "scan"},
                       slot : 0 .. MaxMaps, page_table : {Null} \cup Pins,
                       dma_mapping : {Null} \cup Pins]]
    /\ known \subseteq [slot : Slots, page_table : Pins]
    /\ pin \in [Pins -> {"unused", "pinned", "mapped", "put", "freed"}]
    /\ data \in [Pins -> Slots]

\* A page table goes back to the driver twice, or below its DMA mapping, only if
\* a callback came for the slot a call was at work on, or an unbind under a user:
\* as long as neither has happened, unmaps, error paths, the removal and the free
\* callback release each once, however they overlap otherwise
\* (gpunvme_p2p_free_callback: "so we do not double-free").
ReleasedOnce == bad => met # {}

\* Until the device is removed, the slot of a handle user space holds is in use
\* and records the very memory the handle was given for, whatever other threads map, unmap or
\* fail to map meanwhile (the slot search and in_use of gpunvme_gpu_mem_map);
\* unless a callback met a call on its slot, or an unbind a user.
HandleNamesMapping ==
    dev = "ready" /\ met = {} => \A h \in known :
        /\ gpu_maps[h.slot] = [in_use |-> TRUE, page_table |-> h.page_table,
                               dma_mapping |-> h.page_table]
        /\ pin[h.page_table] = "mapped"

\* After gpunvme_pci_remove no GPU memory is pinned, not even what a failed
\* copy_to_user left without a handle, unless the removal met a user or a
\* callback a call on its slot.
RemovedMeansReleased == dev = "unbound" /\ met = {} => \A p \in Pins : ~Live(p)

\* The same of every removal (gpunvme_gpu_mem_unmap_all: "Called during device
\* removal to ensure all GPU memory is released.").
RemovedMeansReleasedAlways == dev = "unbound" => \A p \in Pins : ~Live(p)

\* A load or a probe that fails anywhere, an unload and a removal give back all
\* that was acquired; a ready device has everything (the error labels of
\* gpunvme_init and gpunvme_pci_probe).
AllOrNothing ==
    /\ mod = "out" => modres = {}
    /\ dev = "unbound" => res = {}
    /\ dev = "ready" => res = {"ctx"} \cup UNION {Acquires(Ladder[i]) : i \in DOMAIN Ladder}

\* Whoever has the device open or its registers mapped has the module, and only
\* an unbind from outside takes away its context, region and registers, never an
\* unload; the device's node never outlives the module's class and numbers
\* (.owner = THIS_MODULE in gpunvme_fops, the order of gpunvme_exit).
UsersHaveDevice ==
    /\ ~NoUsers => {"class", "numbers", "driver"} \subseteq modres
    /\ ~NoUsers => {"ctx", "region", "iomap"} \subseteq res \/ "remove" \in met
    /\ "node" \in res => {"class", "numbers"} \subseteq modres
=============================================================================
