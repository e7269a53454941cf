------------------------------- MODULE BarMap -------------------------------
(***************************************************************************)
(* BAR0 in the CPU's and the GPU's address space (src/host/bar_map.c): the  *)
(* structure gpunvme_bar_map_t, and what the process really holds -- an     *)
(* open file, a mapping, a registration with CUDA.                          *)
(***************************************************************************)
CONSTANT BarFaults  \* what may fail: "open", "seek", "mmap", "register", "pointer"

VARIABLES
    map,        \* gpunvme_bar_map_t: [fd, cpu, gpu] as the code sees them
    barHeld,    \* what is really held: a subset of {"fd", "cpu", "reg"}
    stray,      \* history: something was released that was not held, or
                \* unmapped while CUDA still had it registered
    closedEarly \* history: gpunvme_mmap_bar0 failed after it had opened the file

barVars == <<map, barHeld, stray, closedEarly>>

NoMap == [fd |-> "none", cpu |-> "none", gpu |-> "none"]

BarInit == /\ map = [NoMap EXCEPT !.fd = "unset"]
           /\ barHeld = {}
           /\ stray = FALSE /\ closedEarly = FALSE

----------------------------------------------------------------------------
(* Defect: BAR0 is unmapped before it is unregistered.                      *)
HeldAtMunmapLate == barHeld

----------------------------------------------------------------------------
(* gpunvme_mmap_bar0 *)

Unmapped == barHeld = {} /\ map.cpu # "mapped"

MmapBar0Ok ==
    /\ Unmapped
    /\ map' = [fd |-> "open", cpu |-> "mapped", gpu |-> "none"]
    /\ barHeld' = {"fd", "cpu"}
    /\ UNCHANGED <<stray, closedEarly>>

\* The file descriptor is closed on the way out and keeps its number; a
\* failed mmap leaves MAP_FAILED in the structure.
MmapBar0Fails(what) ==
    /\ Unmapped /\ what \in BarFaults \cap {"open", "seek", "mmap"}
    /\ map' = [fd  |-> IF what = "open" THEN "none" ELSE "closed",
               cpu |-> IF what = "mmap" THEN "failed" ELSE "none",
               gpu |-> "none"]
    /\ closedEarly' = (closedEarly \/ what # "open")
    /\ UNCHANGED <<barHeld, stray>>

----------------------------------------------------------------------------
(* gpunvme_map_bar0_to_gpu, of a structure whose mmap succeeded *)

\* CUDA refuses to register a range twice.
MapBar0ToGpuOk ==
    /\ map.cpu = "mapped" /\ "reg" \notin barHeld
    /\ map' = [map EXCEPT !.gpu = "mapped"]
    /\ barHeld' = barHeld \cup {"reg"}
    /\ UNCHANGED <<stray, closedEarly>>

MapBar0ToGpuRefused ==
    /\ map.cpu = "mapped" /\ ("reg" \in barHeld \/ "register" \in BarFaults)
    /\ UNCHANGED barVars

PointerFailure == barHeld

MapBar0ToGpuNoPointer ==
    /\ map.cpu = "mapped" /\ "reg" \notin barHeld /\ "pointer" \in BarFaults
    /\ barHeld' = PointerFailure
    /\ UNCHANGED <<map, stray, closedEarly>>

----------------------------------------------------------------------------
(* gpunvme_unmap_bar0 *)

\* cudaHostUnregister comes first, if the structure has a GPU address.
HeldAtMunmap == IF map.gpu = "mapped" THEN barHeld \ {"reg"} ELSE barHeld

Released == (IF map.gpu = "mapped" THEN {"reg"} ELSE {})
            \cup (IF map.cpu = "mapped" THEN {"cpu"} ELSE {})
            \cup (IF map.fd \in {"open", "closed"} THEN {"fd"} ELSE {})

\* It may be called once gpunvme_mmap_bar0 has been, whatever that returned:
\* it looks for MAP_FAILED and for a negative descriptor.
UnmapBar0 ==
    /\ map.fd # "unset"
    /\ stray' = (stray \/ ~(Released \subseteq barHeld)
                       \/ (map.cpu = "mapped" /\ "reg" \in HeldAtMunmap))
    /\ barHeld' = barHeld \ Released
    /\ map' = [fd  |-> "none", gpu |-> "none",
               cpu |-> IF map.cpu = "mapped" THEN "none" ELSE map.cpu]
    /\ UNCHANGED closedEarly

\* gpunvme_bar0_gpu_ptr yields a pointer
GpuPtr == map.gpu = "mapped"

BarNext == \/ MmapBar0Ok
           \/ \E what \in BarFaults : MmapBar0Fails(what)
           \/ MapBar0ToGpuOk \/ MapBar0ToGpuRefused \/ MapBar0ToGpuNoPointer
           \/ UnmapBar0
=============================================================================
