-------------------------------- MODULE Bar1 --------------------------------
(***************************************************************************)
(* Direct VRAM access (src/host/layer_loader.cu, Tier 2): the bus address   *)
(* of a VRAM allocation is found by writing a pattern into it on the GPU    *)
(* and scanning the GPU's BAR1 aperture for it, and is checked with a       *)
(* second pattern half-way into the allocation.                             *)
(*                                                                         *)
(* VRAM is counted in GPU pages (the 2 MB stride of the scan), numbered as  *)
(* BAR1 shows them.  Of a page's contents only the pattern at its start     *)
(* matters: 1 and 2 are the two patterns of a buffer at the one virtual     *)
(* address the driver hands out here, 0 is anything else.  Freed memory     *)
(* keeps what was written to it.                                            *)
(***************************************************************************)
EXTENDS Integers, FiniteSets

CONSTANTS
    VFrames,      \* GPU pages the scan covers: 1 .. n
    Window,       \* pages of BAR1 mapped at a time
    Placements,   \* where the driver may put a buffer: functions 0 .. k-1 -> VFrames
    Bar1Faults    \* what may fail: "init", "window", "check"

ASSUME WindowAssumption == Window \in Nat \ {0} /\ VFrames \subseteq Nat \ {0}

VARIABLES
    bar1_fd,      \* bar1_init succeeded: resource1 is open and bar1_enabled set
    vmem,         \* the pattern at the start of each GPU page
    vbuf,         \* the pages of the VRAM buffer, in order; none when empty
    found         \* what the last gpunvme_bar1_resolve returned, for vbuf

bar1Vars == <<bar1_fd, vmem, vbuf, found>>

NoBuf   == [k \in {} |-> 0]
NoFound == [ok |-> FALSE, at |-> 0, fresh |-> FALSE, checked |-> FALSE]
Size(b) == Cardinality(DOMAIN b)

ASSUME PlaceAssumption ==
    \A b \in Placements : Size(b) \in Nat \ {0} /\ b \in [0 .. Size(b) - 1 -> VFrames]

Bar1Init == /\ bar1_fd = FALSE /\ vmem = [f \in VFrames |-> 0]
            /\ vbuf = NoBuf /\ found = NoFound

----------------------------------------------------------------------------
(* Defect: the offset found is taken for one from the start of the scan,    *)
(* not of the window.                                                       *)
OffsetInWindow(w, off) == off + 1

----------------------------------------------------------------------------
(* gpunvme_bar1_init: the base address is parsed, resource1_wc or resource1 *)
(* opened.                                                                  *)
Bar1InitOk ==
    /\ ~bar1_fd /\ bar1_fd' = TRUE /\ UNCHANGED <<vmem, vbuf, found>>

Bar1InitFails ==
    /\ ~bar1_fd /\ "init" \in Bar1Faults /\ UNCHANGED bar1Vars

----------------------------------------------------------------------------
(* cudaMalloc and cudaFree, external *)

VramAlloc(b) ==
    /\ vbuf = NoBuf /\ vbuf' = b /\ found' = NoFound
    /\ UNCHANGED <<bar1_fd, vmem>>

VramFree ==
    /\ vbuf # NoBuf /\ vbuf' = NoBuf /\ found' = NoFound
    /\ UNCHANGED <<bar1_fd, vmem>>

----------------------------------------------------------------------------
(* gpunvme_bar1_resolve *)

Windows == {(f - 1) \div Window : f \in VFrames}

\* found_offset = win_start + off
FoundAt(w, off) == w * Window + off + 1

\* The first page of the mappable windows that starts with the pattern.
Hits(m, skip) == {f \in VFrames : m[f] = 1 /\ (f - 1) \div Window \notin skip}
FirstHit(m, skip) == CHOOSE f \in Hits(m, skip) : \A g \in Hits(m, skip) : f <= g
ScanResult(m, skip) ==
    LET f == FirstHit(m, skip) IN FoundAt((f - 1) \div Window, (f - 1) % Window)

\* (vram_size / 2) & ~(stride - 1)
Midpoint == Size(vbuf) \div 2

MidpointMatches(m, at) == at + Midpoint \in VFrames /\ m[at + Midpoint] = 2

\* No page but the buffer's own holds one of its patterns from before.
Fresh == \A f \in VFrames : /\ vmem[f] = 1 => f = vbuf[0]
                            /\ vmem[f] = 2 => f = vbuf[Midpoint]

Contiguous == \A k \in DOMAIN vbuf : vbuf[k] = vbuf[0] + k

\* skip: windows whose mmap fails and that are passed over; looked: the page
\* at the midpoint could be mapped and was compared.
Bar1Resolve(skip, looked) ==
    LET m1 == [vmem EXCEPT ![vbuf[0]] = 1]
        hit == Hits(m1, skip) # {}
        at == ScanResult(m1, skip)
        big == Size(vbuf) >= 2
        m2 == IF hit /\ big THEN [m1 EXCEPT ![vbuf[Midpoint]] = 2] ELSE m1
    IN  /\ bar1_fd /\ vbuf # NoBuf
        /\ skip # {} => "window" \in Bar1Faults
        /\ ~looked => "check" \in Bar1Faults
        /\ vmem' = m2
        /\ found' = IF hit /\ (big /\ looked => MidpointMatches(m2, at))
                    THEN [ok |-> TRUE, at |-> at, fresh |-> Fresh, checked |-> big /\ looked]
                    ELSE NoFound
        /\ UNCHANGED <<bar1_fd, vbuf>>
=============================================================================
