------------------------------ MODULE HostDma ------------------------------
(***************************************************************************)
(* DMA memory of the process (src/host/dma_alloc.c): buffers with a         *)
(* physical address, and PRP lists that are allocated once and rebuilt for  *)
(* every transfer, used by an application that submits one command at a     *)
(* time through a BAR mapping and waits for it (tests/test_multi_block.cu). *)
(* The controller (external) reads the list when it likes, late included.   *)
(*                                                                         *)
(* The process has virtual pages; the kernel's page table gives each a      *)
(* frame, or 0 when the page is not present.  Pages in use here are pinned: *)
(* the table does not change while the process runs.                        *)
(***************************************************************************)
EXTENDS PrpList, BarMap, Integers, FiniteSets

CONSTANTS
    VPages,     \* virtual pages, a range of numbers
    Frames,     \* physical frames, 1 .. some number
    Pagemaps,   \* the page tables the process may run with
    Areas,      \* data areas a transfer may use: [base, pages]
    ListBase,   \* first virtual page of the memory the list is put in
    BufPage,    \* virtual page of the single-page DMA buffer
    MaxPages,   \* arguments of gpunvme_prp_list_alloc
    DmaFaults,  \* what may fail: "nomem", "io", "timeout", "unprivileged"
    MaxCmds     \* bound: commands submitted

\* Address 0 is nobody's.
ASSUME TableAssumption ==
    /\ VPages \subseteq Nat \ {0} /\ Frames \subseteq Nat \ {0}
    /\ Pagemaps \subseteq [VPages -> Frames \cup {0}]

VARIABLES
    pagemap, priv,   \* page table; whether the kernel shows frame numbers
    mem,             \* contents of the physical pages, as list entries
    prp,             \* gpunvme_prp_list_t
    built,           \* history: the area and page count prp was last built for
    buf,             \* gpunvme_dma_buf_t
    allocs,          \* what the allocators really handed out
    listMem,         \* the list's memory: allocated, locked, registered with CUDA
    call,            \* gpunvme_prp_list_alloc or _free: the step it is at, its list
    cmd, waiting,    \* the command at the controller; the application waits
    ncmds

dmaVars == <<pagemap, priv, mem, prp, built, buf, allocs, listMem, call, cmd, waiting, ncmds>>
vars    == <<dmaVars, barVars>>

NoPrp  == [list |-> 0, phys |-> 0, prp1 |-> 0, prp2 |-> 0, n |-> 0, max |-> 0]
NoBuf  == [v |-> 0, type |-> "none", phys |-> 0, real |-> TRUE]
NoCall   == [at |-> "none", pages |-> {}, max |-> 0]
NotBuilt == [base |-> 0, n |-> 0]
NoCmd    == [prp1 |-> 0, prp2 |-> 0, n |-> 0, want |-> <<>>, sound |-> FALSE, late |-> FALSE]

Init ==
    /\ BarInit
    /\ pagemap \in Pagemaps
    /\ priv \in IF "unprivileged" \in DmaFaults THEN BOOLEAN ELSE {TRUE}
    /\ mem = [f \in Frames \cup {0} |-> [e \in Entries |-> 0]]
    /\ prp = NoPrp /\ built = NotBuilt /\ buf = NoBuf /\ allocs = {}
    /\ listMem = {} /\ call = NoCall
    /\ cmd = NoCmd /\ waiting = FALSE /\ ncmds = 0

----------------------------------------------------------------------------
(* Defect: the error path of the lookup is that of the registration. *)
UndoFromTooLate(at) == IF at = "memalign" THEN "none" ELSE "munlock"

\* The application is not in a call and does not wait for a command.
Ready == ~waiting /\ call.at = "none"

----------------------------------------------------------------------------
(* gpunvme_virt_to_phys *)

Present(v) == pagemap[v] # 0

\* A process without CAP_SYS_ADMIN is shown frame number 0 for every page,
\* with the present bit set.
Phys(v) == IF priv THEN pagemap[v] ELSE 0

IoFault == "io" \in DmaFaults

----------------------------------------------------------------------------
(* gpunvme_prp_list_alloc *)

\* Room for max_pages - 1 entries and at least one, in whole pages.
AllocEntries(m) == IF m - 1 = 0 THEN 1 ELSE m - 1
ListPagesOf(m)  == ListBase .. ListBase + CeilDiv(AllocEntries(m), PerPage) - 1

\* The allocators hand out disjoint memory, and a caller passes the pages of an
\* area it has.
ASSUME LayoutAssumption ==
    /\ MaxPages \subseteq Nat \ {0} /\ ListBase \in VPages
    /\ \A m \in MaxPages : ListPagesOf(m) \subseteq VPages \ {BufPage}
    /\ BufPage \in VPages
    /\ \A a \in Areas : /\ a.base \in VPages /\ a.pages \in Nat
                        /\ a.base .. a.base + a.pages - 1 \subseteq VPages

Goto(at) == call' = IF at = "none" THEN NoCall ELSE [call EXCEPT !.at = at]

Zeroed(pages) == [f \in DOMAIN mem |-> IF \E v \in pages : pagemap[v] = f
                                       THEN [e \in Entries |-> 0] ELSE mem[f]]

PrpListAllocStart(m) ==
    /\ Ready /\ prp.list = 0
    /\ call' = [at |-> "memalign", pages |-> ListPagesOf(m), max |-> AllocEntries(m)]
    /\ prp' = NoPrp /\ built' = NotBuilt
    /\ UNCHANGED <<pagemap, priv, mem, buf, allocs, listMem, cmd, waiting, ncmds>>

Memalign ==
    /\ call.at = "memalign" /\ Goto("mlock")
    /\ allocs' = allocs \cup call.pages /\ listMem' = listMem \cup {"memory"}
    /\ UNCHANGED <<pagemap, priv, mem, prp, built, buf, cmd, waiting, ncmds>>

\* Nobody looks whether it locks.
Mlock ==
    /\ call.at = "mlock" /\ Goto("register")
    /\ listMem' \in {listMem, listMem \cup {"locked"}}
    /\ UNCHANGED <<pagemap, priv, mem, prp, built, buf, allocs, cmd, waiting, ncmds>>

\* Only now does the structure name the memory, which is zeroed.
Register ==
    /\ call.at = "register" /\ Goto("lookup")
    /\ listMem' = listMem \cup {"registered"}
    /\ prp' = [NoPrp EXCEPT !.list = ListBase, !.max = call.max]
    /\ mem' = Zeroed(call.pages)
    /\ UNCHANGED <<pagemap, priv, built, buf, allocs, cmd, waiting, ncmds>>

ListLookup ==
    /\ call.at = "lookup" /\ Goto("none") /\ Present(ListBase)
    /\ prp' = [prp EXCEPT !.phys = Phys(ListBase)]
    /\ UNCHANGED <<pagemap, priv, mem, built, buf, allocs, listMem, cmd, waiting, ncmds>>

\* Where the error path of a step starts: no memory leaves at once, memory CUDA
\* does not register is unlocked and freed, memory without an address is
\* unregistered first.
UndoFrom(at) == CASE at = "memalign" -> "none" [] at = "register" -> "munlock"
                  [] OTHER -> "unregister"

PrpListAllocFails ==
    /\ \/ call.at \in {"memalign", "register"} /\ "nomem" \in DmaFaults
       \/ call.at = "lookup" /\ (~Present(ListBase) \/ IoFault)
    /\ Goto(UndoFrom(call.at))
    /\ UNCHANGED <<pagemap, priv, mem, prp, built, buf, allocs, listMem, cmd, waiting, ncmds>>

\* gpunvme_prp_list_free, with the size the structure keeps.
PrpListFree ==
    /\ Ready /\ prp.list # 0
    /\ call' = [at |-> "unregister", pages |-> ListPagesOf(prp.max + 1), max |-> prp.max]
    /\ built' = NotBuilt
    /\ UNCHANGED <<pagemap, priv, mem, prp, buf, allocs, listMem, cmd, waiting, ncmds>>

Unregister ==
    /\ call.at = "unregister" /\ Goto("munlock")
    /\ listMem' = listMem \ {"registered"}
    /\ UNCHANGED <<pagemap, priv, mem, prp, built, buf, allocs, cmd, waiting, ncmds>>

Munlock ==
    /\ call.at = "munlock" /\ Goto("free")
    /\ listMem' = listMem \ {"locked"}
    /\ UNCHANGED <<pagemap, priv, mem, prp, built, buf, allocs, cmd, waiting, ncmds>>

\* memset(prp, 0, sizeof(*prp))
FreedPrp == NoPrp

\* The pages go back to the system, which puts something else in them.
FreeList ==
    /\ call.at = "free" /\ Goto("none")
    /\ listMem' = listMem \ {"memory"} /\ allocs' = allocs \ call.pages
    /\ mem' = Zeroed(call.pages) /\ prp' = FreedPrp
    /\ UNCHANGED <<pagemap, priv, built, buf, cmd, waiting, ncmds>>

ListCall == \/ Memalign \/ Mlock \/ Register \/ ListLookup \/ PrpListAllocFails
            \/ Unregister \/ Munlock \/ FreeList

----------------------------------------------------------------------------
(* gpunvme_prp_list_build *)

Fits(n) == n <= prp.max + 1

\* The physical page entry j of the list lies in.
ListFrame(j) == pagemap[prp.list + j \div PerPage]

\* Memory after the first i pages of the area at v were looked up.
ListWritten(v, i) ==
    [f \in DOMAIN mem |-> [e \in Entries |->
        LET ps == {p \in 1 .. i - 1 : ListFrame(ListSlot(p)) = f /\ ListSlot(p) % PerPage = e}
        IN  IF ps = {} THEN mem[f][e] ELSE Phys(v + (CHOOSE p \in ps : TRUE))]]

PrpListRefused(a, n) ==
    /\ Ready /\ prp.list # 0 /\ n \in 1 .. a.pages /\ ~Fits(n)
    /\ UNCHANGED vars

PrpListBuildOk(a, n) ==
    /\ Ready /\ prp.list # 0 /\ n \in 1 .. a.pages /\ Fits(n)
    /\ \A k \in 0 .. n - 1 : Present(a.base + k)
    /\ mem' = ListWritten(a.base, n)
    /\ prp' = [prp EXCEPT !.prp1 = Phys(a.base),
                          !.prp2 = Prp2For(n, mem'[ListFrame(0)][0], prp.phys),
                          !.n = IF n > 1 THEN n - 1 ELSE 0]
    /\ built' = [base |-> a.base, n |-> n]
    /\ UNCHANGED <<pagemap, priv, buf, allocs, listMem, call, cmd, waiting, ncmds>>

\* Page i cannot be looked up: PRP1 and the list are already those of the new
\* area, PRP2 and the count still those of the last one.
PrpListBuildFails(a, n, i) ==
    /\ Ready /\ prp.list # 0 /\ n \in 1 .. a.pages /\ Fits(n) /\ i < n
    /\ \A k \in 0 .. i - 1 : Present(a.base + k)
    /\ ~Present(a.base + i) \/ IoFault
    /\ mem' = ListWritten(a.base, i)
    /\ prp' = [prp EXCEPT !.prp1 = IF i = 0 THEN @ ELSE Phys(a.base)]
    /\ built' = NotBuilt
    /\ UNCHANGED <<pagemap, priv, buf, allocs, listMem, call, cmd, waiting, ncmds>>

----------------------------------------------------------------------------
(* gpunvme_dma_alloc_host, gpunvme_dma_alloc_gpu, gpunvme_dma_free *)

\* An address that cannot be looked up is replaced by the virtual one, "still
\* usable for simulation", and the call succeeds all the same.
DmaAllocHost(found) ==
    /\ Ready /\ buf.v = 0
    /\ IF found THEN Present(BufPage) ELSE ~Present(BufPage) \/ IoFault
    /\ buf' = [v |-> BufPage, type |-> "host", real |-> found,
               phys |-> IF found THEN Phys(BufPage) ELSE BufPage]
    /\ allocs' = allocs \cup {BufPage}
    /\ UNCHANGED <<pagemap, priv, mem, prp, built, listMem, call, cmd, waiting, ncmds>>

DmaAllocGpu ==
    /\ Ready /\ buf.v = 0
    /\ buf' = [v |-> BufPage, type |-> "gpu", real |-> FALSE, phys |-> 0]
    /\ allocs' = allocs \cup {BufPage}
    /\ UNCHANGED <<pagemap, priv, mem, prp, built, listMem, call, cmd, waiting, ncmds>>

DmaFree ==
    /\ Ready /\ buf.v # 0
    /\ buf' = NoBuf
    /\ allocs' = allocs \ {buf.v}
    /\ UNCHANGED <<pagemap, priv, mem, prp, built, listMem, call, cmd, waiting, ncmds>>

----------------------------------------------------------------------------
(* The application and the controller *)

\* A command goes to the controller with the addresses the code computed; want
\* is where its data belongs.
Submit(p1, p2, n, want, sound) ==
    /\ Ready /\ cmd.n = 0 /\ ncmds < MaxCmds /\ GpuPtr
    /\ cmd' = [prp1 |-> p1, prp2 |-> p2, n |-> n, want |-> want,
               sound |-> sound, late |-> FALSE]
    /\ waiting' = TRUE /\ ncmds' = ncmds + 1
    /\ UNCHANGED <<pagemap, priv, mem, prp, built, buf, allocs, listMem, call>>

\* With a list that was built and not touched since.
SubmitList ==
    /\ built.n # 0
    /\ Submit(prp.prp1, prp.prp2, built.n,
              [k \in 0 .. built.n - 1 |-> pagemap[built.base + k]],
              priv /\ built.n - 1 <= PerPage)

SubmitBuf ==
    /\ buf.type = "host"
    /\ Submit(buf.phys, 0, 1, [k \in 0 .. 0 |-> pagemap[buf.v]], priv /\ buf.real)

\* The application gives up and goes on; the command stays where it is.
GiveUp ==
    /\ waiting /\ cmd.n # 0 /\ "timeout" \in DmaFaults
    /\ waiting' = FALSE /\ cmd' = [cmd EXCEPT !.late = TRUE]
    /\ UNCHANGED <<pagemap, priv, mem, prp, built, buf, allocs, listMem, call, ncmds>>

\* The controller reads the list, moves the data to MovesTo and completes.
MovesTo == Pages(mem, cmd.prp1, cmd.prp2, cmd.n)

DevExecute ==
    /\ cmd.n # 0
    /\ cmd' = NoCmd /\ waiting' = FALSE
    /\ UNCHANGED <<pagemap, priv, mem, prp, built, buf, allocs, listMem, call, ncmds>>

----------------------------------------------------------------------------
Dma == \/ (\E m \in MaxPages : PrpListAllocStart(m)) \/ PrpListFree \/ ListCall
       \/ \E a \in Areas : \E n \in 1 .. a.pages :
            \/ PrpListBuildOk(a, n)
            \/ \E i \in 0 .. n - 1 : PrpListBuildFails(a, n, i)
       \/ (\E found \in BOOLEAN : DmaAllocHost(found)) \/ DmaAllocGpu \/ DmaFree
       \/ SubmitList \/ SubmitBuf \/ GiveUp \/ DevExecute

\* The application maps BAR0 before it allocates and unmaps it last.
Next == \/ Dma /\ UNCHANGED barVars
        \/ \E a \in Areas : \E n \in 1 .. a.pages : PrpListRefused(a, n)
        \/ Ready /\ allocs = {} /\ BarNext /\ UNCHANGED dmaVars

Spec == Init /\ [][Next]_vars

----------------------------------------------------------------------------
(* Properties *)

\* Addresses are frames or 0, PRP lists hold nothing else, and a freed list
\* structure is all zero (the memset of gpunvme_prp_list_free).
TypeOK ==
    /\ prp \in [list : {0, ListBase}, phys : Frames \cup {0}, prp1 : Frames \cup {0},
                prp2 : Frames \cup {0}, n : Nat, max : Nat]
    /\ mem \in [Frames \cup {0} -> [Entries -> Frames \cup {0}]]
    /\ allocs \subseteq VPages
    /\ barHeld \subseteq {"fd", "cpu", "reg"}
    /\ cmd.prp1 \in Frames \cup VPages \cup {0}
    /\ listMem \subseteq {"memory", "locked", "registered"}
    /\ prp.list = 0 => prp = NoPrp

\* Whenever the controller gets to a command, its data goes to the pages of the
\* area the list was last built for, in order, whatever was built before,
\* refused or given up half-way: provided the process may see frame numbers,
\* the list fits one page, the address of a buffer was not made up, and the
\* application still waits.
DataReachesArea == cmd.sound /\ ~cmd.late => MovesTo = cmd.want

\* Between calls the memory the allocators handed out, and what is locked and
\* registered of it, is what the structures name, whichever step of
\* gpunvme_prp_list_alloc failed (its three error paths and
\* gpunvme_prp_list_free each undo another part); and at no moment is memory
\* freed that CUDA still has registered or that is still locked.
AllocsAccounted ==
    /\ listMem # {} => "memory" \in listMem
    /\ call.at = "none" =>
         /\ allocs = (IF prp.list = 0 THEN {} ELSE ListPagesOf(prp.max + 1))
                       \cup (IF buf.v = 0 THEN {} ELSE {buf.v})
         /\ IF prp.list = 0 THEN listMem = {} ELSE {"memory", "registered"} \subseteq listMem

\* BAR0 is released once, in the order it was built up, and the structure says
\* what the process really has, through every failure; except that unmapping
\* after a failed gpunvme_mmap_bar0 closes the descriptor a second time.
BarReleasedOnce ==
    /\ stray => closedEarly
    /\ map.cpu = "mapped" <=> "cpu" \in barHeld
    /\ map.gpu = "mapped" <=> "reg" \in barHeld
=============================================================================
