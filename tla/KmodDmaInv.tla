----------------------------- MODULE KmodDmaInv -----------------------------
(***************************************************************************)
(* The inductive invariants of KmodDma.                                     *)
(*                                                                         *)
(* What a probe or a load has acquired follows from how far it got, whoever *)
(* races with it (LadderInv).  The mappings need more: most of a map runs   *)
(* without gpu_map_lock, so it is not the lock that keeps the slots apart   *)
(* but in_use, which makes every slot the business of at most one thread,   *)
(* and what such a slot holds follows from where its thread is (MappingInv).*)
(***************************************************************************)
EXTENDS KmodDma

\* Thread t is between the first and the last step of a map or an unmap.
Works(t) == th[t].pc \notin {"idle", "scan"}

\* Its slot exists, and so does the page table it was given.
SlotsInv == \A t \in All :
    /\ Works(t) => th[t].slot \in Slots
    /\ th[t].pc \in {"record", "dma_map", "return"} => th[t].page_table \in Pins

ModInv ==
    /\ mod = "out" => modres = {} /\ dev = "unbound"
    /\ mod # "out" => modres = {"numbers", "class", "driver"}

\* The k-th entry of the ladder has been passed.
Past(k) == dev \in {"ready", "removing"} \/ (dev = "probing" /\ step > k)

ResInv ==
    /\ "ctx" \in res <=> dev # "unbound"
    /\ "enabled" \in res <=> Past(2)
    /\ "region" \in res <=> Past(3)
    /\ "iomap" \in res <=> Past(5)
    /\ "master" \in res <=> Past(5)
    /\ "cdev" \in res <=> Past(7)
    /\ "node" \in res <=> Past(8)

LadderInv == TypeOK /\ SlotsInv /\ ModInv /\ ResInv

\* Users keep the module in, and the device stays unless it is unbound under them.
HoldersInv ==
    /\ ~NoUsers => mod = "in"
    /\ ~NoUsers => dev = "ready" \/ "remove" \in met

----------------------------------------------------------------------------
(* The mappings *)

Free(s) == gpu_maps[s] = FreeSlot

\* The slot is claimed and records page table p (or none) and DMA mapping d.
Records(s, p, d) == gpu_maps[s] = [in_use |-> TRUE, page_table |-> p, dma_mapping |-> d]

\* The driver has page table p for slot s in state st.
Backs(p, s, st) == p \in Pins /\ pin[p] = st /\ data[p] = s

\* A finished mapping.
Full(s) == \E p \in Pins : Records(s, p, p) /\ Backs(p, s, "mapped")

\* Only threads with the file open work on slots, and nobody has a file open
\* unless the device is there to stay.
UsersInv ==
    /\ \A t \in Threads : th[t].pc # "idle" => "file" \in held[t]
    /\ ~NoUsers => dev = "ready" /\ mod = "in"

\* The removal works through the slots in order.
RemoverInv ==
    /\ \A t \in Threads : th[t].pc # "scan"
    /\ th[Remover].pc \in {"idle", "scan", "unmap", "dma_unmap", "put_pages", "unlock"}
    /\ dev # "removing" => th[Remover].pc = "idle"
    /\ dev = "removing" => \A s \in Slots : s < th[Remover].slot => ~gpu_maps[s].in_use

\* A slot is the business of one thread at a time.
OwnInv == \A t, u \in All : Works(t) /\ Works(u) /\ th[t].slot = th[u].slot => t = u

\* What the slot of a working thread holds, by where the thread is.
WorkInv(t) ==
    LET s == th[t].slot
        p == th[t].page_table
    IN  /\ th[t].pc \in {"get_pages", "unclaim", "unlock"} => Records(s, Null, Null)
        /\ th[t].pc = "record"  => Records(s, Null, Null) /\ Backs(p, s, "pinned")
        /\ th[t].pc = "dma_map" => Records(s, p, Null) /\ Backs(p, s, "pinned")
        /\ th[t].pc = "return"  => /\ Records(s, p, Null) /\ Backs(p, s, "mapped")
                                   /\ th[t].dma_mapping = p
        /\ th[t].pc \in {"put", "put_pages"}
             => \E q \in Pins : Records(s, q, Null) /\ Backs(q, s, "pinned")
        /\ th[t].pc = "unmap" => Full(s) \/ (t = Remover /\ Free(s))
        /\ th[t].pc = "dma_unmap" => Full(s)

RestInv == \A s \in Slots :
    (\A t \in All : Works(t) => th[t].slot # s) => Full(s) \/ Free(s)

\* No pin is lost: its slot names it, or the thread that just got it does.
PinsInv == \A p \in Pins : Live(p) =>
    \/ gpu_maps[data[p]].page_table = p
    \/ \E t \in Threads : th[t].pc = "record" /\ th[t].page_table = p /\ th[t].slot = data[p]

KnownInv ==
    /\ dev \in {"unbound", "probing"} => known = {} /\ \A s \in Slots : Free(s)
    /\ dev = "ready" => \A h \in known :
        /\ Records(h.slot, h.page_table, h.page_table)
        /\ Backs(h.page_table, h.slot, "mapped")
        /\ \A t \in All : Works(t) => th[t].slot # h.slot

MapsInv ==
    /\ OwnInv /\ RestInv /\ PinsInv /\ KnownInv
    /\ \A t \in All : WorkInv(t)

MappingInv == LadderInv /\ bad = FALSE /\ UsersInv /\ RemoverInv /\ MapsInv
=============================================================================
