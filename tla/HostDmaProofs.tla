--------------------------- MODULE HostDmaProofs ---------------------------
(***************************************************************************)
(* HostDma proved: for every page table, layout and list size, whatever     *)
(* fails on the way.                                                        *)
(*                                                                         *)
(* DataReachesArea speaks of the moment a command is executed.  What makes  *)
(* it true is older: the list described its area when it was built          *)
(* (BuiltInv), nothing changed it until the command was submitted, and      *)
(* nothing can change it while the application waits (CmdInv).              *)
(***************************************************************************)
EXTENDS HostDma, TLAPS

USE PerPageAssumption, TableAssumption, LayoutAssumption

----------------------------------------------------------------------------
(* The inductive invariant *)

Addrs == Frames \cup {0}
Wants == UNION {[0 .. n - 1 -> Addrs] : n \in Nat}

DmaTyped ==
    /\ pagemap \in [VPages -> Addrs] /\ priv \in BOOLEAN
    /\ mem \in [Addrs -> [Entries -> Addrs]]
    /\ prp \in [list : {0, ListBase}, phys : Addrs, prp1 : Addrs, prp2 : Addrs,
                n : Nat, max : Nat]
    /\ built \in [base : VPages \cup {0}, n : Nat]
    /\ buf \in [v : {0, BufPage}, type : {"none", "host", "gpu"},
                phys : Addrs \cup VPages, real : BOOLEAN]
    /\ cmd \in [prp1 : Addrs \cup VPages, prp2 : Addrs, n : Nat, want : Wants,
                sound : BOOLEAN, late : BOOLEAN]
    /\ waiting \in BOOLEAN
    /\ listMem \subseteq {"memory", "locked", "registered"}
    /\ call \in [at : {"none", "memalign", "mlock", "register", "lookup", "unregister",
                       "munlock", "free"},
                 pages : SUBSET VPages, max : Nat]

\* A list structure in use says how much memory there is and, between calls, has
\* its address; one not in use is all zero.
ListInv ==
    /\ prp.list = 0 => prp = NoPrp
    /\ prp.list # 0 => /\ prp.list = ListBase /\ (call.at = "none" => prp.phys = Phys(ListBase))
                       /\ \E m \in MaxPages : prp.max = AllocEntries(m)

\* The list and the entries describe the area they were built for; the area
\* was looked up to its last page.
BuiltInv == built.n # 0 =>
    /\ built.base \in VPages
    /\ built.base .. built.base + built.n - 1 \subseteq VPages
    /\ priv /\ built.n - 1 <= PerPage =>
         Pages(mem, prp.prp1, prp.prp2, built.n)
            = [k \in 0 .. built.n - 1 |-> pagemap[built.base + k]]

\* A buffer's address is its page's unless it was made up.
BufInv == /\ buf.v = 0 <=> buf.type = "none"
          /\ buf.type = "host" /\ buf.real /\ priv => buf.phys = pagemap[buf.v]

BufPages == IF buf.v = 0 THEN {} ELSE {buf.v}

\* The list's memory is what the call in progress has made of it.
CallInv ==
    /\ call.at # "none" =>
         /\ ~waiting /\ built = NotBuilt
         /\ \E m \in MaxPages : call.pages = ListPagesOf(m) /\ call.max = AllocEntries(m)
    /\ "memory" \in listMem <=>
         IF call.at = "none" THEN prp.list # 0 ELSE call.at # "memalign"
    /\ "registered" \in listMem <=>
         IF call.at = "none" THEN prp.list # 0 ELSE call.at \in {"lookup", "unregister"}
    /\ "locked" \in listMem =>
         "memory" \in listMem /\ call.at \notin {"memalign", "mlock", "free"}
    /\ call.at \in {"memalign", "mlock", "register"} => prp.list = 0
    /\ call.at = "lookup" => prp.list # 0 /\ prp.max = call.max
    /\ allocs = BufPages \cup (IF "memory" \notin listMem THEN {}
                                ELSE IF call.at = "none" THEN ListPagesOf(prp.max + 1)
                                ELSE call.pages)

\* Nothing has happened to the list of a command that is waited for.
CmdInv == cmd.sound /\ ~cmd.late => waiting /\ MovesTo = cmd.want

BarInv ==
    /\ map \in [fd : {"unset", "none", "open", "closed"},
                cpu : {"none", "mapped", "failed"}, gpu : {"none", "mapped"}]
    /\ barHeld \subseteq {"fd", "cpu", "reg"}
    /\ stray \in BOOLEAN /\ closedEarly \in BOOLEAN
    /\ map.fd = "open" <=> "fd" \in barHeld
    /\ map.fd = "closed" => closedEarly
    /\ BarReleasedOnce

DmaInv == DmaTyped /\ ListInv /\ BuiltInv /\ BufInv /\ CmdInv /\ CallInv

IInv == DmaInv /\ BarInv

----------------------------------------------------------------------------
(* Lists *)

\* A list of one page is read entry by entry.
LEMMA ShortList ==
    ASSUME NEW mm, NEW l, NEW j \in Nat, NEW m \in Nat, m <= PerPage
    PROVE  ListEntry(mm, l, j, m) = mm[l][j]
BY DEF ListEntry

LEMMA ShortPages ==
    ASSUME NEW mm, NEW p1, NEW p2, NEW n \in Nat, n - 1 <= PerPage
    PROVE  Pages(mm, p1, p2, n) =
             [k \in 0 .. n - 1 |-> IF k = 0 THEN p1 ELSE IF n = 2 THEN p2 ELSE mm[p2][k - 1]]
<1>1. ASSUME NEW k \in 0 .. n - 1, k # 0
      PROVE  ListEntry(mm, p2, k - 1, n - 1) = mm[p2][k - 1]
  BY <1>1, ShortList
<1>q. QED
  BY <1>1 DEF Pages

\* The capacity in the structure is that of the memory it was given.
LEMMA SamePages ==
    ASSUME NEW m \in MaxPages
    PROVE  /\ AllocEntries(m) \in Nat \ {0}
           /\ ListPagesOf(AllocEntries(m) + 1) = ListPagesOf(m)
<1>1. m \in Nat /\ m # 0
  OBVIOUS
<1>2. AllocEntries(m) \in Nat \ {0}
  BY <1>1 DEF AllocEntries
<1>3. AllocEntries(AllocEntries(m) + 1) = AllocEntries(m)
  BY <1>1, <1>2 DEF AllocEntries
<1>q. QED
  BY <1>2, <1>3 DEF ListPagesOf

\* The pages of the first n pages of an area are pages of the process.
LEMMA AreaPages ==
    ASSUME NEW a \in Areas, NEW n \in Nat, n <= a.pages
    PROVE  a.base \in VPages /\ a.base .. a.base + n - 1 \subseteq VPages
<1>1. a.base \in Nat /\ a.pages \in Nat /\ a.base .. a.base + a.pages - 1 \subseteq VPages
  OBVIOUS
<1>2. a.base .. a.base + n - 1 \subseteq a.base .. a.base + a.pages - 1
  BY <1>1
<1>q. QED
  BY <1>1, <1>2

\* What the loop of gpunvme_prp_list_build leaves in memory, for any number of
\* pages looked up: addresses, and in the first page of the list those of the
\* area when its list is no longer than that.
LEMMA Written ==
    ASSUME DmaTyped, ListInv, prp.list # 0, NEW v \in VPages, NEW i \in Nat,
           v .. v + i - 1 \subseteq VPages
    PROVE  /\ ListWritten(v, i) \in [Addrs -> [Entries -> Addrs]]
           /\ i - 1 <= PerPage => \A p \in 1 .. i - 1 :
                ListWritten(v, i)[pagemap[ListBase]][p - 1] = Phys(v + p)
<1> DEFINE Slot(f, e) == {p \in 1 .. i - 1 : ListFrame(ListSlot(p)) = f /\ ListSlot(p) % PerPage = e}
           Val(f, e) == IF Slot(f, e) = {} THEN mem[f][e] ELSE Phys(v + (CHOOSE p \in Slot(f, e) : TRUE))
<1>1. ListWritten(v, i) = [f \in Addrs |-> [e \in Entries |-> Val(f, e)]]
  BY DEF ListWritten, DmaTyped
<1>2. \A p \in 1 .. i - 1 : v + p \in VPages /\ Phys(v + p) \in Addrs
  BY DEF DmaTyped, Phys, Addrs
<1>3. ASSUME NEW f \in Addrs, NEW e \in Entries PROVE Val(f, e) \in Addrs
  <2>1. CASE Slot(f, e) = {}
    BY <2>1 DEF DmaTyped
  <2>2. CASE Slot(f, e) # {}
    <3>1. (CHOOSE p \in Slot(f, e) : TRUE) \in 1 .. i - 1
      BY <2>2
    <3>q. QED
      BY <1>2, <2>2, <3>1
  <2>q. QED
    BY <2>1, <2>2
<1>4. ASSUME i - 1 <= PerPage, NEW p \in 1 .. i - 1
      PROVE  ListWritten(v, i)[pagemap[ListBase]][p - 1] = Phys(v + p)
  <2>1. p - 1 \in Entries /\ pagemap[ListBase] \in Addrs
    BY <1>4 DEF Entries, DmaTyped
  <2>2. ASSUME NEW q \in 1 .. i - 1 PROVE ListFrame(ListSlot(q)) = pagemap[ListBase] /\ ListSlot(q) % PerPage = q - 1
    <3>1. ListSlot(q) \in 0 .. PerPage - 1
      BY <1>4 DEF ListSlot
    <3>2. ListSlot(q) \div PerPage = 0 /\ ListSlot(q) % PerPage = ListSlot(q)
      BY <3>1
    <3>q. QED
      BY <3>1, <3>2 DEF ListSlot, ListFrame, ListInv
  <2>3. Slot(pagemap[ListBase], p - 1) = {p}
    BY <2>2
  <2>4. Val(pagemap[ListBase], p - 1) = Phys(v + p)
    BY <2>3
  <2> HIDE DEF Val
  <2>q. QED
    BY <1>1, <2>1, <2>4
<1> HIDE DEF Val
<1>5. ListWritten(v, i) \in [Addrs -> [Entries -> Addrs]]
  BY <1>1, <1>3
<1>q. QED
  BY <1>4, <1>5

----------------------------------------------------------------------------
(* The steps *)

LEMMA InitInv == Init => IInv
<1> SUFFICES ASSUME Init PROVE IInv
  OBVIOUS
<1>1. DmaTyped
  <2>1. cmd.want \in Wants
    <3>1. cmd.want = [k \in 0 .. 0 - 1 |-> 0]
      BY DEF Init, NoCmd
    <3>2. [k \in 0 .. 0 - 1 |-> 0] \in [0 .. 0 - 1 -> Addrs]
      BY DEF Addrs
    <3>q. QED
      BY <3>1, <3>2 DEF Wants
  <2>2. /\ pagemap \in [VPages -> Addrs] /\ priv \in BOOLEAN
        /\ mem \in [Addrs -> [Entries -> Addrs]]
    BY DEF Init, Addrs
  <2>q. QED
    BY <2>1, <2>2 DEF Init, DmaTyped, NoPrp, NoBuf, NoCmd, NoCall, NotBuilt, Addrs
<1>2. ListInv /\ BuiltInv /\ BufInv /\ CmdInv /\ CallInv
  BY DEF Init, ListInv, BuiltInv, BufInv, CmdInv, CallInv, BufPages, NoPrp, NoBuf, NoCmd, NoCall, NotBuilt
<1>3. BarInv
  BY DEF Init, BarInit, BarInv, BarReleasedOnce, NoMap
<1>q. QED
  BY <1>1, <1>2, <1>3 DEF IInv, DmaInv

\* Nobody waits: a command that is still about is one that was given up.
LEMMA NotWaited ==
    ASSUME CmdInv, ~waiting, cmd' = cmd PROVE CmdInv'
BY DEF CmdInv

\* Memory is as long as there are frames, whatever is put into some of them.
LEMMA ZeroedTyped ==
    ASSUME DmaTyped, NEW pages PROVE Zeroed(pages) \in [Addrs -> [Entries -> Addrs]]
BY DEF Zeroed, DmaTyped, Addrs

\* A call of gpunvme_prp_list_alloc or gpunvme_prp_list_free begins.
LEMMA StartStep ==
    ASSUME DmaInv, (\E m \in MaxPages : PrpListAllocStart(m)) \/ PrpListFree PROVE DmaInv'
<1>0. DmaTyped /\ ListInv /\ BuiltInv /\ BufInv /\ CmdInv /\ CallInv
  BY DEF DmaInv
<1>1. /\ ~waiting /\ call.at = "none" /\ built' = NotBuilt
      /\ UNCHANGED <<pagemap, priv, mem, buf, allocs, listMem, cmd, waiting>>
  BY DEF PrpListAllocStart, PrpListFree, Ready
<1>2. BuiltInv' /\ BufInv' /\ CmdInv' /\ BufPages' = BufPages
  BY <1>0, <1>1, NotWaited DEF BuiltInv, NotBuilt, BufInv, BufPages
<1>3. ASSUME NEW m \in MaxPages, PrpListAllocStart(m) PROVE DmaTyped' /\ ListInv' /\ CallInv'
  <2>1. /\ call' = [at |-> "memalign", pages |-> ListPagesOf(m), max |-> AllocEntries(m)]
        /\ prp.list = 0 /\ prp = NoPrp /\ prp' = prp
    BY <1>0, <1>3 DEF PrpListAllocStart, ListInv
  <2>a. AllocEntries(m) \in Nat /\ ListPagesOf(m) \in SUBSET VPages
    BY SamePages
  <2>2. DmaTyped' /\ ListInv'
    BY <1>0, <1>1, <2>1, <2>a DEF DmaTyped, ListInv, NotBuilt
  <2>3. CallInv'
    BY <1>0, <1>1, <1>2, <2>1 DEF CallInv
  <2>q. QED
    BY <2>2, <2>3
<1>4. ASSUME PrpListFree PROVE DmaTyped' /\ ListInv' /\ CallInv'
  <2>1. /\ call' = [at |-> "unregister", pages |-> ListPagesOf(prp.max + 1), max |-> prp.max]
        /\ prp.list # 0 /\ prp' = prp
    BY <1>4 DEF PrpListFree
  <2>2. PICK m \in MaxPages : prp.max = AllocEntries(m)
    BY <1>0, <2>1 DEF ListInv
  <2>3. ListPagesOf(prp.max + 1) = ListPagesOf(m)
    BY <2>2, SamePages
  <2>a. ListPagesOf(m) \in SUBSET VPages /\ prp.max \in Nat
    BY <1>0 DEF DmaTyped
  <2>4. DmaTyped' /\ ListInv'
    BY <1>0, <1>1, <2>1, <2>3, <2>a DEF DmaTyped, ListInv, NotBuilt
  <2>5. CallInv'
    <3>1. \E k \in MaxPages : call'.pages = ListPagesOf(k) /\ call'.max = AllocEntries(k)
      BY <2>1, <2>2, <2>3
    <3>2. "memory" \in listMem /\ "registered" \in listMem
      BY <1>0, <1>1, <2>1 DEF CallInv
    <3>3. allocs = BufPages \cup ListPagesOf(prp.max + 1)
      BY <1>0, <1>1, <3>2 DEF CallInv
    <3>q. QED
      BY <1>1, <1>2, <2>1, <3>1, <3>2, <3>3 DEF CallInv
  <2>q. QED
    BY <2>4, <2>5
<1>q. QED
  BY <1>2, <1>3, <1>4 DEF DmaInv

\* Its steps, those of the error paths included.
LEMMA CallStep == ASSUME DmaInv, ListCall PROVE DmaInv'
<1>0. DmaTyped /\ ListInv /\ BuiltInv /\ BufInv /\ CmdInv /\ CallInv
  BY DEF DmaInv
<1> DEFINE Ats == {"none", "mlock", "register", "lookup", "unregister", "munlock", "free"}
<1>a. PICK at \in Ats : Goto(at)
  BY DEF ListCall, Memalign, Mlock, Register, ListLookup, PrpListAllocFails, Unregister, Munlock,
         FreeList, UndoFrom
<1>b. /\ call' \in [at : Ats, pages : SUBSET VPages, max : Nat] /\ call'.at = at
      /\ at # "none" => call'.pages = call.pages /\ call'.max = call.max
  <2>1. CASE at = "none"
    BY <1>a, <2>1 DEF Goto, NoCall
  <2>2. CASE at # "none"
    <3>1. call' = [call EXCEPT !.at = at]
      BY <1>a, <2>2 DEF Goto
    <3>q. QED
      BY <1>0, <2>2, <3>1 DEF DmaTyped
  <2>q. QED
    BY <2>1, <2>2
<1>1. /\ call.at # "none" /\ UNCHANGED <<pagemap, priv, built, buf, cmd, waiting>>
      /\ call'.at \in Ats
  <2>1. call.at # "none" /\ UNCHANGED <<pagemap, priv, built, buf, cmd, waiting>>
    BY DEF ListCall, Memalign, Mlock, Register, ListLookup, PrpListAllocFails, Unregister,
           Munlock, FreeList
  <2>q. QED
    BY <1>b, <2>1
<1>c. \A x : Goto(x) => call'.at = x
  <2> SUFFICES ASSUME NEW x, Goto(x) PROVE call'.at = x
    OBVIOUS
  <2>1. CASE x = "none"
    BY <2>1 DEF Goto, NoCall
  <2>2. CASE x # "none"
    BY <1>0, <2>2 DEF Goto, DmaTyped
  <2>q. QED
    BY <2>1, <2>2
<1>2. PICK m \in MaxPages : call.pages = ListPagesOf(m) /\ call.max = AllocEntries(m)
  BY <1>0, <1>1 DEF CallInv
<1>3. ~waiting /\ built = NotBuilt
  BY <1>0, <1>1 DEF CallInv
<1>4. BuiltInv' /\ BufInv' /\ CmdInv' /\ BufPages' = BufPages /\ Phys(ListBase)' = Phys(ListBase)
  BY <1>0, <1>1, <1>3, NotWaited DEF BuiltInv, NotBuilt, BufInv, BufPages, Phys
<1>5. BufPages \cap call.pages = {}
  BY <1>0, <1>2 DEF BufPages, DmaTyped
<1>6. call.max \in Nat /\ Phys(ListBase) \in Addrs /\ ListPagesOf(call.max + 1) = call.pages
  BY <1>0, <1>2, SamePages DEF DmaTyped, Phys, Addrs
<1>7. Zeroed(call.pages) \in [Addrs -> [Entries -> Addrs]]
  BY <1>0, ZeroedTyped
<1>8. ASSUME call'.at # "none" PROVE call'.pages = call.pages /\ call'.max = call.max
  BY <1>b, <1>8
<1>9. CASE Memalign
  <2>1. /\ call.at = "memalign" /\ call'.at = "mlock" /\ UNCHANGED <<mem, prp>>
        /\ allocs' = allocs \cup call.pages /\ listMem' = listMem \cup {"memory"}
    BY <1>c, <1>9 DEF Memalign
  <2>2. DmaTyped' /\ ListInv'
    BY <1>0, <1>b, <1>1, <1>4, <2>1 DEF DmaTyped, ListInv
  <2>3. CallInv'
    BY <1>0, <1>b, <1>1, <1>2, <1>3, <1>4, <1>8, <2>1 DEF CallInv
  <2>q. QED
    BY <1>4, <2>2, <2>3 DEF DmaInv
<1>10. CASE Mlock
  <2>1. /\ call.at = "mlock" /\ call'.at = "register" /\ UNCHANGED <<mem, prp, allocs>>
        /\ listMem' = listMem \/ listMem' = listMem \cup {"locked"}
    BY <1>c, <1>10 DEF Mlock
  <2>a. listMem' \subseteq {"memory", "locked", "registered"}
    <3>1. listMem \subseteq {"memory", "locked", "registered"}
      BY <1>0 DEF DmaTyped
    <3>q. QED
      BY <2>1, <3>1
  <2>b. DmaTyped'
    BY <1>0, <1>b, <1>1, <2>1, <2>a DEF DmaTyped
  <2>2. DmaTyped' /\ ListInv'
    BY <1>0, <1>1, <1>4, <2>1, <2>b DEF ListInv
  <2>3. CallInv'
    BY <1>0, <1>b, <1>1, <1>2, <1>3, <1>4, <1>8, <2>1 DEF CallInv
  <2>q. QED
    BY <1>4, <2>2, <2>3 DEF DmaInv
<1>11. CASE Register
  <2>1. /\ call.at = "register" /\ call'.at = "lookup" /\ allocs' = allocs
        /\ listMem' = listMem \cup {"registered"} /\ mem' = Zeroed(call.pages)
        /\ prp' = [list |-> ListBase, phys |-> 0, prp1 |-> 0, prp2 |-> 0, n |-> 0,
                   max |-> call.max]
    BY <1>c, <1>11 DEF Register, NoPrp
  <2>2. DmaTyped' /\ ListInv'
    BY <1>0, <1>b, <1>1, <1>2, <1>6, <1>7, <2>1 DEF DmaTyped, ListInv, Addrs
  <2>3. CallInv'
    BY <1>0, <1>b, <1>1, <1>2, <1>3, <1>4, <1>8, <2>1 DEF CallInv
  <2>q. QED
    BY <1>4, <2>2, <2>3 DEF DmaInv
<1>12. CASE ListLookup
  <2>1. /\ call.at = "lookup" /\ call'.at = "none" /\ UNCHANGED <<mem, allocs, listMem>>
        /\ prp' = [prp EXCEPT !.phys = Phys(ListBase)] /\ prp.list # 0 /\ prp.max = call.max
    BY <1>0, <1>c, <1>12 DEF ListLookup, CallInv
  <2>2. /\ prp'.list = prp.list /\ prp'.phys = Phys(ListBase) /\ prp'.max = prp.max
        /\ prp' \in [list : {0, ListBase}, phys : Addrs, prp1 : Addrs, prp2 : Addrs,
                     n : Nat, max : Nat]
    BY <1>0, <1>6, <2>1 DEF DmaTyped
  <2>3. DmaTyped' /\ ListInv'
    BY <1>0, <1>b, <1>1, <1>4, <2>1, <2>2 DEF DmaTyped, ListInv
  <2>4. CallInv'
    BY <1>0, <1>4, <1>6, <2>1, <2>2 DEF CallInv
  <2>q. QED
    BY <1>4, <2>3, <2>4 DEF DmaInv
<1>13. CASE PrpListAllocFails
  <2>1. /\ UNCHANGED <<mem, prp, allocs, listMem>>
        /\ \/ call.at = "memalign" /\ call'.at = "none"
           \/ call.at = "register" /\ call'.at = "munlock"
           \/ call.at = "lookup" /\ call'.at = "unregister"
    BY <1>c, <1>13 DEF PrpListAllocFails, UndoFrom
  <2>2. DmaTyped' /\ ListInv'
    BY <1>0, <1>b, <1>1, <1>4, <2>1 DEF DmaTyped, ListInv, CallInv
  <2>3. CallInv'
    BY <1>0, <1>b, <1>1, <1>2, <1>3, <1>4, <1>8, <2>1 DEF CallInv
  <2>q. QED
    BY <1>4, <2>2, <2>3 DEF DmaInv
<1>14. CASE Unregister \/ Munlock
  <2>1. /\ UNCHANGED <<mem, prp, allocs>>
        /\ \/ call.at = "unregister" /\ call'.at = "munlock" /\ listMem' = listMem \ {"registered"}
           \/ call.at = "munlock" /\ call'.at = "free" /\ listMem' = listMem \ {"locked"}
    BY <1>c, <1>14 DEF Unregister, Munlock
  <2>a. listMem' \subseteq {"memory", "locked", "registered"}
    BY <1>0, <2>1 DEF DmaTyped
  <2>b. DmaTyped'
    BY <1>0, <1>b, <1>1, <2>1, <2>a DEF DmaTyped
  <2>2. DmaTyped' /\ ListInv'
    BY <1>0, <1>1, <1>4, <2>1, <2>b DEF ListInv
  <2>3. CallInv'
    BY <1>0, <1>b, <1>1, <1>2, <1>3, <1>4, <1>8, <2>1 DEF CallInv
  <2>q. QED
    BY <1>4, <2>2, <2>3 DEF DmaInv
<1>15. CASE FreeList
  <2>1. /\ call.at = "free" /\ call'.at = "none" /\ prp' = NoPrp
        /\ allocs' = allocs \ call.pages /\ listMem' = listMem \ {"memory"}
        /\ mem' = Zeroed(call.pages)
    BY <1>c, <1>15 DEF FreeList, FreedPrp
  <2>2. DmaTyped' /\ ListInv'
    BY <1>0, <1>b, <1>1, <1>7, <2>1 DEF DmaTyped, ListInv, NoPrp, Addrs
  <2>3. CallInv'
    BY <1>0, <1>4, <1>5, <2>1 DEF CallInv, NoPrp
  <2>q. QED
    BY <1>4, <2>2, <2>3 DEF DmaInv
<1>q. QED
  BY <1>9, <1>10, <1>11, <1>12, <1>13, <1>14, <1>15 DEF ListCall

\* gpunvme_prp_list_build, to the end or to the page that cannot be looked up.
LEMMA BuildStep ==
    ASSUME DmaInv, NEW a \in Areas, NEW n \in 1 .. a.pages, PrpListBuildOk(a, n) PROVE DmaInv'
<1>0. DmaTyped /\ ListInv /\ BuiltInv /\ BufInv /\ CmdInv /\ CallInv
  BY DEF DmaInv
<1>1. /\ ~waiting /\ prp.list # 0 /\ built' = [base |-> a.base, n |-> n]
      /\ mem' = ListWritten(a.base, n)
      /\ call.at = "none" /\ UNCHANGED <<pagemap, priv, buf, allocs, listMem, call, cmd, waiting>>
  BY DEF PrpListBuildOk, Ready
<1>2a. n \in Nat /\ n # 0 /\ n <= a.pages
  OBVIOUS
<1>2. n \in Nat /\ n # 0 /\ a.base \in VPages /\ a.base .. a.base + n - 1 \subseteq VPages
  BY <1>2a, AreaPages
<1>3. /\ mem' \in [Addrs -> [Entries -> Addrs]]
      /\ n - 1 <= PerPage => \A p \in 1 .. n - 1 :
           mem'[pagemap[ListBase]][p - 1] = Phys(a.base + p)
  BY <1>0, <1>1, <1>2, Written
<1>4. ListFrame(0) = pagemap[ListBase] /\ pagemap[ListBase] \in Addrs /\ 0 \in Entries
  <2>1. 0 \div PerPage = 0
    OBVIOUS
  <2>q. QED
    BY <1>0, <1>1, <2>1 DEF ListFrame, ListInv, DmaTyped, Entries
<1>5. Phys(a.base) \in Addrs
  BY <1>0, <1>2 DEF DmaTyped, Phys, Addrs
<1> DEFINE P2 == Prp2For(n, mem'[pagemap[ListBase]][0], prp.phys)
           N2 == IF n > 1 THEN n - 1 ELSE 0
<1>6. prp' = [prp EXCEPT !.prp1 = Phys(a.base), !.prp2 = P2, !.n = N2]
  BY <1>4 DEF PrpListBuildOk
<1>7. P2 \in Addrs /\ N2 \in Nat
  <2>1. mem'[pagemap[ListBase]][0] \in Addrs /\ prp.phys \in Addrs /\ 0 \in Addrs
    <3>1. mem'[pagemap[ListBase]][0] \in Addrs
      BY <1>3, <1>4
    <3>q. QED
      BY <1>0, <3>1 DEF DmaTyped, Addrs
  <2>2. P2 \in Addrs
    BY <1>2a, <2>1 DEF Prp2For
  <2>3. N2 \in Nat
    BY <1>2a
  <2>q. QED
    BY <2>2, <2>3
<1>8. /\ prp' \in [list : {0, ListBase}, phys : Addrs, prp1 : Addrs, prp2 : Addrs,
                  n : Nat, max : Nat]
      /\ prp'.list = prp.list /\ prp'.phys = prp.phys /\ prp'.max = prp.max
      /\ prp'.prp1 = Phys(a.base) /\ prp'.prp2 = P2
  <2> HIDE DEF P2, N2
  <2>q. QED
    BY <1>0, <1>5, <1>6, <1>7 DEF DmaTyped
<1>9. DmaTyped'
  BY <1>0, <1>1, <1>2, <1>3, <1>8 DEF DmaTyped
<1>10. ListInv' /\ BufInv' /\ CmdInv' /\ CallInv'
  <2>1. ListInv'
    BY <1>0, <1>1, <1>8 DEF ListInv, Phys
  <2>2. CallInv'
    BY <1>0, <1>1, <1>8 DEF CallInv, BufPages
  <2>q. QED
    BY <1>0, <1>1, <2>1, <2>2, NotWaited DEF BufInv
<1>11. BuiltInv'
  <2>1. built'.base = a.base /\ built'.n = n
    BY <1>1
  <2>2. ASSUME priv, n - 1 <= PerPage
        PROVE  Pages(mem', prp'.prp1, prp'.prp2, n) = [k \in 0 .. n - 1 |-> pagemap[a.base + k]]
    <3>1. Pages(mem', prp'.prp1, prp'.prp2, n) = [k \in 0 .. n - 1 |->
             IF k = 0 THEN prp'.prp1 ELSE IF n = 2 THEN prp'.prp2 ELSE mem'[prp'.prp2][k - 1]]
      <4>1. PICK mm, p1, p2 : mm = mem' /\ p1 = prp'.prp1 /\ p2 = prp'.prp2
        OBVIOUS
      <4>2. Pages(mm, p1, p2, n) = [k \in 0 .. n - 1 |->
               IF k = 0 THEN p1 ELSE IF n = 2 THEN p2 ELSE mm[p2][k - 1]]
        BY <1>2a, <2>2, ShortPages
      <4>q. QED
        BY <4>1, <4>2
    <3>2. prp.phys = pagemap[ListBase] /\ \A k \in 0 .. n - 1 : Phys(a.base + k) = pagemap[a.base + k]
      BY <1>0, <1>1, <2>2 DEF ListInv, Phys
    <3>3. ASSUME NEW k \in 0 .. n - 1
          PROVE  (IF k = 0 THEN prp'.prp1 ELSE IF n = 2 THEN prp'.prp2 ELSE mem'[prp'.prp2][k - 1])
                   = pagemap[a.base + k]
      <4>1. CASE k = 0
        <5>1. Phys(a.base + 0) = Phys(a.base) /\ Phys(a.base + 0) = pagemap[a.base + 0]
          <6>1. a.base \in Nat
            BY <1>2
          <6>2. a.base + 0 = a.base
            BY <6>1
          <6>q. QED
            BY <3>2, <4>1, <6>2
        <5>q. QED
          BY <1>8, <4>1, <5>1
      <4>2. CASE k # 0 /\ n = 2
        <5>1. k = 1 /\ P2 = mem'[pagemap[ListBase]][0]
          BY <4>2 DEF Prp2For
        <5>2. 1 \in 1 .. n - 1
          BY <4>2
        <5>3. mem'[pagemap[ListBase]][1 - 1] = Phys(a.base + 1)
          BY <1>3, <2>2, <5>2
        <5>q. QED
          BY <1>8, <3>2, <4>2, <5>1, <5>3
      <4>3. CASE k # 0 /\ n # 2
        <5>1. P2 = prp.phys /\ k \in 1 .. n - 1
          BY <1>2, <4>3 DEF Prp2For
        <5>2. mem'[pagemap[ListBase]][k - 1] = Phys(a.base + k)
          BY <1>3, <2>2, <5>1
        <5>q. QED
          BY <1>8, <3>2, <4>3, <5>1, <5>2
      <4>q. QED
        BY <4>1, <4>2, <4>3
    <3>q. QED
      BY <3>1, <3>3
  <2>q. QED
    BY <1>1, <1>2, <2>1, <2>2 DEF BuiltInv
<1>q. QED
  BY <1>9, <1>10, <1>11 DEF DmaInv

LEMMA BuildFailsStep ==
    ASSUME DmaInv, NEW a \in Areas, NEW n \in 1 .. a.pages, NEW i \in 0 .. n - 1,
           PrpListBuildFails(a, n, i)
    PROVE  DmaInv'
<1>0. DmaTyped /\ ListInv /\ BuiltInv /\ BufInv /\ CmdInv /\ CallInv
  BY DEF DmaInv
<1>1. /\ ~waiting /\ prp.list # 0 /\ built' = NotBuilt
      /\ mem' = ListWritten(a.base, i)
      /\ call.at = "none" /\ UNCHANGED <<pagemap, priv, buf, allocs, listMem, call, cmd, waiting>>
  BY DEF PrpListBuildFails, Ready
<1>2a. i \in Nat /\ i <= a.pages
  OBVIOUS
<1>2. i \in Nat /\ a.base \in VPages /\ a.base .. a.base + i - 1 \subseteq VPages
  BY <1>2a, AreaPages
<1>3. mem' \in [Addrs -> [Entries -> Addrs]]
  BY <1>0, <1>1, <1>2, Written
<1>4. PICK x \in Addrs : prp' = [prp EXCEPT !.prp1 = x]
  <2>1. Phys(a.base) \in Addrs /\ prp.prp1 \in Addrs
    BY <1>0, <1>2 DEF DmaTyped, Phys, Addrs
  <2>2. prp' = [prp EXCEPT !.prp1 = IF i = 0 THEN prp.prp1 ELSE Phys(a.base)]
    BY DEF PrpListBuildFails
  <2>q. QED
    BY <2>1, <2>2
<1>5. /\ prp' \in [list : {0, ListBase}, phys : Addrs, prp1 : Addrs, prp2 : Addrs,
                  n : Nat, max : Nat]
      /\ prp'.list = prp.list /\ prp'.phys = prp.phys /\ prp'.max = prp.max
  BY <1>0, <1>4 DEF DmaTyped
<1>6. DmaTyped'
  BY <1>0, <1>1, <1>3, <1>5 DEF DmaTyped, NotBuilt
<1>7. ListInv'
  BY <1>0, <1>1, <1>5 DEF ListInv, Phys
<1>8. CallInv'
  BY <1>0, <1>1, <1>5 DEF CallInv, BufPages
<1>9. BuiltInv' /\ BufInv' /\ CmdInv'
  BY <1>0, <1>1, NotWaited DEF BuiltInv, BufInv, NotBuilt
<1>q. QED
  BY <1>6, <1>7, <1>8, <1>9 DEF DmaInv

\* gpunvme_dma_alloc_host, gpunvme_dma_alloc_gpu and gpunvme_dma_free
LEMMA BufStep ==
    ASSUME DmaInv, (\E found \in BOOLEAN : DmaAllocHost(found)) \/ DmaAllocGpu \/ DmaFree
    PROVE  DmaInv'
<1>0. DmaTyped /\ ListInv /\ BuiltInv /\ BufInv /\ CmdInv /\ CallInv
  BY DEF DmaInv
<1>1. /\ ~waiting /\ call.at = "none"
      /\ UNCHANGED <<pagemap, priv, mem, prp, built, listMem, call, cmd, waiting>>
  BY DEF DmaAllocHost, DmaAllocGpu, DmaFree, Ready
<1>2. BuiltInv' /\ CmdInv' /\ ListInv'
  BY <1>0, <1>1, NotWaited DEF BuiltInv, ListInv, Phys
<1>3. ASSUME NEW found \in BOOLEAN, DmaAllocHost(found) PROVE DmaTyped' /\ BufInv' /\ CallInv'
  <2>1. /\ buf' = [v |-> BufPage, type |-> "host", real |-> found,
                   phys |-> IF found THEN Phys(BufPage) ELSE BufPage]
        /\ allocs' = allocs \cup {BufPage} /\ buf.v = 0
    BY <1>3 DEF DmaAllocHost
  <2>2. Phys(BufPage) \in Addrs
    BY <1>0 DEF DmaTyped, Phys, Addrs
  <2>3. DmaTyped'
    BY <1>0, <1>1, <2>1, <2>2 DEF DmaTyped
  <2>4. BufInv' /\ CallInv'
    BY <1>0, <1>1, <2>1 DEF BufInv, CallInv, BufPages, Phys
  <2>q. QED
    BY <2>3, <2>4
<1>4. ASSUME DmaAllocGpu PROVE DmaTyped' /\ BufInv' /\ CallInv'
  <2>1. /\ buf' = [v |-> BufPage, type |-> "gpu", real |-> FALSE, phys |-> 0]
        /\ allocs' = allocs \cup {BufPage} /\ buf.v = 0
    BY <1>4 DEF DmaAllocGpu
  <2>2. DmaTyped' /\ BufInv'
    BY <1>0, <1>1, <2>1 DEF DmaTyped, BufInv, Addrs
  <2>3. CallInv'
    BY <1>0, <1>1, <2>1 DEF CallInv, BufPages
  <2>q. QED
    BY <2>2, <2>3
<1>5. ASSUME DmaFree PROVE DmaTyped' /\ BufInv' /\ CallInv'
  <2>1. buf' = NoBuf /\ allocs' = allocs \ {buf.v} /\ buf.v = BufPage
    BY <1>0, <1>5 DEF DmaFree, DmaTyped
  <2>2. prp.list # 0 => BufPage \notin ListPagesOf(prp.max + 1)
    <3>1. SUFFICES ASSUME prp.list # 0 PROVE BufPage \notin ListPagesOf(prp.max + 1)
      OBVIOUS
    <3>2. PICK m \in MaxPages : prp.max = AllocEntries(m)
      BY <1>0, <3>1 DEF ListInv
    <3>q. QED
      BY <3>2, SamePages
  <2>3. DmaTyped' /\ BufInv'
    BY <1>0, <1>1, <2>1 DEF DmaTyped, BufInv, NoBuf, Addrs
  <2>4. CallInv'
    BY <1>0, <1>1, <2>1, <2>2 DEF CallInv, BufPages, NoBuf
  <2>q. QED
    BY <2>3, <2>4
<1>6. DmaTyped' /\ BufInv' /\ CallInv'
  BY <1>3, <1>4, <1>5
<1>q. QED
  BY <1>2, <1>6 DEF DmaInv

\* The application submits, waits, gives up; the controller executes.
LEMMA SubmitStep == ASSUME DmaInv, SubmitList \/ SubmitBuf PROVE DmaInv'
<1>0. DmaTyped /\ ListInv /\ BuiltInv /\ BufInv /\ CmdInv /\ CallInv
  BY DEF DmaInv
<1>1. /\ waiting' = TRUE /\ call.at = "none"
      /\ UNCHANGED <<pagemap, priv, mem, prp, built, buf, allocs, listMem, call>>
  BY DEF SubmitList, SubmitBuf, Submit, Ready
<1>2. ListInv' /\ BuiltInv' /\ BufInv' /\ CallInv'
  BY <1>0, <1>1 DEF ListInv, BuiltInv, BufInv, CallInv, BufPages, Phys
<1>3. CASE SubmitList
  <2> DEFINE want == [k \in 0 .. built.n - 1 |-> pagemap[built.base + k]]
             ok == priv /\ built.n - 1 <= PerPage
  <2>1. /\ cmd' = [prp1 |-> prp.prp1, prp2 |-> prp.prp2, n |-> built.n, want |-> want,
                   sound |-> ok, late |-> FALSE]
        /\ built.n # 0
    BY <1>3 DEF SubmitList, Submit
  <2>2. built.n \in Nat /\ built.base \in VPages /\ built.base .. built.base + built.n - 1 \subseteq VPages
    BY <1>0, <2>1 DEF BuiltInv, DmaTyped
  <2>3. want \in [0 .. built.n - 1 -> Addrs]
    <3>1. \A k \in 0 .. built.n - 1 : built.base + k \in VPages
      <4>1. SUFFICES ASSUME NEW k \in 0 .. built.n - 1 PROVE built.base + k \in VPages
        OBVIOUS
      <4>2. built.base \in Nat
        BY <2>2
      <4>3. built.base + k \in built.base .. built.base + built.n - 1
        BY <2>2, <4>2
      <4>q. QED
        BY <2>2, <4>3
    <3>q. QED
      BY <1>0, <3>1 DEF DmaTyped
  <2>4. want \in Wants
    BY <2>2, <2>3 DEF Wants
  <2>5. ok \in BOOLEAN /\ prp.prp1 \in Addrs /\ prp.prp2 \in Addrs
    BY <1>0 DEF DmaTyped
  <2>6. ok => Pages(mem, prp.prp1, prp.prp2, built.n) = want
    BY <1>0, <2>1 DEF BuiltInv
  <2> HIDE DEF want, ok
  <2>7. DmaTyped'
    BY <1>0, <1>1, <2>1, <2>2, <2>4, <2>5 DEF DmaTyped
  <2>8. CmdInv'
    BY <1>1, <2>1, <2>6 DEF CmdInv, MovesTo
  <2>q. QED
    BY <1>2, <2>7, <2>8 DEF DmaInv
<1>4. CASE SubmitBuf
  <2> DEFINE want == [k \in 0 .. 0 |-> pagemap[buf.v]]
             ok == priv /\ buf.real
  <2>1. /\ cmd' = [prp1 |-> buf.phys, prp2 |-> 0, n |-> 1, want |-> want,
                   sound |-> ok, late |-> FALSE]
        /\ buf.type = "host"
    BY <1>4 DEF SubmitBuf, Submit
  <2>2. buf.v \in VPages
    BY <1>0, <2>1 DEF BufInv, DmaTyped
  <2>3. want \in [0 .. 1 - 1 -> Addrs]
    BY <1>0, <2>2 DEF DmaTyped
  <2>4. want \in Wants
    BY <2>3 DEF Wants
  <2>5. ok \in BOOLEAN /\ buf.phys \in Addrs \cup VPages /\ 0 \in Addrs
    BY <1>0 DEF DmaTyped, Addrs
  <2>6. ok => Pages(mem, buf.phys, 0, 1) = want
    <3>1. Pages(mem, buf.phys, 0, 1) = [k \in 0 .. 1 - 1 |-> buf.phys]
      BY DEF Pages
    <3>q. QED
      BY <1>0, <2>1, <3>1 DEF BufInv
  <2> HIDE DEF want, ok
  <2>7. DmaTyped'
    BY <1>0, <1>1, <2>1, <2>4, <2>5 DEF DmaTyped
  <2>8. CmdInv'
    BY <1>1, <2>1, <2>6 DEF CmdInv, MovesTo
  <2>q. QED
    BY <1>2, <2>7, <2>8 DEF DmaInv
<1>q. QED
  BY <1>3, <1>4

LEMMA EndStep == ASSUME DmaInv, GiveUp \/ DevExecute PROVE DmaInv'
<1>0. DmaTyped /\ ListInv /\ BuiltInv /\ BufInv /\ CmdInv /\ CallInv
  BY DEF DmaInv
<1>1. waiting' = FALSE /\ UNCHANGED <<pagemap, priv, mem, prp, built, buf, allocs, listMem, call>>
  BY DEF GiveUp, DevExecute
<1>2. ListInv' /\ BuiltInv' /\ BufInv' /\ CallInv'
  BY <1>0, <1>1 DEF ListInv, BuiltInv, BufInv, CallInv, BufPages, Phys
<1>3. CASE GiveUp
  <2>1. cmd' = [cmd EXCEPT !.late = TRUE]
    BY <1>3 DEF GiveUp
  <2>2. DmaTyped'
    BY <1>0, <1>1, <2>1 DEF DmaTyped
  <2>3. cmd'.late
    BY <1>0, <2>1 DEF DmaTyped
  <2>q. QED
    BY <1>2, <2>2, <2>3 DEF DmaInv, CmdInv
<1>4. CASE DevExecute
  <2>1. cmd' = NoCmd
    BY <1>4 DEF DevExecute
  <2>2. <<>> \in Wants
    <3>1. <<>> = [k \in 0 .. 0 - 1 |-> 0]
      OBVIOUS
    <3>2. [k \in 0 .. 0 - 1 |-> 0] \in [0 .. 0 - 1 -> Addrs]
      BY DEF Addrs
    <3>q. QED
      BY <3>1, <3>2 DEF Wants
  <2>q. QED
    <3>1. cmd' \in [prp1 : Addrs \cup VPages, prp2 : Addrs, n : Nat, want : Wants,
                    sound : BOOLEAN, late : BOOLEAN] /\ ~cmd'.sound
      BY <2>1, <2>2 DEF NoCmd, Addrs
    <3>2. DmaTyped' /\ CmdInv'
      BY <1>0, <1>1, <3>1 DEF DmaTyped, CmdInv
    <3>q. QED
      BY <1>2, <3>2 DEF DmaInv
<1>q. QED
  BY <1>3, <1>4

\* gpunvme_mmap_bar0, gpunvme_map_bar0_to_gpu and gpunvme_unmap_bar0
LEMMA BarStep == ASSUME BarInv, BarNext PROVE BarInv'
<1>0. /\ map \in [fd : {"unset", "none", "open", "closed"},
                  cpu : {"none", "mapped", "failed"}, gpu : {"none", "mapped"}]
      /\ barHeld \subseteq {"fd", "cpu", "reg"}
      /\ stray \in BOOLEAN /\ closedEarly \in BOOLEAN
  BY DEF BarInv
<1>1. CASE MmapBar0Ok
  BY <1>0, <1>1 DEF MmapBar0Ok, Unmapped, BarInv, BarReleasedOnce
<1>2. ASSUME NEW what \in BarFaults, MmapBar0Fails(what) PROVE BarInv'
  BY <1>0, <1>2 DEF MmapBar0Fails, Unmapped, BarInv, BarReleasedOnce
<1>3. CASE MapBar0ToGpuOk
  <2>1. map' \in [fd : {"unset", "none", "open", "closed"},
                  cpu : {"none", "mapped", "failed"}, gpu : {"none", "mapped"}]
        /\ map'.fd = map.fd /\ map'.cpu = map.cpu /\ map'.gpu = "mapped"
    BY <1>0, <1>3 DEF MapBar0ToGpuOk
  <2>q. QED
    BY <1>0, <1>3, <2>1 DEF MapBar0ToGpuOk, BarInv, BarReleasedOnce
<1>4. CASE MapBar0ToGpuRefused \/ MapBar0ToGpuNoPointer
  <2>1. UNCHANGED barVars
    BY <1>4 DEF MapBar0ToGpuRefused, MapBar0ToGpuNoPointer, PointerFailure, barVars
  <2>q. QED
    BY <2>1 DEF BarInv, BarReleasedOnce, barVars
<1>5. CASE UnmapBar0
  <2>1. map' = [fd |-> "none", gpu |-> "none", cpu |-> IF map.cpu = "mapped" THEN "none" ELSE map.cpu]
        /\ barHeld' = barHeld \ Released /\ closedEarly' = closedEarly
        /\ stray' = (stray \/ ~(Released \subseteq barHeld)
                            \/ (map.cpu = "mapped" /\ "reg" \in HeldAtMunmap))
    BY <1>5 DEF UnmapBar0
  <2>2. Released \subseteq barHeld \/ closedEarly
    BY <1>0 DEF Released, BarInv, BarReleasedOnce
  <2>3. "reg" \notin HeldAtMunmap
    BY <1>0 DEF HeldAtMunmap, BarInv, BarReleasedOnce
  <2>4. stray' \in BOOLEAN /\ (stray' => closedEarly)
    BY <1>0, <2>1, <2>2, <2>3 DEF BarInv, BarReleasedOnce
  <2>5. barHeld' = {}
    BY <1>0, <2>1 DEF Released, BarInv, BarReleasedOnce
  <2>q. QED
    BY <1>0, <2>1, <2>4, <2>5 DEF BarInv, BarReleasedOnce
<1>q. QED
  BY <1>1, <1>2, <1>3, <1>4, <1>5 DEF BarNext

LEMMA StepInv == IInv /\ [Next]_vars => IInv'
<1> SUFFICES ASSUME IInv, [Next]_vars PROVE IInv'
  OBVIOUS
<1>0. DmaInv /\ BarInv
  BY DEF IInv
<1>1. ASSUME UNCHANGED dmaVars PROVE DmaInv'
  <2>1. UNCHANGED <<pagemap, priv, mem, prp, built, buf, allocs, listMem, call, cmd, waiting, ncmds>>
    BY <1>1 DEF dmaVars
  <2>q. QED
    BY <1>0, <2>1 DEF DmaInv, DmaTyped, ListInv, BuiltInv, BufInv, CmdInv, MovesTo, CallInv, BufPages, Phys
<1>2. ASSUME UNCHANGED barVars PROVE BarInv'
  BY <1>0, <1>2 DEF barVars, BarInv, BarReleasedOnce
<1>3. CASE Dma /\ UNCHANGED barVars
  <2>1. DmaInv'
    BY <1>0, <1>3, StartStep, CallStep, BuildStep, BuildFailsStep, BufStep, SubmitStep, EndStep DEF Dma
  <2>q. QED
    BY <1>2, <1>3, <2>1 DEF IInv
<1>4. ASSUME NEW a \in Areas, NEW n \in 1 .. a.pages, PrpListRefused(a, n) PROVE IInv'
  BY <1>1, <1>2, <1>4 DEF PrpListRefused, vars, IInv
<1>5. CASE BarNext /\ UNCHANGED dmaVars
  BY <1>0, <1>1, <1>5, BarStep DEF IInv
<1>6. CASE UNCHANGED vars
  BY <1>1, <1>2, <1>6 DEF vars, IInv
<1>q. QED
  BY <1>3, <1>4, <1>5, <1>6 DEF Next

\* The list, the buffer and the mapping stay as the functions of dma_alloc.c and
\* bar_map.c left them.
THEOREM Invariance == Spec => []IInv
BY InitInv, StepInv, PTL DEF Spec

----------------------------------------------------------------------------
(* The properties of the run *)

\* Addresses are frames or 0, PRP lists hold nothing else, and a freed list
\* structure is all zero.
THEOREM TypeCorrect == Spec => []TypeOK
<1>1. IInv => TypeOK
  <2> SUFFICES ASSUME IInv PROVE TypeOK
    OBVIOUS
  <2>1. DmaTyped /\ ListInv /\ CallInv /\ BarInv
    BY DEF IInv, DmaInv
  <2>2. allocs \subseteq VPages
    <3>1. prp.list # 0 => ListPagesOf(prp.max + 1) \subseteq VPages
      BY <2>1, SamePages DEF ListInv
    <3>2. call.at # "none" => call.pages \subseteq VPages
      BY <2>1 DEF CallInv
    <3>3. call.at = "none" /\ "memory" \in listMem => prp.list # 0
      BY <2>1 DEF CallInv
    <3>4. BufPages \subseteq VPages
      BY <2>1 DEF BufPages, DmaTyped
    <3>q. QED
      BY <2>1, <3>1, <3>2, <3>3, <3>4 DEF CallInv
  <2>q. QED
    BY <2>1, <2>2 DEF DmaTyped, ListInv, BarInv, TypeOK, Addrs
<1>q. QED
  BY <1>1, Invariance, PTL

\* A command of a process that may see frame numbers, with a list of one page,
\* moves its data to the pages of the area the list was last built for, for as
\* long as the application waits (gpunvme_prp_list_build).
THEOREM DataTheorem == Spec => []DataReachesArea
<1>1. IInv => DataReachesArea
  BY DEF IInv, DmaInv, CmdInv, DataReachesArea
<1>q. QED
  BY <1>1, Invariance, PTL

\* Whichever step of gpunvme_prp_list_alloc fails, its error path and
\* gpunvme_prp_list_free give back exactly what was allocated, locked and
\* registered, and free memory only when it is neither.
THEOREM AllocsTheorem == Spec => []AllocsAccounted
<1>1. IInv => AllocsAccounted
  <2> SUFFICES ASSUME IInv PROVE AllocsAccounted
    OBVIOUS
  <2>1. DmaTyped /\ CallInv
    BY DEF IInv, DmaInv
  <2>2. "registered" \in listMem => "memory" \in listMem
    BY <2>1 DEF CallInv
  <2>a. \A x \in listMem : x = "memory" \/ x = "locked" \/ x = "registered"
    BY <2>1 DEF DmaTyped
  <2>3. listMem # {} => "memory" \in listMem
    BY <2>1, <2>2, <2>a DEF CallInv
  <2>4. call.at = "none" => IF prp.list = 0 THEN listMem = {} ELSE {"memory", "registered"} \subseteq listMem
    BY <2>1, <2>3 DEF CallInv
  <2>5. call.at = "none" => allocs = (IF prp.list = 0 THEN {} ELSE ListPagesOf(prp.max + 1)) \cup BufPages
    BY <2>1 DEF CallInv
  <2>q. QED
    BY <2>3, <2>4, <2>5 DEF AllocsAccounted, BufPages
<1>q. QED
  BY <1>1, Invariance, PTL

\* BAR0 is released once and in order, except for the descriptor that
\* gpunvme_mmap_bar0 closes itself when it fails.
THEOREM BarTheorem == Spec => []BarReleasedOnce
<1>1. IInv => BarReleasedOnce
  BY DEF IInv, BarInv
<1>q. QED
  BY <1>1, Invariance, PTL
=============================================================================
