---------------------------- MODULE LoaderProofs ----------------------------
(***************************************************************************)
(* Loader proved: for every set of acquisitions that may fail, every layer  *)
(* and buffer size and every placement of a buffer in VRAM.                 *)
(*                                                                         *)
(* The cleanups are right because of what is still to be released, not of   *)
(* what has been: all that is held and not known to leak is on the list,    *)
(* once, and after everything built on it (CleanupInv).  The PRPs are right *)
(* because a load rewrites all it uses, for every command, before it        *)
(* launches the kernel, and nothing touches them until the kernel ends.     *)
(***************************************************************************)
EXTENDS Loader, TLAPS

USE PerPageAssumption, MdtsAssumption, PageAssumption, PoolAssumption,
    WindowAssumption, PlaceAssumption, LayerAssumption

----------------------------------------------------------------------------
(* The inductive invariant *)

Cleaning == lpc \in {"unwind", "teardown"}

\* What is built on the i-th resource of a list has been released before it, or leaks.
InOrder(list, have, lost) == \A i \in 1 .. Len(list), r \in have :
    list[i] \in Needs(r) => r \in lost \/ \E j \in 1 .. i - 1 : list[j] = r

Distinct(list) == \A i, j \in 1 .. Len(list) : list[i] = list[j] => i = j

\* All that is held is still to be released or known to leak, and nothing else
\* will be released.
Exact == /\ \A i \in 1 .. Len(todo) : Released(todo[i]) => todo[i] \in held
         /\ \A r \in held : r \in leaks \/ (Released(r) /\ \E i \in 1 .. Len(todo) : todo[i] = r)

\* The list a cleanup starts with, or what is left of it.
CleanupInv ==
    /\ todo \in Seq(Resources \cup {"bar1"})
    /\ Distinct(todo) /\ InOrder(todo, held, leaks)
    /\ Cleaning => Exact
    /\ ~Cleaning => todo = <<>>

LifeInv ==
    /\ lpc \in {"none", "unwind", "up", "call", "teardown"}
    /\ held \cup fields \subseteq Resources \cup {"bar1", "rings"}
    /\ leaks \subseteq {"rings", "ctrl", "params"} /\ stray = FALSE
    /\ lpc \in {"up", "call"} =>
         /\ held = Resources \cup (IF bar1_fd THEN {"bar1"} ELSE {})
         /\ fields = held /\ leaks = {}
    /\ lpc = "none" => held \subseteq leaks /\ fields \cap {"map", "fd"} = {}
    /\ lpc \in {"none", "unwind"} => bar1_fd = FALSE
    /\ bar1_fd \in BOOLEAN
    /\ \A r \in held : Needs(r) \subseteq held \/ r \in leaks

\* A monitor thread exists only beside a loader that is up, and reports once.
MonInv ==
    /\ mth \in {"none", "check", "read", "report", "sleep", "done"}
    /\ owner \in {"none", "started", "stopping"}
    /\ owner = "none" => mth = "none"
    /\ owner # "none" => lpc \in {"up", "call"}
    /\ fatal_detected \in BOOLEAN
    /\ callbacks = IF fatal_detected THEN 1 ELSE 0

\* The running load's commands move their data where it belongs.
JobInv ==
    /\ DOMAIN pool = {PoolFrames[i] : i \in Cmds}
    /\ PrpsDescribeChunks

VramInv ==
    /\ vmem \in [VFrames -> 0 .. 2]
    /\ vbuf = NoBuf \/ vbuf \in Placements
    /\ vbuf = NoBuf => ~found.ok
    /\ ResolvedIsBuffer

IInv == CleanupInv /\ LifeInv /\ MonInv /\ JobInv /\ VramInv

----------------------------------------------------------------------------
(* What init acquires, and the lists of the cleanups *)

LEMMA ResourceSet ==
    Resources = {"fd", "map", "reg", "ctrl", "ioq", "pool", "prp1", "prp2", "params", "result", "pagemap"}
<1>1. 1 .. Len(Steps) = {1, 2, 3, 4, 5, 6, 7, 8, 9, 10, 11}
  BY DEF Steps
<1>q. QED
  BY <1>1 DEF Resources, Steps

LEMMA AcquiredSets ==
    /\ Acquired(0) = {}
    /\ Acquired(1) = {"fd"}
    /\ Acquired(2) = {"fd", "map"}
    /\ Acquired(3) = {"fd", "map", "reg"}
    /\ Acquired(4) = {"fd", "map", "reg", "ctrl"}
    /\ Acquired(5) = {"fd", "map", "reg", "ctrl", "ioq"}
<1>1. 1 .. 0 = {} /\ 1 .. 1 = {1} /\ 1 .. 2 = {1, 2} /\ 1 .. 3 = {1, 2, 3}
      /\ 1 .. 4 = {1, 2, 3, 4} /\ 1 .. 5 = {1, 2, 3, 4, 5}
  OBVIOUS
<1>q. QED
  BY <1>1 DEF Acquired, Steps

\* From the PRP pool on, what is acquired is on the list of fail_prp.
LEMMA AcquiredLate ==
    ASSUME NEW k \in 7 .. 11
    PROVE  /\ {"fd", "map", "reg", "ctrl", "ioq", "pool"} \subseteq Acquired(k - 1)
           /\ Acquired(k - 1) \subseteq {"fd", "map", "reg", "ctrl", "ioq", "pool",
                                         "prp1", "prp2", "params", "result"}
           /\ "params" \in Acquired(k - 1) => k >= 10
<1>1. ASSUME NEW i \in 1 .. 6 PROVE Steps[i] \in Acquired(k - 1)
  <2>1. i \in 1 .. k - 1
    OBVIOUS
  <2>q. QED
    BY <2>1 DEF Acquired
<1>2. {"fd", "map", "reg", "ctrl", "ioq", "pool"} \subseteq Acquired(k - 1)
  <2>1. /\ Steps[1] \in Acquired(k - 1) /\ Steps[2] \in Acquired(k - 1)
        /\ Steps[3] \in Acquired(k - 1) /\ Steps[4] \in Acquired(k - 1)
        /\ Steps[5] \in Acquired(k - 1) /\ Steps[6] \in Acquired(k - 1)
    BY <1>1
  <2>q. QED
    BY <2>1 DEF Steps
<1>3. ASSUME NEW r \in Acquired(k - 1)
      PROVE  /\ r \in {"fd", "map", "reg", "ctrl", "ioq", "pool", "prp1", "prp2", "params", "result"}
             /\ r = "params" => k >= 10
  <2>1. PICK i \in 1 .. k - 1 : r = Steps[i]
    BY DEF Acquired
  <2>2. i \in {1, 2, 3, 4, 5, 6, 7, 8, 9, 10}
    OBVIOUS
  <2>3. r = "params" => i = 9
    BY <2>1, <2>2 DEF Steps
  <2>q. QED
    BY <2>1, <2>2, <2>3 DEF Steps
<1>q. QED
  BY <1>2, <1>3

\* A list is a list of different resources; if the queue pair, the controller and
\* the CUDA registration are on it, they are in their places.
LEMMA DestroyListOk ==
    /\ DestroyList \in Seq(Resources \cup {"bar1"}) /\ Distinct(DestroyList)
    /\ {DestroyList[i] : i \in 1 .. Len(DestroyList)} = Resources \cup {"bar1"}
    /\ \A have, lost : InOrder(DestroyList, have, lost)
<1>1. 1 .. Len(DestroyList) = {1, 2, 3, 4, 5, 6, 7, 8, 9, 10, 11, 12}
  BY DEF DestroyList
<1>2. Distinct(DestroyList)
  BY <1>1 DEF Distinct, DestroyList
<1>3. {DestroyList[i] : i \in 1 .. Len(DestroyList)} = Resources \cup {"bar1"}
  BY <1>1, ResourceSet DEF DestroyList
<1>4. DestroyList \in Seq(Resources \cup {"bar1"})
  BY ResourceSet DEF DestroyList
<1>5. ASSUME NEW have, NEW lost, NEW i \in 1 .. Len(DestroyList), NEW r \in have, DestroyList[i] \in Needs(r)
      PROVE  \E j \in 1 .. i - 1 : DestroyList[j] = r
  <2>1. CASE r \in {"reg", "ctrl"}
    <3>0. DestroyList[i] = "map" /\ DestroyList[11] = "map" /\ 11 \in 1 .. Len(DestroyList)
      BY <1>5, <2>1 DEF DestroyList, Needs
    <3>1. i = 11
      BY <1>2, <3>0 DEF Distinct
    <3>2. 8 \in 1 .. i - 1 /\ 10 \in 1 .. i - 1 /\ DestroyList[8] = "ctrl" /\ DestroyList[10] = "reg"
      BY <3>1 DEF DestroyList
    <3>q. QED
      BY <2>1, <3>2
  <2>2. CASE r = "ioq"
    <3>0. DestroyList[i] = "ctrl" /\ DestroyList[8] = "ctrl" /\ 8 \in 1 .. Len(DestroyList)
      BY <1>5, <2>2 DEF DestroyList, Needs
    <3>1. i = 8
      BY <1>2, <3>0 DEF Distinct
    <3>2. 7 \in 1 .. i - 1 /\ DestroyList[7] = "ioq"
      BY <3>1 DEF DestroyList
    <3>q. QED
      BY <2>2, <3>2
  <2>q. QED
    BY <1>5, <2>1, <2>2 DEF Needs
<1>q. QED
  BY <1>2, <1>3, <1>4, <1>5 DEF InOrder

LEMMA FailPrpOk ==
    /\ FailPrp \in Seq(Resources \cup {"bar1"}) /\ Distinct(FailPrp)
    /\ {FailPrp[i] : i \in 1 .. Len(FailPrp)} = Resources \ {"pagemap"}
    /\ \A have, lost : InOrder(FailPrp, have, lost)
<1>1. 1 .. Len(FailPrp) = {1, 2, 3, 4, 5, 6, 7, 8, 9, 10}
  BY DEF FailPrp
<1>2. Distinct(FailPrp)
  BY <1>1 DEF Distinct, FailPrp
<1>3. {FailPrp[i] : i \in 1 .. Len(FailPrp)} = Resources \ {"pagemap"}
  BY <1>1, ResourceSet DEF FailPrp
<1>4. FailPrp \in Seq(Resources \cup {"bar1"})
  BY ResourceSet DEF FailPrp
<1>5. ASSUME NEW have, NEW lost, NEW i \in 1 .. Len(FailPrp), NEW r \in have, FailPrp[i] \in Needs(r)
      PROVE  \E j \in 1 .. i - 1 : FailPrp[j] = r
  <2>1. CASE r \in {"reg", "ctrl"}
    <3>0. FailPrp[i] = "map" /\ FailPrp[9] = "map" /\ 9 \in 1 .. Len(FailPrp)
      BY <1>5, <2>1 DEF FailPrp, Needs
    <3>1. i = 9
      BY <1>2, <3>0 DEF Distinct
    <3>2. 7 \in 1 .. i - 1 /\ 8 \in 1 .. i - 1 /\ FailPrp[7] = "ctrl" /\ FailPrp[8] = "reg"
      BY <3>1 DEF FailPrp
    <3>q. QED
      BY <2>1, <3>2
  <2>2. CASE r = "ioq"
    <3>0. FailPrp[i] = "ctrl" /\ FailPrp[7] = "ctrl" /\ 7 \in 1 .. Len(FailPrp)
      BY <1>5, <2>2 DEF FailPrp, Needs
    <3>1. i = 7
      BY <1>2, <3>0 DEF Distinct
    <3>2. 6 \in 1 .. i - 1 /\ FailPrp[6] = "ioq"
      BY <3>1 DEF FailPrp
    <3>q. QED
      BY <2>2, <3>2
  <2>q. QED
    BY <1>5, <2>1, <2>2 DEF Needs
<1>q. QED
  BY <1>2, <1>3, <1>4, <1>5 DEF InOrder

LEMMA StepNames ==
    /\ Steps[1] = "fd" /\ Steps[2] = "map" /\ Steps[3] = "reg" /\ Steps[4] = "ctrl"
    /\ Steps[5] = "ioq" /\ Steps[6] = "pool" /\ Steps[7] = "prp1" /\ Steps[8] = "prp2"
    /\ Steps[9] = "params" /\ Steps[10] = "result" /\ Steps[11] = "pagemap"
BY DEF Steps

LEMMA UnwindLists ==
    /\ Unwind(1) = <<>> /\ Unwind(2) = <<"fd">> /\ Unwind(3) = <<"map", "fd">>
    /\ Unwind(4) = <<"reg", "map", "fd">> /\ Unwind(5) = <<"ctrl", "reg", "map", "fd">>
    /\ Unwind(6) = <<"ioq", "ctrl", "reg", "map", "fd">>
    /\ \A k \in 7 .. 11 : Unwind(k) = FailPrp
<1>1. Unwind(1) = <<>> /\ Unwind(2) = <<"fd">> /\ Unwind(3) = <<"map", "fd">>
  BY StepNames DEF Unwind
<1>2. Unwind(4) = <<"reg", "map", "fd">> /\ Unwind(5) = <<"ctrl", "reg", "map", "fd">>
  BY StepNames DEF Unwind, FailBar0
<1>3. Unwind(6) = <<"ioq", "ctrl", "reg", "map", "fd">>
  BY StepNames DEF Unwind, FailIoq
<1>4. ASSUME NEW k \in 7 .. 11 PROVE Unwind(k) = FailPrp
  <2>1. Steps[k] \notin {"fd", "map", "reg", "ctrl", "ioq", "pool"}
    <3>1. k = 7 \/ k = 8 \/ k = 9 \/ k = 10 \/ k = 11
      OBVIOUS
    <3>q. QED
      BY <3>1, StepNames
  <2>q. QED
    BY <2>1 DEF Unwind
<1>q. QED
  BY <1>1, <1>2, <1>3, <1>4

----------------------------------------------------------------------------
(* The life of the loader: each step keeps LifePart *)

LifePart == CleanupInv /\ LifeInv

\* A failed init has everything it acquired on the list of its label.
LEMMA UnwindOk ==
    ASSUME LifePart, CleanStart, NEW k \in 1 .. Len(Steps), NEW left \in CtrlLeaves, InitFails(k, left),
           UNCHANGED bar1_fd
    PROVE  LifePart'
<1>0. CleanupInv /\ LifeInv
  BY DEF LifePart
<1>1. /\ lpc = "none" /\ lpc' = "unwind" /\ (left # {} => Steps[k] = "ctrl")
      /\ held = {} /\ held' = Acquired(k - 1) \cup left
      /\ leaks' = left \cup (IF Steps[k] = "result" THEN {"params"} ELSE {})
      /\ fields' = Fields(k - 1) /\ todo' = Unwind(k) /\ stray' = stray /\ bar1_fd' = FALSE
  BY <1>0 DEF InitFails, CleanStart, LifeInv
<1>2. k \in {1, 2, 3, 4, 5, 6, 7, 8, 9, 10, 11}
  BY DEF Steps
<1>3. Steps[k] = "result" => k = 10
  BY <1>2, StepNames
<1>4. left \subseteq {"rings", "ctrl"} /\ (left # {} => k = 4)
  BY <1>1, <1>2, StepNames DEF CtrlLeaves
<1>5. Acquired(k - 1) \subseteq Resources
  BY <1>2 DEF Acquired, Resources, Steps
<1>6. /\ todo' \in Seq(Resources \cup {"bar1"}) /\ Distinct(todo')
      /\ InOrder(todo', held', leaks') /\ Exact'
      /\ \A r \in held' : Needs(r) \subseteq held' \/ r \in leaks'
  <2>1. CASE k = 1
    <3>1. todo' = <<>> /\ held' = {}
      BY <1>1, <1>3, <1>4, <2>1, AcquiredSets, UnwindLists
    <3>q. QED
      BY <3>1 DEF Distinct, InOrder, Exact
  <2>2. CASE k = 2
    <3>1. todo' = <<"fd">> /\ held' = {"fd"}
      BY <1>1, <1>3, <1>4, <2>2, AcquiredSets, UnwindLists
    <3>q. QED
      BY <1>1, <3>1, ResourceSet DEF Distinct, InOrder, Exact, Needs, Released
  <2>3. CASE k = 3
    <3>1. todo' = <<"map", "fd">> /\ held' = {"fd", "map"}
      BY <1>1, <1>3, <1>4, <2>3, AcquiredSets, UnwindLists
    <3>2. todo' \in Seq(Resources \cup {"bar1"}) /\ Distinct(todo') /\ InOrder(todo', held', leaks')
      BY <3>1, ResourceSet DEF Distinct, InOrder, Needs
    <3>3. Exact'
      BY <1>1, <3>1 DEF Exact, Released
    <3>q. QED
      BY <3>1, <3>2, <3>3 DEF Needs
  <2>4. CASE k = 4
    <3>1. todo' = <<"reg", "map", "fd">> /\ held' = {"fd", "map", "reg"} \cup leaks' /\ leaks' \subseteq {"rings", "ctrl"}
      BY <1>1, <1>3, <1>4, <2>4, AcquiredSets, UnwindLists
    <3>2. todo' \in Seq(Resources \cup {"bar1"}) /\ Distinct(todo')
      BY <3>1, ResourceSet DEF Distinct
    <3>3. InOrder(todo', held', leaks')
      <4>1. ASSUME NEW i \in 1 .. 3, NEW r \in held', todo'[i] \in Needs(r), r \notin leaks'
            PROVE  \E j \in 1 .. i - 1 : todo'[j] = r
        <5>1. todo'[1] = "reg" /\ todo'[2] = "map" /\ todo'[3] = "fd"
          BY <3>1
        <5>2. r = "reg" /\ i = 2
          BY <3>1, <4>1, <5>1 DEF Needs
        <5>q. QED
          BY <5>1, <5>2
      <4>q. QED
        BY <3>1, <4>1 DEF InOrder
    <3>4. Exact'
      BY <1>1, <3>1 DEF Exact, Released
    <3>q. QED
      BY <3>1, <3>2, <3>3, <3>4 DEF Needs
  <2>5. CASE k = 5
    <3>1. todo' = <<"ctrl", "reg", "map", "fd">> /\ held' = {"fd", "map", "reg", "ctrl"}
      BY <1>1, <1>3, <1>4, <2>5, AcquiredSets, UnwindLists
    <3>2. todo' \in Seq(Resources \cup {"bar1"}) /\ Distinct(todo')
      BY <3>1, ResourceSet DEF Distinct
    <3>3. InOrder(todo', held', leaks')
      <4>1. ASSUME NEW i \in 1 .. 4, NEW r \in held', todo'[i] \in Needs(r)
            PROVE  \E j \in 1 .. i - 1 : todo'[j] = r
        <5>1. todo'[1] = "ctrl" /\ todo'[2] = "reg" /\ todo'[3] = "map" /\ todo'[4] = "fd"
          BY <3>1
        <5>2. r \in {"reg", "ctrl"} /\ i = 3
          BY <3>1, <4>1, <5>1 DEF Needs
        <5>q. QED
          BY <5>1, <5>2
      <4>q. QED
        BY <3>1, <4>1 DEF InOrder
    <3>4. Exact'
      BY <1>1, <3>1 DEF Exact, Released
    <3>q. QED
      BY <3>1, <3>2, <3>3, <3>4 DEF Needs
  <2>6. CASE k = 6
    <3>1. todo' = <<"ioq", "ctrl", "reg", "map", "fd">> /\ held' = {"fd", "map", "reg", "ctrl", "ioq"}
      BY <1>1, <1>3, <1>4, <2>6, AcquiredSets, UnwindLists
    <3>2. todo' \in Seq(Resources \cup {"bar1"}) /\ Distinct(todo')
      BY <3>1, ResourceSet DEF Distinct
    <3>3. InOrder(todo', held', leaks')
      <4>1. ASSUME NEW i \in 1 .. 5, NEW r \in held', todo'[i] \in Needs(r)
            PROVE  \E j \in 1 .. i - 1 : todo'[j] = r
        <5>1. todo'[1] = "ioq" /\ todo'[2] = "ctrl" /\ todo'[3] = "reg"
          BY <3>1
        <5>2. (r \in {"reg", "ctrl"} /\ i = 4) \/ (r = "ioq" /\ i = 2)
          BY <3>1, <4>1 DEF Needs
        <5>q. QED
          BY <5>1, <5>2
      <4>q. QED
        BY <3>1, <4>1 DEF InOrder
    <3>4. Exact'
      BY <1>1, <3>1 DEF Exact, Released
    <3>q. QED
      BY <3>1, <3>2, <3>3, <3>4 DEF Needs
  <2>7. CASE k \in 7 .. 11
    <3>1. /\ todo' = FailPrp /\ held' = Acquired(k - 1)
          /\ leaks' = IF k = 10 THEN {"params"} ELSE {}
      BY <1>1, <1>3, <1>4, <2>7, UnwindLists, StepNames
    <3>2. /\ fields' = held' \ leaks'
          /\ {"fd", "map", "reg", "ctrl", "ioq", "pool"} \subseteq held'
          /\ held' \subseteq Resources \ {"pagemap"}
      BY <1>1, <2>7, <3>1, AcquiredLate, ResourceSet DEF Fields
    <3>3. Exact'
      <4>1. ASSUME NEW r \in held' PROVE \E i \in 1 .. Len(FailPrp) : FailPrp[i] = r
        BY <3>2, FailPrpOk
      <4>2. ASSUME NEW r \in held', r \notin leaks' PROVE Released(r)'
        BY <3>2, <4>2 DEF Released
      <4>3. ASSUME NEW i \in 1 .. Len(FailPrp), Released(FailPrp[i])' PROVE FailPrp[i] \in held'
        BY <3>2, <4>3 DEF Released
      <4>q. QED
        BY <3>1, <4>1, <4>2, <4>3 DEF Exact
    <3>4. \A r \in held' : Needs(r) \subseteq held'
      BY <3>2 DEF Needs
    <3>q. QED
      BY <3>1, <3>3, <3>4, FailPrpOk
  <2>q. QED
    BY <1>2, <2>1, <2>2, <2>3, <2>4, <2>5, <2>6, <2>7
<1>7. /\ held' \subseteq Resources \cup {"rings"} /\ fields' \subseteq Resources
      /\ leaks' \subseteq {"rings", "ctrl", "params"}
  BY <1>1, <1>4, <1>5, ResourceSet DEF Fields
<1>q. QED
  <2>1. CleanupInv'
    BY <1>1, <1>6 DEF CleanupInv, Cleaning
  <2>2. LifeInv'
    BY <1>0, <1>1, <1>6, <1>7 DEF LifeInv
  <2>q. QED
    BY <2>1, <2>2 DEF LifePart

LEMMA StartOk == ASSUME LifePart, CleanStart, InitOk, UNCHANGED bar1_fd PROVE LifePart'
<1>0. CleanupInv /\ LifeInv
  BY DEF LifePart
<1>1. /\ lpc = "none" /\ lpc' = "up" /\ held' = Resources /\ fields' = Resources
      /\ leaks = {} /\ bar1_fd' = FALSE /\ UNCHANGED <<todo, stray, leaks>>
  BY <1>0 DEF InitOk, CleanStart, LifeInv
<1>2. todo' = <<>>
  BY <1>0, <1>1 DEF CleanupInv, Cleaning
<1>3. CleanupInv'
  BY <1>1, <1>2 DEF CleanupInv, Cleaning, Distinct, InOrder
<1>4. \A r \in Resources : Needs(r) \subseteq Resources
  BY ResourceSet DEF Needs
<1>5. LifeInv'
  BY <1>0, <1>1, <1>4 DEF LifeInv
<1>q. QED
  BY <1>3, <1>5 DEF LifePart

LEMMA DestroyOk == ASSUME LifePart, Destroy, UNCHANGED bar1_fd PROVE LifePart'
<1>0. CleanupInv /\ LifeInv
  BY DEF LifePart
<1>1. /\ lpc = "up" /\ lpc' = "teardown" /\ todo' = DestroyList
      /\ UNCHANGED <<held, fields, stray, leaks, bar1_fd>>
  BY DEF Destroy
<1>2. held \subseteq Resources \cup {"bar1"} /\ Resources \subseteq held /\ fields = held /\ leaks = {}
  BY <1>0, <1>1 DEF LifeInv
<1>3. Exact'
  <2>1. ASSUME NEW r \in held PROVE Released(r)' /\ \E i \in 1 .. Len(DestroyList) : DestroyList[i] = r
    <3>1. r \in {DestroyList[i] : i \in 1 .. Len(DestroyList)}
      BY <1>2, DestroyListOk
    <3>q. QED
      BY <1>1, <1>2, <3>1 DEF Released
  <2>2. ASSUME NEW i \in 1 .. Len(DestroyList), Released(DestroyList[i])' PROVE DestroyList[i] \in held
    BY <1>1, <1>2, <2>2, ResourceSet DEF Released
  <2>q. QED
    BY <1>1, <2>1, <2>2 DEF Exact
<1>4. CleanupInv'
  BY <1>1, <1>3, DestroyListOk DEF CleanupInv, Cleaning
<1>5. LifeInv'
  BY <1>0, <1>1 DEF LifeInv
<1>q. QED
  BY <1>4, <1>5 DEF LifePart

LEMMA ReleaseOk == ASSUME LifePart, Release, UNCHANGED bar1_fd PROVE LifePart'
<1>0. CleanupInv /\ LifeInv
  BY DEF LifePart
<1>1. /\ todo # <<>> /\ todo' = Tail(todo) /\ UNCHANGED <<lpc, fields, leaks, bar1_fd>>
      /\ todo \in Seq(Resources \cup {"bar1"})
  BY <1>0 DEF Release, CleanupInv
<1>2. PICK h : h = Head(todo)
  OBVIOUS
<1>3. /\ todo' \in Seq(Resources \cup {"bar1"}) /\ Len(todo') = Len(todo) - 1
      /\ todo[1] = h /\ 1 \in 1 .. Len(todo) /\ Len(todo) \in Nat
      /\ \A i \in 1 .. Len(todo') : todo'[i] = todo[i + 1] /\ i + 1 \in 1 .. Len(todo)
  BY <1>1, <1>2
<1>4. Distinct(todo) /\ InOrder(todo, held, leaks) /\ Cleaning /\ Exact
  BY <1>0, <1>1 DEF CleanupInv
<1>5. \A r : Released(r)' <=> Released(r)
  BY <1>1 DEF Released
<1>6. /\ held' = held \ (IF Released(h) THEN {h} ELSE {})
      /\ stray' = FALSE
  <2>1. CASE Released(h)
    <3>1. h \in held
      BY <1>3, <1>4, <2>1 DEF Exact
    <3>q. QED
      BY <1>0, <1>2, <2>1, <3>1 DEF Release, LifeInv
  <2>2. CASE ~Released(h)
    BY <1>0, <1>2, <2>2 DEF Release, LifeInv
  <2>q. QED
    BY <2>1, <2>2
<1>7. Distinct(todo')
  <2> SUFFICES ASSUME NEW i \in 1 .. Len(todo'), NEW j \in 1 .. Len(todo'), todo'[i] = todo'[j]
               PROVE  i = j
    BY DEF Distinct
  <2>1. i + 1 = j + 1
    BY <1>3, <1>4 DEF Distinct
  <2>q. QED
    BY <2>1
<1>8. ASSUME NEW r \in held', r \notin leaks PROVE r # h /\ r \in held
  BY <1>4, <1>6, <1>8 DEF Exact
<1>9. InOrder(todo', held', leaks')
  <2> SUFFICES ASSUME NEW i \in 1 .. Len(todo'), NEW r \in held', todo'[i] \in Needs(r), r \notin leaks
               PROVE  \E j \in 1 .. i - 1 : todo'[j] = r
    BY <1>1 DEF InOrder
  <2>1. PICK j \in 1 .. (i + 1) - 1 : todo[j] = r
    BY <1>3, <1>4, <1>6 DEF InOrder
  <2>2. j # 1
    BY <1>3, <1>8, <2>1
  <2>3. j - 1 \in 1 .. i - 1 /\ j - 1 \in 1 .. Len(todo')
    BY <1>3, <2>1, <2>2
  <2>4. todo'[j - 1] = todo[(j - 1) + 1]
    BY <1>3, <2>3
  <2>5. (j - 1) + 1 = j
    BY <2>1
  <2>q. QED
    BY <2>1, <2>3, <2>4, <2>5
<1>10. Exact'
  <2>1. ASSUME NEW i \in 1 .. Len(todo'), Released(todo'[i]) PROVE todo'[i] \in held'
    <3>1. todo'[i] = todo[i + 1] /\ i + 1 \in 1 .. Len(todo) /\ i + 1 # 1
      BY <1>3
    <3>2. todo[i + 1] \in held /\ todo[i + 1] # h
      BY <1>3, <1>4, <2>1, <3>1 DEF Exact, Distinct
    <3>q. QED
      BY <1>6, <3>1, <3>2
  <2>2. ASSUME NEW r \in held', r \notin leaks
        PROVE  Released(r) /\ \E i \in 1 .. Len(todo') : todo'[i] = r
    <3>1. r # h /\ r \in held
      BY <1>8, <2>2
    <3>2. Released(r) /\ \E i \in 1 .. Len(todo) : todo[i] = r
      BY <1>4, <2>2, <3>1 DEF Exact
    <3>3. PICK i \in 1 .. Len(todo) : todo[i] = r
      BY <3>2
    <3>4. i # 1
      BY <1>3, <3>1, <3>3
    <3>5. i - 1 \in 1 .. Len(todo') /\ (i - 1) + 1 = i
      BY <1>3, <3>4
    <3>6. todo'[i - 1] = r
      BY <1>3, <3>3, <3>5
    <3>q. QED
      BY <3>2, <3>5, <3>6
  <2>q. QED
    BY <1>1, <1>5, <2>1, <2>2 DEF Exact
<1>11. CleanupInv'
  BY <1>1, <1>3, <1>4, <1>7, <1>9, <1>10 DEF CleanupInv, Cleaning
<1>12. \A r \in held' : Needs(r) \subseteq held' \/ r \in leaks
  <2> SUFFICES ASSUME NEW r \in held', r \notin leaks PROVE Needs(r) \subseteq held'
    OBVIOUS
  <2>1. Needs(r) \subseteq held
    BY <1>0, <1>6 DEF LifeInv
  <2>2. h \notin Needs(r)
    BY <1>3, <1>4, <1>6 DEF InOrder
  <2>q. QED
    BY <1>6, <2>1, <2>2
<1>13. LifeInv'
  <2>1. lpc \notin {"up", "call", "none"}
    BY <1>4 DEF Cleaning
  <2>2. held' \subseteq held
    BY <1>6
  <2>q. QED
    BY <1>0, <1>1, <1>6, <1>12, <2>1, <2>2 DEF LifeInv
<1>q. QED
  BY <1>11, <1>13 DEF LifePart

LEMMA FinishOk == ASSUME LifePart, Finish, bar1_fd' = FALSE PROVE LifePart'
<1>0. CleanupInv /\ LifeInv
  BY DEF LifePart
<1>1. /\ Cleaning /\ todo = <<>> /\ lpc' = "none" /\ fields' = FieldsAfter
      /\ UNCHANGED <<held, todo, stray, leaks>>
  BY DEF Finish, Cleaning
<1>2. held \subseteq leaks
  BY <1>0, <1>1 DEF CleanupInv, Exact
<1>3. CleanupInv'
  BY <1>0, <1>1 DEF CleanupInv, Cleaning
<1>4. fields' \subseteq fields /\ fields' \cap {"map", "fd"} = {}
  BY <1>1 DEF FieldsAfter
<1>5. LifeInv'
  BY <1>0, <1>1, <1>2, <1>4 DEF LifeInv
<1>q. QED
  BY <1>3, <1>5 DEF LifePart

LEMMA OpenOk ==
    ASSUME LifePart, lpc = "up", bar1_fd' = TRUE, held' = held \cup {"bar1"}, fields' = fields \cup {"bar1"},
           UNCHANGED <<lpc, todo, stray, leaks>>
    PROVE  LifePart'
<1>0. CleanupInv /\ LifeInv
  BY DEF LifePart
<1>1. todo = <<>> /\ ~Cleaning
  BY <1>0 DEF CleanupInv, Cleaning
<1>2. CleanupInv'
  BY <1>1 DEF CleanupInv, Cleaning, Distinct, InOrder
<1>3. LifeInv'
  BY <1>0 DEF LifeInv, Needs
<1>q. QED
  BY <1>2, <1>3 DEF LifePart

\* A call begins or ends, or none of this is touched.
LEMMA LifeStays ==
    ASSUME LifePart, UNCHANGED <<held, fields, todo, stray, leaks, bar1_fd>>,
           lpc' = lpc \/ (lpc \in {"up", "call"} /\ lpc' \in {"up", "call"})
    PROVE  LifePart'
<1>0. CleanupInv /\ LifeInv
  BY DEF LifePart
<1>1. CleanupInv'
  BY <1>0 DEF CleanupInv, Cleaning, Distinct, InOrder, Exact, Released
<1>2. LifeInv'
  BY <1>0 DEF LifeInv
<1>q. QED
  BY <1>1, <1>2 DEF LifePart

----------------------------------------------------------------------------
(* Arithmetic of pages and commands *)

LEMMA DivBounds == \A x \in Nat, b \in Nat \ {0} :
    x \div b \in Nat /\ (x \div b) * b <= x /\ x < (x \div b) * b + b
OBVIOUS

LEMMA DivUnique == \A q, p \in Nat, b \in Nat \ {0} :
    p < b => (q * b + p) \div b = q /\ (q * b + p) % b = p
OBVIOUS

LEMMA DivMod ==
    ASSUME NEW x \in Nat, NEW b \in Nat \ {0}
    PROVE  x % b \in 0 .. b - 1 /\ x = (x \div b) * b + (x % b)
OBVIOUS

LEMMA MulLess == \A x, y \in Int, b \in Nat \ {0} : x < y <=> x * b < y * b
<1>1. \A x, y \in Int, b \in Nat \ {0} : x < y => x * b < y * b
  OBVIOUS
<1>2. \A x, y \in Int, b \in Nat \ {0} : y <= x => y * b <= x * b
  OBVIOUS
<1>q. QED
  BY <1>1, <1>2

LEMMA MulAssoc == \A x, y, b \in Int : x * (y * b) = (x * y) * b
OBVIOUS

LEMMA MulPlus == \A x, y, b \in Int : (x + y) * b = x * b + y * b
OBVIOUS

\* What rounding up means.
LEMMA CeilLess ==
    ASSUME NEW a \in Nat, NEW b \in Nat \ {0}
    PROVE  CeilDiv(a, b) \in Nat /\ \A q \in Nat : q < CeilDiv(a, b) <=> q * b < a
<1>1. PICK c \in Nat : c = CeilDiv(a, b) /\ c * b <= a + b - 1 /\ a + b - 1 < c * b + b
  <2>1. a + b - 1 \in Nat
    OBVIOUS
  <2>q. QED
    BY <2>1, DivBounds DEF CeilDiv
<1>2. ASSUME NEW q \in Nat PROVE q < c <=> q * b < a
  <2>1. q * b \in Nat /\ c * b \in Nat /\ (q + 1) * b = q * b + b
    BY MulPlus
  <2>2. ASSUME q < c PROVE q * b < a
    <3>1. q + 1 = c \/ q + 1 < c
      BY <2>2
    <3>2. (q + 1) * b <= c * b
      BY <3>1, <2>1, MulLess
    <3>q. QED
      BY <1>1, <2>1, <3>2
  <2>3. ASSUME q * b < a PROVE q < c
    <3>1. q * b < c * b
      BY <1>1, <2>1, <2>3
    <3>q. QED
      BY <3>1, MulLess
  <2>q. QED
    BY <2>2, <2>3
<1>q. QED
  BY <1>1, <1>2

\* A command has between 1 and CmdMax pages, all of them pages of the layer.
LEMMA CommandPages ==
    ASSUME NEW blocks \in LayerBlocks, NEW i \in Nat, i < NCommands(blocks)
    PROVE  /\ CmdPages(blocks, i) \in 1 .. CmdMax
           /\ \A p \in Nat : p < CmdPages(blocks, i) => i * CmdMax + p < LayerPages(blocks)
<1>1. PICK B \in Nat \ {0} : B = BlocksPerPage
  OBVIOUS
<1>2. PICK C \in Nat \ {0} : C = CmdMax
  OBVIOUS
<1>3. BlocksPerCmd = C * B /\ C * B \in Nat \ {0} /\ blocks \in Nat \ {0}
  BY <1>1, <1>2 DEF BlocksPerCmd
<1>4. i * (C * B) < blocks
  BY <1>3, CeilLess DEF NCommands
<1>5. PICK R \in Nat : R = blocks - i * (C * B) /\ R > 0
  BY <1>3, <1>4
<1>6. PICK m \in Nat : m = (IF R < C * B THEN R ELSE C * B) /\ m <= C * B /\ m <= R /\ m > 0
  <2>1. PICK D \in Nat \ {0} : D = C * B
    BY <1>3
  <2>2. CASE R < D
    BY <1>5, <2>1, <2>2
  <2>3. CASE ~(R < D)
    BY <1>5, <2>1, <2>3
  <2>q. QED
    BY <2>2, <2>3
<1>7. CmdPages(blocks, i) = CeilDiv(m, B)
  BY <1>1, <1>3, <1>5, <1>6 DEF CmdPages
<1>8. PICK n \in Nat : n = CmdPages(blocks, i) /\ \A q \in Nat : q < n <=> q * B < m
  BY <1>7, CeilLess
<1>9. n > 0
  BY <1>6, <1>8
<1>10. n <= C
  <2>1. SUFFICES ASSUME C < n PROVE FALSE
    OBVIOUS
  <2>q. QED
    BY <1>3, <1>6, <1>8, <2>1
<1>11. ASSUME NEW p \in Nat, p < n PROVE i * C + p < LayerPages(blocks)
  <2>1. p * B < m
    BY <1>8, <1>11
  <2>2. (i * C + p) * B = i * (C * B) + p * B /\ i * C + p \in Nat
    BY MulAssoc, MulPlus
  <2>3. (i * C + p) * B < blocks
    BY <1>3, <1>5, <1>6, <2>1, <2>2
  <2>q. QED
    BY <1>1, <1>3, <2>2, <2>3, CeilLess DEF LayerPages
<1>q. QED
  BY <1>2, <1>8, <1>9, <1>10, <1>11

\* A page of the layer belongs to one of its commands.
LEMMA PageCommand ==
    ASSUME NEW blocks \in LayerBlocks, NEW g \in Nat, g < LayerPages(blocks)
    PROVE  g \div CmdMax \in Nat /\ g \div CmdMax < NCommands(blocks)
<1>1. PICK B \in Nat \ {0} : B = BlocksPerPage
  OBVIOUS
<1>2. PICK C \in Nat \ {0} : C = CmdMax
  OBVIOUS
<1>3. BlocksPerCmd = C * B /\ C * B \in Nat \ {0} /\ blocks \in Nat \ {0}
  BY <1>1, <1>2 DEF BlocksPerCmd
<1>4. g * B < blocks
  BY <1>1, <1>3, CeilLess DEF LayerPages
<1>5. PICK q \in Nat : q = g \div C /\ q * C <= g
  BY DivBounds
<1>6. (q * C) * B <= g * B
  <2>1. q * C = g \/ q * C < g
    BY <1>5
  <2>q. QED
    BY <2>1, MulLess
<1>7. q * (C * B) < blocks
  <2>1. (q * C) * B \in Nat /\ g * B \in Nat /\ q * (C * B) = (q * C) * B
    BY MulAssoc
  <2>q. QED
    BY <1>3, <1>4, <1>6, <2>1
<1>8. q < NCommands(blocks)
  BY <1>3, <1>7, CeilLess DEF NCommands
<1>q. QED
  BY <1>2, <1>5, <1>8

----------------------------------------------------------------------------
(* Building the PRPs of a load *)

LEMMA ShortPages ==
    ASSUME NEW mm, NEW p1, NEW p2, NEW n \in Nat, n - 1 <= PerPage
    PROVE  Pages(mm, p1, p2, n) =
             [k \in 0 .. n - 1 |-> IF k = 0 THEN p1 ELSE IF n = 2 THEN p2 ELSE mm[p2][k - 1]]
<1>1. ASSUME NEW k \in 0 .. n - 1, k # 0
      PROVE  ListEntry(mm, p2, k - 1, n - 1) = mm[p2][k - 1]
  BY <1>1 DEF ListEntry
<1>q. QED
  BY <1>1 DEF Pages

\* Whatever the lists and arrays held before, after the loops the PRPs of every
\* command lead to the pages of its part of the layer.
LEMMA Built ==
    ASSUME DOMAIN pool = {PoolFrames[i] : i \in Cmds}, NEW addr, NEW blocks \in LayerBlocks,
           ~Refused(blocks), BuildPrps(addr, blocks, LayerPages(blocks)),
           NEW i \in Nat, i < NCommands(blocks), NEW p \in Nat, p < CmdPages(blocks, i)
    PROVE  Pages(pool', prp1'[i], prp2'[i], CmdPages(blocks, i))[p] = addr[i * CmdMax + p]
<1> DEFINE total == LayerPages(blocks)
           F == PoolFrames[i]
           Slots(f, e) == {g \in 0 .. total - 1 : /\ PoolFrames[g \div CmdMax] = f
                                                  /\ g % CmdMax > 0 /\ ListSlot(g % CmdMax) = e}
           Entry(f, e) == IF Slots(f, e) = {} THEN pool[f][e] ELSE addr[CHOOSE g \in Slots(f, e) : TRUE]
<1>1. CmdMax \in Nat \ {0} /\ NCommands(blocks) \in Nat /\ NCommands(blocks) <= MaxCommands /\ total \in Nat
  <2>1. BlocksPerCmd \in Nat \ {0} /\ blocks \in Nat
    <3>1. PICK B \in Nat \ {0}, C \in Nat \ {0} : B = BlocksPerPage /\ C = CmdMax
      OBVIOUS
    <3>2. B * C \in Nat \ {0}
      OBVIOUS
    <3>3. BlocksPerCmd \in Nat \ {0}
      BY <3>1, <3>2 DEF BlocksPerCmd
    <3>4. blocks \in Nat
      OBVIOUS
    <3>q. QED
      BY <3>3, <3>4
  <2>q. QED
    BY <2>1, CeilLess DEF Refused, NCommands, LayerPages
<1>2. i \in Cmds /\ F \in DOMAIN pool
  BY <1>1 DEF Cmds
<1>3. PICK n \in 1 .. CmdMax : n = CmdPages(blocks, i)
  BY CommandPages
<1>4. /\ pool' = [f \in DOMAIN pool |-> [e \in Entries |-> Entry(f, e)]]
      /\ prp1'[i] = addr[i * CmdMax]
      /\ prp2'[i] = Prp2For(n, pool'[F][0], F)
  BY <1>1, <1>2, <1>3 DEF BuildPrps
<1>5. ASSUME NEW k \in Nat, k > 0, k < n PROVE pool'[F][k - 1] = addr[i * CmdMax + k]
  <2>1. k - 1 \in Entries
    BY <1>1, <1>3, <1>5 DEF Entries
  <2>2. PICK c \in Nat : c = i * CmdMax + k
    BY <1>1
  <2>3. c \in 0 .. total - 1
    BY <1>1, <1>3, <1>5, <2>2, CommandPages
  <2>4. c \div CmdMax = i /\ c % CmdMax = k
    BY <1>1, <1>3, <1>5, <2>2, DivUnique
  <2>5. c \in Slots(F, k - 1)
    BY <1>5, <2>3, <2>4 DEF ListSlot
  <2>6. ASSUME NEW g \in Slots(F, k - 1) PROVE g = c
    <3>1. g \in 0 .. total - 1 /\ PoolFrames[g \div CmdMax] = F /\ ListSlot(g % CmdMax) = k - 1
      BY <2>6
    <3>2. g \in Nat /\ g < LayerPages(blocks)
      BY <1>1, <3>1
    <3>3. PICK q \in Nat : q = g \div CmdMax /\ q < NCommands(blocks)
      BY <3>2, PageCommand
    <3>4. q \in 0 .. MaxCommands - 1 /\ i \in 0 .. MaxCommands - 1
      BY <1>1, <3>3
    <3>5. q = i
      BY <3>1, <3>3, <3>4
    <3>6. PICK m \in 0 .. CmdMax - 1 : m = g % CmdMax /\ g = q * CmdMax + m
      BY <1>1, <3>2, <3>3, DivMod
    <3>7. m = k
      BY <3>1, <3>6 DEF ListSlot
    <3>q. QED
      BY <2>2, <3>5, <3>6, <3>7
  <2>7. Entry(F, k - 1) = addr[c]
    <3>1. Slots(F, k - 1) = {c}
      BY <2>5, <2>6
    <3> HIDE DEF Slots
    <3>q. QED
      BY <3>1
  <2> HIDE DEF Entry
  <2>q. QED
    BY <1>2, <1>4, <2>1, <2>2, <2>7
<1>6. n \in Nat /\ n - 1 <= PerPage /\ p \in 0 .. n - 1
  BY <1>1, <1>3
<1>7. PICK mm, p1, p2 : mm = pool' /\ p1 = prp1'[i] /\ p2 = prp2'[i]
  OBVIOUS
<1>8. Pages(mm, p1, p2, n)[p] = IF p = 0 THEN p1 ELSE IF n = 2 THEN p2 ELSE mm[p2][p - 1]
  BY <1>6, ShortPages
<1> HIDE DEF Entry, F
<1>9. CASE p = 0
  <2>1. i * CmdMax + p = i * CmdMax
    BY <1>1, <1>9
  <2>q. QED
    BY <1>3, <1>4, <1>7, <1>8, <1>9, <2>1
<1>10. CASE p # 0 /\ n = 2
  <2>1. p = 1 /\ p2 = mm[F][p - 1]
    BY <1>4, <1>6, <1>7, <1>10 DEF Prp2For
  <2>2. pool'[F][p - 1] = addr[i * CmdMax + p]
    BY <1>5, <1>6, <1>10, <2>1
  <2>q. QED
    BY <1>3, <1>7, <1>8, <1>10, <2>1, <2>2
<1>11. CASE p # 0 /\ n # 2
  <2>1. p > 0 /\ p < n /\ p2 = F
    BY <1>4, <1>6, <1>7, <1>11 DEF Prp2For
  <2>2. pool'[F][p - 1] = addr[i * CmdMax + p]
    BY <1>5, <2>1
  <2>q. QED
    BY <1>3, <1>7, <1>8, <1>11, <2>1, <2>2
<1>q. QED
  BY <1>9, <1>10, <1>11

----------------------------------------------------------------------------
(* The loads *)

LEMMA LayerHasPages ==
    ASSUME NEW blocks \in LayerBlocks PROVE LayerPages(blocks) \in Nat \ {0}
<1>1. PICK B \in Nat \ {0} : B = BlocksPerPage
  OBVIOUS
<1>2. blocks \in Nat \ {0} /\ 0 * B = 0
  OBVIOUS
<1>3. CeilDiv(blocks, B) \in Nat /\ (0 < CeilDiv(blocks, B) <=> 0 * B < blocks)
  BY <1>2, CeilLess
<1>4. LayerPages(blocks) = CeilDiv(blocks, B)
  BY <1>1 DEF LayerPages
<1>q. QED
  BY <1>2, <1>3, <1>4

\* A load whose addresses are those wanted describes its chunks.
LEMMA LoadDescribes ==
    ASSUME JobInv, NEW addr, NEW want, NEW blocks \in LayerBlocks, ~Refused(blocks), Load(addr, blocks, want),
           (want[0] >= VramBase => found.fresh /\ Contiguous) =>
              \A g \in 0 .. LayerPages(blocks) - 1 : addr[g] = want[g]
    PROVE  JobInv'
<1>1. /\ BuildPrps(addr, blocks, LayerPages(blocks)) /\ UNCHANGED <<found, vbuf>>
      /\ job'.n = NCommands(blocks) /\ job'.want = want
      /\ job'.pages = [i \in 0 .. NCommands(blocks) - 1 |-> CmdPages(blocks, i)]
  BY DEF Load, StartJob, Still, bar1Vars
<1>2. DOMAIN pool = {PoolFrames[i] : i \in Cmds} /\ DOMAIN pool' = DOMAIN pool
  BY <1>1 DEF JobInv, BuildPrps
<1>3. NCommands(blocks) \in Nat /\ LayerPages(blocks) \in Nat
  <2>1. PICK B \in Nat \ {0}, C \in Nat \ {0} : B = BlocksPerPage /\ C = CmdMax
    OBVIOUS
  <2>2. BlocksPerCmd \in Nat \ {0} /\ blocks \in Nat
    BY <2>1 DEF BlocksPerCmd
  <2>q. QED
    BY <2>2, CeilLess, LayerHasPages DEF NCommands
<1>4. ASSUME want[0] >= VramBase => found.fresh /\ Contiguous,
             NEW i \in 0 .. NCommands(blocks) - 1, NEW p \in 0 .. CmdPages(blocks, i) - 1
      PROVE  Pages(pool', prp1'[i], prp2'[i], CmdPages(blocks, i))[p] = want[i * CmdMax + p]
  <2>1. i \in Nat /\ i < NCommands(blocks)
    BY <1>3
  <2>2. CmdPages(blocks, i) \in Nat
    BY <2>1, CommandPages
  <2>3. p \in Nat /\ p < CmdPages(blocks, i)
    BY <2>2
  <2>4. Pages(pool', prp1'[i], prp2'[i], CmdPages(blocks, i))[p] = addr[i * CmdMax + p]
    BY ONLY <1>1, <1>2, <2>1, <2>3, Built, ~Refused(blocks), blocks \in LayerBlocks
  <2>5. i * CmdMax + p \in Nat /\ i * CmdMax + p < LayerPages(blocks)
    <3>1. PICK C \in Nat : C = CmdMax
      OBVIOUS
    <3>2. i * C + p \in Nat
      BY <2>1, <2>3
    <3>q. QED
      BY <2>1, <2>3, <3>1, <3>2, CommandPages
  <2>6. i * CmdMax + p \in 0 .. LayerPages(blocks) - 1
    BY <1>3, <2>5
  <2>q. QED
    BY <1>4, <2>4, <2>6
<1>5. PrpsDescribeChunks'
  <2> SUFFICES ASSUME want[0] >= VramBase => found.fresh /\ Contiguous,
                      NEW i \in 0 .. NCommands(blocks) - 1, NEW p \in 0 .. job'.pages[i] - 1
               PROVE  Pages(pool', prp1'[i], prp2'[i], job'.pages[i])[p] = want[i * CmdMax + p]
    BY <1>1 DEF PrpsDescribeChunks, MovesTo, Contiguous
  <2>1. job'.pages[i] = CmdPages(blocks, i)
    BY <1>1
  <2>q. QED
    BY <1>4, <2>1
<1>q. QED
  BY <1>2, <1>5 DEF JobInv

LEMMA LoadPinnedOk ==
    ASSUME JobInv, NEW b \in Pinned, NEW blocks \in LayerBlocks, LoadPinned(b, blocks) PROVE JobInv'
BY LoadDescribes DEF LoadPinned

LEMMA LoadVramOk ==
    ASSUME JobInv, VramInv, NEW blocks \in LayerBlocks, LoadVram(blocks) PROVE JobInv'
<1> DEFINE want == [g \in DOMAIN vbuf |-> VramBase + vbuf[g]]
<1>1. /\ ~Refused(blocks) /\ Load(VramAddr, blocks, want) /\ found.ok
      /\ LayerPages(blocks) <= Size(vbuf)
  BY DEF LoadVram
<1>2. vbuf \in Placements
  BY <1>1 DEF VramInv
<1>3. PICK n \in Nat \ {0} : n = Size(vbuf) /\ vbuf \in [0 .. n - 1 -> VFrames]
  BY <1>2
<1>4. DOMAIN vbuf = 0 .. n - 1 /\ \A g \in 0 .. n - 1 : vbuf[g] \in Nat
  BY <1>3
<1>5. ASSUME found.fresh, Contiguous, NEW g \in 0 .. LayerPages(blocks) - 1
      PROVE  VramAddr[g] = want[g]
  <2>1. g \in 0 .. n - 1 /\ 0 \in 0 .. n - 1
    BY <1>1, <1>3, LayerHasPages
  <2>2. found.at = vbuf[0] /\ vbuf[g] = vbuf[0] + g
    BY <1>1, <1>4, <1>5, <2>1 DEF VramInv, ResolvedIsBuffer, Contiguous
  <2>3. VramAddr[g] = VramBase + found.at + g
    BY <1>3, <2>1 DEF VramAddr
  <2>4. want[g] = VramBase + vbuf[g]
    BY <1>4, <2>1
  <2>q. QED
    BY <1>4, <2>1, <2>2, <2>3, <2>4
<1>6. want[0] >= VramBase
  BY <1>3, <1>4
<1> HIDE DEF want
<1>q. QED
  BY <1>1, <1>5, <1>6, LoadDescribes

\* Nothing but a load touches the PRPs of a running one.
LEMMA JobStays ==
    ASSUME JobInv, UNCHANGED <<lpc, prpVars, vbuf, found>> PROVE JobInv'
BY DEF JobInv, PrpsDescribeChunks, MovesTo, Contiguous, prpVars

LEMMA NoJobRuns ==
    ASSUME DOMAIN pool' = {PoolFrames[i] : i \in Cmds}, lpc' # "call" PROVE JobInv'
BY DEF JobInv, PrpsDescribeChunks

----------------------------------------------------------------------------
(* Looking for a buffer in BAR1 *)

\* A page is found where it is, whatever the size of a window.
LEMMA ScanExact ==
    ASSUME NEW f \in VFrames PROVE FoundAt((f - 1) \div Window, (f - 1) % Window) = f
<1>1. PICK x \in Nat : x = f - 1
  OBVIOUS
<1>2a. PICK q \in Nat : q = x \div Window
  BY DivBounds
<1>2b. PICK m \in Nat : m = x % Window /\ x = q * Window + m
  <2>1. x % Window \in 0 .. Window - 1 /\ x = (x \div Window) * Window + (x % Window)
    BY DivMod
  <2>q. QED
    BY <1>2a, <2>1
<1>2. q = x \div Window /\ m = x % Window /\ x = q * Window + m
  BY <1>2a, <1>2b
<1>3. q * Window \in Nat
  OBVIOUS
<1>q. QED
  BY <1>1, <1>2, <1>3 DEF FoundAt

LEMMA ResolveOk ==
    ASSUME VramInv, NEW skip, NEW looked \in BOOLEAN, Bar1Resolve(skip, looked) PROVE VramInv'
<1> DEFINE m1 == [vmem EXCEPT ![vbuf[0]] = 1]
           hit == Hits(m1, skip) # {}
           at == ScanResult(m1, skip)
           big == Size(vbuf) >= 2
           m2 == IF hit /\ big THEN [m1 EXCEPT ![vbuf[Midpoint]] = 2] ELSE m1
           ok == hit /\ (big /\ looked => MidpointMatches(m2, at))
<1>1. /\ vmem \in [VFrames -> 0 .. 2] /\ vbuf \in Placements /\ vbuf # NoBuf
      /\ vmem' = m2 /\ vbuf' = vbuf
      /\ found' = IF ok THEN [ok |-> TRUE, at |-> at, fresh |-> Fresh, checked |-> big /\ looked]
                   ELSE NoFound
  BY DEF Bar1Resolve, VramInv
<1>2. PICK n \in Nat \ {0} : n = Size(vbuf) /\ vbuf \in [0 .. n - 1 -> VFrames]
  BY <1>1
<1>3. vbuf[0] \in VFrames /\ m1 \in [VFrames -> 0 .. 2] /\ m1[vbuf[0]] = 1
      /\ \A f \in VFrames : f # vbuf[0] => m1[f] = vmem[f]
  BY <1>1, <1>2
<1>4. big => Midpoint \in 0 .. n - 1 /\ vbuf[Midpoint] \in VFrames
  <2>1. SUFFICES ASSUME big PROVE Midpoint \in 0 .. n - 1
    BY <1>2
  <2>q. QED
    BY <1>2, <2>1 DEF Midpoint
<1> HIDE DEF m1
<1>5. /\ m2 \in [VFrames -> 0 .. 2]
      /\ \A f \in VFrames : (big => f # vbuf[Midpoint]) => m2[f] = m1[f]
  BY <1>3, <1>4
<1>6. ASSUME Fresh, hit PROVE at = vbuf[0]
  <2>1. ASSUME NEW f \in Hits(m1, skip) PROVE f = vbuf[0]
    BY <1>3, <1>6 DEF Hits, Fresh
  <2>2. Hits(m1, skip) = {vbuf[0]}
    BY <1>6, <2>1
  <2>3. FirstHit(m1, skip) = vbuf[0]
    BY <1>3, <2>2 DEF FirstHit
  <2>q. QED
    BY <1>3, <2>3, ScanExact DEF ScanResult
<1>7. ASSUME Fresh, ok, big, looked PROVE vbuf[Midpoint] = at + Midpoint
  <2>1. PICK x \in VFrames : x = at + Midpoint /\ m2[x] = 2
    BY <1>7 DEF MidpointMatches
  <2> HIDE DEF m2
  <2>2. SUFFICES ASSUME x # vbuf[Midpoint] PROVE FALSE
    BY <2>1
  <2>3. m1[x] = 2
    BY <1>5, <2>1, <2>2
  <2>4. vmem[x] = 2
    BY <1>3, <2>3
  <2>q. QED
    BY <1>7, <2>2, <2>4 DEF Fresh
<1> HIDE DEF m2, hit, at, big, ok
<1>8. found'.ok /\ found'.fresh => found'.at = vbuf[0] /\ (found'.checked => vbuf[Midpoint] = found'.at + Midpoint)
  <2>1. CASE ok
    <3>1. found'.ok /\ found'.at = at /\ found'.fresh = Fresh /\ found'.checked = (big /\ looked)
      BY <1>1, <2>1
    <3>2. hit
      BY <2>1 DEF ok
    <3>q. QED
      BY <1>6, <1>7, <2>1, <3>1, <3>2
  <2>2. CASE ~ok
    BY <1>1, <2>2 DEF NoFound
  <2>q. QED
    BY <2>1, <2>2
<1>9. Midpoint' = Midpoint
  BY <1>1 DEF Midpoint
<1>q. QED
  BY <1>1, <1>5, <1>8, <1>9 DEF VramInv, ResolvedIsBuffer

LEMMA VramStays ==
    ASSUME VramInv, vmem' \in [VFrames -> 0 .. 2], UNCHANGED <<vbuf, found>> PROVE VramInv'
BY DEF VramInv, ResolvedIsBuffer, Midpoint

----------------------------------------------------------------------------
(* The monitor *)

LEMMA MonStays ==
    ASSUME MonInv, UNCHANGED <<running, fatal_detected, mth, owner, callbacks>>,
           owner # "none" => lpc' \in {"up", "call"}
    PROVE  MonInv'
BY DEF MonInv

LEMMA MonSteps ==
    ASSUME MonInv, UNCHANGED lpc,
           (Idle /\ (MonitorStart \/ MonitorStartFails \/ MonitorStop)) \/ MonThread \/ MonitorJoin
    PROVE  MonInv'
<1>1. CASE Idle /\ MonitorStart
  BY <1>1 DEF MonInv, MonitorStart, Idle
<1>2. CASE Idle /\ MonitorStartFails
  BY <1>2 DEF MonInv, MonitorStartFails, Idle
<1>3. CASE MonitorStop
  BY <1>3 DEF MonInv, MonitorStop
<1>4. CASE MonCheck
  BY <1>4 DEF MonInv, MonCheck
<1>5. CASE MonRead
  BY <1>5 DEF MonInv, MonRead
<1>6. CASE MonReport
  BY <1>6 DEF MonInv, MonReport, FirstReport
<1>7. CASE MonSleep
  BY <1>7 DEF MonInv, MonSleep, AfterSleep
<1>8. CASE MonitorJoin
  BY <1>8 DEF MonInv, MonitorJoin, Joined
<1>q. QED
  BY <1>1, <1>2, <1>3, <1>4, <1>5, <1>6, <1>7, <1>8 DEF MonThread

----------------------------------------------------------------------------
(* All steps *)

LEMMA InitInv == Init => IInv
<1> SUFFICES ASSUME Init PROVE IInv
  OBVIOUS
<1>1. CleanupInv
  BY DEF Init, LifeInit, CleanupInv, Cleaning, Distinct, InOrder
<1>2. LifeInv
  BY DEF Init, LifeInit, Bar1Init, LifeInv
<1>3. MonInv
  BY DEF Init, LifeInit, MonInit, MonInv
<1>4. JobInv
  BY DEF Init, LifeInit, PrpInit, JobInv, PrpsDescribeChunks
<1>5. VramInv
  BY DEF Init, Bar1Init, VramInv, ResolvedIsBuffer, NoFound
<1>q. QED
  BY <1>1, <1>2, <1>3, <1>4, <1>5 DEF IInv

LEMMA StepInv == IInv /\ [Next]_vars => IInv'
<1> SUFFICES ASSUME IInv, [Next]_vars PROVE IInv'
  OBVIOUS
<1> USE DEF lifeVars, bar1Vars, monVars
<1>0. LifePart /\ CleanupInv /\ LifeInv /\ MonInv /\ JobInv /\ VramInv
  BY DEF IInv, LifePart
<1>0a. DOMAIN pool = {PoolFrames[i] : i \in Cmds} /\ vmem \in [VFrames -> 0 .. 2]
  BY <1>0 DEF JobInv, VramInv
<1>0b. lpc \notin {"up", "call"} => owner = "none"
  BY <1>0 DEF MonInv
<1>0c. ASSUME LifePart', MonInv', JobInv', VramInv' PROVE IInv'
  BY <1>0c DEF LifePart, IInv
<1>1. CASE Start
  <2>1. /\ CleanStart /\ InitOk /\ lpc = "none" /\ lpc' = "up"
        /\ UNCHANGED <<running, fatal_detected, mth, owner, callbacks, pool, bar1_fd, vmem, vbuf, found>>
    BY <1>1 DEF Start, CtrlReset, InitOk, prpVars
  <2>q. QED
    BY <1>0, <1>0a, <1>0b, <1>0c, <2>1, StartOk, MonStays, NoJobRuns, VramStays
<1>2. CASE StartFails
  <2>1. PICK k \in 1 .. Len(Steps), left \in CtrlLeaves : InitFails(k, left)
    BY <1>2 DEF StartFails
  <2>2. /\ CleanStart /\ lpc = "none" /\ lpc' = "unwind"
        /\ UNCHANGED <<running, fatal_detected, mth, owner, callbacks, pool, bar1_fd, vmem, vbuf, found>>
    BY <1>2, <2>1 DEF StartFails, InitFails, Still, prpVars
  <2>3. LifePart'
    BY <1>0, <2>1, <2>2, UnwindOk
  <2>q. QED
    BY <1>0, <1>0a, <1>0b, <1>0c, <2>2, <2>3, MonStays, NoJobRuns, VramStays
<1>3. CASE Stop
  <2>1. /\ owner = "none" /\ Destroy /\ lpc' = "teardown"
        /\ UNCHANGED <<running, fatal_detected, mth, owner, callbacks, pool, bar1_fd, vmem, vbuf, found>>
    BY <1>3 DEF Stop, Destroy, Still, prpVars
  <2>q. QED
    BY <1>0, <1>0a, <1>0c, <2>1, DestroyOk, MonStays, NoJobRuns, VramStays
<1>4. CASE ReleaseStep
  <2>1. /\ Release /\ lpc' = lpc
        /\ UNCHANGED <<running, fatal_detected, mth, owner, callbacks, prpVars, bar1_fd, vmem, vbuf, found>>
    BY <1>4 DEF ReleaseStep, Release, Still
  <2>2. owner # "none" => lpc' \in {"up", "call"}
    BY <1>0b, <2>1
  <2>3. LifePart' /\ MonInv' /\ VramInv'
    BY <1>0, <1>0a, <2>1, <2>2, ReleaseOk, MonStays, VramStays
  <2>4. JobInv'
    BY <1>0, <2>1, JobStays
  <2>q. QED
    BY <1>0c, <2>3, <2>4
<1>5. CASE FinishStep
  <2>1. /\ Finish /\ lpc' = "none" /\ lpc \in {"unwind", "teardown"} /\ bar1_fd' = FALSE /\ DOMAIN pool' = DOMAIN pool
        /\ UNCHANGED <<running, fatal_detected, mth, owner, callbacks, vmem, vbuf, found>>
    BY <1>5 DEF FinishStep, Finish, DropPrps
  <2>q. QED
    BY <1>0, <1>0a, <1>0b, <1>0c, <2>1, FinishOk, MonStays, NoJobRuns, VramStays
<1>6. ASSUME NEW b \in Pinned, NEW blocks \in LayerBlocks, LoadPinned(b, blocks) PROVE IInv'
  <2>1. /\ lpc = "up" /\ lpc' = "call"
        /\ UNCHANGED <<held, fields, todo, stray, leaks, bar1_fd>>
        /\ UNCHANGED <<running, fatal_detected, mth, owner, callbacks, vmem, vbuf, found>>
    BY <1>6 DEF LoadPinned, Load, Idle, Still
  <2>2. JobInv'
    BY <1>0, <1>6, LoadPinnedOk
  <2>q. QED
    BY <1>0, <1>0a, <1>0c, <2>1, <2>2, LifeStays, MonStays, VramStays
<1>7. ASSUME NEW blocks \in LayerBlocks, LoadVram(blocks) PROVE IInv'
  <2>1. /\ lpc = "up" /\ lpc' = "call"
        /\ UNCHANGED <<held, fields, todo, stray, leaks, bar1_fd>>
        /\ UNCHANGED <<running, fatal_detected, mth, owner, callbacks, vmem, vbuf, found>>
    BY <1>7 DEF LoadVram, Load, Idle, Still
  <2>2. JobInv'
    BY <1>0, <1>7, LoadVramOk
  <2>q. QED
    BY <1>0, <1>0a, <1>0c, <2>1, <2>2, LifeStays, MonStays, VramStays
<1>8. ASSUME NEW b \in Pinned, NEW blocks \in LayerBlocks, NEW g \in 0 .. Len(b) - 1,
             LoadPinnedFails(b, blocks, g)
      PROVE  IInv'
  <2>1. /\ lpc = "up" /\ lpc' = lpc /\ DOMAIN pool' = DOMAIN pool
        /\ UNCHANGED <<held, fields, todo, stray, leaks, bar1_fd>>
        /\ UNCHANGED <<running, fatal_detected, mth, owner, callbacks, vmem, vbuf, found>>
    BY <1>8 DEF LoadPinnedFails, BuildPrps, Idle, Still
  <2>q. QED
    BY <1>0, <1>0a, <1>0c, <2>1, LifeStays, MonStays, NoJobRuns, VramStays
<1>9. CASE UNCHANGED vars
  <2>1. /\ lpc' = lpc
        /\ UNCHANGED <<held, fields, todo, stray, leaks, bar1_fd>>
        /\ UNCHANGED <<running, fatal_detected, mth, owner, callbacks, prpVars, vmem, vbuf, found>>
    BY <1>9 DEF vars
  <2>2. JobInv' /\ LifePart'
    BY <1>0, <2>1, JobStays, LifeStays
  <2>3. owner # "none" => lpc' \in {"up", "call"}
    BY <1>0b, <2>1
  <2>q. QED
    BY <1>0, <1>0a, <1>0c, <2>1, <2>2, <2>3, MonStays, VramStays
<1>10. ASSUME NEW blocks \in LayerBlocks, LoadRefused(blocks) PROVE IInv'
  BY <1>9, <1>10 DEF LoadRefused
<1>11. ASSUME NEW moved, LoadReturns(moved) PROVE IInv'
  <2>1. /\ lpc = "call" /\ lpc' = "up" /\ pool' = pool
        /\ UNCHANGED <<held, fields, todo, stray, leaks, bar1_fd>>
        /\ UNCHANGED <<running, fatal_detected, mth, owner, callbacks, vbuf, found>>
    BY <1>11 DEF LoadReturns
  <2>2. vmem' \in [VFrames -> 0 .. 2]
    BY <1>0a, <1>11 DEF LoadReturns
  <2>q. QED
    BY <1>0, <1>0a, <1>0c, <2>1, <2>2, LifeStays, MonStays, NoJobRuns, VramStays
<1>12. CASE OpenBar1
  <2>1. /\ lpc = "up" /\ lpc' = lpc /\ bar1_fd' = TRUE /\ held' = held \cup {"bar1"} /\ fields' = fields \cup {"bar1"}
        /\ UNCHANGED <<todo, stray, leaks, pool>>
        /\ UNCHANGED <<running, fatal_detected, mth, owner, callbacks, vmem, vbuf, found>>
    BY <1>12 DEF OpenBar1, Idle, Bar1InitOk, prpVars
  <2>q. QED
    BY <1>0, <1>0a, <1>0c, <2>1, OpenOk, MonStays, NoJobRuns, VramStays
<1>13. CASE Vram
  <2>1. /\ lpc = "up" /\ lpc' = lpc
        /\ UNCHANGED <<held, fields, todo, stray, leaks, bar1_fd, pool>>
        /\ UNCHANGED <<running, fatal_detected, mth, owner, callbacks>>
    BY <1>13 DEF Vram, Idle, Bar1InitFails, VramAlloc, VramFree, Bar1Resolve, prpVars
  <2>2. VramInv'
    <3>1. CASE Bar1InitFails
      BY <1>0, <1>0a, <3>1, VramStays DEF Bar1InitFails
    <3>2. ASSUME NEW b \in Placements, VramAlloc(b) PROVE VramInv'
      BY <1>0a, <3>2 DEF VramAlloc, VramInv, ResolvedIsBuffer, NoFound
    <3>3. CASE VramFree
      BY <1>0a, <3>3 DEF VramFree, VramInv, ResolvedIsBuffer, NoFound
    <3>4. ASSUME NEW skip, NEW looked \in BOOLEAN, Bar1Resolve(skip, looked) PROVE VramInv'
      BY <1>0, <3>4, ResolveOk
    <3>q. QED
      BY <1>13, <3>1, <3>2, <3>3, <3>4 DEF Vram
  <2>q. QED
    BY <1>0, <1>0a, <1>0c, <2>1, <2>2, LifeStays, MonStays, NoJobRuns
<1>14. CASE MonOwner \/ MonStep \/ MonJoin \/ Fatal
  <2>1. /\ lpc' = lpc
        /\ UNCHANGED <<held, fields, todo, stray, leaks, bar1_fd>>
        /\ UNCHANGED <<prpVars, vmem, vbuf, found>>
    BY <1>14 DEF MonOwner, MonStep, MonJoin, Fatal
  <2>2. JobInv' /\ LifePart' /\ VramInv'
    BY <1>0, <1>0a, <2>1, JobStays, LifeStays, VramStays
  <2>3. MonInv'
    <3>1. CASE MonOwner \/ MonStep \/ MonJoin
      BY <1>0, <2>1, <3>1, MonSteps DEF MonOwner, MonStep, MonJoin
    <3>2. CASE Fatal
      BY <1>0, <1>0b, <2>1, <3>2, MonStays DEF Fatal, CtrlFatal
    <3>q. QED
      BY <1>14, <3>1, <3>2
  <2>q. QED
    BY <1>0c, <2>2, <2>3
<1>q. QED
  BY <1>1, <1>2, <1>3, <1>4, <1>5, <1>6, <1>7, <1>8, <1>9, <1>10, <1>11, <1>12, <1>13, <1>14 DEF Next

\* What is left to release, what a monitor may touch, what a running load's PRPs
\* describe and what a resolve found: as the functions of layer_loader.cu and
\* monitor.c leave them, together.
THEOREM Invariance == Spec => []IInv
BY InitInv, StepInv, PTL DEF Spec

----------------------------------------------------------------------------
(* The properties of the run *)

\* A loader that is up has all its resources and pointers; one that is not
\* keeps no pointer to BAR0.
THEOREM TypeCorrect == Spec => []TypeOK
<1>1. IInv => TypeOK
  BY DEF IInv, LifeInv, MonInv, VramInv, TypeOK
<1>q. QED
  BY <1>1, Invariance, PTL

\* No resource outlives what it is built on, at any point of either cleanup,
\* and the monitor thread reads its register only while BAR0 is mapped.
THEOREM BuiltTheorem == Spec => []BuiltOnHeld
<1>1. IInv => BuiltOnHeld
  <2> SUFFICES ASSUME IInv PROVE BuiltOnHeld
    OBVIOUS
  <2>1. ASSUME mth = "read" PROVE "map" \in held
    BY <2>1, ResourceSet DEF IInv, MonInv, LifeInv
  <2>q. QED
    BY <2>1 DEF IInv, LifeInv, BuiltOnHeld
<1>q. QED
  BY <1>1, Invariance, PTL

\* A cleanup of init or destroy releases only what is held, and all of it but
\* what is known to be left behind.
THEOREM ReleasedTheorem == Spec => []ReleasedOnce
<1>1. IInv => ReleasedOnce
  BY DEF IInv, LifeInv, ReleasedOnce
<1>q. QED
  BY <1>1, Invariance, PTL

\* While the kernel runs, the PRPs of every command lead to the pages its data
\* belongs in, for every layer size, every MDTS that keeps a list to one page
\* and every buffer.
THEOREM PrpsTheorem == Spec => []PrpsDescribeChunks
<1>1. IInv => PrpsDescribeChunks
  BY DEF IInv, JobInv
<1>q. QED
  BY <1>1, Invariance, PTL

\* gpunvme_bar1_resolve returns the address of the buffer it was asked about,
\* unless a pattern from an earlier resolve is still in memory.
THEOREM ResolvedTheorem == Spec => []ResolvedIsBuffer
<1>1. IInv => ResolvedIsBuffer
  BY DEF IInv, VramInv
<1>q. QED
  BY <1>1, Invariance, PTL

\* The safety half of FatalReported: a monitor calls back at most once, with the
\* flag set for its owner to see.
THEOREM CallbackTheorem == Spec => [](callbacks <= 1 /\ (callbacks = 1 => fatal_detected))
<1>1. IInv => callbacks <= 1 /\ (callbacks = 1 => fatal_detected)
  BY DEF IInv, MonInv
<1>q. QED
  BY <1>1, Invariance, PTL
=============================================================================
