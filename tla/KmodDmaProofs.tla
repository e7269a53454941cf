--------------------------- MODULE KmodDmaProofs ---------------------------
(***************************************************************************)
(* Proofs about KmodDma, for every number of threads, slots, devices and    *)
(* pins.                                                                    *)
(***************************************************************************)
EXTENDS KmodDmaInv, WellFoundedInduction, TLAPS

USE ThreadsAssumption, SizesAssumption, PinsAssumption

----------------------------------------------------------------------------
(* The operators the model is built from *)

\* The first free slot, and the first slot in use, is one of them.
LEMMA MinTyped ==
    ASSUME NEW S \in SUBSET Nat, S # {}
    PROVE  Min(S) \in S /\ \A y \in S : Min(S) <= y
<1> DEFINE R == OpToRel(<, Nat)
<1> HIDE DEF R
<1>1. IsWellFoundedOn(R, Nat)
  BY NatLessThanWellFounded DEF R
<1>2. \A x, y \in Nat : y < x => <<y, x>> \in R
  BY DEF R, OpToRel
<1>3. PICK x \in S : \A y \in S : ~(<<y, x>> \in R)
  BY <1>1, WFMin
<1>4. ASSUME NEW y \in S PROVE x <= y
  <2>1. x \in Nat /\ y \in Nat /\ ~(y < x)
    BY <1>2, <1>3
  <2>q. QED
    BY <2>1
<1>q. QED
  BY <1>4 DEF Min

\* What each rung of the ladder acquires.
LEMMA LadderEntries ==
    /\ DOMAIN Ladder = 1 .. 8 /\ Len(Ladder) = 8
    /\ Ladder[1] = "index" /\ Acquires(Ladder[1]) = {}
    /\ Ladder[2] = "enable" /\ Acquires(Ladder[2]) = {"enabled"}
    /\ Ladder[3] = "region" /\ Acquires(Ladder[3]) = {"region"}
    /\ Ladder[4] = "barsize" /\ Acquires(Ladder[4]) = {}
    /\ Ladder[5] = "iomap" /\ Acquires(Ladder[5]) = {"iomap", "master"}
    /\ Ladder[6] = "mask" /\ Acquires(Ladder[6]) = {}
    /\ Ladder[7] = "cdev" /\ Acquires(Ladder[7]) = {"cdev"}
    /\ Ladder[8] = "node" /\ Acquires(Ladder[8]) = {"node"}
  BY DEF Ladder, Acquires

\* What the error labels of gpunvme_pci_probe release, by the rung that failed.
LEMMA FailReleases ==
    ASSUME NEW s \in 1 .. 8
    PROVE  LET undone == ChrdevUndo(Ladder[s]) \cup UNION {Undo[l] : l \in FailLabel(Ladder[s]) .. 4}
           IN  /\ "ctx" \in undone
               /\ s > 2 => "enabled" \in undone
               /\ s > 3 => "region" \in undone
               /\ s > 5 => "iomap" \in undone /\ "master" \in undone
               /\ s > 7 => "cdev" \in undone
<1> DEFINE f == FailLabel(Ladder[s])
           undone == ChrdevUndo(Ladder[s]) \cup UNION {Undo[l] : l \in f .. 4}
<1>1. /\ f \in 1 .. 4 /\ (s > 2 => f <= 3) /\ (s > 3 => f <= 2) /\ (s > 5 => f = 1)
  BY LadderEntries DEF FailLabel
<1>2. /\ Undo[1] = {"master", "iomap"} /\ Undo[2] = {"region"}
      /\ Undo[3] = {"enabled"} /\ Undo[4] = {"ctx"}
  BY DEF Undo
<1> HIDE DEF f
<1>3. ASSUME NEW l \in f .. 4 PROVE Undo[l] \subseteq undone
  OBVIOUS
<1>4. s > 7 => "cdev" \in undone
  BY LadderEntries DEF ChrdevUndo
<1> HIDE DEF undone
<1>5. "ctx" \in undone
  BY <1>1, <1>2, <1>3
<1>6. s > 2 => "enabled" \in undone
  BY <1>1, <1>2, <1>3
<1>7. s > 3 => "region" \in undone
  BY <1>1, <1>2, <1>3
<1>8. s > 5 => "iomap" \in undone /\ "master" \in undone
  BY <1>1, <1>2, <1>3
<1>q. QED
  BY <1>4, <1>5, <1>6, <1>7, <1>8 DEF undone, f

\* A load that succeeds has everything, one that fails at any step nothing.
LEMMA LoadEntries ==
    /\ {LoadSteps[i] : i \in DOMAIN LoadSteps} = {"numbers", "class", "driver"}
    /\ DOMAIN LoadSteps = 1 .. 3
    /\ \A k \in 1 .. 3 : {LoadSteps[i] : i \in 1 .. k - 1} \ LoadUndo(LoadSteps[k]) = {}
<1>1. /\ DOMAIN LoadSteps = 1 .. 3 /\ LoadSteps[1] = "numbers"
      /\ LoadSteps[2] = "class" /\ LoadSteps[3] = "driver"
  BY DEF LoadSteps
<1>2. /\ LoadUndo(LoadSteps[1]) = {} /\ LoadUndo(LoadSteps[2]) = {"numbers"}
      /\ LoadUndo(LoadSteps[3]) = {"class", "numbers"}
  BY <1>1 DEF LoadUndo
<1>3. \A i \in 1 .. 3 : i = 1 \/ i = 2 \/ i = 3
  OBVIOUS
<1>4. {LoadSteps[i] : i \in DOMAIN LoadSteps} = {"numbers", "class", "driver"}
  BY <1>1, <1>3
<1>5. ASSUME NEW k \in 1 .. 3
      PROVE  {LoadSteps[i] : i \in 1 .. k - 1} \ LoadUndo(LoadSteps[k]) = {}
  <2>1. \A i \in 1 .. k - 1 : i < k /\ i \in 1 .. 3
    OBVIOUS
  <2>q. QED
    BY <1>1, <1>2, <1>3, <2>1
<1>q. QED
  BY <1>1, <1>4, <1>5

----------------------------------------------------------------------------
(* What load and probe have acquired *)

\* Files, maps, unmaps and callbacks leave the module and the device alone.
LEMMA CallsKeepDevice ==
    /\ \A t \in Threads : File(t) \/ Map(t) \/ UnmapCall(t) => UNCHANGED <<modVars, devVars>>
    /\ \A t \in All : Unmap(t) => UNCHANGED <<modVars, devVars>>
    /\ \A p \in Pins : FreeCallback(p) => UNCHANGED <<modVars, devVars>>
    /\ RemoveScan => UNCHANGED <<modVars, devVars>>
<1> USE DEF probeVars
<1>1. ASSUME NEW t \in Threads, File(t) PROVE UNCHANGED <<modVars, devVars>>
  BY <1>1 DEF File, Open, Mmap, Munmap, Close, Holds
<1>2. ASSUME NEW t \in Threads, Map(t) PROVE UNCHANGED <<modVars, devVars>>
  BY <1>2 DEF Map, MapClaim, MapGetPages, MapGetPagesFails, MapRecord, MapDma, MapDmaFails,
              MapReturn, MapPut, MapUnclaim
<1>3. ASSUME NEW t \in Threads, UnmapCall(t) PROVE UNCHANGED <<modVars, devVars>>
  BY <1>3 DEF UnmapCall
<1>4. ASSUME NEW t \in All, Unmap(t) PROVE UNCHANGED <<modVars, devVars>>
  BY <1>4 DEF Unmap, UnmapLock, UnmapDma, UnmapPut, UnmapUnlock
<1>q. QED
  BY <1>1, <1>2, <1>3, <1>4 DEF FreeCallback, RemoveScan

LEMMA StepMod == ModInv /\ mod \in {"out", "in", "going"} /\ [Next]_vars => ModInv'
<1> SUFFICES ASSUME ModInv, mod \in {"out", "in", "going"}, [Next]_vars PROVE ModInv'
  OBVIOUS
<1> USE DEF modVars, devVars, probeVars
<1>1. CASE LoadOk
  BY <1>1, LoadEntries DEF LoadOk, ModInv
<1>2. CASE UnloadStart \/ UnloadEnd
  BY <1>2 DEF UnloadStart, UnloadEnd, ModInv
<1>3. ASSUME NEW k \in DOMAIN LoadSteps, LoadFails(k) PROVE ModInv'
  BY <1>3, LoadEntries DEF LoadFails, ModInv
<1>4. CASE ProbeStart
  BY <1>4 DEF ProbeStart, ModInv
<1>5. CASE ProbeStep \/ ProbeFails
  BY <1>5 DEF ProbeStep, ProbeFails, ModInv
<1>6. CASE RemoveStart \/ RemoveEnd
  BY <1>6 DEF RemoveStart, RemoveEnd, ModInv
<1>7. ASSUME UNCHANGED <<modVars, devVars>> PROVE ModInv'
  BY <1>7 DEF ModInv
<1>q. QED
  BY <1>1, <1>2, <1>3, <1>4, <1>5, <1>6, <1>7, CallsKeepDevice DEF Next, vars

LEMMA StepRes == TypeOK /\ ResInv /\ [Next]_vars => ResInv'
<1> SUFFICES ASSUME TypeOK, ResInv, [Next]_vars PROVE ResInv'
  OBVIOUS
<1> USE DEF modVars, devVars, probeVars
<1>0. step \in 1 .. 8 /\ dev \in {"unbound", "probing", "ready", "removing"}
      /\ res \subseteq {"ctx", "enabled", "region", "iomap", "master", "cdev", "node"}
  BY LadderEntries DEF TypeOK
<1>1. ASSUME UNCHANGED <<dev, step, res>> PROVE ResInv'
  BY <1>1 DEF ResInv, Past
<1>2. CASE LoadOk \/ UnloadStart \/ UnloadEnd
  BY <1>1, <1>2 DEF LoadOk, UnloadStart, UnloadEnd
<1>3. ASSUME NEW k \in DOMAIN LoadSteps, LoadFails(k) PROVE ResInv'
  BY <1>1, <1>3 DEF LoadFails
<1>4. CASE ProbeStart
  BY <1>4 DEF ProbeStart, ResInv, Past
<1>5. CASE ProbeStep
  <2>1. dev = "probing" /\ res' = res \cup Acquires(Ladder[step])
        /\ (IF step = 8 THEN dev' = "ready" /\ step' = step
                        ELSE step' = step + 1 /\ dev' = dev)
    BY <1>5, LadderEntries DEF ProbeStep
  <2>2. \A k \in {2, 3, 5, 7, 8} : Past(k)' <=> Past(k) \/ step = k
    BY <1>0, <2>1 DEF Past
  <2>3. /\ "ctx" \notin Acquires(Ladder[step])
        /\ "enabled" \in Acquires(Ladder[step]) <=> step = 2
        /\ "region" \in Acquires(Ladder[step]) <=> step = 3
        /\ "iomap" \in Acquires(Ladder[step]) <=> step = 5
        /\ "master" \in Acquires(Ladder[step]) <=> step = 5
        /\ "cdev" \in Acquires(Ladder[step]) <=> step = 7
        /\ "node" \in Acquires(Ladder[step]) <=> step = 8
    <3>1. step \in {1, 2, 3, 4, 5, 6, 7, 8}
      BY <1>0
    <3>q. QED
      BY <3>1, LadderEntries
  <2>4. dev' # "unbound"
    BY <2>1
  <2>q. QED
    BY <2>1, <2>2, <2>3, <2>4 DEF ResInv
<1>6. CASE ProbeFails
  <2> DEFINE undone == ChrdevUndo(Ladder[step])
                         \cup UNION {Undo[l] : l \in FailLabel(Ladder[step]) .. 4}
  <2>1. dev = "probing" /\ dev' = "unbound" /\ res' = res \ undone
    BY <1>6 DEF ProbeFails
  <2>2. /\ "ctx" \in undone
        /\ step > 2 => "enabled" \in undone
        /\ step > 3 => "region" \in undone
        /\ step > 5 => "iomap" \in undone /\ "master" \in undone
        /\ step > 7 => "cdev" \in undone
    BY <1>0, FailReleases
  <2> HIDE DEF undone
  <2>3. \A k \in {2, 3, 5, 7, 8} : Past(k) <=> step > k
    BY <2>1 DEF Past
  <2>4. \A x \in {"ctx", "enabled", "region", "iomap", "master", "cdev", "node"} : x \notin res'
    BY <1>0, <2>1, <2>2, <2>3 DEF ResInv
  <2>q. QED
    BY <2>1, <2>4 DEF ResInv, Past
<1>7. CASE RemoveStart
  BY <1>0, <1>7 DEF RemoveStart, ResInv, Past
<1>8. CASE RemoveEnd
  BY <1>0, <1>8 DEF RemoveEnd, ResInv, Past
<1>9. ASSUME UNCHANGED <<modVars, devVars>> PROVE ResInv'
  BY <1>1, <1>9
<1>q. QED
  BY <1>2, <1>3, <1>4, <1>5, <1>6, <1>7, <1>8, <1>9, CallsKeepDevice DEF Next, vars

----------------------------------------------------------------------------
(* Type correctness *)

SlotType == [in_use : BOOLEAN, page_table : {Null} \cup Pins, dma_mapping : {Null} \cup Pins]

ThreadType ==
    [pc : {"idle", "get_pages", "record", "dma_map", "return", "put", "unclaim", "unmap",
           "dma_unmap", "put_pages", "unlock", "scan"},
     slot : 0 .. MaxMaps, page_table : {Null} \cup Pins, dma_mapping : {Null} \cup Pins]

\* The module's and the device's own variables.
DeviceTyped ==
    /\ mod \in {"out", "in", "going"} /\ modres \subseteq {"numbers", "class", "driver"}
    /\ held \in [Threads -> SUBSET {"file", "bar"}]
    /\ dev \in {"unbound", "probing", "ready", "removing"} /\ step \in DOMAIN Ladder
    /\ res \subseteq {"ctx", "enabled", "region", "iomap", "master", "cdev", "node"}
    /\ dev_count \in 0 .. MaxProbes

\* The slots, the threads and the driver's pins.
MapsTyped ==
    /\ locked \in BOOLEAN /\ bad \in BOOLEAN /\ met \subseteq {"remove", "free"}
    /\ gpu_maps \in [Slots -> SlotType]
    /\ th \in [All -> ThreadType]
    /\ known \subseteq [slot : Slots, page_table : Pins]
    /\ pin \in [Pins -> {"unused", "pinned", "mapped", "put", "freed"}]
    /\ data \in [Pins -> Slots]

LEMMA TypeParts == TypeOK <=> DeviceTyped /\ MapsTyped
<1>1. {locked, bad} \subseteq BOOLEAN <=> locked \in BOOLEAN /\ bad \in BOOLEAN
  OBVIOUS
<1>q. QED
  BY <1>1 DEF TypeOK, DeviceTyped, MapsTyped, SlotType, ThreadType

LEMMA StepDeviceTyped == DeviceTyped /\ ResInv /\ [Next]_vars => DeviceTyped'
<1> SUFFICES ASSUME DeviceTyped, [Next]_vars PROVE DeviceTyped'
  OBVIOUS
<1> USE DEF modVars, devVars, probeVars
<1>1. CASE LoadOk
  BY <1>1, LoadEntries DEF LoadOk, DeviceTyped
<1>2. CASE UnloadStart \/ UnloadEnd
  BY <1>2 DEF UnloadStart, UnloadEnd, DeviceTyped
<1>3. ASSUME NEW k \in DOMAIN LoadSteps, LoadFails(k) PROVE DeviceTyped'
  BY <1>3, LoadEntries DEF LoadFails, DeviceTyped
<1>4. CASE ProbeStart
  BY <1>4, LadderEntries DEF ProbeStart, DeviceTyped
<1>5. CASE ProbeStep
  <2>1. step \in {1, 2, 3, 4, 5, 6, 7, 8}
    BY LadderEntries DEF DeviceTyped
  <2>2. Acquires(Ladder[step]) \subseteq {"enabled", "region", "iomap", "master", "cdev", "node"}
    BY <2>1, LadderEntries
  <2>3. step' \in 1 .. 8
    BY <1>5, <2>1, LadderEntries DEF ProbeStep
  <2>4. dev' \in {"probing", "ready"}
    BY <1>5 DEF ProbeStep
  <2>q. QED
    BY <1>5, <2>2, <2>3, <2>4, LadderEntries DEF ProbeStep, DeviceTyped
<1>6. CASE ProbeFails \/ RemoveStart \/ RemoveEnd
  BY <1>6 DEF ProbeFails, RemoveStart, RemoveEnd, DeviceTyped
<1>7. ASSUME UNCHANGED <<modVars, devVars, held>> PROVE DeviceTyped'
  BY <1>7 DEF DeviceTyped
<1>8. ASSUME NEW t \in Threads, File(t) PROVE DeviceTyped'
  <2>1. PICK h \in SUBSET {"file", "bar"} :
            held' = [held EXCEPT ![t] = h] /\ UNCHANGED <<modVars, devVars>>
    BY <1>8 DEF File, Open, Mmap, Munmap, Close, Holds, DeviceTyped
  <2>q. QED
    BY <2>1 DEF DeviceTyped
<1>9. ASSUME NEW t \in Threads, Map(t) \/ UnmapCall(t) PROVE UNCHANGED held
  BY <1>9 DEF Map, MapClaim, MapGetPages, MapGetPagesFails, MapRecord, MapDma, MapDmaFails,
              MapReturn, MapPut, MapUnclaim, UnmapCall
<1>10. ASSUME NEW t \in All, Unmap(t) PROVE UNCHANGED held
  BY <1>10 DEF Unmap, UnmapLock, UnmapDma, UnmapPut, UnmapUnlock
<1>11. ASSUME NEW p \in Pins, FreeCallback(p) PROVE UNCHANGED held
  BY <1>11 DEF FreeCallback
<1>12. RemoveScan => UNCHANGED held
  BY DEF RemoveScan
<1>q. QED
  BY <1>1, <1>2, <1>3, <1>4, <1>5, <1>6, <1>7, <1>8, <1>9, <1>10, <1>11, <1>12,
     CallsKeepDevice DEF Next, vars

LEMMA StepMapsTyped == MapsTyped /\ SlotsInv /\ [Next]_vars => MapsTyped' /\ SlotsInv'
<1> SUFFICES ASSUME MapsTyped, SlotsInv, [Next]_vars PROVE MapsTyped' /\ SlotsInv'
  OBVIOUS
<1> USE DEF modVars, devVars, probeVars, Null
<1>1. Slots \subseteq Nat /\ Slots \subseteq 0 .. MaxMaps /\ \A s \in Slots : s + 1 \in 0 .. MaxMaps
  BY DEF Slots
<1>2. Idle \in ThreadType /\ FreeSlot \in SlotType /\ Idle.pc = "idle"
  BY DEF Idle, ThreadType, FreeSlot, SlotType
<1>3. ASSUME NEW t \in All, Works(t) PROVE th[t].slot \in Slots
  BY <1>3 DEF SlotsInv
<1>4. ASSUME NEW t \in All
      PROVE  th[t] \in ThreadType /\ th[t].page_table \in {Null} \cup Pins
  BY DEF MapsTyped, ThreadType
<1>5. ASSUME NEW t \in All, NEW r \in ThreadType, th' = [th EXCEPT ![t] = r],
             r.pc \notin {"idle", "scan"} => r.slot \in Slots,
             r.pc \in {"record", "dma_map", "return"} => r.page_table \in Pins
      PROVE  th' \in [All -> ThreadType] /\ SlotsInv'
  BY <1>5 DEF MapsTyped, SlotsInv, Works
<1>6. ASSUME UNCHANGED <<gpu_maps, locked, th, known, pin, data, bad>>,
             met' \subseteq {"remove", "free"}
      PROVE  MapsTyped' /\ SlotsInv'
  BY <1>6 DEF MapsTyped, SlotsInv, Works
<1>0. met \subseteq {"remove", "free"}
  BY DEF MapsTyped
<1>7. CASE LoadOk \/ UnloadStart \/ UnloadEnd \/ ProbeStep \/ ProbeFails
  BY <1>0, <1>6, <1>7 DEF LoadOk, UnloadStart, UnloadEnd, ProbeStep, ProbeFails
<1>8. ASSUME NEW k \in DOMAIN LoadSteps, LoadFails(k) PROVE MapsTyped' /\ SlotsInv'
  BY <1>0, <1>6, <1>8 DEF LoadFails
<1>9. CASE ProbeStart
  BY <1>2, <1>9 DEF ProbeStart, MapsTyped, SlotsInv, Works
<1>10. ASSUME NEW t \in Threads, File(t) PROVE MapsTyped' /\ SlotsInv'
  <2>1. UNCHANGED <<gpu_maps, locked, th, known, pin, data, bad>>
    BY <1>10 DEF File, Open, Mmap, Munmap, Close, Holds
  <2>2. met' = met \/ met' = met \cup {"remove"}
    BY <1>10 DEF File, Open, Mmap, Munmap, Close, Holds
  <2>q. QED
    BY <1>0, <1>6, <2>1, <2>2
<1>11. ASSUME NEW t \in All, NEW w, Goto(t, w),
              w \in {"put", "unclaim", "dma_unmap", "put_pages", "unlock"}
                  \/ (w = "dma_map" /\ th[t].pc = "record"),
              Works(t)
       PROVE  th' \in [All -> ThreadType] /\ SlotsInv'
  <2> DEFINE r == [th[t] EXCEPT !.pc = w]
  <2>1. /\ r \in ThreadType /\ r.slot \in Slots /\ r.pc = w
        /\ w = "dma_map" => r.page_table \in Pins
    BY <1>3, <1>4, <1>11 DEF ThreadType, SlotsInv
  <2>2. th' = [th EXCEPT ![t] = r]
    BY <1>11 DEF Goto
  <2> HIDE DEF r
  <2>q. QED
    BY <1>5, <1>11, <2>1, <2>2
<1>12. ASSUME NEW t \in Threads, MapClaim(t) PROVE MapsTyped' /\ SlotsInv'
  <2> DEFINE free == {s \in Slots : ~gpu_maps[s].in_use}
             r == [Idle EXCEPT !.pc = "get_pages", !.slot = Min(free)]
  <2>1. free # {} /\ free \in SUBSET Nat
    BY <1>1, <1>12 DEF MapClaim
  <2>2. Min(free) \in free
    BY <2>1, MinTyped
  <2>3. Min(free) \in Slots
    BY <2>2
  <2>4. /\ gpu_maps' = [gpu_maps EXCEPT ![Min(free)] = Claimed(@)]
        /\ th' = [th EXCEPT ![t] = r]
        /\ UNCHANGED <<locked, known, pin, data, bad, met>>
    BY <1>12 DEF MapClaim
  <2>5. r \in ThreadType /\ r.slot \in Slots /\ r.pc = "get_pages"
    BY <1>1, <2>3 DEF Idle, ThreadType
  <2> HIDE DEF free, r
  <2>6. th' \in [All -> ThreadType] /\ SlotsInv'
    BY <1>5, <2>4, <2>5 DEF All
  <2>7. gpu_maps' \in [Slots -> SlotType]
    BY <2>3, <2>4 DEF MapsTyped, SlotType, Claimed
  <2>q. QED
    BY <2>4, <2>6, <2>7 DEF MapsTyped
<1>13. ASSUME NEW t \in Threads, MapGetPages(t) PROVE MapsTyped' /\ SlotsInv'
  <2>0. t \in All /\ th[t].slot \in Slots
    BY <1>3, <1>13 DEF All, MapGetPages, At, Works
  <2>1. PICK p \in Pins : /\ pin' = [pin EXCEPT ![p] = "pinned"]
                          /\ data' = [data EXCEPT ![p] = th[t].slot]
                          /\ th' = [th EXCEPT ![t].page_table = p, ![t].pc = "record"]
    BY <1>13 DEF MapGetPages
  <2> DEFINE r == [th[t] EXCEPT !.page_table = p, !.pc = "record"]
  <2>2. r \in ThreadType /\ r.slot \in Slots /\ r.page_table \in Pins
    BY <1>4, <2>0 DEF ThreadType
  <2>3. th' = [th EXCEPT ![t] = r]
    BY <2>0, <2>1 DEF MapsTyped
  <2> HIDE DEF r
  <2>4. th' \in [All -> ThreadType] /\ SlotsInv'
    BY <1>5, <2>0, <2>2, <2>3
  <2>q. QED
    BY <1>13, <2>0, <2>1, <2>4 DEF MapGetPages, MapsTyped
<1>14. ASSUME NEW t \in Threads, MapGetPagesFails(t) \/ MapDmaFails(t)
       PROVE  MapsTyped' /\ SlotsInv'
  BY <1>11, <1>14 DEF MapGetPagesFails, MapDmaFails, AfterDmaFailure, At, Works, All, MapsTyped
<1>15. ASSUME NEW t \in Threads, MapRecord(t) PROVE MapsTyped' /\ SlotsInv'
  <2>1. th' \in [All -> ThreadType] /\ SlotsInv'
    BY <1>11, <1>15 DEF MapRecord, At, Works, All
  <2>2. gpu_maps' \in [Slots -> SlotType]
    <3>1. th[t].page_table \in {Null} \cup Pins /\ gpu_maps \in [Slots -> SlotType]
      BY <1>4 DEF All, MapsTyped
    <3>2. gpu_maps' = [gpu_maps EXCEPT ![th[t].slot].page_table = th[t].page_table]
      BY <1>15 DEF MapRecord
    <3>q. QED
      BY <3>1, <3>2 DEF SlotType
  <2>3. UNCHANGED <<locked, known, pin, data, bad, met>>
    BY <1>15 DEF MapRecord
  <2>q. QED
    BY <2>1, <2>2, <2>3 DEF MapsTyped
<1>16. ASSUME NEW t \in Threads, MapDma(t) PROVE MapsTyped' /\ SlotsInv'
  <2>0. t \in All /\ th[t].slot \in Slots
    BY <1>3, <1>16 DEF All, MapDma, At, Works
  <2> DEFINE r == [th[t] EXCEPT !.dma_mapping = th[t].page_table, !.pc = "return"]
  <2>2. r \in ThreadType /\ r.slot \in Slots /\ r.page_table \in Pins
    BY <1>4, <1>16, <2>0 DEF ThreadType, MapDma, At, SlotsInv
  <2>3. th' = [th EXCEPT ![t] = r]
    BY <1>16, <2>0 DEF MapDma, MapsTyped
  <2> HIDE DEF r
  <2>4. th' \in [All -> ThreadType] /\ SlotsInv'
    BY <1>5, <2>0, <2>2, <2>3
  <2>q. QED
    BY <1>16, <2>4 DEF MapDma, MapsTyped
<1>17. ASSUME NEW t \in Threads, MapReturn(t) PROVE MapsTyped' /\ SlotsInv'
  <2>0. t \in All /\ th[t].slot \in Slots /\ th[t].dma_mapping \in {Null} \cup Pins
    BY <1>3, <1>17 DEF All, MapReturn, At, Works, MapsTyped, ThreadType
  <2>1. th' \in [All -> ThreadType] /\ SlotsInv'
    BY <1>2, <1>5, <1>17, <2>0 DEF MapReturn
  <2>2. gpu_maps' \in [Slots -> SlotType]
    BY <1>17, <2>0 DEF MapReturn, MapsTyped, SlotType
  <2>3. known' \subseteq [slot : Slots, page_table : Pins]
    <3>1. th[t].page_table \in Pins
      BY <1>17, <2>0 DEF MapReturn, At, SlotsInv
    <3>q. QED
      BY <1>17, <2>0, <3>1 DEF MapReturn, MapsTyped
  <2>q. QED
    BY <1>17, <2>1, <2>2, <2>3 DEF MapReturn, MapsTyped
<1>18. ASSUME NEW t \in All, NEW q \in {Null} \cup Pins
       PROVE  /\ PutPages(q) \in [Pins -> {"unused", "pinned", "mapped", "put", "freed"}]
              /\ DmaUnmapPages(q) \in [Pins -> {"unused", "pinned", "mapped", "put", "freed"}]
              /\ [gpu_maps EXCEPT ![th[t].slot].page_table = Null] \in [Slots -> SlotType]
              /\ [gpu_maps EXCEPT ![th[t].slot].dma_mapping = Null] \in [Slots -> SlotType]
              /\ [gpu_maps EXCEPT ![th[t].slot].in_use = FALSE] \in [Slots -> SlotType]
  BY DEF PutPages, DmaUnmapPages, MapsTyped, SlotType
<1>19. ASSUME NEW t \in All, Works(t)
       PROVE  Mine(t).page_table \in {Null} \cup Pins /\ Mine(t).dma_mapping \in {Null} \cup Pins
  BY <1>3, <1>19 DEF Mine, MapsTyped, SlotType
<1>20. ASSUME NEW t \in Threads, MapPut(t) PROVE MapsTyped' /\ SlotsInv'
  <2>1. t \in All /\ Works(t)
    BY <1>20 DEF MapPut, At, Works, All
  <2>2. th' \in [All -> ThreadType] /\ SlotsInv'
    BY <1>11, <1>20, <2>1 DEF MapPut
  <2>q. QED
    BY <1>18, <1>19, <1>20, <2>1, <2>2 DEF MapPut, MapsTyped
<1>21. ASSUME NEW t \in Threads, MapUnclaim(t) PROVE MapsTyped' /\ SlotsInv'
  <2>1. t \in All
    BY DEF All
  <2>2. th' \in [All -> ThreadType] /\ SlotsInv'
    BY <1>2, <1>5, <1>21, <2>1 DEF MapUnclaim
  <2>q. QED
    BY <1>18, <1>21, <2>1, <2>2 DEF MapUnclaim, MapsTyped
<1>22. ASSUME NEW t \in Threads, UnmapCall(t) PROVE MapsTyped' /\ SlotsInv'
  <2>1. PICK h \in known : /\ known' = known \ {h}
                           /\ th' = [th EXCEPT ![t] = [Idle EXCEPT !.pc = "unmap", !.slot = h.slot]]
    BY <1>22 DEF UnmapCall
  <2> DEFINE r == [Idle EXCEPT !.pc = "unmap", !.slot = h.slot]
  <2>2. r \in ThreadType /\ r.slot \in Slots /\ r.pc = "unmap"
    BY <1>1 DEF MapsTyped, Idle, ThreadType
  <2>3. th' = [th EXCEPT ![t] = r]
    BY <2>1
  <2> HIDE DEF r
  <2>4. th' \in [All -> ThreadType] /\ SlotsInv'
    BY <1>5, <2>2, <2>3 DEF All
  <2>q. QED
    BY <1>22, <2>1, <2>4 DEF UnmapCall, MapsTyped
<1>23. ASSUME NEW t \in All, Leave(t), Works(t)
       PROVE  th' \in [All -> ThreadType] /\ SlotsInv'
  <2>1. CASE t = Remover
    <3> DEFINE r == [th[t] EXCEPT !.pc = "scan", !.slot = th[t].slot + 1]
    <3>1. r \in ThreadType /\ r.pc = "scan"
      BY <1>1, <1>3, <1>4, <1>23 DEF ThreadType
    <3>2. th' = [th EXCEPT ![t] = r]
      BY <1>23, <2>1 DEF Leave, MapsTyped
    <3> HIDE DEF r
    <3>q. QED
      BY <1>5, <3>1, <3>2
  <2>2. CASE t # Remover
    BY <1>2, <1>5, <1>23, <2>2 DEF Leave
  <2>q. QED
    BY <2>1, <2>2
<1>24. ASSUME NEW t \in All, UnmapLock(t) PROVE MapsTyped' /\ SlotsInv'
  <2>1. Works(t)
    BY <1>24 DEF UnmapLock, At, Works
  <2>2. (th' \in [All -> ThreadType] /\ SlotsInv') /\ locked' \in BOOLEAN
    BY <1>11, <1>23, <1>24, <2>1 DEF UnmapLock
  <2>q. QED
    BY <1>24, <2>2 DEF UnmapLock, MapsTyped
<1>25. ASSUME NEW t \in All, UnmapDma(t) \/ UnmapPut(t) PROVE MapsTyped' /\ SlotsInv'
  <2>1. Works(t)
    BY <1>25 DEF UnmapDma, UnmapPut, At, Works
  <2>2. th' \in [All -> ThreadType] /\ SlotsInv'
    BY <1>11, <1>25, <2>1 DEF UnmapDma, UnmapPut
  <2>3. /\ gpu_maps' \in [Slots -> SlotType]
        /\ pin' \in [Pins -> {"unused", "pinned", "mapped", "put", "freed"}]
    <3>1. CASE UnmapDma(t)
      BY <1>18, <1>19, <2>1, <3>1 DEF UnmapDma
    <3>2. CASE UnmapPut(t)
      BY <1>18, <1>19, <2>1, <3>2 DEF UnmapPut
    <3>q. QED
      BY <1>25, <3>1, <3>2
  <2>4. bad' \in BOOLEAN
    BY <1>25 DEF UnmapDma, UnmapPut
  <2>q. QED
    BY <1>25, <2>2, <2>3, <2>4 DEF UnmapDma, UnmapPut, MapsTyped
<1>26. ASSUME NEW t \in All, UnmapUnlock(t) PROVE MapsTyped' /\ SlotsInv'
  <2>1. Works(t)
    BY <1>26 DEF UnmapUnlock, At, Works
  <2>2. th' \in [All -> ThreadType] /\ SlotsInv'
    BY <1>23, <1>26, <2>1 DEF UnmapUnlock
  <2>q. QED
    BY <1>18, <1>26, <2>2 DEF UnmapUnlock, MapsTyped
<1>27. ASSUME NEW p \in Pins, FreeCallback(p) PROVE MapsTyped' /\ SlotsInv'
  <2>1. gpu_maps' \in [Slots -> SlotType]
    BY <1>27 DEF FreeCallback, CallbackResult, MapsTyped, SlotType
  <2>q. QED
    BY <1>27, <2>1 DEF FreeCallback, MapsTyped, SlotsInv, Works
<1>28. CASE RemoveStart
  <2>1. [Idle EXCEPT !.pc = "scan"] \in ThreadType /\ [Idle EXCEPT !.pc = "scan"].pc = "scan"
    BY DEF Idle, ThreadType
  <2>2. th' \in [All -> ThreadType] /\ SlotsInv'
    BY <1>5, <1>28, <2>1 DEF RemoveStart, All
  <2>q. QED
    BY <1>28, <2>2 DEF RemoveStart, MapsTyped
<1>29. CASE RemoveScan
  <2> DEFINE r == [th[Remover] EXCEPT !.pc = "unmap", !.slot = Min(ToUnmap)]
  <2>0. Remover \in All
    BY DEF All
  <2>1. ToUnmap # {} /\ ToUnmap \in SUBSET Nat
    BY <1>1, <1>29 DEF RemoveScan, ToUnmap
  <2>2. Min(ToUnmap) \in ToUnmap
    BY <2>1, MinTyped
  <2>3. Min(ToUnmap) \in Slots
    BY <2>2 DEF ToUnmap
  <2>4. r \in ThreadType /\ r.slot \in Slots /\ r.pc = "unmap"
    BY <1>1, <1>4, <2>0, <2>3 DEF ThreadType
  <2>5. th' = [th EXCEPT ![Remover] = r]
    BY <1>29, <2>0 DEF RemoveScan, MapsTyped
  <2> HIDE DEF r
  <2>6. th' \in [All -> ThreadType] /\ SlotsInv'
    BY <1>5, <2>0, <2>4, <2>5
  <2>q. QED
    BY <1>29, <2>6 DEF RemoveScan, MapsTyped
<1>30. CASE RemoveEnd
  <2>1. th' \in [All -> ThreadType] /\ SlotsInv'
    BY <1>2, <1>5, <1>30 DEF RemoveEnd, All
  <2>q. QED
    BY <1>30, <2>1 DEF RemoveEnd, MapsTyped
<1>31. CASE UNCHANGED vars
  BY <1>0, <1>6, <1>31 DEF vars
<1>q. QED
  BY <1>7, <1>8, <1>9, <1>10, <1>12, <1>13, <1>14, <1>15, <1>16, <1>17, <1>20, <1>21, <1>22,
     <1>24, <1>25, <1>26, <1>27, <1>28, <1>29, <1>30, <1>31
     DEF Next, Map, Unmap

LEMMA InitLadder == Init => LadderInv
<1> SUFFICES ASSUME Init PROVE LadderInv
  OBVIOUS
<1> USE DEF Null
<1>1. DeviceTyped
  BY LadderEntries DEF Init, DeviceTyped
<1>2. Idle \in ThreadType /\ Idle.pc = "idle" /\ FreeSlot \in SlotType /\ 0 \in Slots
  BY DEF Idle, ThreadType, FreeSlot, SlotType, Slots
<1>3. locked \in BOOLEAN /\ bad \in BOOLEAN
  BY Zenon DEF Init
<1>4. MapsTyped
  BY <1>2, <1>3 DEF Init, MapsTyped
<1>5. SlotsInv
  BY <1>2 DEF Init, SlotsInv, Works
<1>6. ModInv /\ ResInv
  BY DEF Init, ModInv, ResInv, Past
<1>q. QED
  BY <1>1, <1>4, <1>5, <1>6, TypeParts DEF LadderInv

LEMMA StepLadder == LadderInv /\ [Next]_vars => LadderInv'
<1> SUFFICES ASSUME LadderInv, [Next]_vars PROVE LadderInv'
  OBVIOUS
<1>1. TypeOK /\ DeviceTyped /\ MapsTyped /\ SlotsInv /\ ModInv /\ ResInv
  BY TypeParts DEF LadderInv
<1>2. DeviceTyped' /\ MapsTyped' /\ SlotsInv'
  BY <1>1, StepDeviceTyped, StepMapsTyped
<1>3. ModInv' /\ ResInv'
  BY <1>1, StepMod, StepRes DEF DeviceTyped
<1>4. (TypeOK <=> DeviceTyped /\ MapsTyped)'
  BY TypeParts, PTL
<1>q. QED
  BY <1>2, <1>3, <1>4 DEF LadderInv

\* Slots, handles, pins and indices keep their types, however removal and
\* callbacks overlap with calls.
THEOREM TypeCorrect == Spec => []TypeOK
<1>1. LadderInv => TypeOK
  BY DEF LadderInv
<1>q. QED
  BY <1>1, InitLadder, StepLadder, PTL DEF Spec

\* A load or a probe that fails anywhere, an unload and a removal give back
\* all that was acquired, and a ready device has everything: for every value
\* of the constants, overlapping removals and callbacks included.
THEOREM AllOrNothingTheorem == Spec => []AllOrNothing
<1>1. LadderInv => AllOrNothing
  <2> SUFFICES ASSUME LadderInv PROVE AllOrNothing
    OBVIOUS
  <2>1. /\ res \subseteq {"ctx", "enabled", "region", "iomap", "master", "cdev", "node"}
        /\ ModInv /\ ResInv
    BY DEF LadderInv, TypeOK
  <2>2. dev = "unbound" => res = {}
    BY <2>1 DEF ResInv, Past
  <2>3. ASSUME dev = "ready"
        PROVE  res = {"ctx"} \cup UNION {Acquires(Ladder[i]) : i \in DOMAIN Ladder}
    <3>1. res = {"ctx", "enabled", "region", "iomap", "master", "cdev", "node"}
      BY <2>1, <2>3 DEF ResInv, Past
    <3>2. \A i \in 1 .. 8 : i \in {1, 2, 3, 4, 5, 6, 7, 8}
      OBVIOUS
    <3>3. UNION {Acquires(Ladder[i]) : i \in 1 .. 8}
            = {"enabled", "region", "iomap", "master", "cdev", "node"}
      <4> DEFINE U == UNION {Acquires(Ladder[i]) : i \in 1 .. 8}
      <4>1. ASSUME NEW i \in 1 .. 8 PROVE Acquires(Ladder[i]) \subseteq U
        OBVIOUS
      <4>2. ASSUME NEW x \in U PROVE x \in {"enabled", "region", "iomap", "master", "cdev", "node"}
        <5>1. PICK i \in 1 .. 8 : x \in Acquires(Ladder[i])
          OBVIOUS
        <5>q. QED
          BY <3>2, <5>1, LadderEntries
      <4> HIDE DEF U
      <4>3. {"enabled", "region", "iomap", "master", "cdev", "node"} \subseteq U
        <5>1. 2 \in 1 .. 8 /\ 3 \in 1 .. 8 /\ 5 \in 1 .. 8 /\ 7 \in 1 .. 8 /\ 8 \in 1 .. 8
          OBVIOUS
        <5>q. QED
          BY <4>1, <5>1, LadderEntries
      <4>4. U = {"enabled", "region", "iomap", "master", "cdev", "node"}
        BY <4>2, <4>3
      <4>q. QED
        BY <4>4 DEF U
    <3>q. QED
      BY <3>1, <3>3, LadderEntries
  <2>q. QED
    BY <2>1, <2>2, <2>3 DEF AllOrNothing, ModInv
<1>q. QED
  BY <1>1, InitLadder, StepLadder, PTL DEF Spec

----------------------------------------------------------------------------
(* The mappings: a step that concerns one slot *)

\* Nothing but slot s and its pins changes.
SlotFrame(s) == \A x \in Slots : x # s => gpu_maps'[x] = gpu_maps[x]

PinFrame(s) == \A p \in Pins :
    (Live(p) /\ data[p] # s) \/ (Live(p)' /\ data'[p] # s)
        => pin'[p] = pin[p] /\ data'[p] = data[p]

LEMMA Elsewhere ==
    ASSUME MapsTyped, NEW s \in Slots, SlotFrame(s), PinFrame(s), NEW x \in Slots, x # s
    PROVE  /\ Full(x) => Full(x)'
           /\ Free(x) => Free(x)'
           /\ \A p, d : Records(x, p, d) => Records(x, p, d)'
           /\ \A p : \A st \in {"pinned", "mapped"} : Backs(p, x, st) => Backs(p, x, st)'
<1>1. gpu_maps'[x] = gpu_maps[x]
  BY DEF SlotFrame
<1>2. ASSUME NEW p, NEW st \in {"pinned", "mapped"}, Backs(p, x, st) PROVE Backs(p, x, st)'
  BY <1>2 DEF Backs, PinFrame, Live
<1>3. ASSUME NEW p, NEW d, Records(x, p, d) PROVE Records(x, p, d)'
  BY <1>1, <1>3 DEF Records
<1>4. Free(x) => Free(x)'
  BY <1>1 DEF Free
<1>5. Full(x) => Full(x)'
  BY <1>2, <1>3 DEF Full
<1>q. QED
  BY <1>2, <1>3, <1>4, <1>5

\* Whoever works elsewhere is not disturbed.
LEMMA OthersKeep ==
    ASSUME MapsTyped, SlotsInv, NEW s \in Slots, SlotFrame(s), PinFrame(s),
           NEW u \in All, th'[u] = th[u], WorkInv(u), Works(u) => th[u].slot # s
    PROVE  WorkInv(u)'
<1>1. CASE ~Works(u)
  BY <1>1 DEF Works, WorkInv
<1>2. CASE Works(u)
  <2>1. PICK x \in Slots : x = th[u].slot
    BY <1>2 DEF SlotsInv
  <2>2. x # s /\ th'[u].slot = x
    BY <1>2, <2>1
  <2>3. /\ Full(x) => Full(x)'
        /\ Free(x) => Free(x)'
        /\ \A p, d : Records(x, p, d) => Records(x, p, d)'
        /\ \A p : \A st \in {"pinned", "mapped"} : Backs(p, x, st) => Backs(p, x, st)'
    BY <2>2, Elsewhere
  <2>4. PICK p : p = th[u].page_table
    OBVIOUS
  <2>5. /\ th[u].pc \in {"get_pages", "unclaim", "unlock"} => Records(x, Null, Null)'
        /\ th[u].pc = "record"  => Records(x, Null, Null)' /\ Backs(p, x, "pinned")'
        /\ th[u].pc = "dma_map" => Records(x, p, Null)' /\ Backs(p, x, "pinned")'
        /\ th[u].pc = "return"  => /\ Records(x, p, Null)' /\ Backs(p, x, "mapped")'
                                   /\ th[u].dma_mapping = p
        /\ th[u].pc \in {"put", "put_pages"}
             => \E q \in Pins : Records(x, q, Null)' /\ Backs(q, x, "pinned")'
        /\ th[u].pc = "unmap" => Full(x)' \/ (u = Remover /\ Free(x)')
        /\ th[u].pc = "dma_unmap" => Full(x)'
    BY <2>1, <2>3, <2>4 DEF WorkInv
  <2>q. QED
    BY <2>1, <2>2, <2>4, <2>5 DEF WorkInv, Full, Free, Records, Backs, Null
<1>q. QED
  BY <1>1, <1>2

\* Thread t takes a step on slot s, which nobody else works on: if it leaves
\* its own slot, its own pins and its own handles in order, all are in order.
LEMMA OneSlot ==
    ASSUME MappingInv, MapsTyped', SlotsInv', NEW t \in All, NEW s \in Slots,
           dev \in {"ready", "removing"}, dev' = dev,
           \A u \in All : u # t => th'[u] = th[u] /\ (Works(u) => th[u].slot # s),
           Works(t) => th[t].slot = s,
           Works(t)' => th'[t].slot = s,
           SlotFrame(s), PinFrame(s), WorkInv(t)',
           ~Works(t)' => Full(s)' \/ Free(s)',
           \A p \in Pins : Live(p)' /\ data'[p] = s =>
               \/ gpu_maps'[s].page_table = p
               \/ /\ t \in Threads /\ th'[t].pc = "record"
                  /\ th'[t].page_table = p /\ th'[t].slot = s,
           dev = "ready" => \A h \in known' :
               \/ h \in known /\ h.slot # s
               \/ /\ h.slot = s /\ Records(s, h.page_table, h.page_table)'
                  /\ Backs(h.page_table, s, "mapped")' /\ ~Works(t)'
    PROVE  MapsInv'
<1>0. /\ MapsTyped /\ SlotsInv /\ OwnInv /\ RestInv /\ PinsInv /\ KnownInv
      /\ \A u \in All : WorkInv(u)
  BY TypeParts DEF MappingInv, LadderInv, MapsInv
<1>1. ASSUME NEW u \in All, u # t PROVE (Works(u)' <=> Works(u)) /\ th'[u].slot = th[u].slot
  BY <1>1 DEF Works
<1>2. ASSUME NEW u \in All PROVE WorkInv(u)'
  <2>1. CASE u # t
    BY <1>0, <2>1, OthersKeep
  <2>q. QED
    BY <2>1
<1>3. OwnInv'
  <2> SUFFICES ASSUME NEW u \in All, NEW v \in All, Works(u)', Works(v)', th'[u].slot = th'[v].slot
               PROVE  u = v
    BY DEF OwnInv
  <2>1. CASE u # t /\ v # t
    BY <1>0, <1>1, <2>1 DEF OwnInv
  <2>2. CASE u = t \/ v = t
    BY <1>1, <2>2
  <2>q. QED
    BY <2>1, <2>2
<1>4. RestInv'
  <2> SUFFICES ASSUME NEW x \in Slots, \A u \in All : Works(u)' => th'[u].slot # x
               PROVE  Full(x)' \/ Free(x)'
    BY DEF RestInv
  <2>1. CASE x = s
    <3>1. ~Works(t)'
      BY <2>1
    <3>q. QED
      BY <2>1, <3>1
  <2>2. CASE x # s
    <3>1. \A u \in All : Works(u) => th[u].slot # x
      BY <1>1, <2>2
    <3>2. Full(x) \/ Free(x)
      BY <1>0, <3>1 DEF RestInv
    <3>q. QED
      BY <1>0, <2>2, <3>2, Elsewhere
  <2>q. QED
    BY <2>1, <2>2
<1>5. PinsInv'
  <2> SUFFICES ASSUME NEW p \in Pins, Live(p)'
               PROVE  \/ gpu_maps'[data'[p]].page_table = p
                      \/ \E u \in Threads : /\ th'[u].pc = "record" /\ th'[u].page_table = p
                                            /\ th'[u].slot = data'[p]
    BY DEF PinsInv
  <2>1. CASE data'[p] = s
    BY <2>1
  <2>2. CASE data'[p] # s
    <3>1. pin'[p] = pin[p] /\ data'[p] = data[p] /\ data[p] # s /\ data[p] \in Slots
      BY <1>0, <2>2 DEF PinFrame, MapsTyped
    <3>2. Live(p)
      BY <3>1 DEF Live
    <3>3. CASE gpu_maps[data[p]].page_table = p
      BY <3>1, <3>3 DEF SlotFrame
    <3>4. ASSUME NEW u \in Threads, th[u].pc = "record", th[u].page_table = p, th[u].slot = data[p]
          PROVE  th'[u].pc = "record" /\ th'[u].page_table = p /\ th'[u].slot = data'[p]
      <4>1. u \in All /\ Works(u)
        BY <3>4 DEF All, Works
      <4>2. u # t
        BY <3>1, <3>4, <4>1
      <4>q. QED
        BY <3>1, <3>4, <4>1, <4>2
    <3>q. QED
      BY <1>0, <3>2, <3>3, <3>4 DEF PinsInv
  <2>q. QED
    BY <2>1, <2>2
<1>6. KnownInv'
  <2> SUFFICES ASSUME dev = "ready", NEW h \in known'
               PROVE  /\ Records(h.slot, h.page_table, h.page_table)'
                      /\ Backs(h.page_table, h.slot, "mapped")'
                      /\ \A u \in All : Works(u)' => th'[u].slot # h.slot
    BY DEF KnownInv
  <2>1. CASE h \in known /\ h.slot # s
    <3>1. PICK x \in Slots : x = h.slot
      BY <1>0, <2>1 DEF MapsTyped
    <3>2. PICK p : p = h.page_table
      OBVIOUS
    <3>3. /\ Records(x, p, p) /\ Backs(p, x, "mapped")
          /\ \A u \in All : Works(u) => th[u].slot # x
      BY <1>0, <2>1, <3>1, <3>2 DEF KnownInv
    <3>4. Records(x, p, p)' /\ Backs(p, x, "mapped")'
      BY <1>0, <2>1, <3>1, <3>3, Elsewhere
    <3>5. \A u \in All : Works(u)' => th'[u].slot # x
      BY <1>1, <2>1, <3>1, <3>3
    <3>q. QED
      BY <3>1, <3>2, <3>4, <3>5 DEF Records, Backs
  <2>2. CASE /\ h.slot = s /\ Records(s, h.page_table, h.page_table)'
             /\ Backs(h.page_table, s, "mapped")' /\ ~Works(t)'
    BY <1>1, <2>2 DEF Records, Backs
  <2>q. QED
    BY <2>1, <2>2
<1>q. QED
  BY <1>2, <1>3, <1>4, <1>5, <1>6 DEF MapsInv

\* The fields of a claimed slot, of a finished mapping and of a free slot.
LEMMA SlotFields ==
    ASSUME NEW s
    PROVE  /\ \A p, d : Records(s, p, d) => /\ gpu_maps[s].in_use /\ gpu_maps[s].page_table = p
                                            /\ gpu_maps[s].dma_mapping = d
           /\ Full(s) => gpu_maps[s].in_use
           /\ Free(s) => ~gpu_maps[s].in_use /\ gpu_maps[s].page_table = Null
<1>1. ASSUME NEW p, NEW d, Records(s, p, d)
      PROVE  gpu_maps[s].in_use /\ gpu_maps[s].page_table = p /\ gpu_maps[s].dma_mapping = d
  BY <1>1 DEF Records
<1>2. Full(s) => gpu_maps[s].in_use
  BY <1>1 DEF Full
<1>3. Free(s) => ~gpu_maps[s].in_use /\ gpu_maps[s].page_table = Null
  BY DEF Free, FreeSlot
<1>q. QED
  BY <1>1, <1>2, <1>3

\* What a working thread can rely on: its slot, which it has for itself, and
\* whose pins are the one recorded there or the one it holds.
LEMMA AtWork ==
    ASSUME MappingInv, NEW t \in All, Works(t), NEW s, s = th[t].slot
    PROVE  /\ s \in Slots
           /\ \A u \in All : u # t /\ Works(u) => th[u].slot # s
           /\ t \in Threads => gpu_maps[s].in_use
           /\ dev = "ready" => \A h \in known : h.slot # s
           /\ \A p \in Pins : Live(p) /\ data[p] = s =>
                \/ gpu_maps[s].page_table = p
                \/ t \in Threads /\ th[t].pc = "record" /\ th[t].page_table = p
<1>0. MapsTyped /\ SlotsInv /\ MapsInv /\ RemoverInv
  BY TypeParts DEF MappingInv, LadderInv
<1>1. s \in Slots
  BY <1>0 DEF SlotsInv
<1>2. ASSUME NEW u \in All, u # t, Works(u) PROVE th[u].slot # s
  BY <1>0, <1>2 DEF MapsInv, OwnInv
<1>3. ASSUME t \in Threads PROVE gpu_maps[s].in_use
  <2>1. WorkInv(t) /\ t # Remover /\ th[t] \in ThreadType
    BY <1>0, <1>3 DEF MapsInv, MapsTyped
  <2>2. (\E p, d : Records(s, p, d)) \/ Full(s)
    BY <2>1 DEF WorkInv, Works, ThreadType
  <2>q. QED
    BY <2>2, SlotFields
<1>4. ASSUME dev = "ready", NEW h \in known PROVE h.slot # s
  BY <1>0, <1>4 DEF MapsInv, KnownInv
<1>5. ASSUME NEW p \in Pins, Live(p), data[p] = s, gpu_maps[s].page_table # p
      PROVE  t \in Threads /\ th[t].pc = "record" /\ th[t].page_table = p
  <2>1. PICK u \in Threads : th[u].pc = "record" /\ th[u].page_table = p /\ th[u].slot = s
    BY <1>0, <1>5 DEF MapsInv, PinsInv
  <2>2. u \in All /\ Works(u)
    BY <2>1 DEF All, Works
  <2>q. QED
    BY <1>2, <2>1, <2>2
<1>q. QED
  BY <1>1, <1>2, <1>3, <1>4, <1>5

\* A caller has the device for itself and its fellow callers.
LEMMA CallersDevice ==
    ASSUME MappingInv, NEW t \in Threads, "file" \in held[t]
    PROVE  dev = "ready" /\ mod = "in" /\ ~Works(Remover) /\ th[Remover].pc = "idle"
  BY DEF MappingInv, UsersInv, RemoverInv, NoUsers, Works

LEMMA ClaimKeeps ==
    ASSUME MappingInv, MapsTyped', SlotsInv', NEW t \in Threads, MapClaim(t)
    PROVE  MapsInv'
<1> USE DEF probeVars, devVars
<1> DEFINE free == {x \in Slots : ~gpu_maps[x].in_use}
<1>0. MapsTyped /\ SlotsInv /\ MapsInv /\ t \in All /\ Slots \subseteq Nat
  BY TypeParts DEF MappingInv, LadderInv, All, Slots
<1>1. dev = "ready" /\ ~Works(Remover) /\ ~Works(t)
  BY CallersDevice DEF MapClaim, CanCall, Works
<1>2. PICK s \in free : /\ gpu_maps' = [gpu_maps EXCEPT ![s] = Claimed(@)]
                        /\ th' = [th EXCEPT ![t] = [Idle EXCEPT !.pc = "get_pages", !.slot = s]]
  <2>1. free # {} /\ free \in SUBSET Nat
    BY <1>0 DEF MapClaim
  <2>2. Min(free) \in free
    BY <2>1, MinTyped
  <2>q. QED
    BY <2>2 DEF MapClaim
<1>3. s \in Slots /\ ~gpu_maps[s].in_use
  OBVIOUS
<1> HIDE DEF free
<1>4. ASSUME NEW u \in All, Works(u) PROVE th[u].slot # s
  <2>1. u \in Threads
    BY <1>1, <1>4 DEF All
  <2>q. QED
    BY <1>3, <1>4, <2>1, AtWork
<1>5. Free(s)
  <2>1. Full(s) \/ Free(s)
    BY <1>0, <1>3, <1>4 DEF MapsInv, RestInv
  <2>q. QED
    BY <1>3, <2>1, SlotFields
<1>6. /\ th'[t].pc = "get_pages" /\ th'[t].slot = s /\ Works(t)'
      /\ \A u \in All : u # t => th'[u] = th[u]
  BY <1>0, <1>2 DEF MapsTyped, Idle, Works
<1>7. Records(s, Null, Null)' /\ SlotFrame(s)
  <2>1. gpu_maps'[s] = [FreeSlot EXCEPT !.in_use = TRUE]
    BY <1>0, <1>2, <1>3, <1>5 DEF MapsTyped, Free, Claimed
  <2>2. SlotFrame(s)
    BY <1>0, <1>2 DEF MapsTyped, SlotFrame
  <2>q. QED
    BY <2>1, <2>2 DEF Records, FreeSlot
<1>8. PinFrame(s) /\ UNCHANGED <<pin, data, known, dev>>
  BY DEF PinFrame, MapClaim
<1>9. WorkInv(t)'
  BY <1>6, <1>7 DEF WorkInv, Records, Null
<1>10. ASSUME NEW p \in Pins, Live(p)', data'[p] = s PROVE FALSE
  <2>1. Live(p) /\ data[p] = s
    BY <1>8, <1>10 DEF Live
  <2>2. gpu_maps[s].page_table # p
    BY <1>5 DEF Free, FreeSlot, Null, Pins
  <2>3. PICK u \in Threads : th[u].pc = "record" /\ th[u].slot = s
    BY <1>0, <2>1, <2>2 DEF MapsInv, PinsInv
  <2>q. QED
    BY <1>4, <2>3 DEF All, Works
<1>11. ASSUME NEW h \in known' PROVE h \in known /\ h.slot # s
  BY <1>0, <1>1, <1>3, <1>8, SlotFields DEF MapsInv, KnownInv
<1>q. QED
  BY <1>0, <1>1, <1>3, <1>4, <1>6, <1>7, <1>8, <1>9, <1>10, <1>11, OneSlot

LEMMA GetPagesKeeps ==
    ASSUME MappingInv, MapsTyped', SlotsInv', NEW t \in Threads, MapGetPages(t)
    PROVE  MapsInv'
<1> USE DEF probeVars, devVars
<1>0. MapsTyped /\ SlotsInv /\ MapsInv /\ t \in All
  BY TypeParts DEF MappingInv, LadderInv, All
<1>1. Works(t) /\ dev \in {"ready", "removing"} /\ dev' = dev /\ th[t].pc = "get_pages"
  BY DEF MapGetPages, At, Works
<1>2. PICK s \in Slots : s = th[t].slot
  BY <1>0, <1>1 DEF SlotsInv
<1>3. PICK q \in Pins : /\ pin[q] = "unused"
                        /\ pin' = [pin EXCEPT ![q] = "pinned"]
                        /\ data' = [data EXCEPT ![q] = th[t].slot]
                        /\ th' = [th EXCEPT ![t].page_table = q, ![t].pc = "record"]
  BY DEF MapGetPages
<1>4. /\ th'[t].pc = "record" /\ th'[t].slot = s /\ th'[t].page_table = q /\ Works(t)'
      /\ \A u \in All : u # t => th'[u] = th[u]
  BY <1>0, <1>2, <1>3 DEF MapsTyped, ThreadType, Works
<1>5. Records(s, Null, Null)' /\ SlotFrame(s) /\ known' = known
  BY <1>0, <1>1, <1>2 DEF MapsInv, WorkInv, Records, SlotFrame, MapGetPages
<1>6. Backs(q, s, "pinned")' /\ PinFrame(s)
  BY <1>0, <1>2, <1>3 DEF MapsTyped, Backs, PinFrame, Live
<1>7. WorkInv(t)'
  BY <1>4, <1>5, <1>6 DEF WorkInv, Records, Backs, Null
<1>8. ASSUME NEW p \in Pins, Live(p)', data'[p] = s PROVE p = q
  <2>1. CASE p # q
    <3>1. Live(p) /\ data[p] = s
      BY <1>0, <1>3, <1>8, <2>1 DEF Live, MapsTyped
    <3>2. gpu_maps[s].page_table = p
      BY <1>0, <1>1, <1>2, <3>1, AtWork
    <3>3. Records(s, Null, Null)
      BY <1>0, <1>1, <1>2 DEF MapsInv, WorkInv
    <3>q. QED
      BY <3>2, <3>3, SlotFields DEF Null, Pins
  <2>q. QED
    BY <2>1
<1>9. \A u \in All : u # t /\ Works(u) => th[u].slot # s
  BY <1>0, <1>1, <1>2, AtWork
<1>10. dev = "ready" => \A h \in known' : h \in known /\ h.slot # s
  BY <1>0, <1>1, <1>2, <1>5, AtWork
<1>q. QED
  BY <1>0, <1>1, <1>2, <1>4, <1>5, <1>6, <1>7, <1>8, <1>9, <1>10, OneSlot

\* OneSlot for a thread that is at work already.
LEMMA WorkStep ==
    ASSUME MappingInv, MapsTyped', SlotsInv', NEW t \in All, NEW s, s = th[t].slot, Works(t),
           dev \in {"ready", "removing"}, dev' = dev,
           \A u \in All : u # t => th'[u] = th[u],
           Works(t)' => th'[t].slot = s,
           SlotFrame(s), PinFrame(s), WorkInv(t)',
           ~Works(t)' => Full(s)' \/ Free(s)',
           \A p \in Pins : Live(p)' /\ data'[p] = s => gpu_maps'[s].page_table = p,
           \A h \in known' :
               \/ h \in known
               \/ /\ h.slot = s /\ Records(s, h.page_table, h.page_table)'
                  /\ Backs(h.page_table, s, "mapped")' /\ ~Works(t)'
    PROVE  MapsInv'
<1>1. /\ s \in Slots
      /\ \A u \in All : u # t /\ Works(u) => th[u].slot # s
      /\ dev = "ready" => \A h \in known : h.slot # s
  BY AtWork
<1>q. QED
  BY <1>1, OneSlot

\* A step of t that leaves slots and pins alone and only moves t on.
LEMMA MoveOn ==
    ASSUME MappingInv, MapsTyped', SlotsInv', NEW t \in All, Works(t), At(t, th[t].pc),
           NEW w \in {"unclaim", "put", "dma_unmap"}, Goto(t, w),
           UNCHANGED <<dev, gpu_maps, known, pin, data>>,
           w = "unclaim" => th[t].pc = "get_pages",
           w = "put" => th[t].pc = "dma_map",
           w = "dma_unmap" => Full(th[t].slot) /\ th[t].pc = "unmap"
    PROVE  MapsInv'
<1>0. MapsTyped /\ SlotsInv /\ WorkInv(t)
  BY TypeParts DEF MappingInv, LadderInv, MapsInv
<1>1. PICK s \in Slots : s = th[t].slot
  BY <1>0 DEF SlotsInv
<1>2. /\ th'[t].pc = w /\ th'[t].slot = s /\ Works(t)'
      /\ \A u \in All : u # t => th'[u] = th[u]
  BY <1>0, <1>1 DEF Goto, MapsTyped, ThreadType, Works
<1>3. SlotFrame(s) /\ PinFrame(s)
  BY DEF SlotFrame, PinFrame
<1>4. WorkInv(t)'
  <2>1. CASE w = "unclaim"
    BY <1>0, <1>1, <1>2, <2>1 DEF WorkInv, Records, Null
  <2>2. CASE w = "put"
    <3>1. PICK q : q = th[t].page_table
      OBVIOUS
    <3>2. Records(s, q, Null) /\ Backs(q, s, "pinned")
      BY <1>0, <1>1, <2>2, <3>1 DEF WorkInv
    <3>3. q \in Pins /\ Records(s, q, Null)' /\ Backs(q, s, "pinned")'
      BY <3>2 DEF Records, Backs, Null
    <3>q. QED
      BY <1>2, <2>2, <3>3 DEF WorkInv, Records, Backs, Null
  <2>3. CASE w = "dma_unmap"
    <3>1. Full(s)'
      BY <1>1, <2>3 DEF Full, Records, Backs
    <3>q. QED
      BY <1>2, <2>3, <3>1 DEF WorkInv, Full, Records, Backs
  <2>q. QED
    BY <2>1, <2>2, <2>3
<1>5. ASSUME NEW p \in Pins, Live(p)', data'[p] = s PROVE gpu_maps'[s].page_table = p
  <2>1. Live(p) /\ data[p] = s
    BY <1>5 DEF Live
  <2>2. th[t].pc # "record"
    OBVIOUS
  <2>q. QED
    BY <1>1, <2>1, <2>2, AtWork
<1>q. QED
  BY <1>1, <1>2, <1>3, <1>4, <1>5, WorkStep DEF At

\* What an assignment to one field of a claimed slot does.
LEMMA SlotUpdate ==
    ASSUME MapsTyped, NEW s \in Slots, NEW p, NEW d, NEW q, Records(s, p, d)
    PROVE  /\ gpu_maps' = [gpu_maps EXCEPT ![s].page_table = q] => Records(s, q, d)' /\ SlotFrame(s)
           /\ gpu_maps' = [gpu_maps EXCEPT ![s].dma_mapping = q] => Records(s, p, q)' /\ SlotFrame(s)
           /\ gpu_maps' = [gpu_maps EXCEPT ![s].in_use = FALSE] /\ p = Null /\ d = Null
                => Free(s)' /\ SlotFrame(s)
<1>1. ASSUME gpu_maps' = [gpu_maps EXCEPT ![s].page_table = q] PROVE Records(s, q, d)' /\ SlotFrame(s)
  <2>1. /\ gpu_maps'[s] = [[in_use |-> TRUE, page_table |-> p, dma_mapping |-> d] EXCEPT !.page_table = q]
        /\ SlotFrame(s)
    BY <1>1 DEF MapsTyped, SlotFrame, Records
  <2>q. QED
    BY <2>1 DEF Records
<1>2. ASSUME gpu_maps' = [gpu_maps EXCEPT ![s].dma_mapping = q] PROVE Records(s, p, q)' /\ SlotFrame(s)
  <2>1. /\ gpu_maps'[s] = [[in_use |-> TRUE, page_table |-> p, dma_mapping |-> d] EXCEPT !.dma_mapping = q]
        /\ SlotFrame(s)
    BY <1>2 DEF MapsTyped, SlotFrame, Records
  <2>q. QED
    BY <2>1 DEF Records
<1>3. ASSUME gpu_maps' = [gpu_maps EXCEPT ![s].in_use = FALSE], p = Null, d = Null
      PROVE  Free(s)' /\ SlotFrame(s)
  <2>1. /\ gpu_maps'[s] = [[in_use |-> TRUE, page_table |-> p, dma_mapping |-> d] EXCEPT !.in_use = FALSE]
        /\ SlotFrame(s)
    BY <1>3 DEF MapsTyped, SlotFrame, Records
  <2>q. QED
    BY <1>3, <2>1 DEF Records, Free, FreeSlot
<1>q. QED
  BY <1>1, <1>2, <1>3

LEMMA RecordKeeps ==
    ASSUME MappingInv, MapsTyped', SlotsInv', NEW t \in Threads, MapRecord(t)
    PROVE  MapsInv'
<1> USE DEF probeVars, devVars
<1>0. MapsTyped /\ SlotsInv /\ t \in All /\ WorkInv(t)
  BY TypeParts DEF MappingInv, LadderInv, All, MapsInv
<1>1. Works(t) /\ dev \in {"ready", "removing"} /\ dev' = dev /\ th[t].pc = "record"
  BY DEF MapRecord, At, Works
<1>2. PICK s \in Slots : s = th[t].slot
  BY <1>0, <1>1 DEF SlotsInv
<1>3. PICK q \in Pins : q = th[t].page_table
  BY <1>0, <1>1 DEF SlotsInv
<1>4. Records(s, Null, Null) /\ Backs(q, s, "pinned")
  BY <1>0, <1>1, <1>2, <1>3 DEF WorkInv
<1>5. /\ th'[t].pc = "dma_map" /\ th'[t].slot = s /\ th'[t].page_table = q /\ Works(t)'
      /\ \A u \in All : u # t => th'[u] = th[u]
  BY <1>0, <1>2, <1>3 DEF MapRecord, Goto, MapsTyped, ThreadType, Works
<1>6. Records(s, q, Null)'
  BY <1>0, <1>2, <1>3, <1>4, SlotUpdate DEF MapRecord
<1>7. SlotFrame(s) /\ PinFrame(s) /\ UNCHANGED <<pin, data, known>>
  BY <1>0, <1>2 DEF MapRecord, MapsTyped, SlotFrame, PinFrame
<1>8. Backs(q, s, "pinned")'
  BY <1>4, <1>7 DEF Backs
<1>9. WorkInv(t)'
  BY <1>5, <1>6, <1>8 DEF WorkInv, Records, Backs, Null
<1>10. ASSUME NEW p \in Pins, Live(p)', data'[p] = s PROVE gpu_maps'[s].page_table = p
  <2>1. Live(p) /\ data[p] = s
    BY <1>7, <1>10 DEF Live
  <2>2. gpu_maps[s].page_table # p
    BY <1>4, SlotFields DEF Null, Pins
  <2>3. p = q
    BY <1>0, <1>1, <1>2, <1>3, <2>1, <2>2, AtWork
  <2>q. QED
    BY <1>6, <2>3 DEF Records
<1>q. QED
  BY <1>0, <1>1, <1>2, <1>5, <1>7, <1>9, <1>10, WorkStep

LEMMA DmaKeeps ==
    ASSUME MappingInv, MapsTyped', SlotsInv', NEW t \in Threads, MapDma(t)
    PROVE  MapsInv'
<1> USE DEF probeVars, devVars
<1>0. MapsTyped /\ SlotsInv /\ t \in All /\ WorkInv(t)
  BY TypeParts DEF MappingInv, LadderInv, All, MapsInv
<1>1. Works(t) /\ dev \in {"ready", "removing"} /\ dev' = dev /\ th[t].pc = "dma_map"
  BY DEF MapDma, At, Works
<1>2. PICK s \in Slots : s = th[t].slot
  BY <1>0, <1>1 DEF SlotsInv
<1>3. PICK q \in Pins : q = th[t].page_table
  BY <1>0, <1>1 DEF SlotsInv
<1>4. Records(s, q, Null) /\ Backs(q, s, "pinned")
  BY <1>0, <1>1, <1>2, <1>3 DEF WorkInv
<1>5. /\ th'[t].pc = "return" /\ th'[t].slot = s /\ th'[t].page_table = q
      /\ th'[t].dma_mapping = q /\ Works(t)'
      /\ \A u \in All : u # t => th'[u] = th[u]
  BY <1>0, <1>2, <1>3 DEF MapDma, MapsTyped, ThreadType, Works
<1>6. Records(s, q, Null)' /\ SlotFrame(s) /\ UNCHANGED <<gpu_maps, known, data>>
  BY <1>4 DEF MapDma, Records, SlotFrame, Null
<1>7. Backs(q, s, "mapped")' /\ PinFrame(s)
  BY <1>0, <1>3, <1>4 DEF MapDma, MapsTyped, Backs, PinFrame, Live
<1>8. WorkInv(t)'
  BY <1>5, <1>6, <1>7 DEF WorkInv, Records, Backs, Null
<1>9. ASSUME NEW p \in Pins, Live(p)', data'[p] = s PROVE gpu_maps'[s].page_table = p
  <2>1. CASE p = q
    BY <1>6, <2>1 DEF Records
  <2>2. CASE p # q
    <3>1. Live(p) /\ data[p] = s
      BY <1>0, <1>3, <1>6, <1>9, <2>2 DEF MapDma, MapsTyped, Live
    <3>q. QED
      BY <1>0, <1>1, <1>2, <1>6, <3>1, AtWork
  <2>q. QED
    BY <2>1, <2>2
<1>q. QED
  BY <1>0, <1>1, <1>2, <1>5, <1>6, <1>7, <1>8, <1>9, WorkStep

LEMMA ReturnKeeps ==
    ASSUME MappingInv, MapsTyped', SlotsInv', NEW t \in Threads, MapReturn(t)
    PROVE  MapsInv'
<1> USE DEF probeVars, devVars
<1>0. MapsTyped /\ SlotsInv /\ t \in All /\ WorkInv(t)
  BY TypeParts DEF MappingInv, LadderInv, All, MapsInv
<1>1. Works(t) /\ dev \in {"ready", "removing"} /\ dev' = dev /\ th[t].pc = "return"
  BY DEF MapReturn, At, Works
<1>2. PICK s \in Slots : s = th[t].slot
  BY <1>0, <1>1 DEF SlotsInv
<1>3. PICK q \in Pins : q = th[t].page_table
  BY <1>0, <1>1 DEF SlotsInv
<1>4. Records(s, q, Null) /\ Backs(q, s, "mapped") /\ th[t].dma_mapping = q
  BY <1>0, <1>1, <1>2, <1>3 DEF WorkInv
<1>5. /\ th'[t].pc = "idle" /\ ~Works(t)'
      /\ \A u \in All : u # t => th'[u] = th[u]
  BY <1>0 DEF MapReturn, MapsTyped, Works, Idle
<1>6. Records(s, q, q)' /\ SlotFrame(s)
  BY <1>0, <1>2, <1>4, SlotUpdate DEF MapReturn
<1>7. Backs(q, s, "mapped")' /\ PinFrame(s) /\ UNCHANGED <<pin, data>>
  BY <1>4 DEF MapReturn, Backs, PinFrame
<1>8. WorkInv(t)' /\ Full(s)'
  BY <1>5, <1>6, <1>7 DEF WorkInv, Full, Records, Backs
<1>9. ASSUME NEW p \in Pins, Live(p)', data'[p] = s PROVE gpu_maps'[s].page_table = p
  <2>1. Live(p) /\ data[p] = s
    BY <1>7, <1>9 DEF Live
  <2>2. gpu_maps[s].page_table = p
    BY <1>0, <1>1, <1>2, <2>1, AtWork
  <2>3. p = q
    BY <1>4, <2>2, SlotFields
  <2>q. QED
    BY <1>6, <2>3 DEF Records
<1>10. ASSUME NEW h \in known'
       PROVE  \/ h \in known
              \/ /\ h.slot = s /\ Records(s, h.page_table, h.page_table)'
                 /\ Backs(h.page_table, s, "mapped")' /\ ~Works(t)'
  <2>1. h \in known \/ h = [slot |-> s, page_table |-> q]
    BY <1>2, <1>3 DEF MapReturn
  <2>2. CASE h = [slot |-> s, page_table |-> q]
    <3>1. h.slot = s /\ h.page_table = q
      BY <2>2
    <3>q. QED
      BY <1>5, <1>6, <1>7, <3>1 DEF Records, Backs
  <2>q. QED
    BY <2>1, <2>2
<1>q. QED
  BY <1>0, <1>1, <1>2, <1>5, <1>6, <1>7, <1>8, <1>9, <1>10, WorkStep

\* err_put_pages and the second half of an unmap: the page table goes back.
LEMMA PutKeeps ==
    ASSUME MappingInv, MapsTyped', SlotsInv', NEW t \in All,
           dev \in {"ready", "removing"}, UNCHANGED <<dev, known, data>>,
           th[t].pc \in {"put", "put_pages"}, NEW w \in {"unclaim", "unlock"}, Goto(t, w),
           pin' = PutPages(Mine(t).page_table),
           gpu_maps' = [gpu_maps EXCEPT ![th[t].slot].page_table = Null]
    PROVE  MapsInv' /\ ~WrongPut(Mine(t).page_table)
<1>0. MapsTyped /\ SlotsInv /\ WorkInv(t) /\ Works(t)
  BY TypeParts DEF MappingInv, LadderInv, MapsInv, Works
<1>1. PICK s \in Slots : s = th[t].slot
  BY <1>0 DEF SlotsInv
<1>2. PICK q \in Pins : Records(s, q, Null) /\ Backs(q, s, "pinned")
  BY <1>0, <1>1 DEF WorkInv
<1>3. Mine(t).page_table = q
  BY <1>1, <1>2, SlotFields DEF Mine
<1>4. /\ th'[t].pc = w /\ th'[t].slot = s /\ Works(t)'
      /\ \A u \in All : u # t => th'[u] = th[u]
  BY <1>0, <1>1 DEF Goto, MapsTyped, ThreadType, Works
<1>5. Records(s, Null, Null)' /\ SlotFrame(s)
  BY <1>0, <1>1, <1>2, SlotUpdate
<1>6. pin'[q] = "put" /\ \A p \in Pins : p # q => pin'[p] = pin[p]
  BY <1>3 DEF PutPages
<1>7. PinFrame(s)
  BY <1>2, <1>6 DEF PinFrame, Backs, Live
<1>8. WorkInv(t)'
  BY <1>4, <1>5 DEF WorkInv, Records, Null
<1>9. ASSUME NEW p \in Pins, Live(p)', data'[p] = s PROVE FALSE
  <2>1. p # q /\ Live(p) /\ data[p] = s
    BY <1>6, <1>9 DEF Live
  <2>2. gpu_maps[s].page_table = p
    BY <1>0, <1>1, <2>1, AtWork
  <2>q. QED
    BY <1>2, <2>1, <2>2, SlotFields
<1>10. MapsInv'
  BY <1>0, <1>1, <1>4, <1>5, <1>7, <1>8, <1>9, WorkStep
<1>11. ~WrongPut(q)
  BY <1>2 DEF WrongPut, Backs, Null, Pins
<1>q. QED
  BY <1>3, <1>10, <1>11

\* The first half of an unmap: the DMA mapping goes.
LEMMA UnmapDmaKeeps ==
    ASSUME MappingInv, MapsTyped', SlotsInv', NEW t \in All, UnmapDma(t)
    PROVE  MapsInv' /\ ~WrongUnmap(Mine(t).dma_mapping)
<1> USE DEF probeVars, devVars
<1>0. /\ MapsTyped /\ SlotsInv /\ WorkInv(t) /\ Works(t) /\ th[t].pc = "dma_unmap"
      /\ dev \in {"ready", "removing"} /\ UNCHANGED <<dev, known, data>>
  BY TypeParts DEF MappingInv, LadderInv, MapsInv, Works, UnmapDma, At
<1>1. PICK s \in Slots : s = th[t].slot
  BY <1>0 DEF SlotsInv
<1>2. PICK q \in Pins : Records(s, q, q) /\ Backs(q, s, "mapped")
  BY <1>0, <1>1 DEF WorkInv, Full
<1>3. Mine(t).dma_mapping = q
  BY <1>1, <1>2, SlotFields DEF Mine
<1>4. /\ th'[t].pc = "put_pages" /\ th'[t].slot = s /\ Works(t)'
      /\ \A u \in All : u # t => th'[u] = th[u]
  BY <1>0, <1>1 DEF UnmapDma, Goto, MapsTyped, ThreadType, Works
<1>5. Records(s, q, Null)' /\ SlotFrame(s)
  BY <1>0, <1>1, <1>2, SlotUpdate DEF UnmapDma
<1>6. pin'[q] = "pinned" /\ \A p \in Pins : p # q => pin'[p] = pin[p]
  BY <1>2, <1>3 DEF UnmapDma, DmaUnmapPages, Backs
<1>7. PinFrame(s) /\ Backs(q, s, "pinned")'
  BY <1>0, <1>2, <1>6 DEF PinFrame, Backs, Live
<1>8. WorkInv(t)'
  BY <1>4, <1>5, <1>7 DEF WorkInv, Records, Backs, Null
<1>9. ASSUME NEW p \in Pins, Live(p)', data'[p] = s PROVE gpu_maps'[s].page_table = p
  <2>1. CASE p = q
    BY <1>5, <2>1 DEF Records
  <2>2. CASE p # q
    <3>1. Live(p) /\ data[p] = s
      BY <1>0, <1>6, <1>9, <2>2 DEF Live
    <3>2. gpu_maps[s].page_table = p
      BY <1>0, <1>1, <3>1, AtWork
    <3>q. QED
      BY <1>2, <2>2, <3>2, SlotFields
  <2>q. QED
    BY <2>1, <2>2
<1>10. MapsInv'
  BY <1>0, <1>1, <1>4, <1>5, <1>7, <1>8, <1>9, WorkStep
<1>11. ~WrongUnmap(q)
  BY <1>2 DEF WrongUnmap, Backs
<1>q. QED
  BY <1>3, <1>10, <1>11

\* err_slot and the end of an unmap: the slot is free again.
LEMMA ReleaseKeeps ==
    ASSUME MappingInv, MapsTyped', SlotsInv', NEW t \in All,
           dev \in {"ready", "removing"}, UNCHANGED <<dev, known, pin, data>>,
           th[t].pc \in {"unclaim", "unlock"}, ~Works(t)',
           \A u \in All : u # t => th'[u] = th[u],
           gpu_maps' = [gpu_maps EXCEPT ![th[t].slot].in_use = FALSE]
    PROVE  MapsInv' /\ ~gpu_maps'[th[t].slot].in_use
<1>0. MapsTyped /\ SlotsInv /\ WorkInv(t) /\ Works(t)
  BY TypeParts DEF MappingInv, LadderInv, MapsInv, Works
<1>1. PICK s \in Slots : s = th[t].slot
  BY <1>0 DEF SlotsInv
<1>2. Records(s, Null, Null)
  BY <1>0, <1>1 DEF WorkInv
<1>3. Free(s)' /\ SlotFrame(s)
  BY <1>0, <1>1, <1>2, SlotUpdate
<1>4. PinFrame(s)
  BY DEF PinFrame
<1>5. WorkInv(t)'
  BY DEF WorkInv, Works
<1>6. ASSUME NEW p \in Pins, Live(p)', data'[p] = s PROVE FALSE
  <2>1. Live(p) /\ data[p] = s
    BY <1>6 DEF Live
  <2>2. gpu_maps[s].page_table = p
    BY <1>0, <1>1, <2>1, AtWork
  <2>q. QED
    BY <1>2, <2>2, SlotFields DEF Null, Pins
<1>7. MapsInv'
  BY <1>0, <1>1, <1>3, <1>4, <1>5, <1>6, WorkStep
<1>8. ~gpu_maps'[s].in_use
  BY <1>3 DEF Free, FreeSlot
<1>q. QED
  BY <1>1, <1>7, <1>8

LEMMA UnmapCallKeeps ==
    ASSUME MappingInv, MapsTyped', SlotsInv', NEW t \in Threads, UnmapCall(t)
    PROVE  MapsInv'
<1> USE DEF probeVars, devVars
<1>0. MapsTyped /\ SlotsInv /\ MapsInv /\ t \in All
  BY TypeParts DEF MappingInv, LadderInv, All
<1>1. dev = "ready" /\ ~Works(t) /\ UNCHANGED <<dev, gpu_maps, pin, data>>
  BY CallersDevice DEF UnmapCall, CanCall, Works
<1>2. PICK h \in known : /\ known' = known \ {h}
                         /\ th' = [th EXCEPT ![t] = [Idle EXCEPT !.pc = "unmap", !.slot = h.slot]]
  BY DEF UnmapCall
<1>3. PICK s \in Slots : s = h.slot
  BY <1>0 DEF MapsTyped
<1>4. PICK q \in Pins : q = h.page_table
  BY <1>0 DEF MapsTyped
<1>5. /\ Records(s, q, q) /\ Backs(q, s, "mapped")
      /\ \A u \in All : Works(u) => th[u].slot # s
  BY <1>0, <1>1, <1>3, <1>4 DEF MapsInv, KnownInv
<1>6. /\ th'[t].pc = "unmap" /\ th'[t].slot = s /\ Works(t)'
      /\ \A u \in All : u # t => th'[u] = th[u]
  BY <1>0, <1>2, <1>3 DEF MapsTyped, Idle, Works
<1>7. SlotFrame(s) /\ PinFrame(s) /\ Full(s)'
  BY <1>1, <1>5 DEF SlotFrame, PinFrame, Full, Records, Backs
<1>8. WorkInv(t)'
  BY <1>6, <1>7 DEF WorkInv, Full, Records, Backs
<1>9. ASSUME NEW p \in Pins, Live(p)', data'[p] = s PROVE gpu_maps'[s].page_table = p
  <2>1. Live(p) /\ data[p] = s
    BY <1>1, <1>9 DEF Live
  <2>2. ~\E u \in Threads : th[u].pc = "record" /\ th[u].slot = s
    BY <1>5 DEF Works, All
  <2>q. QED
    BY <1>0, <1>1, <2>1, <2>2 DEF MapsInv, PinsInv
<1>10. ASSUME NEW g \in known' PROVE g \in known /\ g.slot # s
  <2>1. g \in known /\ g # h
    BY <1>2
  <2>2. CASE g.slot = s
    <3>1. Records(s, g.page_table, g.page_table)
      BY <1>0, <1>1, <2>1, <2>2 DEF MapsInv, KnownInv
    <3>2. g.page_table = q
      BY <1>5, <3>1, SlotFields
    <3>3. g = h
      BY <1>0, <1>3, <1>4, <2>1, <2>2, <3>2 DEF MapsTyped
    <3>q. QED
      BY <2>1, <3>3
  <2>q. QED
    BY <2>1, <2>2
<1>q. QED
  BY <1>0, <1>1, <1>3, <1>5, <1>6, <1>7, <1>8, <1>9, <1>10, OneSlot

\* gpunvme_p2p_free_callback on memory no call is at work on.
LEMMA CallbackKeeps ==
    ASSUME MappingInv, MapsTyped', SlotsInv', NEW p \in Pins, FreeCallback(p), met' = {}
    PROVE  MapsInv' /\ \A x \in Slots : gpu_maps'[x].in_use => gpu_maps[x].in_use
<1> USE DEF probeVars, devVars
<1>0. /\ MapsTyped /\ SlotsInv /\ MapsInv /\ dev \in {"ready", "removing"}
      /\ UNCHANGED <<dev, th, data>> /\ Live(p)
  BY TypeParts DEF MappingInv, LadderInv, FreeCallback
<1>1. PICK s \in Slots : s = data[p]
  BY <1>0 DEF MapsTyped
<1>2. ASSUME NEW u \in All, Works(u), th[u].slot = s PROVE u = Remover /\ th[u].pc = "unmap"
  BY <1>1, <1>2 DEF FreeCallback, Busy, Works
<1>3. gpu_maps[s].page_table = p
  <2>1. ~\E u \in Threads : th[u].pc = "record" /\ th[u].slot = s
    BY <1>2 DEF All, Works
  <2>q. QED
    BY <1>0, <1>1, <2>1 DEF MapsInv, PinsInv
<1>4. Records(s, p, p) /\ Backs(p, s, "mapped")
  <2>1. Full(s) \/ Free(s)
    <3>1. CASE \A u \in All : Works(u) => th[u].slot # s
      BY <1>0, <3>1 DEF MapsInv, RestInv
    <3>2. ASSUME NEW u \in All, Works(u), th[u].slot = s PROVE Full(s) \/ Free(s)
      BY <1>0, <1>2, <3>2 DEF MapsInv, WorkInv
    <3>q. QED
      BY <3>1, <3>2
  <2>2. Full(s)
    BY <1>3, <2>1, SlotFields DEF Null, Pins
  <2>3. PICK q \in Pins : Records(s, q, q) /\ Backs(q, s, "mapped")
    BY <2>2 DEF Full
  <2>q. QED
    BY <1>3, <2>3, SlotFields
<1>5. Free(s)' /\ SlotFrame(s)
  <2>1. /\ gpu_maps'[s] = CallbackResult(gpu_maps[s])
        /\ SlotFrame(s)
    BY <1>0, <1>1 DEF FreeCallback, MapsTyped, SlotFrame
  <2>2. gpu_maps'[s] = CallbackResult([in_use |-> TRUE, page_table |-> p, dma_mapping |-> p])
    BY <1>4, <2>1 DEF Records
  <2>q. QED
    BY <2>1, <2>2 DEF CallbackResult, Free, FreeSlot
<1>6. pin'[p] = "freed" /\ \A q \in Pins : q # p => pin'[q] = pin[q]
  BY <1>0 DEF FreeCallback, MapsTyped
<1>7. PinFrame(s)
  BY <1>0, <1>1, <1>6 DEF PinFrame, Live
<1>8. ASSUME NEW u \in All PROVE WorkInv(u)'
  <2>1. CASE Works(u) /\ th[u].slot = s
    BY <1>0, <1>2, <1>5, <2>1 DEF WorkInv, Free
  <2>2. CASE ~(Works(u) /\ th[u].slot = s)
    BY <1>0, <1>5, <1>7, <2>2, OthersKeep DEF MapsInv
  <2>q. QED
    BY <2>1, <2>2
<1>9. OwnInv'
  BY <1>0 DEF MapsInv, OwnInv, Works
<1>10. RestInv'
  <2> SUFFICES ASSUME NEW x \in Slots, \A u \in All : Works(u)' => th'[u].slot # x
               PROVE  Full(x)' \/ Free(x)'
    BY DEF RestInv
  <2>1. CASE x # s
    <3>1. Full(x) \/ Free(x)
      BY <1>0 DEF MapsInv, RestInv, Works
    <3>q. QED
      BY <1>0, <1>5, <1>7, <2>1, <3>1, Elsewhere
  <2>q. QED
    BY <1>5, <2>1
<1>11. PinsInv'
  <2> SUFFICES ASSUME NEW q \in Pins, Live(q)'
               PROVE  \/ gpu_maps'[data'[q]].page_table = q
                      \/ \E u \in Threads : /\ th'[u].pc = "record" /\ th'[u].page_table = q
                                            /\ th'[u].slot = data'[q]
    BY DEF PinsInv
  <2>1. q # p /\ Live(q)
    BY <1>6 DEF Live
  <2>2. CASE gpu_maps[data[q]].page_table = q
    <3>1. data[q] # s /\ data[q] \in Slots
      BY <1>0, <1>3, <2>1, <2>2 DEF MapsTyped
    <3>q. QED
      BY <1>0, <1>5, <2>2, <3>1 DEF SlotFrame
  <2>3. CASE \E u \in Threads : /\ th[u].pc = "record" /\ th[u].page_table = q
                                /\ th[u].slot = data[q]
    BY <1>0, <2>3
  <2>q. QED
    BY <1>0, <2>1, <2>2, <2>3 DEF MapsInv, PinsInv
<1>12. KnownInv'
  <2> SUFFICES ASSUME dev = "ready", NEW h \in known'
               PROVE  /\ Records(h.slot, h.page_table, h.page_table)'
                      /\ Backs(h.page_table, h.slot, "mapped")'
                      /\ \A u \in All : Works(u)' => th'[u].slot # h.slot
    BY <1>0 DEF KnownInv
  <2>1. h \in known /\ h.page_table # p
    BY DEF FreeCallback
  <2>2. PICK x \in Slots : x = h.slot
    BY <1>0, <2>1 DEF MapsTyped
  <2>3. PICK q : q = h.page_table
    OBVIOUS
  <2>4. /\ Records(x, q, q) /\ Backs(q, x, "mapped")
        /\ \A u \in All : Works(u) => th[u].slot # x
    BY <1>0, <2>1, <2>2, <2>3 DEF MapsInv, KnownInv
  <2>5. x # s
    BY <1>3, <2>1, <2>3, <2>4, SlotFields
  <2>6. Records(x, q, q)' /\ Backs(q, x, "mapped")'
    BY <1>0, <1>5, <1>7, <2>4, <2>5, Elsewhere
  <2>q. QED
    BY <1>0, <2>2, <2>3, <2>4, <2>6 DEF Records, Backs, Works
<1>13. ASSUME NEW x \in Slots, gpu_maps'[x].in_use PROVE gpu_maps[x].in_use
  BY <1>5, <1>13 DEF SlotFrame, Free, FreeSlot
<1>q. QED
  BY <1>8, <1>9, <1>10, <1>11, <1>12, <1>13 DEF MapsInv

----------------------------------------------------------------------------
(* The invariant *)

\* Only a thread with the file open maps, and it moves no other thread.
LEMMA CallMoves ==
    ASSUME MappingInv, NEW t \in Threads, Map(t) \/ UnmapCall(t)
    PROVE  /\ "file" \in held[t] /\ UNCHANGED <<modVars, devVars, held>>
           /\ \A u \in All : u # t => th'[u] = th[u]
           /\ th'[t].pc # "scan"
<1> USE DEF probeVars, modVars, devVars
<1>0. MapsTyped /\ t \in All
  BY TypeParts DEF MappingInv, LadderInv, All
<1>1. "file" \in held[t]
  <2>1. th[t].pc # "idle" \/ "file" \in held[t]
    BY DEF Map, MapClaim, MapGetPages, MapGetPagesFails, MapRecord, MapDma, MapDmaFails,
           MapReturn, MapPut, MapUnclaim, UnmapCall, CanCall, At
  <2>q. QED
    BY <2>1 DEF MappingInv, UsersInv
<1>2. UNCHANGED <<modVars, devVars, held>>
  BY DEF Map, MapClaim, MapGetPages, MapGetPagesFails, MapRecord, MapDma, MapDmaFails,
         MapReturn, MapPut, MapUnclaim, UnmapCall
<1>3. ASSUME NEW r, th' = [th EXCEPT ![t] = r], r.pc # "scan"
      PROVE  (\A u \in All : u # t => th'[u] = th[u]) /\ th'[t].pc # "scan"
  BY <1>0, <1>3 DEF MapsTyped
<1>4. ASSUME NEW w \in {"unclaim", "dma_map", "put"}, Goto(t, w)
      PROVE  (\A u \in All : u # t => th'[u] = th[u]) /\ th'[t].pc # "scan"
  BY <1>0, <1>4 DEF MapsTyped, Goto, ThreadType
<1>5. (\A u \in All : u # t => th'[u] = th[u]) /\ th'[t].pc # "scan"
  <2>1. CASE MapClaim(t)
    <3>1. PICK m : th' = [th EXCEPT ![t] = [Idle EXCEPT !.pc = "get_pages", !.slot = m]]
      BY <2>1 DEF MapClaim
    <3>q. QED
      BY <1>0, <3>1 DEF MapsTyped, Idle
  <2>2. CASE MapGetPages(t)
    <3>1. PICK q \in Pins : th' = [th EXCEPT ![t].page_table = q, ![t].pc = "record"]
      BY <2>2 DEF MapGetPages
    <3>q. QED
      BY <1>0, <3>1 DEF MapsTyped, ThreadType
  <2>3. CASE MapGetPagesFails(t) \/ MapRecord(t) \/ MapDmaFails(t) \/ MapPut(t)
    BY <1>4, <2>3 DEF MapGetPagesFails, MapRecord, MapDmaFails, AfterDmaFailure, MapPut
  <2>4. CASE MapDma(t)
    BY <1>0, <2>4 DEF MapDma, MapsTyped, ThreadType
  <2>5. CASE MapReturn(t) \/ MapUnclaim(t)
    <3>1. Idle.pc # "scan"
      BY DEF Idle
    <3>q. QED
      BY <1>3, <2>5, <3>1 DEF MapReturn, MapUnclaim
  <2>6. CASE UnmapCall(t)
    <3>1. PICK h \in known : th' = [th EXCEPT ![t] = [Idle EXCEPT !.pc = "unmap", !.slot = h.slot]]
      BY <2>6 DEF UnmapCall
    <3>q. QED
      BY <1>0, <3>1 DEF MapsTyped, Idle
  <2>q. QED
    BY <2>1, <2>2, <2>3, <2>4, <2>5, <2>6 DEF Map
<1>q. QED
  BY <1>1, <1>2, <1>5

\* An unmap moves no other thread; when a thread leaves it, its slot is free.
LEMMA UnmapMoves ==
    ASSUME MappingInv, MapsTyped', SlotsInv', NEW t \in All, Unmap(t)
    PROVE  /\ MapsInv' /\ bad' = FALSE
           /\ Works(t) /\ UNCHANGED <<modVars, devVars, held>>
           /\ \A u \in All : u # t => th'[u] = th[u]
           /\ t \in Threads => th'[t].pc # "scan"
           /\ t = Remover =>
                /\ th'[t].pc \in {"scan", "dma_unmap", "put_pages", "unlock"}
                /\ \A x \in Slots : gpu_maps'[x].in_use => gpu_maps[x].in_use
                /\ \A x \in Slots : x < th'[t].slot => x < th[t].slot \/ ~gpu_maps'[x].in_use
<1> USE DEF probeVars, modVars, devVars
<1>0. MapsTyped /\ SlotsInv /\ WorkInv(t) /\ bad = FALSE /\ Slots \subseteq Nat
  BY TypeParts DEF MappingInv, LadderInv, MapsInv, Slots
<1>1. /\ Works(t) /\ UNCHANGED <<modVars, devVars, held, known, data>>
      /\ dev \in {"ready", "removing"}
  BY DEF Unmap, UnmapLock, UnmapDma, UnmapPut, UnmapUnlock, At, Works
<1>2. PICK s \in Slots : s = th[t].slot
  BY <1>0, <1>1 DEF SlotsInv
<1>3. ASSUME NEW w \in {"dma_unmap", "put_pages", "unlock"}, Goto(t, w),
             \A x \in Slots : gpu_maps'[x].in_use => gpu_maps[x].in_use
      PROVE  /\ \A u \in All : u # t => th'[u] = th[u]
             /\ th'[t].pc = w /\ th'[t].slot = th[t].slot
  BY <1>0, <1>3 DEF Goto, MapsTyped, ThreadType
<1>4. ASSUME Leave(t)
      PROVE  /\ \A u \in All : u # t => th'[u] = th[u]
             /\ ~Works(t)' /\ (t \in Threads => th'[t].pc # "scan")
             /\ t = Remover => th'[t].pc = "scan" /\ th'[t].slot = s + 1
  <2>1. CASE t = Remover
    <3>1. th' = [th EXCEPT ![t] = [th[t] EXCEPT !.pc = "scan", !.slot = th[t].slot + 1]]
      BY <1>4, <2>1 DEF Leave
    <3>q. QED
      BY <1>0, <1>2, <2>1, <3>1 DEF MapsTyped, ThreadType, Works
  <2>2. CASE t # Remover
    <3>1. th' = [th EXCEPT ![t] = Idle]
      BY <1>4, <2>2 DEF Leave
    <3>q. QED
      BY <1>0, <2>2, <3>1 DEF MapsTyped, Idle, Works
  <2>q. QED
    BY <2>1, <2>2
<1>5. CASE UnmapLock(t)
  <2>0. th[t].pc = "unmap" /\ UNCHANGED <<gpu_maps, pin, bad>>
    BY <1>5 DEF UnmapLock, At
  <2>1. Full(s) \/ (t = Remover /\ Free(s))
    BY <1>0, <1>2, <2>0 DEF WorkInv
  <2>2. CASE Mine(t).in_use
    <3>1. Full(s)
      BY <1>2, <2>1, <2>2, SlotFields DEF Mine
    <3>2. Goto(t, "dma_unmap") /\ At(t, th[t].pc)
      BY <1>5, <2>2 DEF UnmapLock, At
    <3>3. MapsInv'
      BY <1>1, <1>2, <2>0, <3>1, <3>2, MoveOn
    <3>q. QED
      BY <1>0, <1>1, <1>3, <2>0, <3>2, <3>3
  <2>3. CASE ~Mine(t).in_use
    <3>1. t = Remover /\ Free(s) /\ Leave(t)
      BY <1>2, <1>5, <2>1, <2>3, SlotFields DEF UnmapLock, Mine
    <3>2. Free(s)' /\ SlotFrame(s) /\ PinFrame(s)
      BY <1>1, <2>0, <3>1 DEF Free, SlotFrame, PinFrame
    <3>3. WorkInv(t)'
      BY <1>4, <3>1 DEF WorkInv, Works
    <3>4. ASSUME NEW p \in Pins, Live(p)', data'[p] = s PROVE gpu_maps'[s].page_table = p
      <4>1. Live(p) /\ data[p] = s
        BY <1>1, <2>0, <3>4 DEF Live
      <4>q. QED
        BY <1>1, <1>2, <2>0, <4>1, AtWork
    <3>5. MapsInv'
      BY <1>1, <1>2, <1>4, <3>1, <3>2, <3>3, <3>4, WorkStep
    <3>6. ~gpu_maps'[s].in_use
      BY <2>0, <3>1, SlotFields
    <3>7. \A x \in Slots : x < s + 1 => x < s \/ x = s
      BY <1>0
    <3>q. QED
      BY <1>0, <1>1, <1>2, <1>4, <2>0, <3>1, <3>5, <3>6, <3>7
  <2>q. QED
    BY <2>2, <2>3
<1>6. CASE UnmapDma(t)
  <2>1. MapsInv' /\ ~WrongUnmap(Mine(t).dma_mapping)
    BY <1>6, UnmapDmaKeeps
  <2>2. bad' = FALSE /\ Goto(t, "put_pages")
    BY <1>0, <1>6, <2>1 DEF UnmapDma
  <2>3. \A x \in Slots : gpu_maps'[x].in_use => gpu_maps[x].in_use
    BY <1>0, <1>6 DEF UnmapDma, MapsTyped, SlotType
  <2>q. QED
    BY <1>1, <1>3, <2>1, <2>2, <2>3
<1>7. CASE UnmapPut(t)
  <2>1. MapsInv' /\ ~WrongPut(Mine(t).page_table)
    BY <1>1, <1>7, PutKeeps DEF UnmapPut, At
  <2>2. bad' = FALSE /\ Goto(t, "unlock")
    BY <1>0, <1>7, <2>1 DEF UnmapPut
  <2>3. \A x \in Slots : gpu_maps'[x].in_use => gpu_maps[x].in_use
    BY <1>0, <1>7 DEF UnmapPut, MapsTyped, SlotType
  <2>q. QED
    BY <1>1, <1>3, <2>1, <2>2, <2>3
<1>8. CASE UnmapUnlock(t)
  <2>1. th[t].pc = "unlock" /\ Leave(t) /\ UNCHANGED <<pin, bad>>
        /\ gpu_maps' = [gpu_maps EXCEPT ![th[t].slot].in_use = FALSE]
    BY <1>8 DEF UnmapUnlock, At
  <2>2. MapsInv' /\ ~gpu_maps'[th[t].slot].in_use
    BY <1>1, <1>4, <2>1, ReleaseKeeps
  <2>3. \A x \in Slots : gpu_maps'[x].in_use => gpu_maps[x].in_use
    BY <1>0, <1>2, <2>1, <2>2 DEF MapsTyped
  <2>4. \A x \in Slots : x < s + 1 => x < s \/ x = s
    BY <1>0
  <2>q. QED
    BY <1>0, <1>1, <1>2, <1>4, <2>1, <2>2, <2>3, <2>4
<1>q. QED
  BY <1>5, <1>6, <1>7, <1>8 DEF Unmap

LEMMA StepUsers == ASSUME met' = {} PROVE MappingInv /\ [Next]_vars => UsersInv'
<1> SUFFICES ASSUME MappingInv, [Next]_vars PROVE UsersInv'
  OBVIOUS
<1> USE DEF modVars, devVars, probeVars
<1>0. /\ DeviceTyped /\ MapsTyped /\ SlotsInv /\ ModInv /\ ResInv /\ UsersInv /\ RemoverInv
      /\ MapsTyped' /\ SlotsInv'
  BY TypeParts, StepMapsTyped DEF MappingInv, LadderInv
<1>1. ASSUME UNCHANGED <<held, th>>, NoUsers \/ (dev' = dev /\ mod' = mod) PROVE UsersInv'
  BY <1>0, <1>1 DEF UsersInv, NoUsers
<1>2. CASE LoadOk \/ UnloadStart \/ UnloadEnd
  BY <1>0, <1>1, <1>2 DEF LoadOk, UnloadStart, UnloadEnd, ModuleUnused, UsersInv
<1>3. ASSUME NEW k \in DOMAIN LoadSteps, LoadFails(k) PROVE UsersInv'
  BY <1>1, <1>3 DEF LoadFails
<1>4. CASE ProbeStart \/ ProbeStep \/ ProbeFails
  BY <1>0, <1>1, <1>4 DEF ProbeStart, ProbeStep, ProbeFails, UsersInv
<1>5. ASSUME NEW t \in Threads, File(t) PROVE UsersInv'
  <2>0. UNCHANGED <<mod, dev, th>>
    BY <1>5 DEF File, Open, Mmap, Munmap, Close, Holds
  <2>1. CASE Open(t)
    <3>1. dev = "ready" /\ mod = "in"
      <4>1. Past(8) /\ dev # "removing" /\ mod = "in"
        BY <1>0, <2>1 DEF Open, ResInv
      <4>2. step <= 8
        BY <1>0, LadderEntries DEF DeviceTyped
      <4>3. step \in Nat
        BY <1>0, LadderEntries DEF DeviceTyped
      <4>q. QED
        BY <4>1, <4>2, <4>3 DEF Past
    <3>2. held' = [held EXCEPT ![t] = held[t] \cup {"file"}]
      BY <2>1 DEF Open, Holds
    <3>q. QED
      BY <1>0, <2>0, <3>1, <3>2 DEF UsersInv, DeviceTyped
  <2>2. CASE Mmap(t) \/ Munmap(t) \/ Close(t)
    <3>1. held[t] # {}
      BY <2>2 DEF Mmap, Munmap, Close, CanCall
    <3>2. dev = "ready" /\ mod = "in"
      BY <1>0, <3>1 DEF UsersInv, NoUsers
    <3>3. \A u \in Threads : u # t => held'[u] = held[u]
      BY <1>0, <2>2 DEF Mmap, Munmap, Close, Holds, DeviceTyped
    <3>4. th[t].pc # "idle" => "file" \in held'[t]
      BY <1>0, <2>2 DEF Mmap, Munmap, Close, Holds, DeviceTyped, UsersInv, CanCall
    <3>q. QED
      BY <1>0, <2>0, <3>2, <3>3, <3>4 DEF UsersInv
  <2>q. QED
    BY <1>5, <2>1, <2>2 DEF File
<1>6. ASSUME NEW t \in Threads, Map(t) \/ UnmapCall(t) PROVE UsersInv'
  <2>1. /\ "file" \in held[t] /\ UNCHANGED <<mod, dev, held>>
        /\ \A u \in All : u # t => th'[u] = th[u]
    BY <1>6, CallMoves
  <2>q. QED
    BY <1>0, <2>1 DEF UsersInv, NoUsers, All
<1>7. ASSUME NEW t \in All, Unmap(t) PROVE UsersInv'
  <2>1. /\ Works(t) /\ UNCHANGED <<mod, dev, held>>
        /\ \A u \in All : u # t => th'[u] = th[u]
    BY <1>0, <1>7, UnmapMoves
  <2>2. t \in Threads => "file" \in held[t]
    BY <1>0, <2>1 DEF UsersInv, Works
  <2>q. QED
    BY <1>0, <2>1, <2>2 DEF UsersInv, NoUsers, All
<1>8. ASSUME NEW p \in Pins, FreeCallback(p) PROVE UsersInv'
  BY <1>1, <1>8 DEF FreeCallback
<1>9. CASE RemoveStart \/ RemoveScan \/ RemoveEnd
  <2>1. held' = held /\ mod' = mod /\ \A u \in Threads : th'[u] = th[u]
    BY <1>0, <1>9 DEF RemoveStart, RemoveScan, RemoveEnd, MapsTyped, All
  <2>2. NoUsers
    BY <1>0, <1>9 DEF RemoveStart, RemoveScan, RemoveEnd, UsersInv, RemoverInv
  <2>q. QED
    BY <1>0, <2>1, <2>2 DEF UsersInv, NoUsers
<1>10. CASE UNCHANGED vars
  BY <1>1, <1>10 DEF vars
<1>q. QED
  BY <1>2, <1>3, <1>4, <1>5, <1>6, <1>7, <1>8, <1>9, <1>10 DEF Next

LEMMA StepRemover == ASSUME met' = {} PROVE MappingInv /\ [Next]_vars => RemoverInv'
<1> SUFFICES ASSUME MappingInv, [Next]_vars PROVE RemoverInv'
  OBVIOUS
<1> USE DEF modVars, devVars, probeVars
<1>0. /\ MapsTyped /\ SlotsInv /\ UsersInv /\ RemoverInv /\ MapsTyped' /\ SlotsInv'
      /\ Slots \subseteq Nat /\ Remover \in All /\ Threads \subseteq All
  BY TypeParts, StepMapsTyped DEF MappingInv, LadderInv, Slots, All
<1>1. ASSUME th' = th, (dev' = dev /\ gpu_maps' = gpu_maps) \/ (dev # "removing" /\ dev' # "removing")
      PROVE  RemoverInv'
  BY <1>0, <1>1 DEF RemoverInv
<1>2. CASE LoadOk \/ UnloadStart \/ UnloadEnd
  BY <1>1, <1>2 DEF LoadOk, UnloadStart, UnloadEnd
<1>3. ASSUME NEW k \in DOMAIN LoadSteps, LoadFails(k) PROVE RemoverInv'
  BY <1>1, <1>3 DEF LoadFails
<1>4. CASE ProbeStart \/ ProbeStep \/ ProbeFails
  BY <1>1, <1>4 DEF ProbeStart, ProbeStep, ProbeFails
<1>5. ASSUME NEW t \in Threads, File(t) PROVE RemoverInv'
  BY <1>1, <1>5 DEF File, Open, Mmap, Munmap, Close, Holds
<1>6. ASSUME NEW t \in Threads, Map(t) \/ UnmapCall(t) PROVE RemoverInv'
  <2>1. /\ "file" \in held[t] /\ UNCHANGED <<mod, dev, held>>
        /\ \A u \in All : u # t => th'[u] = th[u]
        /\ th'[t].pc # "scan"
    BY <1>6, CallMoves
  <2>2. dev = "ready" /\ th[Remover].pc = "idle"
    BY <2>1, CallersDevice
  <2>3. th'[Remover] = th[Remover]
    BY <1>0, <2>1
  <2>q. QED
    BY <1>0, <2>1, <2>2, <2>3 DEF RemoverInv
<1>7. ASSUME NEW t \in All, Unmap(t) PROVE RemoverInv'
  <2>1. /\ Works(t) /\ dev' = dev
        /\ \A u \in All : u # t => th'[u] = th[u]
        /\ t \in Threads => th'[t].pc # "scan"
        /\ t = Remover =>
             /\ th'[t].pc \in {"scan", "dma_unmap", "put_pages", "unlock"}
             /\ \A x \in Slots : gpu_maps'[x].in_use => gpu_maps[x].in_use
             /\ \A x \in Slots : x < th'[t].slot => x < th[t].slot \/ ~gpu_maps'[x].in_use
    BY <1>0, <1>7, UnmapMoves
  <2>2. CASE t = Remover
    <3>1. dev = "removing"
      BY <1>0, <2>1, <2>2 DEF RemoverInv, Works
    <3>q. QED
      BY <1>0, <2>1, <2>2, <3>1 DEF RemoverInv
  <2>3. CASE t \in Threads
    <3>1. dev = "ready"
      BY <1>0, <2>1, <2>3 DEF UsersInv, NoUsers, Works
    <3>2. th'[Remover] = th[Remover]
      BY <1>0, <2>1, <2>3
    <3>q. QED
      BY <1>0, <2>1, <2>3, <3>1, <3>2 DEF RemoverInv
  <2>q. QED
    BY <2>2, <2>3 DEF All
<1>8. ASSUME NEW p \in Pins, FreeCallback(p) PROVE RemoverInv'
  <2>1. \A x \in Slots : gpu_maps'[x].in_use => gpu_maps[x].in_use
    BY <1>0, <1>8, CallbackKeeps
  <2>2. UNCHANGED <<th, dev>>
    BY <1>8 DEF FreeCallback
  <2>q. QED
    BY <1>0, <2>1, <2>2 DEF RemoverInv
<1>9. CASE RemoveStart
  <2>1. th'[Remover].pc = "scan" /\ th'[Remover].slot = 0 /\ \A u \in Threads : th'[u] = th[u]
    BY <1>0, <1>9 DEF RemoveStart, MapsTyped, Idle
  <2>2. \A x \in Slots : ~(x < 0)
    BY <1>0
  <2>q. QED
    BY <1>0, <1>9, <2>1, <2>2 DEF RemoveStart, RemoverInv
<1>10. CASE RemoveScan
  <2>1. ToUnmap # {} /\ ToUnmap \in SUBSET Nat
    BY <1>0, <1>10 DEF RemoveScan, ToUnmap
  <2>2. PICK m \in ToUnmap : m = Min(ToUnmap) /\ \A y \in ToUnmap : m <= y
    BY <2>1, MinTyped
  <2>3. th'[Remover].pc = "unmap" /\ th'[Remover].slot = m /\ \A u \in Threads : th'[u] = th[u]
    BY <1>0, <1>10, <2>2 DEF RemoveScan, MapsTyped, ThreadType
  <2>4. dev = "removing" /\ UNCHANGED <<dev, gpu_maps>>
    BY <1>0, <1>10 DEF RemoveScan, RemoverInv
  <2>5. ASSUME NEW x \in Slots, x < m PROVE ~gpu_maps[x].in_use
    <3>1. x \notin ToUnmap
      BY <1>0, <2>1, <2>2, <2>5
    <3>2. CASE x < th[Remover].slot
      BY <1>0, <2>4, <3>2 DEF RemoverInv
    <3>3. CASE ~(x < th[Remover].slot)
      <4>1. x >= th[Remover].slot
        BY <1>0, <3>3 DEF MapsTyped, ThreadType
      <4>q. QED
        BY <3>1, <4>1 DEF ToUnmap
    <3>q. QED
      BY <3>2, <3>3
  <2>q. QED
    BY <1>0, <2>3, <2>4, <2>5 DEF RemoverInv
<1>11. CASE RemoveEnd
  <2>1. th'[Remover].pc = "idle" /\ \A u \in Threads : th'[u] = th[u]
    BY <1>0, <1>11 DEF RemoveEnd, MapsTyped, Idle
  <2>q. QED
    BY <1>0, <1>11, <2>1 DEF RemoveEnd, RemoverInv
<1>12. CASE UNCHANGED vars
  BY <1>1, <1>12 DEF vars
<1>q. QED
  BY <1>2, <1>3, <1>4, <1>5, <1>6, <1>7, <1>8, <1>9, <1>10, <1>11, <1>12 DEF Next

LEMMA StepMaps ==
    ASSUME met' = {} PROVE MappingInv /\ [Next]_vars => MapsInv' /\ bad' = FALSE
<1> SUFFICES ASSUME MappingInv, [Next]_vars PROVE MapsInv' /\ bad' = FALSE
  OBVIOUS
<1> USE DEF modVars, devVars, probeVars
<1>0. /\ MapsTyped /\ SlotsInv /\ UsersInv /\ RemoverInv /\ MapsInv /\ bad = FALSE
      /\ MapsTyped' /\ SlotsInv' /\ RemoverInv'
      /\ Slots \subseteq Nat /\ Remover \in All /\ Threads \subseteq All
  <2>1. RemoverInv'
    BY StepRemover
  <2>2. MapsTyped /\ SlotsInv /\ MapsTyped' /\ SlotsInv'
    BY TypeParts, StepMapsTyped DEF MappingInv, LadderInv
  <2>3. UsersInv /\ RemoverInv /\ MapsInv /\ bad = FALSE
    BY DEF MappingInv
  <2>4. Slots \subseteq Nat /\ Remover \in All /\ Threads \subseteq All
    BY DEF Slots, All
  <2>q. QED
    BY <2>1, <2>2, <2>3, <2>4
<1>1. ASSUME UNCHANGED <<th, gpu_maps, pin, data>>,
             (dev' = dev /\ known' = known) \/ (known = {} /\ known' = {} /\ \A x \in Slots : Free(x))
      PROVE  MapsInv'
  <2>1. OwnInv' /\ RestInv' /\ PinsInv'
    BY <1>0, <1>1 DEF MapsInv, OwnInv, RestInv, PinsInv, Works, Full, Free, Records, Backs, Live
  <2>2. \A t \in All : WorkInv(t)'
    BY <1>0, <1>1 DEF MapsInv, WorkInv, Full, Free, Records, Backs
  <2>3. KnownInv'
    BY <1>0, <1>1 DEF MapsInv, KnownInv, Works, Free, Records, Backs
  <2>q. QED
    BY <2>1, <2>2, <2>3 DEF MapsInv
<1>2. CASE LoadOk \/ UnloadStart \/ UnloadEnd
  BY <1>0, <1>1, <1>2 DEF LoadOk, UnloadStart, UnloadEnd
<1>3. ASSUME NEW k \in DOMAIN LoadSteps, LoadFails(k) PROVE MapsInv' /\ bad' = FALSE
  BY <1>0, <1>1, <1>3 DEF LoadFails
<1>4. CASE ProbeStart \/ ProbeStep \/ ProbeFails
  <2>1. known = {} /\ \A x \in Slots : Free(x)
    BY <1>0, <1>4 DEF ProbeStart, ProbeStep, ProbeFails, MapsInv, KnownInv
  <2>2. gpu_maps' = gpu_maps
    <3>1. CASE ProbeStart
      <4>1. gpu_maps' = [x \in Slots |-> FreeSlot]
        BY <3>1 DEF ProbeStart
      <4>2. gpu_maps = [x \in Slots |-> FreeSlot]
        BY <1>0, <2>1 DEF Free, MapsTyped
      <4>q. QED
        BY <4>1, <4>2
    <3>2. CASE ProbeStep \/ ProbeFails
      BY <3>2 DEF ProbeStep, ProbeFails
    <3>q. QED
      BY <1>4, <3>1, <3>2
  <2>3. UNCHANGED <<th, pin, data, known, bad>>
    BY <1>4 DEF ProbeStart, ProbeStep, ProbeFails
  <2>q. QED
    BY <1>0, <1>1, <2>1, <2>2, <2>3
<1>5. ASSUME NEW t \in Threads, File(t) PROVE MapsInv' /\ bad' = FALSE
  BY <1>0, <1>1, <1>5 DEF File, Open, Mmap, Munmap, Close, Holds
<1>6. ASSUME NEW t \in Threads, Map(t) PROVE MapsInv' /\ bad' = FALSE
  <2>0. t \in All
    BY <1>0
  <2>1. CASE MapClaim(t)
    BY <1>0, <2>1, ClaimKeeps DEF MapClaim
  <2>2. CASE MapGetPages(t)
    BY <1>0, <2>2, GetPagesKeeps DEF MapGetPages
  <2>3. CASE MapGetPagesFails(t)
    BY <1>0, <2>0, <2>3, MoveOn DEF MapGetPagesFails, At, Works
  <2>4. CASE MapRecord(t)
    BY <1>0, <2>4, RecordKeeps DEF MapRecord
  <2>5. CASE MapDma(t)
    BY <1>0, <2>5, DmaKeeps DEF MapDma
  <2>6. CASE MapDmaFails(t)
    BY <1>0, <2>0, <2>6, MoveOn DEF MapDmaFails, AfterDmaFailure, At, Works
  <2>7. CASE MapReturn(t)
    BY <1>0, <2>7, ReturnKeeps DEF MapReturn
  <2>8. CASE MapPut(t)
    <3>1. MapsInv' /\ ~WrongPut(Mine(t).page_table)
      BY <1>0, <2>0, <2>8, PutKeeps DEF MapPut, At
    <3>q. QED
      BY <1>0, <2>8, <3>1 DEF MapPut
  <2>9. CASE MapUnclaim(t)
    <3>1. th' = [th EXCEPT ![t] = Idle] /\ UNCHANGED <<dev, known, pin, data, bad>>
          /\ th[t].pc = "unclaim" /\ dev \in {"ready", "removing"}
      BY <2>9 DEF MapUnclaim, At
    <3>2. ~Works(t)' /\ \A u \in All : u # t => th'[u] = th[u]
      BY <1>0, <2>0, <3>1 DEF MapsTyped, Works, Idle
    <3>q. QED
      BY <1>0, <2>0, <2>9, <3>1, <3>2, ReleaseKeeps DEF MapUnclaim
  <2>q. QED
    BY <1>6, <2>1, <2>2, <2>3, <2>4, <2>5, <2>6, <2>7, <2>8, <2>9 DEF Map
<1>7. ASSUME NEW t \in Threads, UnmapCall(t) PROVE MapsInv' /\ bad' = FALSE
  BY <1>0, <1>7, UnmapCallKeeps DEF UnmapCall
<1>8. ASSUME NEW t \in All, Unmap(t) PROVE MapsInv' /\ bad' = FALSE
  BY <1>0, <1>8, UnmapMoves
<1>9. ASSUME NEW p \in Pins, FreeCallback(p) PROVE MapsInv' /\ bad' = FALSE
  BY <1>0, <1>9, CallbackKeeps DEF FreeCallback
<1>10. CASE RemoveStart
  <2>1. /\ ~Works(Remover) /\ ~Works(Remover)' /\ th'[Remover].pc = "scan"
        /\ \A u \in All : u # Remover => th'[u] = th[u]
        /\ UNCHANGED <<gpu_maps, pin, data, known, bad>> /\ dev' = "removing"
    BY <1>0, <1>10 DEF RemoveStart, RemoverInv, MapsTyped, Idle, Works
  <2>2. ASSUME NEW u \in All
        PROVE  (Works(u)' <=> Works(u)) /\ (Works(u) => th'[u] = th[u])
    BY <2>1, <2>2 DEF Works
  <2>3. OwnInv' /\ RestInv'
    BY <1>0, <2>1, <2>2 DEF MapsInv, OwnInv, RestInv, Full, Free, Records, Backs
  <2>4. PinsInv'
    <3>1. \A u \in Threads : th'[u] = th[u]
      BY <1>0, <2>1
    <3>q. QED
      BY <1>0, <2>1, <3>1 DEF MapsInv, PinsInv, Live
  <2>5. KnownInv'
    BY <2>1 DEF KnownInv
  <2>6. ASSUME NEW u \in All PROVE WorkInv(u)'
    <3>1. CASE u = Remover
      BY <2>1, <3>1 DEF WorkInv
    <3>2. CASE u # Remover
      <4>1. WorkInv(u) /\ th'[u] = th[u]
        BY <1>0, <2>1, <2>6, <3>2 DEF MapsInv
      <4>2. UNCHANGED <<gpu_maps, pin, data>>
        BY <2>1
      <4>q. QED
        BY <3>2, <4>1, <4>2 DEF WorkInv, Full, Free, Records, Backs
    <3>q. QED
      BY <3>1, <3>2
  <2>q. QED
    BY <1>0, <2>1, <2>3, <2>4, <2>5, <2>6 DEF MapsInv
<1>11. ASSUME dev = "removing" PROVE \A t \in Threads : ~Works(t)
  BY <1>0, <1>11 DEF UsersInv, NoUsers, Works
<1>12. CASE RemoveScan
  <2>0. dev = "removing" /\ UNCHANGED <<dev, gpu_maps, pin, data, known, bad>> /\ ~Works(Remover)
    BY <1>0, <1>12 DEF RemoveScan, RemoverInv, Works
  <2>1. ToUnmap # {} /\ ToUnmap \in SUBSET Nat
    BY <1>0, <1>12 DEF RemoveScan, ToUnmap
  <2>2. PICK m \in ToUnmap : m = Min(ToUnmap)
    BY <2>1, MinTyped
  <2>3. m \in Slots /\ gpu_maps[m].in_use
    BY <2>2 DEF ToUnmap
  <2>4. /\ th'[Remover].pc = "unmap" /\ th'[Remover].slot = m /\ Works(Remover)'
        /\ \A u \in All : u # Remover => th'[u] = th[u]
    BY <1>0, <1>12, <2>2 DEF RemoveScan, MapsTyped, ThreadType, Works
  <2>5. \A u \in All : ~Works(u)
    BY <1>11, <2>0 DEF All
  <2>6. Full(m)
    BY <1>0, <2>3, <2>5, SlotFields DEF MapsInv, RestInv
  <2>7. SlotFrame(m) /\ PinFrame(m) /\ Full(m)'
    BY <2>0, <2>6 DEF SlotFrame, PinFrame, Full, Records, Backs
  <2>8. WorkInv(Remover)'
    BY <2>4, <2>7 DEF WorkInv, Full, Records, Backs
  <2>9. ASSUME NEW p \in Pins, Live(p)', data'[p] = m PROVE gpu_maps'[m].page_table = p
    <3>1. ~\E u \in Threads : th[u].pc = "record"
      BY <1>0, <2>5 DEF Works
    <3>q. QED
      BY <1>0, <2>0, <2>9, <3>1 DEF MapsInv, PinsInv, Live
  <2>q. QED
    BY <1>0, <2>0, <2>3, <2>4, <2>5, <2>7, <2>8, <2>9, OneSlot
<1>13. CASE RemoveEnd
  <2>0. /\ dev = "removing" /\ dev' = "unbound" /\ known' = {} /\ ToUnmap = {}
        /\ UNCHANGED <<gpu_maps, pin, data, bad>> /\ ~Works(Remover)
    BY <1>0, <1>13 DEF RemoveEnd, RemoverInv, Works
  <2>1. \A u \in All : ~Works(u)
    BY <1>11, <2>0 DEF All
  <2>2. ASSUME NEW x \in Slots PROVE Free(x)
    <3>1. ~gpu_maps[x].in_use
      <4>1. CASE x < th[Remover].slot
        BY <1>0, <2>0, <4>1 DEF RemoverInv
      <4>2. CASE ~(x < th[Remover].slot)
        <5>1. x >= th[Remover].slot
          BY <1>0, <4>2 DEF MapsTyped, ThreadType
        <5>q. QED
          BY <2>0, <5>1 DEF ToUnmap
      <4>q. QED
        BY <4>1, <4>2
    <3>q. QED
      BY <1>0, <2>1, <3>1, SlotFields DEF MapsInv, RestInv
  <2>3. /\ th'[Remover].pc = "idle" /\ \A u \in All : u # Remover => th'[u] = th[u]
    BY <1>0, <1>13 DEF RemoveEnd, MapsTyped, Idle
  <2>4. \A u \in All : ~Works(u)'
    BY <2>1, <2>3 DEF Works
  <2>5. OwnInv' /\ RestInv' /\ KnownInv'
    BY <2>0, <2>2, <2>4 DEF OwnInv, RestInv, KnownInv, Free
  <2>6. PinsInv'
    <3>1. \A p \in Pins : ~Live(p)
      <4>1. ~\E u \in Threads : th[u].pc = "record"
        BY <1>0, <2>1 DEF Works
      <4>2. ASSUME NEW p \in Pins, Live(p) PROVE FALSE
        <5>1. gpu_maps[data[p]].page_table = p /\ data[p] \in Slots
          BY <1>0, <4>1, <4>2 DEF MapsInv, PinsInv, MapsTyped
        <5>q. QED
          BY <2>2, <5>1, SlotFields DEF Null, Pins
      <4>q. QED
        BY <4>2
    <3>q. QED
      BY <2>0, <3>1 DEF PinsInv, Live
  <2>7. ASSUME NEW u \in All PROVE WorkInv(u)'
    BY <2>4 DEF WorkInv, Works
  <2>q. QED
    BY <1>0, <2>0, <2>5, <2>6, <2>7 DEF MapsInv
<1>14. CASE UNCHANGED vars
  BY <1>0, <1>1, <1>14 DEF vars
<1>q. QED
  BY <1>2, <1>3, <1>4, <1>5, <1>6, <1>7, <1>8, <1>9, <1>10, <1>12, <1>13, <1>14 DEF Next

LEMMA InitMapping == Init => MappingInv
<1> SUFFICES ASSUME Init PROVE MappingInv
  OBVIOUS
<1> USE DEF Null
<1>1. \A t \in All : th[t].pc = "idle" /\ ~Works(t)
  BY DEF Init, Idle, Works
<1>2. \A s \in Slots : Free(s)
  BY DEF Init, Free
<1>3. UsersInv /\ RemoverInv
  BY <1>1 DEF Init, UsersInv, RemoverInv, NoUsers, All
<1>4. OwnInv /\ RestInv /\ KnownInv /\ PinsInv
  BY <1>1, <1>2 DEF Init, OwnInv, RestInv, KnownInv, PinsInv, Live
<1>5. \A t \in All : WorkInv(t)
  BY <1>1 DEF WorkInv
<1>6. bad = FALSE
  BY DEF Init
<1>q. QED
  BY <1>3, <1>4, <1>5, <1>6, InitLadder DEF MappingInv, MapsInv

LEMMA StepMapping == ASSUME met' = {} PROVE MappingInv /\ [Next]_vars => MappingInv'
<1> SUFFICES ASSUME MappingInv, [Next]_vars PROVE MappingInv'
  OBVIOUS
<1>1. LadderInv'
  BY StepLadder DEF MappingInv
<1>2. UsersInv' /\ RemoverInv'
  BY StepUsers, StepRemover
<1>3. MapsInv' /\ bad' = FALSE
  BY StepMaps
<1>q. QED
  BY <1>1, <1>2, <1>3 DEF MappingInv

\* What has met a user or a call is never forgotten.
LEMMA MetStays == [Next]_vars => met \subseteq met'
<1> SUFFICES ASSUME [Next]_vars PROVE met \subseteq met'
  OBVIOUS
<1>1. CASE LoadOk \/ UnloadStart \/ UnloadEnd \/ ProbeStart \/ ProbeStep \/ ProbeFails
  BY <1>1 DEF LoadOk, UnloadStart, UnloadEnd, ProbeStart, ProbeStep, ProbeFails
<1>2. ASSUME NEW k \in DOMAIN LoadSteps, LoadFails(k) PROVE met \subseteq met'
  BY <1>2 DEF LoadFails
<1>3. ASSUME NEW t \in Threads, File(t) PROVE met \subseteq met'
  BY <1>3 DEF File, Open, Mmap, Munmap, Close, Holds
<1>4. ASSUME NEW t \in Threads, Map(t) PROVE met \subseteq met'
  BY <1>4 DEF Map, MapClaim, MapGetPages, MapGetPagesFails, MapRecord, MapDma, MapDmaFails,
              MapReturn, MapPut, MapUnclaim
<1>5. ASSUME NEW t \in Threads, UnmapCall(t) PROVE met \subseteq met'
  BY <1>5 DEF UnmapCall
<1>6. ASSUME NEW t \in All, Unmap(t) PROVE met \subseteq met'
  BY <1>6 DEF Unmap, UnmapLock, UnmapDma, UnmapPut, UnmapUnlock
<1>7. ASSUME NEW p \in Pins, FreeCallback(p) PROVE met \subseteq met'
  BY <1>7 DEF FreeCallback
<1>8. CASE RemoveStart \/ RemoveScan \/ RemoveEnd
  BY <1>8 DEF RemoveStart, RemoveScan, RemoveEnd
<1>9. CASE UNCHANGED vars
  BY <1>9 DEF vars
<1>q. QED
  BY <1>1, <1>2, <1>3, <1>4, <1>5, <1>6, <1>7, <1>8, <1>9 DEF Next

\* Until a removal meets a user or a callback meets a call on its slot, the
\* inductive invariant holds, whatever overlaps are possible.
THEOREM Invariance == Spec => [](met = {} => MappingInv)
<1>1. Init => (met = {} => MappingInv)
  BY InitMapping
<1>2. (met = {} => MappingInv) /\ [Next]_vars => (met = {} => MappingInv)'
  <2> SUFFICES ASSUME met = {} => MappingInv, [Next]_vars, met' = {} PROVE MappingInv'
    OBVIOUS
  <2>1. met = {}
    BY MetStays
  <2>q. QED
    BY <2>1, StepMapping
<1>q. QED
  BY <1>1, <1>2, PTL DEF Spec

\* A page table goes back to the driver twice, or below its DMA mapping, only in
\* a run in which a callback has met a call at work on its slot or an unbind a
\* user of the device (gpunvme_p2p_free_callback: "so we do not double-free"):
\* every other overlap of callbacks, calls and removal is covered, for every
\* number of threads, slots and pins.
THEOREM ReleasedOnceTheorem == Spec => []ReleasedOnce
<1>1. (met = {} => MappingInv) => ReleasedOnce
  BY DEF MappingInv, ReleasedOnce
<1>q. QED
  BY <1>1, Invariance, PTL

\* Until a removal meets a user or a callback a call on its slot, the slot of a
\* handle user space holds is in use and records the memory the handle was given
\* for, whatever other threads do.
THEOREM HandleTheorem == Spec => []HandleNamesMapping
<1>1. (met = {} => MappingInv) => HandleNamesMapping
  BY DEF MappingInv, MapsInv, KnownInv, HandleNamesMapping, Records, Backs
<1>q. QED
  BY <1>1, Invariance, PTL

\* After a gpunvme_pci_remove that met no user, and callbacks that met no call
\* on their slot, no GPU memory is pinned.
THEOREM RemovedTheorem == Spec => []RemovedMeansReleased
<1>1. (met = {} => MappingInv) => RemovedMeansReleased
  <2> SUFFICES ASSUME MappingInv, dev = "unbound", NEW p \in Pins, Live(p) PROVE FALSE
    BY DEF RemovedMeansReleased
  <2>1. MapsTyped /\ MapsInv /\ UsersInv
    BY TypeParts DEF MappingInv, LadderInv
  <2>2. ~\E t \in Threads : th[t].pc = "record"
    BY <2>1 DEF UsersInv, NoUsers
  <2>3. gpu_maps[data[p]].page_table = p /\ data[p] \in Slots
    BY <2>1, <2>2 DEF MapsInv, PinsInv, MapsTyped
  <2>4. Free(data[p])
    BY <2>1, <2>3 DEF MapsInv, KnownInv
  <2>q. QED
    BY <2>3, <2>4 DEF Free, FreeSlot, Null, Pins
<1>q. QED
  BY <1>1, Invariance, PTL

----------------------------------------------------------------------------
(* Users and their device *)

LEMMA StepHolders == LadderInv /\ HoldersInv /\ [Next]_vars => HoldersInv'
<1> SUFFICES ASSUME LadderInv, HoldersInv, [Next]_vars PROVE HoldersInv'
  OBVIOUS
<1> USE DEF modVars, devVars, probeVars
<1>0. DeviceTyped /\ MapsTyped /\ ResInv /\ ModInv /\ met \subseteq met'
  BY TypeParts, MetStays DEF LadderInv
<1>1. ASSUME held' = held, NoUsers \/ (dev' = dev /\ mod' = mod) PROVE HoldersInv'
  BY <1>0, <1>1 DEF HoldersInv, NoUsers
<1>2. CASE LoadOk \/ UnloadStart \/ UnloadEnd
  BY <1>0, <1>1, <1>2 DEF LoadOk, UnloadStart, UnloadEnd, ModuleUnused, HoldersInv
<1>3. ASSUME NEW k \in DOMAIN LoadSteps, LoadFails(k) PROVE HoldersInv'
  BY <1>1, <1>3 DEF LoadFails
<1>4. CASE ProbeStart
  BY <1>1, <1>4 DEF ProbeStart
<1>5. CASE ProbeStep \/ ProbeFails
  <2>1. held' = held /\ mod' = mod /\ dev = "probing"
    BY <1>5 DEF ProbeStep, ProbeFails
  <2>q. QED
    BY <1>0, <2>1 DEF HoldersInv, NoUsers
<1>6. ASSUME NEW t \in Threads, File(t) PROVE HoldersInv'
  <2>0. UNCHANGED <<mod, dev>>
    BY <1>6 DEF File, Open, Mmap, Munmap, Close, Holds
  <2>1. CASE Open(t)
    <3>1. Past(8) /\ mod = "in" /\ (dev = "removing" => "remove" \in met')
      BY <1>0, <2>1 DEF Open, ResInv
    <3>2. step \in Nat /\ step <= 8
      BY <1>0, LadderEntries DEF DeviceTyped
    <3>3. dev = "ready" \/ "remove" \in met'
      BY <3>1, <3>2 DEF Past
    <3>q. QED
      BY <2>0, <3>1, <3>3 DEF HoldersInv
  <2>2. CASE Mmap(t) \/ Munmap(t) \/ Close(t)
    <3>1. ~NoUsers /\ met' = met
      BY <2>2 DEF Mmap, Munmap, Close, CanCall, NoUsers, Holds
    <3>q. QED
      BY <2>0, <3>1 DEF HoldersInv
  <2>q. QED
    BY <1>6, <2>1, <2>2 DEF File
<1>7. ASSUME NEW t \in Threads, Map(t) \/ UnmapCall(t) PROVE HoldersInv'
  <2>1. held' = held
    BY <1>7 DEF Map, MapClaim, MapGetPages, MapGetPagesFails, MapRecord, MapDma, MapDmaFails,
                MapReturn, MapPut, MapUnclaim, UnmapCall
  <2>q. QED
    BY <1>1, <1>7, <2>1, CallsKeepDevice
<1>8. ASSUME NEW t \in All, Unmap(t) PROVE HoldersInv'
  <2>1. held' = held
    BY <1>8 DEF Unmap, UnmapLock, UnmapDma, UnmapPut, UnmapUnlock
  <2>q. QED
    BY <1>1, <1>8, <2>1, CallsKeepDevice
<1>9. ASSUME NEW p \in Pins, FreeCallback(p) PROVE HoldersInv'
  BY <1>1, <1>9 DEF FreeCallback
<1>10. CASE RemoveStart
  <2>1. held' = held /\ mod' = mod /\ (mod = "in" /\ ~NoUsers => "remove" \in met')
    BY <1>10 DEF RemoveStart
  <2>q. QED
    BY <2>1 DEF HoldersInv, NoUsers
<1>11. CASE RemoveScan \/ RemoveEnd
  <2>1. held' = held /\ mod' = mod /\ dev = "removing"
    BY <1>11 DEF RemoveScan, RemoveEnd
  <2>q. QED
    BY <1>0, <2>1 DEF HoldersInv, NoUsers
<1>12. CASE UNCHANGED vars
  BY <1>1, <1>12 DEF vars
<1>q. QED
  BY <1>2, <1>3, <1>4, <1>5, <1>6, <1>7, <1>8, <1>9, <1>10, <1>11, <1>12 DEF Next

\* Whoever has the device open or its registers mapped has the module, and only
\* an unbind from outside takes away its context, region and registers: the
\* module's unload never meets a user (.owner = THIS_MODULE in gpunvme_fops).
THEOREM UsersTheorem == Spec => []UsersHaveDevice
<1>1. Init => LadderInv /\ HoldersInv
  BY InitLadder DEF Init, HoldersInv, NoUsers
<1>2. LadderInv /\ HoldersInv /\ [Next]_vars => (LadderInv /\ HoldersInv)'
  BY StepLadder, StepHolders
<1>3. LadderInv /\ HoldersInv => UsersHaveDevice
  <2> SUFFICES ASSUME LadderInv, HoldersInv PROVE UsersHaveDevice
    OBVIOUS
  <2>1. ResInv /\ ModInv
    BY DEF LadderInv
  <2>q. QED
    BY <2>1 DEF HoldersInv, ResInv, ModInv, Past, UsersHaveDevice
<1>q. QED
  BY <1>1, <1>2, <1>3, PTL DEF Spec
=============================================================================
