--------------------------- MODULE LayerLoadProofs ---------------------------
(***************************************************************************)
(* Proofs about LayerLoad, for every queue size, pipeline depth below it,   *)
(* request set and number of calls: the inductive invariant of LayerLoadInv *)
(* and what follows from it, then that the pipelined loader implements the  *)
(* atomic read and that no two commands at the controller carry the same    *)
(* identifier.                                                              *)
(***************************************************************************)
EXTENDS LayerLoadInv, LayerLoadRefines, FiniteSetTheorems, TLAPS

----------------------------------------------------------------------------
(* Ring arithmetic *)

\* Advancing modulo the size is the wrap the completion ring is written with
\* (gpu_nvme_advance_sq_tail).
LEMMA AdvanceSqTailWraps ==
    ASSUME NEW t \in SqSlots
    PROVE  /\ AdvanceSqTail(t) = IF t + 1 = SqSize THEN 0 ELSE t + 1
           /\ AdvanceSqTail(t) \in SqSlots
<1>1. CASE t + 1 = SqSize
  BY <1>1, SqSizeAssumption DEF AdvanceSqTail, SqSlots
<1>2. CASE t + 1 < SqSize
  BY <1>2, SqSizeAssumption DEF AdvanceSqTail, SqSlots
<1>q. QED
  BY <1>1, <1>2, SqSizeAssumption DEF SqSlots

\* The completion ring's head stays a slot and its phase a phase.
LEMMA AdvanceCqTyped ==
    ASSUME NEW h \in CqSlots, NEW p \in Phases
    PROVE  AdvanceCqHead(h) \in CqSlots /\ AdvanceCqPhase(h, p) \in Phases
  BY CqSizeAssumption DEF AdvanceCqHead, AdvanceCqPhase, CqSlots, Phases

\* The 16-bit command identifier stays in range.
LEMMA NextCidTyped ==
    ASSUME NEW c \in Cids
    PROVE  NextCid(c) \in Cids
  BY CidModAssumption DEF NextCid, Cids

\* Block and command counts are naturals.
LEMMA CountsTyped ==
    /\ \A r \in Requests : TotalBlocks(r.bytes) \in Nat
    /\ \A k \in Nat : NCommands(k) \in Nat
<1>1. ASSUME NEW x \in Nat, NEW y \in Nat \ {0}
      PROVE  x \div y \in Nat /\ x % y \in Nat
  OBVIOUS
<1>2. ASSUME NEW r \in Requests PROVE TotalBlocks(r.bytes) \in Nat
  <2>1. r.bytes + BlockSize - 1 \in Nat
    BY SizeAssumption, RequestAssumption
  <2>2. (r.bytes + BlockSize - 1) \div BlockSize \in Nat
    BY <1>1, <2>1, SizeAssumption
  <2>q. QED
    BY <1>1, <2>2, CountAssumption DEF TotalBlocks
<1>3. ASSUME NEW k \in Nat PROVE NCommands(k) \in Nat
  <2>1. k + BlocksPer - 1 \in Nat
    BY SizeAssumption
  <2>2. (k + BlocksPer - 1) % CountMod \in Nat
    BY <1>1, <2>1, CountAssumption
  <2>q. QED
    BY <1>1, <2>2, SizeAssumption DEF NCommands
<1>q. QED
  BY <1>2, <1>3

\* No count of a request wraps at 32 bits.
LEMMA CountsExact ==
    ASSUME NEW r \in Requests
    PROVE  /\ TotalBlocks(r.bytes) = (r.bytes + BlockSize - 1) \div BlockSize
           /\ NCommands(TotalBlocks(r.bytes)) = CommandsOf(TotalBlocks(r.bytes))
<1>1. PICK y \in Nat, s \in Nat \ {0}, p \in Nat \ {0}, m \in Nat \ {0} :
          y = r.bytes /\ s = BlockSize /\ p = BlocksPer /\ m = CountMod
  BY SizeAssumption, RequestAssumption, CountAssumption
<1>2. y \div s + p < m
  BY <1>1, CountAssumption
<1>3. y \div s \in Nat /\ (y + s - 1) \div s \in Nat /\ (y + s - 1) \div s <= y \div s + 1
  <2>1. PICK q \in Nat, e \in 0 .. s - 1 : q = y \div s /\ y = q * s + e
    OBVIOUS
  <2>2. PICK x \in Nat : x = y + s - 1
    OBVIOUS
  <2>3. PICK u \in Nat, f \in 0 .. s - 1 : u = x \div s /\ x = u * s + f
    OBVIOUS
  <2>4. ASSUME q + 2 <= u PROVE FALSE
    <3>1. (q + 2) * s <= u * s /\ (q + 2) * s = q * s + 2 * s /\ q * s \in Nat /\ u * s \in Nat
      BY <2>4
    <3>q. QED
      BY <2>1, <2>2, <2>3, <3>1
  <2>q. QED
    BY <2>1, <2>2, <2>3, <2>4
<1>4. \A x \in Nat : x < m => x % m = x
  OBVIOUS
<1>5. PICK b \in Nat : b = (y + s - 1) \div s /\ b + p - 1 \in Nat /\ b + p - 1 < m /\ b < m
  BY <1>2, <1>3
<1>6. b % m = b /\ (b + p - 1) % m = b + p - 1
  BY <1>4, <1>5
<1>q. QED
  BY <1>1, <1>5, <1>6 DEF TotalBlocks, NCommands, CommandsOf

----------------------------------------------------------------------------
(* Type correctness *)

USE SqSizeAssumption, CqSizeAssumption, CidModAssumption

LEMMA InitTyped == Init => TypeOK
<1>1. NoReq \in ReqType
  BY BufferAssumption DEF NoReq, ReqType
<1>2. NoCqe \in Cqes
  BY DEF NoCqe, Cqes, Cids, Phases
<1>3. NoData \in Chunks
  BY DEF NoData, Chunks
<1> SUFFICES ASSUME Init PROVE TypeOK
  OBVIOUS
<1>4. gpu_ok \in BOOLEAN /\ desync \in BOOLEAN /\ ran \in BOOLEAN
  BY Zenon DEF Init
<1>5. /\ sq_tail \in SqSlots /\ sq_doorbell \in SqSlots /\ dev_sq_head \in SqSlots
      /\ cq_head \in CqSlots /\ cq_doorbell \in CqSlots /\ dev_cq_tail \in CqSlots
      /\ cq_phase \in Phases /\ dev_phase \in Phases /\ cid_counter \in Cids
  BY DEF Init, SqSlots, CqSlots, Cids, Phases
<1>6. /\ sq \in [SqSlots -> Sqes \cup {NoSqe}] /\ cq \in [CqSlots -> Cqes]
      /\ buf \in [Buffers -> [ChunkIdx -> Chunks]]
  BY <1>2, <1>3 DEF Init
<1>q. QED
  BY <1>1, <1>4, <1>5, <1>6 DEF Init, TypeOK

\* What the kernel writes into the submission ring is a command.
LEMMA SubmittedTyped ==
    ASSUME TypeOK
    PROVE  [cid |-> cid_counter, slba |-> CmdLba(req, submitted),
            nlb |-> CmdNlb(req, submitted), dest |-> req.dest,
            idx |-> submitted] \in Sqes
<1>1. /\ req.lba \in Nat /\ req.blocks \in Nat /\ req.dest \in Buffers
      /\ submitted \in Nat /\ BlocksPer \in Nat
  BY SizeAssumption DEF TypeOK, ReqType
<1>2. submitted * BlocksPer \in Nat
  BY <1>1
<1>3. CmdLba(req, submitted) \in Int /\ CmdNlb(req, submitted) \in Int
  BY <1>1, <1>2 DEF CmdLba, CmdNlb
<1>q. QED
  BY <1>1, <1>3 DEF TypeOK, Sqes

LEMMA StepTyped == TypeOK /\ [Next]_vars => TypeOK'
<1> SUFFICES ASSUME TypeOK, [Next]_vars
             PROVE  TypeOK'
  OBVIOUS
<1> USE DEF queue, device, kernel, history
<1>1. ASSUME NEW r \in Requests, LoadRefused(r) \/ LoadUnmapped(r) \/ LoadOnDeadGpu(r)
      PROVE  TypeOK'
  BY <1>1 DEF LoadRefused, LoadUnmapped, LoadOnDeadGpu, TypeOK
<1>2. ASSUME NEW r \in Requests, NEW b \in Buffers, Launch(r, b) \/ LaunchRefused(r, b)
      PROVE  TypeOK'
  <2>0. Prepare(r, b)
    BY <1>2 DEF Launch, LaunchRefused
  <2>1. req' \in ReqType
    BY <2>0, CountsTyped, RequestAssumption DEF Prepare, ReqType
  <2>2. buf' \in [Buffers -> [ChunkIdx -> Chunks]]
    BY <2>0 DEF Prepare, TypeOK, NoData, Chunks
  <2>3. pc' \in {"idle", "run"} /\ ret' \in {"none", "ok"} /\ ran' \in BOOLEAN
    BY <1>2 DEF Launch, LaunchRefused
  <2>q. QED
    BY <2>0, <2>1, <2>2, <2>3 DEF Prepare, TypeOK
<1>3. CASE SubmitRead
  <2>1. sq' \in [SqSlots -> Sqes \cup {NoSqe}]
    BY <1>3, SubmittedTyped DEF SubmitRead, TypeOK
  <2>2. sq_tail' \in SqSlots /\ cid_counter' \in Cids
    BY <1>3, AdvanceSqTailWraps, NextCidTyped DEF SubmitRead, TypeOK
  <2>q. QED
    BY <1>3, <2>1, <2>2 DEF SubmitRead, TypeOK
<1>4. ASSUME ConsumeCqe
      PROVE  /\ cq_head' \in CqSlots /\ cq_phase' \in Phases /\ cq_doorbell' \in CqSlots
             /\ taken' \subseteq Int
  <2>1. cq[cq_head].idx \in Int
    BY DEF TypeOK, Cqes
  <2>q. QED
    BY <1>4, <2>1, AdvanceCqTyped DEF ConsumeCqe, RingCqDoorbell, TypeOK
<1>5. CASE PollSuccess
  BY <1>4, <1>5 DEF PollSuccess, TypeOK
<1>6. CASE PollError
  BY <1>4, <1>6 DEF PollError, TypeOK
<1>7. CASE PollTimeout \/ KernelDone \/ KernelDies
  BY <1>7 DEF PollTimeout, KernelDone, KernelDies, TypeOK
<1>8. CASE DevFetch
  BY <1>8, AdvanceSqTailWraps DEF DevFetch, TypeOK
<1>9. ASSUME NEW c \in fetched, DevTransfer(c)
      PROVE  TypeOK'
  <2>1. [slba |-> c.slba, nlb |-> c.nlb] \in Chunks
    BY DEF TypeOK, Sqes, NoSqe, Chunks
  <2>2. buf' \in [Buffers -> [ChunkIdx -> Chunks]]
    BY <1>9, <2>1 DEF DevTransfer, TypeOK
  <2>q. QED
    BY <1>9, <2>2 DEF DevTransfer, TypeOK
<1>10. ASSUME NEW c \in fetched \cup done, NEW ok \in BOOLEAN, DevPost(c, ok)
       PROVE  /\ cq' \in [CqSlots -> Cqes] /\ dev_cq_tail' \in CqSlots
              /\ dev_phase' \in Phases
  <2>1. c.cid \in Cids /\ c.idx \in Int
    BY DEF TypeOK, Sqes, NoSqe, Cids
  <2>2. [cid |-> c.cid, ok |-> ok, phase |-> dev_phase, idx |-> c.idx] \in Cqes
    BY <2>1 DEF TypeOK, Cqes
  <2>q. QED
    BY <1>10, <2>2, AdvanceCqTyped DEF DevPost, TypeOK
<1>11. ASSUME NEW c \in done, DevComplete(c)
       PROVE  TypeOK'
  BY <1>10, <1>11 DEF DevComplete, DevPost, TypeOK
<1>12. ASSUME NEW c \in fetched, DevFail(c)
       PROVE  TypeOK'
  BY <1>10, <1>12 DEF DevFail, DevPost, TypeOK
<1>13. CASE UNCHANGED vars
  BY <1>13 DEF vars, TypeOK
<1>q. QED
  BY <1>1, <1>2, <1>3, <1>5, <1>6, <1>7, <1>8, <1>9, <1>11, <1>12, <1>13
     DEF Next, Call, Kernel, Device

\* Every variable keeps its type: the ring indices never leave their rings
\* and the identifier never leaves 16 bits, however calls fail.
THEOREM TypeCorrect == Spec => []TypeOK
<1>1. Init => TypeOK
  BY InitTyped
<1>2. TypeOK /\ [Next]_vars => TypeOK'
  BY StepTyped
<1>q. QED
  BY <1>1, <1>2, PTL DEF Spec

----------------------------------------------------------------------------
(* The rings *)

\* Polling an entry of this lap takes exactly one posted completion away.
LEMMA ConsumePosted ==
    ASSUME TypeOK, RingInv, CqeReady,
           cq_head' = AdvanceCqHead(cq_head), dev_cq_tail' = dev_cq_tail
    PROVE  cq_head \in Posted /\ Posted' = Posted \ {cq_head}
<1>0. cq_head \in CqSlots /\ dev_cq_tail \in CqSlots /\ dev_phase \in Phases
  BY DEF TypeOK
<1>1. cq_head # dev_cq_tail
  BY <1>0 DEF RingInv, CqeReady, CqSlots, Phases
<1>2. cq_head \in Posted
  BY <1>0, <1>1 DEF Posted, CqSlots
<1>3. ASSUME NEW s \in CqSlots
      PROVE  s \in Posted' <=> (s \in Posted /\ s # cq_head)
  BY <1>0, <1>1 DEF Posted, CqSlots, AdvanceCqHead
<1>q. QED
  BY <1>2, <1>3 DEF Posted

\* Posting into a ring that is not full adds exactly one.
LEMMA PostPosted ==
    ASSUME TypeOK, RingInv, AdvanceCqHead(dev_cq_tail) # cq_doorbell,
           dev_cq_tail' = AdvanceCqHead(dev_cq_tail), cq_head' = cq_head
    PROVE  dev_cq_tail \notin Posted /\ Posted' = Posted \cup {dev_cq_tail}
<1>0. cq_head \in CqSlots /\ dev_cq_tail \in CqSlots /\ cq_doorbell = cq_head
  BY DEF TypeOK, RingInv
<1>2. dev_cq_tail \notin Posted
  BY <1>0 DEF Posted, CqSlots
<1>3. ASSUME NEW s \in CqSlots
      PROVE  s \in Posted' <=> (s \in Posted \/ s = dev_cq_tail)
  BY <1>0 DEF Posted, CqSlots, AdvanceCqHead
<1>q. QED
  BY <1>0, <1>2, <1>3 DEF Posted

\* The phase protocol: a slot's phase bit always tells its lap, and the
\* consumer expects the lap it is in.
LEMMA StepRing == TypeOK /\ RingInv /\ [Next]_vars => RingInv'
<1> SUFFICES ASSUME TypeOK, RingInv, [Next]_vars
             PROVE  RingInv'
  OBVIOUS
<1> USE DEF queue, device, kernel, history
<1>0. /\ cq_head \in CqSlots /\ dev_cq_tail \in CqSlots /\ cq_doorbell = cq_head
      /\ dev_phase \in Phases /\ cq_phase \in Phases /\ cq \in [CqSlots -> Cqes]
  BY DEF TypeOK, RingInv
<1>1. ASSUME UNCHANGED <<cq, cq_head, cq_phase, cq_doorbell, dev_cq_tail, dev_phase>>,
             sq_doorbell' = sq_tail'
      PROVE  RingInv'
  BY <1>1 DEF RingInv
<1>2. ASSUME CqeReady, ConsumeCqe,
             UNCHANGED <<cq, sq_tail, sq_doorbell, dev_cq_tail, dev_phase>>
      PROVE  RingInv'
  <2>1. cq_head # dev_cq_tail
    BY <1>0, <1>2 DEF RingInv, CqeReady, CqSlots, Phases
  <2>2. cq_phase' = IF cq_head' <= dev_cq_tail' THEN dev_phase' ELSE 1 - dev_phase'
    BY <1>0, <1>2, <2>1
       DEF RingInv, ConsumeCqe, AdvanceCqHead, AdvanceCqPhase, CqSlots, Phases
  <2>q. QED
    BY <1>2, <2>2 DEF RingInv, ConsumeCqe, RingCqDoorbell
<1>3. ASSUME NEW c, NEW ok, DevPost(c, ok)
      PROVE  RingInv'
  <2>1. ASSUME NEW s \in CqSlots
        PROVE  cq'[s].phase = IF s < dev_cq_tail' THEN dev_phase' ELSE 1 - dev_phase'
    <3>1. CASE s = dev_cq_tail
      BY <1>0, <1>3, <3>1 DEF DevPost, AdvanceCqHead, AdvanceCqPhase, CqSlots, Phases
    <3>2. CASE s # dev_cq_tail
      <4>1. cq'[s].phase = cq[s].phase
        BY <1>0, <1>3, <3>2 DEF DevPost
      <4>q. QED
        BY <1>0, <1>3, <3>2, <4>1
           DEF DevPost, RingInv, AdvanceCqHead, AdvanceCqPhase, CqSlots, Phases
    <3>q. QED
      BY <3>1, <3>2
  <2>2. cq_phase' = IF cq_head' <= dev_cq_tail' THEN dev_phase' ELSE 1 - dev_phase'
    BY <1>0, <1>3 DEF DevPost, RingInv, AdvanceCqHead, AdvanceCqPhase, CqSlots, Phases
  <2>q. QED
    BY <1>3, <2>1, <2>2 DEF RingInv, DevPost
<1>4. ASSUME NEW r \in Requests, LoadRefused(r) \/ LoadUnmapped(r) \/ LoadOnDeadGpu(r)
      PROVE  RingInv'
  BY <1>1, <1>4 DEF LoadRefused, LoadUnmapped, LoadOnDeadGpu, RingInv
<1>5. ASSUME NEW r \in Requests, NEW b \in Buffers, Launch(r, b) \/ LaunchRefused(r, b)
      PROVE  RingInv'
  BY <1>1, <1>5 DEF Launch, LaunchRefused, Prepare, RingInv
<1>6. CASE SubmitRead
  BY <1>1, <1>6 DEF SubmitRead
<1>7. CASE PollSuccess \/ PollError
  BY <1>2, <1>7 DEF PollSuccess, PollError
<1>8. CASE PollTimeout \/ KernelDone \/ KernelDies
  BY <1>1, <1>8 DEF PollTimeout, KernelDone, KernelDies, RingInv
<1>9. CASE DevFetch
  BY <1>1, <1>9 DEF DevFetch, RingInv
<1>10. ASSUME NEW c \in fetched, DevTransfer(c)
       PROVE  RingInv'
  BY <1>1, <1>10 DEF DevTransfer, RingInv
<1>11. ASSUME NEW c, DevComplete(c) \/ DevFail(c)
       PROVE  RingInv'
  BY <1>3, <1>11 DEF DevComplete, DevFail
<1>12. CASE UNCHANGED vars
  BY <1>1, <1>12 DEF vars, RingInv
<1>q. QED
  BY <1>4, <1>5, <1>6, <1>7, <1>8, <1>9, <1>10, <1>11, <1>12
     DEF Next, Call, Kernel, Device

\* Submitting moves the tail one slot on, as long as there is room.
LEMMA SubmitDist ==
    ASSUME TypeOK, SqDist < SqSize - 1,
           sq_tail' = AdvanceSqTail(sq_tail), dev_sq_head' = dev_sq_head
    PROVE  /\ SqDist' = SqDist + 1
           /\ \A s \in SqSlots : Dist(dev_sq_head, s, SqSize) < SqDist'
                => Dist(dev_sq_head, s, SqSize) < SqDist \/ s = sq_tail
           /\ Dist(dev_sq_head, sq_tail, SqSize) = SqDist
           /\ SqHasRoom(sq_tail, dev_sq_head)
           /\ SqDist \in Nat
<1>0. dev_sq_head \in 0 .. SqSize - 1 /\ sq_tail \in 0 .. SqSize - 1
  BY DEF TypeOK, SqSlots
<1>1. sq_tail' = IF sq_tail + 1 = SqSize THEN 0 ELSE sq_tail + 1
  BY <1>0, AdvanceSqTailWraps DEF SqSlots
<1>2. SqDist' = SqDist + 1 /\ sq_tail' # dev_sq_head /\ SqDist \in Nat
  BY <1>0, <1>1 DEF SqDist, Dist
<1>3. ASSUME NEW s \in SqSlots, Dist(dev_sq_head, s, SqSize) < SqDist + 1, s # sq_tail
      PROVE  Dist(dev_sq_head, s, SqSize) < SqDist
  BY <1>0, <1>3 DEF SqDist, Dist, SqSlots
<1>q. QED
  BY <1>2, <1>3 DEF SqDist, SqHasRoom

\* Fetching takes the oldest entry and leaves the others in order.
LEMMA FetchDist ==
    ASSUME TypeOK, dev_sq_head # sq_tail,
           dev_sq_head' = AdvanceSqTail(dev_sq_head), sq_tail' = sq_tail
    PROVE  /\ SqDist' = SqDist - 1 /\ SqDist \in Nat /\ SqDist >= 1
           /\ Dist(dev_sq_head, dev_sq_head, SqSize) = 0
           /\ \A s \in SqSlots : Dist(dev_sq_head', s, SqSize) < SqDist'
                => Dist(dev_sq_head, s, SqSize) = Dist(dev_sq_head', s, SqSize) + 1
<1>0. dev_sq_head \in 0 .. SqSize - 1 /\ sq_tail \in 0 .. SqSize - 1
  BY DEF TypeOK, SqSlots
<1>1. dev_sq_head' = IF dev_sq_head + 1 = SqSize THEN 0 ELSE dev_sq_head + 1
  BY <1>0, AdvanceSqTailWraps DEF SqSlots
<1>2. SqDist' = SqDist - 1 /\ SqDist \in Nat /\ SqDist >= 1
  BY <1>0, <1>1 DEF SqDist, Dist
<1>3. ASSUME NEW s \in SqSlots, Dist(dev_sq_head', s, SqSize) < SqDist'
      PROVE  Dist(dev_sq_head, s, SqSize) = Dist(dev_sq_head', s, SqSize) + 1
  BY <1>0, <1>1, <1>3 DEF SqDist, Dist, SqSlots
<1>4. Dist(dev_sq_head, dev_sq_head, SqSize) = 0
  BY <1>0 DEF Dist
<1>q. QED
  BY <1>2, <1>3, <1>4

----------------------------------------------------------------------------
(* Counting *)

\* A set of command numbers below n has at most n members, and n of them
\* only if it has them all.
LEMMA CountBelow ==
    ASSUME NEW n \in Nat, NEW S \in SUBSET (0 .. n - 1)
    PROVE  /\ IsFiniteSet(S) /\ Cardinality(S) \in Nat /\ Cardinality(S) <= n
           /\ Cardinality(S) = n => S = 0 .. n - 1
<1>1. IsFiniteSet(0 .. n - 1) /\ Cardinality(0 .. n - 1) = n
  BY FS_Interval
<1>2. /\ IsFiniteSet(S) /\ Cardinality(S) <= Cardinality(0 .. n - 1)
      /\ Cardinality(0 .. n - 1) = Cardinality(S) => 0 .. n - 1 = S
  BY <1>1, FS_Subset
<1>q. QED
  BY <1>1, <1>2, FS_CardinalityType

LEMMA SqDistTyped == ASSUME TypeOK PROVE SqDist \in Nat /\ (SqDist = 0 => dev_sq_head = sq_tail)
  BY DEF TypeOK, SqDist, Dist, SqSlots

\* If as many completions were taken as commands submitted, nothing is left
\* anywhere: not in the rings, not in the controller.
LEMMA AllTaken ==
    TypeOK /\ RingInv /\ DeviceInv /\ CqInv /\ SqDist <= submitted
    /\ taken \subseteq 0 .. FetchedUpTo - 1 /\ Cardinality(taken) = submitted
    => Quiet /\ taken = 0 .. submitted - 1
<1> SUFFICES ASSUME TypeOK, RingInv, DeviceInv, CqInv, SqDist <= submitted,
                    taken \subseteq 0 .. FetchedUpTo - 1, Cardinality(taken) = submitted
             PROVE  Quiet /\ taken = 0 .. submitted - 1
  OBVIOUS
<1>1. SqDist \in Nat /\ submitted \in Nat /\ FetchedUpTo \in Nat
  BY SqDistTyped DEF TypeOK, FetchedUpTo
<1>2. Cardinality(taken) <= FetchedUpTo /\ (Cardinality(taken) = FetchedUpTo => taken = 0 .. FetchedUpTo - 1)
  BY <1>1, CountBelow
<1>3. FetchedUpTo = submitted /\ SqDist = 0 /\ taken = 0 .. submitted - 1
  BY <1>1, <1>2 DEF FetchedUpTo
<1>4. fetched \cup done = {}
  BY <1>3 DEF DeviceInv
<1>5. Posted = {}
  BY <1>3 DEF CqInv
<1>6. cq_head = dev_cq_tail
  <2>1. cq_head \in CqSlots /\ dev_cq_tail \in CqSlots /\ cq_head \notin Posted
    BY <1>5 DEF TypeOK
  <2>q. QED
    BY <2>1 DEF Posted, CqSlots
<1>7. cq_phase = dev_phase
  BY <1>6 DEF RingInv, TypeOK, CqSlots
<1>q. QED
  BY <1>3, <1>4, <1>6, <1>7, SqDistTyped DEF Quiet, RingInv

----------------------------------------------------------------------------
(* Each action preserves what kernel, controller and buffer agree on *)

LEMMA SubmitSync ==
    ASSUME TypeOK, RingInv, RunInv, SubmitRead
    PROVE  RunInv'
<1> USE DEF queue, device, kernel, history
<1>0. /\ submitted \in Nat /\ completed \in Nat /\ SqDist \in Nat /\ FetchedUpTo \in Nat
      /\ req.n \in Nat
  BY SqDistTyped DEF TypeOK, RunInv, CountInv, FetchedUpTo, ReqType
<1>1. completed <= FetchedUpTo
  BY <1>0, CountBelow DEF RunInv, CountInv
<1>2. SqDist < SqSize - 1
  BY <1>0, <1>1, PipeAssumption DEF FetchedUpTo, SubmitRead, CanSubmit
<1>3. /\ SqDist' = SqDist + 1
      /\ \A s \in SqSlots : Dist(dev_sq_head, s, SqSize) < SqDist'
            => Dist(dev_sq_head, s, SqSize) < SqDist \/ s = sq_tail
      /\ Dist(dev_sq_head, sq_tail, SqSize) = SqDist
  BY <1>2, SubmitDist DEF SubmitRead
<1>4. FetchedUpTo' = FetchedUpTo
  BY <1>0, <1>3 DEF FetchedUpTo, SubmitRead
<1>5. CountInv'
  BY <1>0, <1>3, <1>4, PipeAssumption DEF RunInv, CountInv, SubmitRead, CanSubmit
<1>6. SqInv'
  <2> SUFFICES ASSUME NEW s \in SqSlots, Dist(dev_sq_head, s, SqSize) < SqDist'
               PROVE  IsCmd(sq[s], FetchedUpTo + Dist(dev_sq_head, s, SqSize))'
    BY <1>3 DEF SqInv, SubmitRead
  <2>1. CASE s = sq_tail
    <3>1. sq'[s] = [cid |-> cid_counter, slba |-> CmdLba(req, submitted),
                    nlb |-> CmdNlb(req, submitted), dest |-> req.dest,
                    idx |-> submitted]
      BY <2>1 DEF SubmitRead, TypeOK
    <3>2. FetchedUpTo' + Dist(dev_sq_head', s, SqSize) = submitted
      BY <1>0, <1>3, <1>4, <2>1 DEF FetchedUpTo, SubmitRead
    <3>q. QED
      BY <3>1, <3>2 DEF IsCmd, SubmitRead, CmdLba, CmdNlb
  <2>2. CASE s # sq_tail
    <3>1. sq'[s] = sq[s] /\ IsCmd(sq[s], FetchedUpTo + Dist(dev_sq_head, s, SqSize))
      BY <1>3, <2>2 DEF SubmitRead, TypeOK, RunInv, SqInv
    <3>q. QED
      BY <1>4, <3>1 DEF IsCmd, SubmitRead, CmdLba, CmdNlb
  <2>q. QED
    BY <2>1, <2>2
<1>7. DeviceInv'
  BY <1>4 DEF RunInv, DeviceInv, SubmitRead, IsCmd, CmdLba, CmdNlb
<1>8. CqInv'
  BY <1>4 DEF RunInv, CqInv, SubmitRead, Posted
<1>9. BufInv'
  BY DEF RunInv, BufInv, SubmitRead, Posted, Landed, ChunkOf, CmdLba, CmdNlb
<1>q. QED
  BY <1>5, <1>6, <1>7, <1>8, <1>9 DEF RunInv, ReqInv, SubmitRead

LEMMA LaunchSync ==
    ASSUME TypeOK, RingInv, Quiet, ~desync,
           NEW r \in Requests, NEW b \in Buffers, Launch(r, b)
    PROVE  RunInv'
<1> USE DEF queue, device, kernel, history
<1>0. /\ dev_sq_head \in SqSlots /\ dev_sq_head = sq_tail /\ cq_head = dev_cq_tail
      /\ fetched = {} /\ done = {} /\ cq_head \in CqSlots
  BY DEF Quiet, Launch, Prepare, TypeOK
<1>1. SqDist' = 0 /\ Posted' = {}
  BY <1>0 DEF SqDist, Dist, Posted, Launch, Prepare, SqSlots, CqSlots
<1>2. req'.n \in Nat /\ ReqInv'
  <2>1. TotalBlocks(r.bytes) \in Nat /\ NCommands(TotalBlocks(r.bytes)) \in Nat
    BY CountsTyped
  <2>q. QED
    BY <2>1, CountsExact DEF Launch, Prepare, ReqInv
<1>3. CountInv' /\ FetchedUpTo' = 0
  BY <1>1, <1>2, FS_EmptySet, PipeAssumption DEF CountInv, FetchedUpTo, Launch, Prepare
<1>4. SqInv'
  BY <1>0, <1>1 DEF SqInv, Launch, Prepare, Dist, SqSlots
<1>5. DeviceInv' /\ CqInv'
  BY <1>0, <1>1 DEF DeviceInv, CqInv, Launch, Prepare
<1>6. BufInv'
  BY <1>0, <1>1 DEF BufInv, Launch, Prepare, TypeOK
<1>q. QED
  BY <1>2, <1>3, <1>4, <1>5, <1>6 DEF RunInv, Launch, Prepare

\* Facts about the completion at the head, when one is ready.
LEMMA TakeOne ==
    ASSUME TypeOK, RingInv, RunInv, CqeReady, ConsumeCqe,
           UNCHANGED <<device, cq, sq_tail, submitted, req, buf>>
    PROVE  /\ Posted' = Posted \ {cq_head} /\ cq_head \in Posted
           /\ cq[cq_head].idx \in 0 .. FetchedUpTo - 1
           /\ SqDist' = SqDist /\ FetchedUpTo' = FetchedUpTo
           /\ taken' \subseteq 0 .. FetchedUpTo - 1
           /\ Cardinality(taken') = completed + 1
           /\ completed + 1 <= submitted
           /\ DeviceInv' /\ CqInv'
<1> USE DEF device
<1>1. cq_head \in Posted /\ Posted' = Posted \ {cq_head}
  BY ConsumePosted DEF ConsumeCqe
<1>2. SqDist' = SqDist /\ FetchedUpTo' = FetchedUpTo
  BY DEF SqDist, FetchedUpTo
<1>3. /\ cq[cq_head].idx \in 0 .. FetchedUpTo - 1 /\ cq[cq_head].idx \notin taken
      /\ \A c \in fetched \cup done : c.idx # cq[cq_head].idx
  BY <1>1 DEF RunInv, CqInv
<1>4. /\ FetchedUpTo \in Nat /\ FetchedUpTo <= submitted
      /\ submitted \in Nat /\ completed \in Nat
  BY SqDistTyped DEF TypeOK, RunInv, CountInv, FetchedUpTo
<1>5. taken' = taken \cup {cq[cq_head].idx} /\ taken' \subseteq 0 .. FetchedUpTo - 1
  BY <1>3 DEF ConsumeCqe, RunInv, CountInv
<1>6. Cardinality(taken') = completed + 1
  <2>1. IsFiniteSet(taken) /\ Cardinality(taken) = completed
    BY <1>4, CountBelow DEF RunInv, CountInv
  <2>q. QED
    BY <1>3, <1>5, <2>1, FS_AddElement
<1>7. completed + 1 <= submitted
  <2>1. Cardinality(taken') <= FetchedUpTo
    BY <1>4, <1>5, CountBelow
  <2>q. QED
    BY <1>4, <1>6, <2>1
<1>8. DeviceInv'
  BY <1>2, <1>3, <1>5 DEF RunInv, DeviceInv, IsCmd, CmdLba, CmdNlb
<1>9. CqInv'
  BY <1>1, <1>2, <1>3, <1>5 DEF RunInv, CqInv
<1>q. QED
  BY <1>1, <1>2, <1>3, <1>5, <1>6, <1>7, <1>8, <1>9

LEMMA PollSuccessSync ==
    ASSUME TypeOK, RingInv, RunInv, PollSuccess
    PROVE  RunInv'
<1> USE DEF device, kernel
<1>1. /\ Posted' = Posted \ {cq_head} /\ cq_head \in Posted
      /\ SqDist' = SqDist /\ FetchedUpTo' = FetchedUpTo
      /\ taken' \subseteq 0 .. FetchedUpTo - 1 /\ Cardinality(taken') = completed + 1
      /\ completed + 1 <= submitted /\ DeviceInv' /\ CqInv'
  BY TakeOne DEF PollSuccess
<1>2. CountInv'
  BY <1>1, PipeAssumption DEF RunInv, CountInv, PollSuccess, TypeOK
<1>3. SqInv'
  BY <1>1 DEF RunInv, SqInv, PollSuccess, IsCmd, CmdLba, CmdNlb
<1>4. BufInv'
  <2>1. Landed(cq[cq_head].idx)
    BY <1>1 DEF RunInv, BufInv, PollSuccess
  <2>q. QED
    BY <1>1, <2>1
       DEF RunInv, BufInv, PollSuccess, ConsumeCqe, Landed, ChunkOf, CmdLba, CmdNlb
<1>q. QED
  BY <1>1, <1>2, <1>3, <1>4 DEF RunInv, ReqInv, PollSuccess

LEMMA PollErrorSync ==
    ASSUME TypeOK, RingInv, RunInv, PollError, TypeOK', RingInv', ~desync'
    PROVE  Quiet'
<1> USE DEF device, kernel
<1>1. /\ SqDist' = SqDist /\ FetchedUpTo' = FetchedUpTo
      /\ taken' \subseteq 0 .. FetchedUpTo - 1 /\ Cardinality(taken') = completed + 1
      /\ DeviceInv' /\ CqInv'
  BY TakeOne DEF PollError
<1>2. submitted = completed + 1 /\ submitted' = submitted
  BY DEF PollError
<1>3. /\ SqDist' <= submitted' /\ taken' \subseteq 0 .. FetchedUpTo' - 1
      /\ Cardinality(taken') = submitted'
  BY <1>1, <1>2 DEF RunInv, CountInv
<1>4. (TypeOK /\ RingInv /\ DeviceInv /\ CqInv /\ SqDist <= submitted
       /\ taken \subseteq 0 .. FetchedUpTo - 1 /\ Cardinality(taken) = submitted
       => Quiet /\ taken = 0 .. submitted - 1)'
  BY AllTaken, PTL
<1>q. QED
  BY <1>1, <1>3, <1>4

\* A call that ends with nothing outstanding leaves the queue quiet.
LEMMA EndSync ==
    ASSUME TypeOK, RingInv, RunInv, submitted = completed
    PROVE  Quiet /\ taken = 0 .. submitted - 1
  BY AllTaken DEF RunInv, CountInv

LEMMA DoneSync ==
    ASSUME TypeOK, RingInv, RunInv, KernelDone
    PROVE  Quiet' /\ Loaded'
<1> USE DEF queue, device, kernel, history
<1>1. submitted = completed /\ req.n = submitted
  BY DEF RunInv, CountInv, KernelDone, LoopDone, TypeOK, ReqType
<1>2. Quiet /\ taken = 0 .. req.n - 1
  BY <1>1, EndSync
<1>3. ASSUME NEW i \in ChunkIdx
      PROVE  buf[req.dest][i] = IF i < req.n THEN ChunkOf(i) ELSE NoData
  <2>1. CASE i < req.n
    BY <1>2, <2>1, SizeAssumption DEF RunInv, BufInv, Landed, ChunkIdx, TypeOK, ReqType
  <2>2. CASE ~(i < req.n)
    BY <2>2, SizeAssumption DEF RunInv, BufInv, ChunkIdx, TypeOK, ReqType
  <2>q. QED
    BY <2>1, <2>2
<1>q. QED
  BY <1>2, <1>3
     DEF KernelDone, Quiet, Loaded, RunInv, ReqInv, ChunkOf, CmdLba, CmdNlb

LEMMA FetchSync ==
    ASSUME TypeOK, RingInv, RunInv, DevFetch
    PROVE  RunInv'
<1> USE DEF queue, kernel, history
<1>1. /\ SqDist' = SqDist - 1 /\ SqDist \in Nat /\ SqDist >= 1
      /\ Dist(dev_sq_head, dev_sq_head, SqSize) = 0
      /\ \A s \in SqSlots : Dist(dev_sq_head', s, SqSize) < SqDist'
            => Dist(dev_sq_head, s, SqSize) = Dist(dev_sq_head', s, SqSize) + 1
  BY FetchDist DEF DevFetch, RingInv
<1>2. /\ FetchedUpTo \in Nat /\ FetchedUpTo' = FetchedUpTo + 1
      /\ submitted \in Nat /\ completed \in Nat
  BY <1>1 DEF FetchedUpTo, DevFetch, TypeOK, RunInv, CountInv
<1>3. IsCmd(sq[dev_sq_head], FetchedUpTo)
  BY <1>1, <1>2 DEF RunInv, SqInv, TypeOK
<1>4. CountInv'
  BY <1>1, <1>2 DEF RunInv, CountInv, DevFetch
<1>5. SqInv'
  <2> SUFFICES ASSUME NEW s \in SqSlots, Dist(dev_sq_head', s, SqSize) < SqDist'
               PROVE  IsCmd(sq[s], FetchedUpTo + Dist(dev_sq_head, s, SqSize))'
    BY DEF SqInv
  <2>0. Dist(dev_sq_head', s, SqSize) \in Int
    BY AdvanceSqTailWraps DEF Dist, SqSlots, DevFetch, TypeOK
  <2>1. /\ Dist(dev_sq_head, s, SqSize) < SqDist
        /\ FetchedUpTo + Dist(dev_sq_head, s, SqSize)
             = FetchedUpTo' + Dist(dev_sq_head', s, SqSize)
    BY <1>1, <1>2, <2>0
  <2>2. IsCmd(sq[s], FetchedUpTo' + Dist(dev_sq_head', s, SqSize))
    BY <2>1 DEF RunInv, SqInv
  <2>q. QED
    BY <2>2 DEF IsCmd, CmdLba, CmdNlb, DevFetch
<1>6. DeviceInv'
  BY <1>2, <1>3 DEF RunInv, CountInv, DeviceInv, DevFetch, IsCmd, CmdLba, CmdNlb
<1>7. CqInv'
  BY <1>2, <1>3 DEF RunInv, CqInv, DevFetch, Posted, IsCmd
<1>8. BufInv'
  BY DEF RunInv, BufInv, DevFetch, Posted, Landed, ChunkOf, CmdLba, CmdNlb
<1>q. QED
  BY <1>4, <1>5, <1>6, <1>7, <1>8 DEF RunInv, ReqInv, DevFetch

LEMMA TransferSync ==
    ASSUME TypeOK, RingInv, RunInv, NEW c \in fetched, DevTransfer(c)
    PROVE  RunInv'
<1> USE DEF queue, kernel, history
<1>1. SqDist' = SqDist /\ FetchedUpTo' = FetchedUpTo /\ Posted' = Posted
  BY DEF SqDist, FetchedUpTo, Posted, DevTransfer
<1>2. /\ c.idx \in 0 .. FetchedUpTo - 1 /\ c.idx \notin taken /\ IsCmd(c, c.idx)
      /\ c.idx < req.n /\ c.idx \in ChunkIdx /\ c.dest = req.dest /\ req.dest \in Buffers
  BY SqDistTyped, SizeAssumption
     DEF RunInv, DeviceInv, CountInv, FetchedUpTo, ReqInv, ChunkIdx, IsCmd, TypeOK, ReqType
<1>3. /\ buf'[req.dest][c.idx] = ChunkOf(c.idx)
      /\ \A i \in ChunkIdx : i # c.idx => buf'[req.dest][i] = buf[req.dest][i]
  BY <1>2 DEF DevTransfer, TypeOK, IsCmd, ChunkOf
<1>4. ASSUME NEW i \in 0 .. FetchedUpTo - 1 PROVE i \in ChunkIdx
  BY SqDistTyped, SizeAssumption
     DEF RunInv, CountInv, FetchedUpTo, ReqInv, ChunkIdx, TypeOK, ReqType
<1>5. DeviceInv'
  BY <1>1 DEF RunInv, DeviceInv, DevTransfer, IsCmd, CmdLba, CmdNlb
<1>6. CqInv'
  BY <1>1 DEF RunInv, CqInv, DevTransfer
<1>7. ASSUME NEW i \in 0 .. FetchedUpTo - 1, i # c.idx, Landed(i)
      PROVE  Landed(i)'
  BY <1>3, <1>4, <1>7 DEF Landed, ChunkOf, CmdLba, CmdNlb, DevTransfer
<1>8. Landed(c.idx)'
  BY <1>3 DEF Landed, ChunkOf, CmdLba, CmdNlb, DevTransfer
<1>9. BufInv'
  <2>1. \A i \in taken' : Landed(i)'
    BY <1>2, <1>7 DEF RunInv, BufInv, CountInv, DevTransfer
  <2>2. \A d \in done' : Landed(d.idx)'
    BY <1>2, <1>7, <1>8 DEF RunInv, BufInv, DeviceInv, DevTransfer
  <2>3. (\A s \in Posted : cq[s].ok => Landed(cq[s].idx))'
    BY <1>1, <1>7 DEF RunInv, BufInv, CqInv, DevTransfer
  <2>4. \A i \in ChunkIdx : i >= req'.n => buf'[req'.dest][i] = NoData
    BY <1>2, <1>3, SizeAssumption
       DEF RunInv, BufInv, DevTransfer, ChunkIdx, TypeOK, ReqType
  <2>q. QED
    BY <2>1, <2>2, <2>3, <2>4 DEF BufInv, Landed
<1>10. CountInv' /\ SqInv'
  BY <1>1 DEF RunInv, CountInv, SqInv, DevTransfer, IsCmd, CmdLba, CmdNlb
<1>q. QED
  BY <1>5, <1>6, <1>9, <1>10 DEF RunInv, ReqInv, DevTransfer

\* Posting a completion moves its command from the controller to the ring.
LEMMA PostSync ==
    ASSUME TypeOK, RingInv, RunInv, NEW c \in fetched \cup done, NEW ok \in BOOLEAN,
           DevPost(c, ok), fetched' = fetched \ {c}, done' = done \ {c},
           ok => c \in done
    PROVE  RunInv'
<1> USE DEF kernel, history
<1>1. SqDist' = SqDist /\ FetchedUpTo' = FetchedUpTo
  BY DEF SqDist, FetchedUpTo, DevPost
<1>2. dev_cq_tail \notin Posted /\ Posted' = Posted \cup {dev_cq_tail}
  BY PostPosted DEF DevPost
<1>3. /\ dev_cq_tail \in CqSlots /\ Posted \subseteq CqSlots
      /\ cq'[dev_cq_tail].idx = c.idx /\ cq'[dev_cq_tail].ok = ok
      /\ \A s \in CqSlots : s # dev_cq_tail => cq'[s] = cq[s]
  BY DEF DevPost, TypeOK, Posted
<1>4. CountInv' /\ SqInv'
  BY <1>1 DEF RunInv, CountInv, SqInv, DevPost, IsCmd, CmdLba, CmdNlb
<1>5. DeviceInv'
  BY <1>1 DEF RunInv, DeviceInv, DevPost, IsCmd, CmdLba, CmdNlb
<1>6. CqInv'
  <2>1. \A s \in Posted : cq'[s] = cq[s]
    BY <1>2, <1>3
  <2>2. /\ c.idx \in 0 .. FetchedUpTo - 1 /\ c.idx \notin taken
        /\ \A d \in fetched' \cup done' : d.idx # c.idx
        /\ \A s \in Posted : cq[s].idx # c.idx
    BY DEF RunInv, DeviceInv, CqInv
  <2>3. ASSUME NEW s \in Posted'
        PROVE  /\ cq'[s].idx \in 0 .. FetchedUpTo' - 1 /\ cq'[s].idx \notin taken'
               /\ \A d \in fetched' \cup done' : d.idx # cq'[s].idx
    BY <1>1, <1>2, <1>3, <2>1, <2>2 DEF RunInv, CqInv, DevPost
  <2>4. \A s, t \in Posted' : cq'[s].idx = cq'[t].idx => s = t
    BY <1>2, <1>3, <2>1, <2>2 DEF RunInv, CqInv
  <2>q. QED
    BY <2>3, <2>4 DEF CqInv
<1>7. BufInv'
  <2>1. \A s \in Posted : cq'[s] = cq[s]
    BY <1>2, <1>3
  <2>2. ok => Landed(c.idx)
    BY DEF RunInv, BufInv
  <2>3. \A s \in Posted' : cq'[s].ok => Landed(cq'[s].idx)
    BY <1>2, <1>3, <2>1, <2>2 DEF RunInv, BufInv
  <2>q. QED
    BY <2>3 DEF RunInv, BufInv, DevPost, Landed, ChunkOf, CmdLba, CmdNlb
<1>q. QED
  BY <1>4, <1>5, <1>6, <1>7 DEF RunInv, ReqInv, DevPost

----------------------------------------------------------------------------
(* The invariant *)

LEMMA InitIInv == Init => IInv
<1> SUFFICES ASSUME Init PROVE IInv
  OBVIOUS
<1>1. TypeOK
  BY InitTyped
<1>2. RingInv
  BY DEF Init, RingInv, NoCqe, CqSlots
<1>3. SyncInv
  BY DEF Init, SyncInv, Quiet
<1>q. QED
  BY <1>1, <1>2, <1>3 DEF IInv

LEMMA StepIInv == IInv /\ [Next]_vars => IInv'
<1> SUFFICES ASSUME IInv, [Next]_vars PROVE IInv'
  OBVIOUS
<1> USE DEF queue, device, kernel, history
<1>1. TypeOK /\ RingInv /\ TypeOK' /\ RingInv'
  BY StepTyped, StepRing DEF IInv
<1>2. SUFFICES ASSUME ~desync' PROVE SyncInv'
  BY <1>1 DEF IInv
<1>3. ~desync
  BY <1>2 DEF Next, Call, Kernel, Device, vars, LoadRefused, LoadUnmapped, LoadOnDeadGpu,
              Launch, LaunchRefused, Prepare, SubmitRead, PollSuccess, PollError, PollTimeout, KernelDone,
              KernelDies, DevFetch, DevTransfer, DevComplete, DevFail, DevPost
<1>4. SyncInv
  BY <1>3 DEF IInv
<1>5. pc \in {"idle", "run"}
  BY <1>1 DEF TypeOK
<1>6. ASSUME UNCHANGED <<queue, device, buf, pc, req, submitted, completed>>,
             UNCHANGED <<taken, ran>>, ret' = ret \/ (pc = "idle" /\ ret' # "ok")
      PROVE  SyncInv'
  <2>1. CASE pc = "idle"
    BY <1>4, <1>6, <2>1 DEF SyncInv, Quiet, Loaded, ReqInv, ChunkOf, CmdLba, CmdNlb
  <2>2. CASE pc = "run"
    <3>1. RunInv /\ ret' = ret
      BY <1>4, <1>6, <2>2 DEF SyncInv
    <3>2. CountInv' /\ SqInv'
      BY <1>6, <3>1 DEF RunInv, CountInv, SqInv, FetchedUpTo, SqDist, IsCmd, CmdLba, CmdNlb
    <3>3. DeviceInv' /\ CqInv'
      BY <1>6, <3>1 DEF RunInv, DeviceInv, CqInv, FetchedUpTo, SqDist, Posted,
                        IsCmd, CmdLba, CmdNlb
    <3>4. BufInv'
      BY <1>6, <3>1 DEF RunInv, BufInv, Posted, Landed, ChunkOf, CmdLba, CmdNlb
    <3>q. QED
      BY <1>6, <2>2, <3>1, <3>2, <3>3, <3>4 DEF SyncInv, RunInv, ReqInv
  <2>q. QED
    BY <1>5, <2>1, <2>2
<1>7. ASSUME NEW r \in Requests, LoadRefused(r) \/ LoadUnmapped(r) \/ LoadOnDeadGpu(r)
      PROVE  SyncInv'
  BY <1>6, <1>7 DEF LoadRefused, LoadUnmapped, LoadOnDeadGpu
<1>8. ASSUME NEW r \in Requests, NEW b \in Buffers, Launch(r, b)
      PROVE  SyncInv'
  BY <1>1, <1>3, <1>4, <1>8, LaunchSync DEF SyncInv, Launch, Prepare
<1>8a. ASSUME NEW r \in Requests, NEW b \in Buffers, LaunchRefused(r, b)
       PROVE  SyncInv'
  BY <1>4, <1>8a DEF SyncInv, LaunchRefused, Prepare, Quiet
<1>9. CASE SubmitRead
  BY <1>1, <1>4, <1>9, SubmitSync DEF SyncInv, SubmitRead, RunInv
<1>10. CASE PollSuccess
  BY <1>1, <1>4, <1>10, PollSuccessSync DEF SyncInv, PollSuccess, Polling, RunInv
<1>11. CASE PollError
  BY <1>1, <1>2, <1>4, <1>11, PollErrorSync DEF SyncInv, PollError, Polling
<1>12. CASE PollTimeout \/ KernelDies
  <2>1. submitted = completed /\ RunInv
    BY <1>2, <1>4, <1>12 DEF PollTimeout, KernelDies, Polling, SyncInv
  <2>2. Quiet
    BY <1>1, <2>1, EndSync
  <2>q. QED
    BY <1>12, <2>2 DEF PollTimeout, KernelDies, SyncInv, Quiet
<1>13. CASE KernelDone
  BY <1>1, <1>4, <1>13, DoneSync DEF KernelDone, SyncInv
<1>14. CASE DevFetch
  <2>1. pc = "run"
    BY <1>4, <1>5, <1>14 DEF SyncInv, Quiet, DevFetch
  <2>q. QED
    BY <1>1, <1>4, <1>14, <2>1, FetchSync DEF SyncInv, DevFetch, RunInv
<1>15. ASSUME NEW c \in fetched, DevTransfer(c)
       PROVE  SyncInv'
  <2>1. pc = "run"
    BY <1>4, <1>5, <1>15 DEF SyncInv, Quiet
  <2>q. QED
    BY <1>1, <1>4, <1>15, <2>1, TransferSync DEF SyncInv, DevTransfer, RunInv
<1>16. ASSUME NEW c \in done, DevComplete(c)
       PROVE  SyncInv'
  <2>1. pc = "run" /\ RunInv
    BY <1>4, <1>5, <1>16 DEF SyncInv, Quiet
  <2>2. fetched' = fetched \ {c} /\ done' = done \ {c} /\ DevPost(c, TRUE)
    BY <1>16, <2>1 DEF DevComplete, RunInv, DeviceInv
  <2>3. RunInv'
    BY <1>1, <2>1, <2>2, PostSync
  <2>q. QED
    BY <2>1, <2>2, <2>3 DEF SyncInv, DevPost, RunInv
<1>17. ASSUME NEW c \in fetched, DevFail(c)
       PROVE  SyncInv'
  <2>1. pc = "run" /\ RunInv
    BY <1>4, <1>5, <1>17 DEF SyncInv, Quiet
  <2>2. fetched' = fetched \ {c} /\ done' = done \ {c} /\ DevPost(c, FALSE)
    BY <1>17, <2>1 DEF DevFail, RunInv, DeviceInv
  <2>3. RunInv'
    BY <1>1, <2>1, <2>2, PostSync
  <2>q. QED
    BY <2>1, <2>2, <2>3 DEF SyncInv, DevPost, RunInv
<1>18. CASE UNCHANGED vars
  BY <1>6, <1>18 DEF vars
<1>q. QED
  BY <1>7, <1>8, <1>8a, <1>9, <1>10, <1>11, <1>12, <1>13, <1>14, <1>15, <1>16, <1>17, <1>18
     DEF Next, Call, Kernel, Device

\* The inductive invariant holds in every reachable state.
THEOREM Invariance == Spec => []IInv
  BY InitIInv, StepIInv, PTL DEF Spec

\* Between calls both rings are in step and nothing is in flight, unless a
\* call was abandoned.
THEOREM QuietTheorem == Spec => []QuietBetweenCalls
<1>1. IInv => QuietBetweenCalls
  BY DEF IInv, SyncInv, QuietBetweenCalls
<1>q. QED
  BY <1>1, Invariance, PTL

\* No submission overwrites an entry the controller has yet to fetch.
THEOREM RoomTheorem == Spec => SubmitHasRoom
<1>1. IInv /\ [Next]_vars =>
        [sq_tail' # sq_tail /\ ~desync => SqHasRoom(sq_tail, dev_sq_head)]_vars
  <2> SUFFICES ASSUME IInv, [Next]_vars, sq_tail' # sq_tail, ~desync
               PROVE  SqHasRoom(sq_tail, dev_sq_head)
    OBVIOUS
  <2>1. SubmitRead
    BY DEF Next, Call, Kernel, Device, vars, LoadRefused, LoadUnmapped, LoadOnDeadGpu,
           Launch, LaunchRefused, Prepare, PollSuccess, PollError, PollTimeout, KernelDone, KernelDies,
           DevFetch, DevTransfer, DevComplete, DevFail, DevPost, queue
  <2>2. TypeOK /\ RunInv
    BY <2>1 DEF IInv, SyncInv, SubmitRead
  <2>3. /\ submitted \in Nat /\ completed \in Nat /\ SqDist \in Nat /\ FetchedUpTo \in Nat
    BY <2>2, SqDistTyped DEF TypeOK, RunInv, CountInv, FetchedUpTo
  <2>4. completed <= FetchedUpTo
    BY <2>2, <2>3, CountBelow DEF RunInv, CountInv
  <2>5. SqDist < SqSize - 1
    BY <2>1, <2>3, <2>4, PipeAssumption DEF FetchedUpTo, SubmitRead, CanSubmit
  <2>q. QED
    BY <2>1, <2>2, <2>5, SubmitDist DEF SubmitRead, device
<1>q. QED
  BY <1>1, Invariance, PTL DEF Spec, SubmitHasRoom

----------------------------------------------------------------------------
(* From chunks to blocks *)

\* Quotient and remainder of a block offset.
LEMMA DivMod ==
    ASSUME NEW k \in Nat, NEW d \in Nat \ {0}
    PROVE  /\ k \div d \in Nat /\ k % d \in Nat
           /\ k = (k \div d) * d + (k % d) /\ k % d < d
  OBVIOUS

\* Products with a positive factor order like the other factor.
LEMMA MulOrder ==
    ASSUME NEW x \in Nat, NEW y \in Nat, NEW d \in Nat \ {0}, x * d < y * d
    PROVE  x < y
<1>1. SUFFICES ASSUME y <= x PROVE FALSE
  OBVIOUS
<1>2. y * d <= x * d
  BY <1>1
<1>q. QED
  BY <1>2

\* The commands cover the request: the rounded-up count leaves no block out.
LEMMA CommandsCover ==
    ASSUME NEW blocks \in Nat
    PROVE  CommandsOf(blocks) \in Nat /\ blocks <= CommandsOf(blocks) * BlocksPer
<1> DEFINE x == blocks + BlocksPer - 1
<1>1. x \in Nat /\ BlocksPer \in Nat \ {0}
  BY SizeAssumption
<1>2. x \div BlocksPer \in Nat /\ x = (x \div BlocksPer) * BlocksPer + (x % BlocksPer)
      /\ x % BlocksPer < BlocksPer /\ x % BlocksPer \in Nat
  BY <1>1, DivMod
<1>3. (x \div BlocksPer) * BlocksPer \in Nat
  BY <1>1, <1>2
<1>q. QED
  BY <1>1, <1>2, <1>3 DEF CommandsOf

\* A block offset lies in a chunk of the buffer.
LEMMA OffsetInChunk ==
    ASSUME NEW k \in 0 .. BlocksPer * MaxCommands - 1
    PROVE  k \div BlocksPer \in ChunkIdx /\ k \div BlocksPer \in Nat /\ k % BlocksPer \in Nat
<1> DEFINE i == k \div BlocksPer
<1>1. k \in Nat /\ BlocksPer \in Nat \ {0} /\ MaxCommands \in Nat
  BY SizeAssumption
<1>2. i \in Nat /\ k % BlocksPer \in Nat /\ i * BlocksPer \in Nat /\ i * BlocksPer <= k
  BY <1>1, DivMod
<1>3. MaxCommands * BlocksPer = BlocksPer * MaxCommands /\ BlocksPer * MaxCommands \in Nat
  BY <1>1
<1>4. i * BlocksPer < MaxCommands * BlocksPer
  BY <1>1, <1>2, <1>3
<1>5. i < MaxCommands
  BY <1>1, <1>2, <1>4, MulOrder
<1>q. QED
  BY <1>1, <1>2, <1>5 DEF ChunkIdx

\* If every chunk holds what its command was to read, the buffer holds the
\* layer: block k of the request at offset k, and nothing behind the end.
LEMMA ChunksMakeLayer ==
    ASSUME TypeOK, Loaded
    PROVE  LayerInBuffer
<1> SUFFICES ASSUME NEW k \in 0 .. BlocksPer * MaxCommands - 1
             PROVE  BlockAt(req.dest, k) = IF k < req.blocks THEN req.lba + k ELSE -1
  BY DEF LayerInBuffer
<1> DEFINE i == k \div BlocksPer
           off == k % BlocksPer
           base == i * BlocksPer
<1>1. /\ k \in Nat /\ BlocksPer \in Nat \ {0} /\ MaxCommands \in Nat
      /\ req.lba \in Nat /\ req.blocks \in Nat /\ req.n \in Nat
  BY SizeAssumption DEF TypeOK, ReqType
<1>2. /\ i \in Nat /\ off \in Nat /\ base \in Nat /\ k = base + off /\ off < BlocksPer
  BY <1>1, DivMod
<1>3. i \in ChunkIdx
  BY OffsetInChunk
<1>4. buf[req.dest][i] = IF i < req.n THEN ChunkOf(i) ELSE NoData
  BY <1>3 DEF Loaded
<1>5. CASE k < req.blocks
  <2>1. req.blocks <= req.n * BlocksPer /\ req.n * BlocksPer \in Nat
    BY <1>1, CommandsCover DEF Loaded, ReqInv
  <2>2. i < req.n
    BY <1>1, <1>2, <1>5, <2>1, MulOrder
  <2>3. buf[req.dest][i] = [slba |-> req.lba + base,
                            nlb |-> IF req.blocks - base < BlocksPer
                                    THEN req.blocks - base ELSE BlocksPer]
    BY <1>4, <2>2 DEF ChunkOf, CmdLba, CmdNlb
  <2>4. off < buf[req.dest][i].nlb /\ buf[req.dest][i].slba + off = req.lba + k
    BY <1>1, <1>2, <1>5, <2>3
  <2>q. QED
    BY <1>5, <2>4 DEF BlockAt
<1>6. CASE ~(k < req.blocks)
  <2>1. CASE i < req.n
    <3>1. buf[req.dest][i] = [slba |-> req.lba + base,
                              nlb |-> IF req.blocks - base < BlocksPer
                                      THEN req.blocks - base ELSE BlocksPer]
      BY <1>4, <2>1 DEF ChunkOf, CmdLba, CmdNlb
    <3>2. ~(off < buf[req.dest][i].nlb)
      BY <1>1, <1>2, <1>6, <3>1
    <3>q. QED
      BY <1>6, <3>2 DEF BlockAt
  <2>2. CASE ~(i < req.n)
    <3>1. buf[req.dest][i].nlb = 0
      BY <1>4, <2>2 DEF NoData
    <3>2. ~(off < buf[req.dest][i].nlb)
      BY <1>2, <3>1
    <3>q. QED
      BY <1>6, <3>2 DEF BlockAt
  <2>q. QED
    BY <2>1, <2>2
<1>q. QED
  BY <1>5, <1>6

\* A load that returns GPUNVME_OK has loaded exactly the requested blocks,
\* for every queue size, pipeline depth and request, although the kernel
\* only counts completions -- until a call has been abandoned, and unless its
\* own launch was refused.
THEOREM OkMeansLoadedTheorem == Spec => []OkMeansLoaded
<1>1. IInv => OkMeansLoaded
  BY ChunksMakeLayer DEF IInv, SyncInv, OkMeansLoaded
<1>q. QED
  BY <1>1, Invariance, PTL

----------------------------------------------------------------------------
(* The refinement *)

\* Counting in commands or in blocks, the loader refuses the same requests.
LEMMA RefusalBound ==
    ASSUME NEW b \in Nat
    PROVE  CommandsOf(b) > MaxCommands <=> b > BlocksPer * MaxCommands
<1> DEFINE P == BlocksPer
           M == MaxCommands
           n == CommandsOf(b)
<1> HIDE DEF P, M, n
<1>1. P \in Nat \ {0} /\ M \in Nat
  BY SizeAssumption DEF P, M
<1>2. n \in Nat /\ b <= n * P /\ n * P <= b + P - 1 /\ n * P \in Nat
  <2> DEFINE x == b + BlocksPer - 1
  <2>1. x \in Nat /\ BlocksPer \in Nat \ {0}
    BY SizeAssumption
  <2>2. /\ x \div BlocksPer \in Nat /\ x % BlocksPer \in Nat
        /\ x = (x \div BlocksPer) * BlocksPer + (x % BlocksPer) /\ x % BlocksPer < BlocksPer
    BY <2>1, DivMod
  <2>3. (x \div BlocksPer) * BlocksPer \in Nat
    BY <2>1, <2>2
  <2>q. QED
    BY <2>1, <2>2, <2>3 DEF CommandsOf, P, n
<1>3. ASSUME NEW x \in Nat, NEW y \in Nat, NEW d \in Nat, x <= y
      PROVE  x * d <= y * d
  BY <1>3
<1>4. P * M = M * P /\ (M + 1) * P = M * P + P /\ M * P \in Nat /\ (M + 1) * P \in Nat
  BY <1>1
<1>5. CASE n <= M
  <2>1. n * P <= M * P
    BY <1>1, <1>2, <1>3, <1>5
  <2>2. ~(b > P * M)
    BY <1>1, <1>2, <1>4, <2>1
  <2>q. QED
    BY <1>1, <1>2, <1>5, <2>2 DEF P, M, n
<1>6. CASE M + 1 <= n
  <2>1. (M + 1) * P <= n * P
    BY <1>1, <1>2, <1>3, <1>6
  <2>2. b > P * M
    BY <1>1, <1>2, <1>4, <2>1
  <2>q. QED
    BY <1>1, <1>2, <1>6, <2>2 DEF P, M, n
<1>q. QED
  BY <1>1, <1>2, <1>5, <1>6

\* Without an answer of OK the caller sees no data.
LEMMA NothingSeen == ret # "ok" => Seen = Abstract!Nothing
  BY DEF Seen, Abstract!Nothing

\* With one, it sees what it asked for.
LEMMA WantedSeen == IInv /\ ret = "ok" /\ ran /\ ~desync => Seen = Abstract!Wanted
<1> SUFFICES ASSUME IInv, ret = "ok", ran, ~desync PROVE Seen = Abstract!Wanted
  OBVIOUS
<1>1. LayerInBuffer
  BY ChunksMakeLayer DEF IInv, SyncInv
<1>q. QED
  BY <1>1 DEF LayerInBuffer, Seen, Abstract!Wanted

LEMMA InitImplements == Init => Abstract!AbsInit
  BY NothingSeen DEF Init, NoReq, Abstract!AbsInit

LEMMA StepImplements ==
    IInv /\ IInv' /\ [Next]_vars => [Abstract!AbsNext]_(Abstract!absVars)
<1> SUFFICES ASSUME IInv, IInv', [Next]_vars
             PROVE  Abstract!AbsNext \/ UNCHANGED Abstract!absVars
  OBVIOUS
<1> USE DEF queue, device, kernel, history
<1>0. ASSUME NEW r \in Requests
      PROVE  /\ Abstract!BlocksOf(r) = TotalBlocks(r.bytes)
             /\ NCommands(TotalBlocks(r.bytes)) > MaxCommands
                  <=> Abstract!BlocksOf(r) > BlocksPer * MaxCommands
             /\ NCommands(TotalBlocks(r.bytes)) <= MaxCommands
                  <=> Abstract!BlocksOf(r) <= BlocksPer * MaxCommands
  <2>1. Abstract!BlocksOf(r) = TotalBlocks(r.bytes)
    BY CountsExact DEF Abstract!BlocksOf
  <2>2. TotalBlocks(r.bytes) \in Nat
    BY CountsTyped
  <2>3. NCommands(TotalBlocks(r.bytes)) \in Nat
    BY <2>2, CountsTyped
  <2>4. BlocksPer * MaxCommands \in Nat /\ MaxCommands \in Nat
    BY SizeAssumption
  <2>5. NCommands(TotalBlocks(r.bytes)) > MaxCommands
                  <=> TotalBlocks(r.bytes) > BlocksPer * MaxCommands
    BY <2>2, CountsExact, RefusalBound
  <2>q. QED
    BY <2>1, <2>2, <2>3, <2>4, <2>5
<1>1. (ret # "ok" => Seen = Abstract!Nothing) /\ (ret' # "ok" => Seen' = Abstract!Nothing)
  BY DEF Seen, Abstract!Nothing
<1>2. ASSUME UNCHANGED <<pc, req, ret, desync>>, buf' = buf \/ ret # "ok"
      PROVE  UNCHANGED Abstract!absVars
  <2>1. Seen' = Seen
    BY <1>2 DEF Seen, BlockAt
  <2>q. QED
    BY <1>2, <2>1 DEF Abstract!absVars
<1>3. ASSUME NEW r \in Requests, LoadRefused(r) \/ LoadUnmapped(r) \/ LoadOnDeadGpu(r)
      PROVE  Abstract!Refuse(r)
  <2>1. pc = "idle" /\ UNCHANGED <<pc, req, desync>> /\ ret' # "ok"
    BY <1>3 DEF LoadRefused, LoadUnmapped, LoadOnDeadGpu
  <2>2. ret' \in IF Abstract!BlocksOf(r) > BlocksPer * MaxCommands
                THEN {"invalid"} ELSE {"dma", "cuda"}
    <3>1. CASE LoadRefused(r)
      BY <1>0, <3>1 DEF LoadRefused
    <3>2. CASE LoadUnmapped(r) \/ LoadOnDeadGpu(r)
      <4>1. ~(Abstract!BlocksOf(r) > BlocksPer * MaxCommands)
        <5>1. TotalBlocks(r.bytes) \in Nat /\ NCommands(TotalBlocks(r.bytes)) \in Nat
          BY CountsTyped
        <5>q. QED
          BY <1>0, <3>2, <5>1, SizeAssumption DEF LoadUnmapped, LoadOnDeadGpu
      <4>q. QED
        BY <3>2, <4>1 DEF LoadUnmapped, LoadOnDeadGpu
    <3>q. QED
      BY <1>3, <3>1, <3>2
  <2>q. QED
    BY <1>1, <2>1, <2>2 DEF Abstract!Refuse
<1>4. ASSUME NEW r \in Requests, NEW b \in Buffers, Launch(r, b)
      PROVE  Abstract!Begin(r)
  BY <1>0, <1>1, <1>4 DEF Launch, Prepare, Abstract!Begin
<1>4a. ASSUME NEW r \in Requests, NEW b \in Buffers, LaunchRefused(r, b)
       PROVE  Abstract!Unlaunched(r)
  <2>1. BlocksPer \in Nat \ {0} /\ MaxCommands \in Nat
    BY SizeAssumption
  <2>2. buf'[b] = [i \in ChunkIdx |-> NoData] /\ req'.dest = b /\ ret' = "ok"
    BY <1>4a DEF LaunchRefused, Prepare, IInv, TypeOK
  <2>3. ASSUME NEW k \in 0 .. BlocksPer * MaxCommands - 1 PROVE BlockAt(b, k)' = -1
    <3>1. PICK i \in Nat, off \in Nat : i = k \div BlocksPer /\ off = k % BlocksPer /\ i \in ChunkIdx
      BY <2>1, OffsetInChunk
    <3>2. buf'[b][i].nlb = 0
      BY <2>2, <3>1 DEF NoData
    <3>q. QED
      BY <3>1, <3>2 DEF BlockAt
  <2>4. Seen' = Abstract!Nothing
    BY <2>2, <2>3 DEF Seen, Abstract!Nothing
  <2>q. QED
    BY <1>0, <1>4a, <2>4 DEF LaunchRefused, Prepare, Abstract!Unlaunched
<1>5. CASE SubmitRead \/ PollSuccess \/ DevFetch
  BY <1>2, <1>5 DEF SubmitRead, PollSuccess, DevFetch
<1>6. CASE PollError \/ PollTimeout \/ KernelDies
  <2>1. Abstract!Fail
    BY <1>1, <1>6 DEF PollError, PollTimeout, KernelDies, Polling, Abstract!Fail
  <2>q. QED
    BY <2>1 DEF Abstract!AbsNext
<1>7. CASE KernelDone
  <2>0. (IInv /\ ret = "ok" /\ ran /\ ~desync => Seen = Abstract!Wanted)'
    BY WantedSeen, PTL
  <2>1. ~desync' => Seen' = Abstract!Wanted'
    BY <1>7, <2>0 DEF KernelDone, IInv, SyncInv, RunInv
  <2>2. Abstract!Succeed
    BY <1>7, <2>1 DEF KernelDone, Abstract!Succeed, Abstract!Wanted
  <2>q. QED
    BY <2>2 DEF Abstract!AbsNext
<1>8. ASSUME NEW c \in fetched, DevTransfer(c)
      PROVE  Abstract!AbsNext \/ UNCHANGED Abstract!absVars
  <2>1. CASE ret # "ok"
    BY <1>2, <1>8, <2>1 DEF DevTransfer
  <2>2. CASE ret = "ok"
    <3>1. desync
      BY <1>8, <2>2 DEF IInv, SyncInv, Quiet
    <3>2. Abstract!Late
      BY <1>8, <2>2, <3>1 DEF DevTransfer, Abstract!Late
    <3>q. QED
      BY <3>2 DEF Abstract!AbsNext
  <2>q. QED
    BY <2>1, <2>2
<1>9. ASSUME NEW c, DevComplete(c) \/ DevFail(c)
      PROVE  UNCHANGED Abstract!absVars
  BY <1>2, <1>9 DEF DevComplete, DevFail, DevPost
<1>10. CASE UNCHANGED vars
  BY <1>2, <1>10 DEF vars
<1>q. QED
  BY <1>3, <1>4, <1>4a, <1>5, <1>6, <1>7, <1>8, <1>9, <1>10
     DEF Next, Call, Kernel, Device, Abstract!AbsNext

\* The pipelined loader implements the atomic read: initial states map to
\* initial states and every step of host, kernel and controller maps to a
\* step of the atomic read or to none.
THEOREM RefinementTheorem == Spec => ImplementsAtomicRead
<1>1. Init => Abstract!AbsInit
  BY InitImplements
<1>2. IInv /\ IInv' /\ [Next]_vars => [Abstract!AbsNext]_(Abstract!absVars)
  BY StepImplements
<1>q. QED
  BY <1>1, <1>2, Invariance, PTL DEF Spec, ImplementsAtomicRead, Abstract!AbsSpec

----------------------------------------------------------------------------
(* Command identifiers *)

\* The identifier of command i, counted back from the kernel's counter.
CidOf(i) ==
    LET d == submitted - i
    IN  IF d <= cid_counter THEN cid_counter - d ELSE cid_counter + CidMod - d

\* Every command on its way carries the identifier of its place in the load:
\* identifiers are drawn once per command and in the order of submission.
CidInv ==
    /\ \A s \in Unfetched : sq[s].cid = CidOf(sq[s].idx)
    /\ \A c \in fetched \cup done : c.cid = CidOf(c.idx)

CidsInStep == ~desync /\ MaxCommands <= CidMod /\ pc = "run" => CidInv

\* In a load of at most 2^16 commands the wrapping counter repeats no identifier.
LEMMA CidOfInjective ==
    ASSUME TypeOK, submitted <= CidMod,
           NEW i \in 0 .. submitted - 1, NEW j \in 0 .. submitted - 1,
           CidOf(i) = CidOf(j)
    PROVE  i = j
<1>1. submitted \in Nat /\ cid_counter \in 0 .. CidMod - 1
  BY DEF TypeOK, Cids
<1>q. QED
  BY <1>1 DEF CidOf

\* Drawing the next identifier leaves those of the earlier commands in place.
LEMMA CidOfStable ==
    ASSUME TypeOK, submitted + 1 <= CidMod, NEW i \in 0 .. submitted - 1,
           submitted' = submitted + 1, cid_counter' = NextCid(cid_counter)
    PROVE  CidOf(i)' = CidOf(i)
<1>1. submitted \in Nat /\ cid_counter \in 0 .. CidMod - 1
  BY DEF TypeOK, Cids
<1>2. cid_counter' = IF cid_counter + 1 = CidMod THEN 0 ELSE cid_counter + 1
  BY <1>1 DEF NextCid
<1>q. QED
  BY <1>1, <1>2 DEF CidOf

\* Where the commands of a running load are.
LEMMA RunPlaces ==
    ASSUME TypeOK, RunInv
    PROVE  /\ submitted \in Nat /\ submitted <= MaxCommands
           /\ \A s \in Unfetched :
                /\ sq[s].idx = FetchedUpTo + Dist(dev_sq_head, s, SqSize)
                /\ sq[s].idx \in FetchedUpTo .. submitted - 1
           /\ \A c \in fetched \cup done : c.idx \in 0 .. FetchedUpTo - 1
           /\ FetchedUpTo \in 0 .. submitted
<1>1. /\ submitted \in Nat /\ SqDist \in Nat /\ FetchedUpTo \in 0 .. submitted
      /\ submitted <= MaxCommands
  BY SqDistTyped, SizeAssumption DEF TypeOK, RunInv, CountInv, FetchedUpTo, ReqInv, ReqType
<1>2. ASSUME NEW s \in Unfetched
      PROVE  /\ sq[s].idx = FetchedUpTo + Dist(dev_sq_head, s, SqSize)
             /\ sq[s].idx \in FetchedUpTo .. submitted - 1
  <2>1. s \in SqSlots /\ Dist(dev_sq_head, s, SqSize) < SqDist
    BY DEF Unfetched, SqDist
  <2>2. Dist(dev_sq_head, s, SqSize) \in Nat
    BY <2>1 DEF TypeOK, SqSlots, Dist
  <2>3. sq[s].idx = FetchedUpTo + Dist(dev_sq_head, s, SqSize)
    BY <2>1 DEF RunInv, SqInv, IsCmd
  <2>q. QED
    BY <1>1, <2>1, <2>2, <2>3 DEF FetchedUpTo
<1>q. QED
  BY <1>1, <1>2 DEF RunInv, DeviceInv

LEMMA StepCids == IInv /\ IInv' /\ CidsInStep /\ [Next]_vars => CidsInStep'
<1> SUFFICES ASSUME IInv, IInv', CidsInStep, [Next]_vars,
                    ~desync', MaxCommands <= CidMod, pc' = "run"
             PROVE  CidInv'
  BY DEF CidsInStep
<1> USE DEF queue, device, kernel, history
<1>1. TypeOK /\ TypeOK' /\ RingInv
  BY DEF IInv
<1>2. ASSUME NEW r \in Requests, LoadRefused(r) \/ LoadUnmapped(r) \/ LoadOnDeadGpu(r)
      PROVE  FALSE
  BY <1>2 DEF LoadRefused, LoadUnmapped, LoadOnDeadGpu
<1>2a. ASSUME NEW r \in Requests, NEW b \in Buffers, LaunchRefused(r, b)
       PROVE  FALSE
  BY <1>2a DEF LaunchRefused
<1>3. ASSUME NEW r \in Requests, NEW b \in Buffers, Launch(r, b)
      PROVE  CidInv'
  <2>1. Quiet
    BY <1>3 DEF Launch, Prepare, IInv, SyncInv
  <2>2. dev_sq_head \in SqSlots /\ UNCHANGED <<sq_tail, dev_sq_head, fetched, done>>
    BY <1>1, <1>3 DEF Launch, Prepare, TypeOK
  <2>3. Unfetched' = {}
    BY <2>1, <2>2 DEF Unfetched, Quiet, Dist, SqSlots
  <2>q. QED
    BY <2>1, <2>2, <2>3 DEF Quiet, CidInv
<1>4. CASE ~\E r \in Requests : \E b \in Buffers : Launch(r, b)
  <2>0. ~(PollError \/ PollTimeout \/ KernelDone \/ KernelDies)
    BY DEF PollError, PollTimeout, KernelDone, KernelDies
  <2>1. pc = "run" /\ ~desync
    <3>1. CASE Call
      BY <1>2, <1>2a, <1>4, <3>1 DEF Call
    <3>2. CASE Kernel
      <4>1. SubmitRead \/ PollSuccess
        BY <2>0, <3>2 DEF Kernel
      <4>q. QED
        BY <4>1 DEF SubmitRead, PollSuccess, Polling
    <3>3. CASE Device
      <4>1. UNCHANGED <<kernel, history>>
        BY <3>3 DEF Device, DevFetch, DevTransfer, DevComplete, DevFail, DevPost
      <4>q. QED
        BY <4>1
    <3>q. QED
      BY <3>1, <3>2, <3>3 DEF Next, vars
  <2>2. RunInv /\ RunInv' /\ CidInv
    BY <2>1 DEF IInv, SyncInv, CidsInStep
  <2>3. /\ submitted \in Nat /\ submitted <= MaxCommands
        /\ \A s \in Unfetched :
             /\ sq[s].idx = FetchedUpTo + Dist(dev_sq_head, s, SqSize)
             /\ sq[s].idx \in FetchedUpTo .. submitted - 1
        /\ \A c \in fetched \cup done : c.idx \in 0 .. FetchedUpTo - 1
        /\ FetchedUpTo \in 0 .. submitted
    BY <1>1, <2>2, RunPlaces
  <2>4. CASE SubmitRead
    <3>1. submitted + 1 <= CidMod
      BY <1>1, <2>2, <2>3, <2>4, SizeAssumption
         DEF SubmitRead, CanSubmit, RunInv, ReqInv, TypeOK, ReqType
    <3>2. ASSUME NEW i \in 0 .. submitted - 1 PROVE CidOf(i)' = CidOf(i)
      BY <1>1, <2>4, <3>1, CidOfStable DEF SubmitRead
    <3>3. ASSUME NEW i \in Nat, i = submitted PROVE CidOf(i)' = cid_counter
      <4>1. cid_counter \in 0 .. CidMod - 1
        BY <1>1 DEF TypeOK, Cids
      <4>2. cid_counter' = IF cid_counter + 1 = CidMod THEN 0 ELSE cid_counter + 1
        BY <2>4, <4>1 DEF SubmitRead, NextCid
      <4>q. QED
        BY <2>3, <2>4, <3>3, <4>1, <4>2 DEF SubmitRead, CidOf
    <3>4. /\ sq'[sq_tail].cid = cid_counter /\ sq'[sq_tail].idx = submitted
          /\ \A s \in SqSlots : s # sq_tail => sq'[s] = sq[s]
      BY <1>1, <2>4 DEF SubmitRead, TypeOK
    <3>5. \A s \in Unfetched' : s \in Unfetched \/ s = sq_tail
      <4>1. SqDist < SqSize - 1
        <5>1. SqDist \in Nat /\ completed \in Nat
          BY <1>1, SqDistTyped DEF TypeOK
        <5>2. completed <= FetchedUpTo
          <6>1. PICK m \in Nat : m = FetchedUpTo
            BY <2>3
          <6>2. taken \subseteq 0 .. m - 1 /\ Cardinality(taken) = completed
            BY <2>2, <6>1 DEF RunInv, CountInv
          <6>q. QED
            BY <5>1, <6>1, <6>2, CountBelow
        <5>q. QED
          BY <2>3, <2>4, <5>1, <5>2, PipeAssumption DEF FetchedUpTo, SubmitRead, CanSubmit
      <4>2. \A s \in SqSlots : Dist(dev_sq_head, s, SqSize) < SqDist'
                => Dist(dev_sq_head, s, SqSize) < SqDist \/ s = sq_tail
        BY <1>1, <2>4, <4>1, SubmitDist DEF SubmitRead
      <4>q. QED
        BY <2>4, <4>2 DEF Unfetched, SqDist, SubmitRead
    <3>6. ASSUME NEW s \in Unfetched' PROVE sq'[s].cid = CidOf(sq[s].idx)'
      <4>1. CASE s = sq_tail
        BY <2>3, <3>3, <3>4, <4>1 DEF CidOf
      <4>2. CASE s # sq_tail
        <5>1. s \in Unfetched /\ s \in SqSlots /\ sq'[s] = sq[s]
          BY <3>4, <3>5, <4>2 DEF Unfetched
        <5>2. sq[s].idx \in 0 .. submitted - 1 /\ sq[s].cid = CidOf(sq[s].idx)
          BY <2>2, <2>3, <5>1 DEF CidInv
        <5>q. QED
          BY <3>2, <5>1, <5>2 DEF CidOf
      <4>q. QED
        BY <4>1, <4>2
    <3>7. ASSUME NEW c \in fetched \cup done PROVE c.cid = CidOf(c.idx)'
      <4>1. c.idx \in 0 .. submitted - 1 /\ c.cid = CidOf(c.idx)
        BY <2>2, <2>3 DEF CidInv
      <4>q. QED
        BY <3>2, <4>1
    <3>q. QED
      BY <2>4, <3>6, <3>7 DEF CidInv, SubmitRead
  <2>5. ASSUME UNCHANGED <<submitted, cid_counter, sq>>,
               Unfetched' \subseteq Unfetched,
               fetched' \cup done' \subseteq fetched \cup done
        PROVE  CidInv'
    BY <2>2, <2>5 DEF CidInv, CidOf
  <2>6. CASE PollSuccess
    BY <2>5, <2>6 DEF PollSuccess, Unfetched
  <2>7. CASE DevFetch
    <3>1. /\ \A s \in SqSlots : Dist(dev_sq_head', s, SqSize) < SqDist'
                => Dist(dev_sq_head, s, SqSize) = Dist(dev_sq_head', s, SqSize) + 1
          /\ SqDist' = SqDist - 1 /\ SqDist >= 1 /\ SqDist \in Nat
          /\ Dist(dev_sq_head, dev_sq_head, SqSize) = 0
      BY <1>1, <2>7, FetchDist DEF DevFetch, RingInv
    <3>2. Unfetched' \subseteq Unfetched
      <4> SUFFICES ASSUME NEW s \in Unfetched' PROVE s \in Unfetched
        OBVIOUS
      <4>1. s \in SqSlots /\ Dist(dev_sq_head', s, SqSize) < SqDist'
        BY DEF Unfetched, SqDist
      <4>2. Dist(dev_sq_head', s, SqSize) \in Int
        BY <1>1, <4>1 DEF TypeOK, SqSlots, Dist
      <4>3. Dist(dev_sq_head, s, SqSize) < SqDist
        BY <3>1, <4>1, <4>2
      <4>q. QED
        BY <4>1, <4>3 DEF Unfetched, SqDist
    <3>3. dev_sq_head \in Unfetched
      BY <1>1, <3>1 DEF Unfetched, SqDist, TypeOK
    <3>q. QED
      BY <2>2, <2>7, <3>2, <3>3 DEF CidInv, CidOf, DevFetch
  <2>8. ASSUME NEW c \in fetched, DevTransfer(c) PROVE CidInv'
    BY <2>5, <2>8 DEF DevTransfer, Unfetched
  <2>9. ASSUME NEW c, DevComplete(c) \/ DevFail(c) PROVE CidInv'
    BY <2>5, <2>9 DEF DevComplete, DevFail, DevPost, Unfetched
  <2>10. CASE UNCHANGED vars
    BY <2>5, <2>10 DEF vars, Unfetched
  <2>q. QED
    BY <1>2, <1>2a, <1>4, <2>0, <2>4, <2>6, <2>7, <2>8, <2>9, <2>10 DEF Next, Call, Kernel, Device
<1>q. QED
  BY <1>3, <1>4

\* No two commands at the controller carry the same identifier, for every
\* queue size, pipeline depth and request, as long as a load has at most as
\* many commands as there are identifiers and no load was abandoned.
THEOREM CidsTheorem == Spec => []CidsDistinct
<1>1. Init => CidsInStep
  BY DEF Init, CidsInStep
<1>2. IInv /\ IInv' /\ CidsInStep /\ [Next]_vars => CidsInStep'
  BY StepCids
<1>3. IInv /\ CidsInStep => CidsDistinct
  <2> SUFFICES ASSUME IInv, CidsInStep, ~desync, MaxCommands <= CidMod
               PROVE  /\ \A s, t \in Unfetched : sq[s].cid = sq[t].cid => s = t
                      /\ \A c, d \in fetched \cup done : c.cid = d.cid => c = d
                      /\ \A s \in Unfetched : \A c \in fetched \cup done : sq[s].cid # c.cid
    BY DEF CidsDistinct
  <2>0. TypeOK
    BY DEF IInv
  <2>1. CASE pc = "idle"
    <3>1. Quiet /\ dev_sq_head \in SqSlots
      BY <2>0, <2>1 DEF IInv, SyncInv, TypeOK
    <3>2. Unfetched = {}
      BY <3>1 DEF Unfetched, Quiet, Dist, SqSlots
    <3>q. QED
      BY <3>1, <3>2 DEF Quiet
  <2>2. CASE pc = "run"
    <3>1. RunInv /\ CidInv
      BY <2>2 DEF IInv, SyncInv, CidsInStep
    <3>2. /\ submitted \in Nat /\ submitted <= MaxCommands
          /\ \A s \in Unfetched :
               /\ sq[s].idx = FetchedUpTo + Dist(dev_sq_head, s, SqSize)
               /\ sq[s].idx \in FetchedUpTo .. submitted - 1
          /\ \A c \in fetched \cup done : c.idx \in 0 .. FetchedUpTo - 1
          /\ FetchedUpTo \in 0 .. submitted
      BY <2>0, <3>1, RunPlaces
    <3>3. submitted <= CidMod
      BY <3>2, SizeAssumption
    <3>4. ASSUME NEW s \in Unfetched, NEW t \in Unfetched, sq[s].cid = sq[t].cid
          PROVE  s = t
      <4>1. sq[s].idx = sq[t].idx
        BY <2>0, <3>1, <3>2, <3>3, <3>4, CidOfInjective DEF CidInv
      <4>2. s \in SqSlots /\ t \in SqSlots
        BY DEF Unfetched
      <4>3. Dist(dev_sq_head, s, SqSize) \in Nat /\ Dist(dev_sq_head, t, SqSize) \in Nat
        BY <2>0, <4>2 DEF TypeOK, SqSlots, Dist
      <4>4. Dist(dev_sq_head, s, SqSize) = Dist(dev_sq_head, t, SqSize)
        BY <3>2, <4>1, <4>3
      <4>q. QED
        BY <2>0, <4>2, <4>4 DEF TypeOK, SqSlots, Dist
    <3>5. ASSUME NEW c \in fetched \cup done, NEW d \in fetched \cup done, c.cid = d.cid
          PROVE  c = d
      <4>1. c.idx = d.idx
        BY <2>0, <3>1, <3>2, <3>3, <3>5, CidOfInjective DEF CidInv
      <4>q. QED
        BY <3>1, <4>1 DEF RunInv, DeviceInv
    <3>6. ASSUME NEW s \in Unfetched, NEW c \in fetched \cup done, sq[s].cid = c.cid
          PROVE  FALSE
      <4>1. sq[s].idx = c.idx
        BY <2>0, <3>1, <3>2, <3>3, <3>6, CidOfInjective DEF CidInv
      <4>q. QED
        BY <3>2, <4>1
    <3>q. QED
      BY <3>4, <3>5, <3>6
  <2>q. QED
    BY <2>0, <2>1, <2>2 DEF TypeOK
<1>q. QED
  BY <1>1, <1>2, <1>3, Invariance, PTL DEF Spec
=============================================================================
