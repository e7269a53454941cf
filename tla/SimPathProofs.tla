--------------------------- MODULE SimPathProofs ---------------------------
(***************************************************************************)
(* SimPath proved: for every ring size, device, buffer, page size and set   *)
(* of requests, with stores becoming visible in any order, and with as many *)
(* time-outs as the rings have room for.                                    *)
(*                                                                         *)
(* Commands are numbered in the order of their submission.  Three counts    *)
(* say where they are: S have been submitted, the simulator has answered H  *)
(* of them and the GPU has consumed C answers.  All positions, phases and   *)
(* identifiers of both sides follow from them, and that a kernel waits for  *)
(* its own command bounds S - C by the number of kernels that gave up.      *)
(***************************************************************************)
EXTENDS SimPath, TLAPS

USE SqSizeAssumption, CqSizeAssumption, CidModAssumption,
    BlocksAssumption, RequestAssumption, CapacityAssumption

----------------------------------------------------------------------------
(* The inductive invariant *)

Sqes == [dw0  : [op : {"flush", "read", "write"}, cid : Cids],
         args : [prp : Nat, slba : Nat, nlb : Nat]]
Cqes == [cid : Cids, status : {0, 1, 2}, phase : Phases]
Ios  == {r \in [op : {"read", "write"}, lba : Nat, n : 0 .. BufSize] : r.lba + r.n < LbaMod}

Typed ==
    /\ sq \in [SqSlots -> Sqes] /\ cq \in [CqSlots -> Cqes]
    /\ DOMAIN vdev = 0 .. NumBlocks - 1 /\ DOMAIN buf = BufBlocks
    /\ pend \in Seq(Sqes) /\ want \in Sqes /\ sim_cmd \in Sqes /\ sim_status \in {0, 1, 2}
    /\ io \in Ios /\ done \in 0 .. io.n /\ target \in Cids
    /\ timeouts \in 0 .. MaxTimeouts /\ calls \in Nat /\ late \in BOOLEAN
    /\ gpu_pc \in {"idle", "loop", "fence", "outer", "poll"}
    /\ sim_pc \in {"poll", "copy", "exec", "cqe", "phase", "exited", "none", "gone", "crashed"}
    /\ res \in {"run", "ok", "timeout", "nvme"}
    /\ cq_doorbell \in CqSlots

\* The kernel is between a submission and the end of its wait.
Waiting == gpu_pc \in {"fence", "outer", "poll"}

KernelInv ==
    /\ gpu_pc = "idle" => blocks_done = done
    /\ gpu_pc # "idle" => res = "run" /\ blocks_done = 0
    /\ Waiting => done < io.n
    /\ gpu_pc = "idle" /\ res = "ok" => done = io.n

\* The poller thread has its memory.
ThreadInv ==
    sim_pc \in {"poll", "copy", "exec", "cqe", "phase"} => sim_held = Sim!SimMemory

\* The phase an entry of number i has.
PhaseOf(i) == IF (i \div CqSize) % 2 = 0 THEN 1 ELSE 0

Busy == sim_pc \in {"exec", "cqe", "phase"}

\* How many commands the simulator has copied and executed; how many the
\* doorbell announces.
Copied(H)   == IF Busy THEN H + 1 ELSE H
Executed(H) == IF sim_pc \in {"cqe", "phase"} THEN H + 1 ELSE H
Rung(S)     == IF gpu_pc = "fence" THEN S - 1 ELSE S

CountInv(S, H, C) ==
    /\ C <= H /\ Copied(H) <= S
    /\ S - C <= timeouts + (IF Waiting THEN 1 ELSE 0)
    /\ Waiting => C < S
    /\ gpu_pc = "fence" => Copied(H) < S
    /\ sim_pc = "copy" => H < Rung(S)

PosInv(S, H, C) ==
    /\ sq_tail = S % SqSize /\ sq_doorbell = Rung(S) % SqSize /\ sim_sq_head = H % SqSize
    /\ sim_cq_tail = H % CqSize /\ sim_phase = PhaseOf(H)
    /\ cq_head = C % CqSize /\ cq_phase = PhaseOf(C)
    /\ cid_counter = S % CidMod
    /\ Waiting => target = (S - 1) % CidMod

\* The command of number i, not copied yet, is in the ring; of the last one
\* before its doorbell, what is not is on its way.
InRing(i, cmd)  == sq[i % SqSize] = cmd
OnItsWay(i, cmd) ==
    /\ sb \subseteq {[slot |-> i % SqSize, dw0 |-> f, sqe |-> cmd] : f \in BOOLEAN}
    /\ [slot |-> i % SqSize, dw0 |-> TRUE, sqe |-> cmd] \in sb \/ sq[i % SqSize].dw0 = cmd.dw0
    /\ [slot |-> i % SqSize, dw0 |-> FALSE, sqe |-> cmd] \in sb \/ sq[i % SqSize].args = cmd.args

Kept(k, i, S) ==
    /\ pend[k].dw0.cid = i % CidMod
    /\ i < Rung(S) => InRing(i, pend[k])
    /\ i >= Rung(S) => OnItsWay(i, pend[k])

SqInv(S, H) ==
    /\ Len(pend) = S - Copied(H)
    /\ \A k \in 1 .. Len(pend), i \in Nat : i = Copied(H) + k - 1 => Kept(k, i, S)
    /\ gpu_pc # "fence" => sb = {}
    /\ Busy => sim_cmd = want /\ want.dw0.cid = H % CidMod

CqInv(H, C) ==
    /\ \A i \in C .. H - 1 : cq[i % CqSize].cid = i % CidMod
    /\ sim_pc = "phase" => cq[H % CqSize].cid = H % CidMod
    /\ \A i \in H .. H + CqSize - 1 : cq[i % CqSize].phase = 1 - PhaseOf(i)

RingInv(S, H, C) == CountInv(S, H, C) /\ PosInv(S, H, C) /\ SqInv(S, H) /\ CqInv(H, C)

----------------------------------------------------------------------------
(* ... and the data *)

Agree(from, to) ==
    /\ \A i \in from .. to - 1 : buf[i] = vdev[io.lba + i]
    /\ from < to => io.lba + to <= NumBlocks

\* The last command is the one of the kernel's current iteration.
LastIsCurrent(S, H) ==
    /\ Copied(H) < S => pend[Len(pend)] = Gpu!Command((S - 1) % CidMod)
    /\ Copied(H) = S /\ sim_pc = "exec" => sim_cmd = Gpu!Command((S - 1) % CidMod)

LastStatus(S, H) == IF H = S THEN cq[(S - 1) % CqSize].status ELSE sim_status

DataInv(S, H, C) ==
    /\ Agree(0, done)
    /\ done > 0 => S <= C + 1 /\ (gpu_pc = "loop" => C = S)
    /\ Waiting \/ (done > 0 /\ C < S) => LastIsCurrent(S, H)
    /\ Waiting /\ Executed(H) = S /\ LastStatus(S, H) = 0 => Agree(done, done + Gpu!Batch)

\* A write that found the simulator idle keeps its buffer.
WriteInv == io.op = "write" /\ ~late =>
    /\ \A i \in BufBlocks : buf[i] = CallerData(calls, i)
    /\ \A k \in 1 .. Len(pend) : pend[k].dw0.op = "write"
    /\ sim_pc = "exec" => sim_cmd.dw0.op = "write"

\* Every write on its way was asked for, and only those have changed blocks.
Covered(cmd) ==
    cmd.dw0.op = "write" => cmd.args.slba .. cmd.args.slba + cmd.args.nlb - 1 \subseteq asked

AskedInv ==
    /\ \A l \in DOMAIN vdev \ asked : vdev[l] = Sim!Formatted(l)
    /\ gpu_pc # "idle" /\ io.op = "write" => io.lba .. io.lba + io.n - 1 \subseteq asked
    /\ \A k \in 1 .. Len(pend) : Covered(pend[k])
    /\ Busy => Covered(sim_cmd)

Inv(S, H, C) == RingInv(S, H, C) /\ DataInv(S, H, C)

IInv == Typed /\ KernelInv /\ ThreadInv /\ WriteInv /\ AskedInv /\ \E S, H, C \in Nat : Inv(S, H, C)

----------------------------------------------------------------------------
(* Positions *)

LEMMA DivMod ==
    ASSUME NEW i \in Nat, NEW n \in Nat \ {0}
    PROVE  /\ i \div n \in Nat /\ i % n \in 0 .. n - 1
           /\ i = n * (i \div n) + (i % n)
OBVIOUS

LEMMA MulLess ==
    ASSUME NEW n \in Nat \ {0}, NEW a \in Nat, NEW b \in Nat, a < b
    PROVE  n * a + n <= n * b
<1>1. a + 1 <= b
  OBVIOUS
<1>2. n * (a + 1) <= n * b
  BY <1>1
<1>q. QED
  BY <1>2

LEMMA DivUnique ==
    ASSUME NEW n \in Nat \ {0}, NEW q \in Nat, NEW r \in 0 .. n - 1, NEW i \in Nat, i = n * q + r
    PROVE  i \div n = q /\ i % n = r
<1> DEFINE p == i \div n
<1>1. p \in Nat /\ i % n \in 0 .. n - 1 /\ i = n * p + (i % n)
  BY DivMod
<1> HIDE DEF p
<1>2. n * p \in Nat /\ n * q \in Nat
  BY <1>1
<1>3. ~(p < q)
  <2>1. ASSUME p < q PROVE n * p + n <= n * q
    BY <1>1, <2>1, MulLess
  <2>q. QED
    BY <1>1, <1>2, <2>1
<1>4. ~(q < p)
  <2>1. ASSUME q < p PROVE n * q + n <= n * p
    BY <1>1, <2>1, MulLess
  <2>q. QED
    BY <1>1, <1>2, <2>1
<1>5. p = q
  BY <1>1, <1>3, <1>4
<1>q. QED
  BY <1>1, <1>2, <1>5 DEF p

LEMMA ModSucc ==
    ASSUME NEW i \in Nat, NEW n \in Nat \ {0}
    PROVE  IF (i % n) + 1 = n THEN (i + 1) % n = 0 /\ (i + 1) \div n = (i \div n) + 1
                              ELSE (i + 1) % n = (i % n) + 1 /\ (i + 1) \div n = i \div n
<1>1. PICK q \in Nat, r \in 0 .. n - 1 : q = i \div n /\ r = i % n /\ i = n * q + r
  BY DivMod
<1>2. n * q \in Nat
  OBVIOUS
<1>3. CASE r + 1 = n
  <2>1. PICK j \in Nat, p \in Nat, z \in 0 .. n - 1 : j = i + 1 /\ p = q + 1 /\ z = 0
    OBVIOUS
  <2>a. n * p = n * q + n
    BY <2>1
  <2>b. j = n * p + z
    BY <1>1, <1>2, <1>3, <2>1, <2>a
  <2>2. j \div n = p /\ j % n = z
    BY ONLY <2>b, DivUnique, n \in Nat \ {0}, p \in Nat, z \in 0 .. n - 1, j \in Nat
  <2>q. QED
    BY <1>1, <1>3, <2>1, <2>2
<1>4. CASE r + 1 # n
  <2>1. PICK j \in Nat, z \in 0 .. n - 1 : j = i + 1 /\ z = r + 1
    BY <1>4
  <2>b. j = n * q + z
    BY <1>1, <1>2, <2>1
  <2>2. j \div n = q /\ j % n = z
    BY ONLY <2>b, DivUnique, n \in Nat \ {0}, q \in Nat, z \in 0 .. n - 1, j \in Nat
  <2>q. QED
    BY <1>1, <1>4, <2>1, <2>2
<1>q. QED
  BY <1>3, <1>4

\* Numbers less than a ring apart have different slots.
LEMMA ModApart ==
    ASSUME NEW n \in Nat \ {0}, NEW i \in Nat, NEW j \in Nat, i < j, j - i < n
    PROVE  i % n # j % n
<1>1. PICK q \in Nat, r \in 0 .. n - 1 : q = i \div n /\ r = i % n /\ i = n * q + r
  BY ONLY DivMod, n \in Nat \ {0}, i \in Nat
<1>2. PICK p \in Nat, s \in 0 .. n - 1 : p = j \div n /\ s = j % n /\ j = n * p + s
  BY ONLY DivMod, n \in Nat \ {0}, j \in Nat
<1>3. n * q \in Nat /\ n * p \in Nat
  OBVIOUS
<1>4. q < p => n * q + n <= n * p
  BY MulLess
<1>5. p < q => n * p + n <= n * q
  BY MulLess
<1>6. ASSUME r = s PROVE FALSE
  <2>1. q # p
    BY <1>1, <1>2, <1>3, <1>6
  <2>q. QED
    BY <1>1, <1>2, <1>3, <1>4, <1>5, <1>6, <2>1
<1>q. QED
  BY <1>1, <1>2, <1>6

LEMMA ModLap ==
    ASSUME NEW i \in Nat, NEW n \in Nat \ {0}
    PROVE  (i + n) % n = i % n /\ (i + n) \div n = (i \div n) + 1
<1>1. PICK q \in Nat, r \in 0 .. n - 1 : q = i \div n /\ r = i % n /\ i = n * q + r
  BY DivMod
<1>2. n * q \in Nat
  OBVIOUS
<1>3. PICK j \in Nat, p \in Nat : j = i + n /\ p = q + 1
  OBVIOUS
<1>a. n * p = n * q + n
  BY <1>3
<1>b. j = n * p + r
  BY <1>1, <1>2, <1>3, <1>a
<1>4. j \div n = p /\ j % n = r
  BY ONLY <1>b, DivUnique, n \in Nat \ {0}, p \in Nat, r \in 0 .. n - 1, j \in Nat
<1>q. QED
  BY <1>1, <1>3, <1>4

LEMMA Parity == ASSUME NEW q \in Nat PROVE (q + 1) % 2 = 1 - (q % 2) /\ q % 2 \in {0, 1}
OBVIOUS

\* The operators of NvmeQueue on numbers.
LEMMA Advance ==
    ASSUME NEW i \in Nat
    PROVE  /\ i % SqSize \in SqSlots /\ i % CqSize \in CqSlots /\ i % CidMod \in Cids
           /\ AdvanceSqTail(i % SqSize) = (i + 1) % SqSize
           /\ AdvanceCqHead(i % CqSize) = (i + 1) % CqSize
           /\ NextCid(i % CidMod) = (i + 1) % CidMod
<1>0. SqSize \in Nat \ {0} /\ CqSize \in Nat \ {0} /\ CidMod \in Nat \ {0}
  OBVIOUS
<1>1. i % SqSize \in 0 .. SqSize - 1 /\ i % CqSize \in 0 .. CqSize - 1 /\ i % CidMod \in 0 .. CidMod - 1
  BY <1>0, DivMod
<1>2. \A n \in Nat \ {0}, t \in Nat : t < n => t % n = t
  OBVIOUS
<1>2a. \A n \in Nat \ {0} : n % n = 0
  OBVIOUS
<1>3. ASSUME NEW n \in Nat \ {0} PROVE ((i % n) + 1) % n = (i + 1) % n
  <2>1. PICK r \in 0 .. n - 1 : r = i % n
    BY DivMod
  <2>2. IF r + 1 = n THEN (i + 1) % n = 0 ELSE (i + 1) % n = r + 1
    BY <2>1, ModSucc
  <2>3. IF r + 1 = n THEN (r + 1) % n = 0 ELSE (r + 1) % n = r + 1
    BY <1>2, <1>2a
  <2>q. QED
    BY <2>1, <2>2, <2>3
<1>4. AdvanceCqHead(i % CqSize) = (i + 1) % CqSize
  <2>1. PICK r \in 0 .. CqSize - 1 : r = i % CqSize
    BY <1>1
  <2>2. IF r + 1 = CqSize THEN (i + 1) % CqSize = 0 ELSE (i + 1) % CqSize = r + 1
    BY <1>0, <2>1, ModSucc
  <2>q. QED
    BY <2>1, <2>2 DEF AdvanceCqHead
<1>q. QED
  BY <1>0, <1>1, <1>3, <1>4 DEF SqSlots, CqSlots, Cids, AdvanceSqTail, NextCid

\* Both instances have the same arithmetic.
LEMMA Instances ==
    /\ \A t : Gpu!AdvanceSqTail(t) = AdvanceSqTail(t) /\ Sim!AdvanceSqTail(t) = AdvanceSqTail(t)
    /\ \A h : Gpu!AdvanceCqHead(h) = AdvanceCqHead(h) /\ Sim!AdvanceCqHead(h) = AdvanceCqHead(h)
    /\ \A h, p : /\ Gpu!AdvanceCqPhase(h, p) = AdvanceCqPhase(h, p)
                 /\ Sim!AdvanceCqPhase(h, p) = AdvanceCqPhase(h, p)
    /\ \A c : Gpu!NextCid(c) = NextCid(c)
BY DEF Gpu!AdvanceSqTail, Sim!AdvanceSqTail, AdvanceSqTail, Gpu!AdvanceCqHead, Sim!AdvanceCqHead,
       AdvanceCqHead, Gpu!AdvanceCqPhase, Sim!AdvanceCqPhase, AdvanceCqPhase, Gpu!NextCid, NextCid

LEMMA Phase ==
    ASSUME NEW i \in Nat
    PROVE  /\ PhaseOf(i) \in Phases
           /\ AdvanceCqPhase(i % CqSize, PhaseOf(i)) = PhaseOf(i + 1)
           /\ PhaseOf(i + CqSize) = 1 - PhaseOf(i)
           /\ (i + CqSize) % CqSize = i % CqSize
<1>0. CqSize \in Nat \ {0}
  OBVIOUS
<1>1. PICK q \in Nat : q = i \div CqSize
  BY <1>0, DivMod
<1>2. (q + 1) % 2 = 1 - (q % 2) /\ q % 2 \in {0, 1}
  BY Parity
<1>3. i % CqSize \in 0 .. CqSize - 1
  BY <1>0, DivMod
<1>4. /\ (i + CqSize) % CqSize = i % CqSize
      /\ (i + CqSize) \div CqSize = q + 1
  BY <1>0, <1>1, ModLap
<1>5. PhaseOf(i + CqSize) = 1 - PhaseOf(i)
  BY <1>1, <1>2, <1>4 DEF PhaseOf
<1>6. CASE (i % CqSize) + 1 = CqSize
  <2>1. (i + 1) \div CqSize = q + 1
    BY <1>0, <1>1, <1>6, ModSucc
  <2>2. PhaseOf(i + 1) = 1 - PhaseOf(i)
    BY <1>1, <1>2, <2>1 DEF PhaseOf
  <2>q. QED
    BY <1>3, <1>4, <1>5, <1>6, <2>2 DEF PhaseOf, Phases, AdvanceCqPhase
<1>7. CASE (i % CqSize) + 1 # CqSize
  <2>1. (i + 1) \div CqSize = q
    BY <1>0, <1>1, <1>7, ModSucc
  <2>q. QED
    BY <1>1, <1>3, <1>4, <1>5, <1>7, <2>1 DEF PhaseOf, Phases, AdvanceCqPhase
<1>q. QED
  BY <1>6, <1>7

----------------------------------------------------------------------------
(* Types and the kernel's own state *)

LEMMA BatchFacts ==
    ASSUME Typed
    PROVE  /\ Gpu!Batch \in Nat /\ done + Gpu!Batch \in 0 .. io.n
           /\ done < io.n => Gpu!Batch >= 1
           /\ io.lba \in Nat /\ io.n \in 0 .. BufSize /\ done \in Nat /\ io.op \in {"read", "write"}
<1>1. io.lba \in Nat /\ io.n \in 0 .. BufSize /\ io.op \in {"read", "write"} /\ done \in 0 .. io.n
  BY DEF Typed, Ios
<1>q. QED
  BY <1>1 DEF Gpu!Batch

LEMMA CommandTyped ==
    ASSUME Typed, NEW c \in Cids
    PROVE  /\ Gpu!Command(c) \in Sqes
           /\ Gpu!Command(c).dw0.op = io.op /\ Gpu!Command(c).dw0.cid = c
           /\ Gpu!Command(c).args = [prp |-> done, slba |-> io.lba + done, nlb |-> Gpu!Batch]
<1>1. Gpu!Batch \in Nat /\ io.lba + done \in Nat /\ done \in Nat /\ io.op \in {"read", "write"}
  BY BatchFacts
<1>q. QED
  BY <1>1 DEF Gpu!Command, Gpu!CurPhys, Sqes

\* A store replaces one half of an entry.
LEMMA StoreTyped ==
    ASSUME NEW e \in Sqes, NEW d \in Sqes
    PROVE  /\ [e EXCEPT !.dw0 = d.dw0] = [dw0 |-> d.dw0, args |-> e.args]
           /\ [e EXCEPT !.args = d.args] = [dw0 |-> e.dw0, args |-> d.args]
           /\ [dw0 |-> d.dw0, args |-> e.args] \in Sqes
           /\ [dw0 |-> e.dw0, args |-> d.args] \in Sqes
           /\ [e EXCEPT !.dw0 = d.dw0] \in Sqes /\ [e EXCEPT !.args = d.args] \in Sqes
           /\ e.dw0 = d.dw0 /\ e.args = d.args => e = d
BY DEF Sqes

\* How far the counts may be apart.
LEMMA Bounds ==
    ASSUME Typed, NEW S \in Nat, NEW H \in Nat, NEW C \in Nat, CountInv(S, H, C)
    PROVE  /\ S - C < SqSize /\ S - C <= CqSize /\ S - C <= CidMod
           /\ C <= H /\ H <= Copied(H) /\ Copied(H) <= S /\ Copied(H) \in Nat
           /\ Executed(H) \in Nat /\ Executed(H) <= Copied(H) /\ H <= Executed(H)
           /\ Rung(S) \in Nat /\ Rung(S) <= S /\ Copied(H) <= Rung(S)
           /\ timeouts \in Nat /\ timeouts <= MaxTimeouts
<1>1. timeouts \in Nat /\ timeouts <= MaxTimeouts
  BY DEF Typed
<1>2. Copied(H) \in Nat /\ H <= Copied(H) /\ Executed(H) \in Nat /\ Executed(H) <= Copied(H)
      /\ H <= Executed(H)
  BY DEF Copied, Executed, Busy
<1>3. C <= H /\ Copied(H) <= S /\ S - C <= timeouts + 1 /\ (gpu_pc = "fence" => Copied(H) < S)
  BY <1>1 DEF CountInv
<1>q. QED
  BY <1>1, <1>2, <1>3 DEF Rung

LEMMA InitInv == Init => IInv
<1> SUFFICES ASSUME Init PROVE IInv
  OBVIOUS
<1>0. 0 \in SqSlots /\ 0 \in CqSlots /\ 0 \in Cids /\ 0 % SqSize = 0 /\ 0 % CqSize = 0 /\ 0 % CidMod = 0
  BY DEF SqSlots, CqSlots, Cids
<1>1. Sim!ZeroSqe \in Sqes /\ Sim!ZeroCqe \in Cqes
  BY <1>0 DEF Sim!ZeroSqe, Sim!ZeroCqe, Sqes, Cqes, Phases
<1>2. Typed
  <2>1. sq \in [SqSlots -> Sqes] /\ cq \in [CqSlots -> Cqes]
    BY <1>1 DEF Init
  <2>2. io \in Ios /\ done \in 0 .. io.n
    BY LbaAssumption DEF Init, Gpu!Init, Ios
  <2>3. pend \in Seq(Sqes) /\ want \in Sqes /\ sim_cmd \in Sqes /\ sim_status \in {0, 1, 2}
    BY <1>1 DEF Init, Sim!Init, Sim!SUCCESS
  <2>4. DOMAIN vdev = 0 .. NumBlocks - 1 /\ DOMAIN buf = BufBlocks
    BY DEF Init, Sim!Init
  <2>5. target = 0 /\ timeouts = 0 /\ calls = 0 /\ late = FALSE /\ gpu_pc = "idle"
        /\ sim_pc = "none" /\ res = "ok" /\ cq_doorbell = 0
    BY DEF Init, Gpu!Init, Sim!Init
  <2>q. QED
    BY <1>0, <2>1, <2>2, <2>3, <2>4, <2>5 DEF Typed
<1>3. KernelInv /\ ThreadInv /\ WriteInv /\ AskedInv
  <2>1. KernelInv /\ ThreadInv /\ WriteInv
    BY DEF Init, Gpu!Init, Sim!Init, KernelInv, Waiting, ThreadInv, WriteInv
  <2>2. gpu_pc = "idle" /\ pend = <<>> /\ ~Busy /\ vdev = [l \in 0 .. NumBlocks - 1 |-> Sim!Formatted(l)]
    BY DEF Init, Gpu!Init, Sim!Init, Busy
  <2>q. QED
    BY <2>1, <2>2 DEF AskedInv
<1>4. PhaseOf(0) = 1
  BY DEF PhaseOf
<1>5. CountInv(0, 0, 0) /\ PosInv(0, 0, 0)
  BY <1>0, <1>4 DEF Init, Gpu!Init, Sim!Init, CountInv, PosInv, Copied, Rung, Busy, Waiting
<1>6. SqInv(0, 0)
  <2>1. pend = <<>> /\ sb = {} /\ sim_pc = "none"
    BY DEF Init, Gpu!Init, Sim!Init
  <2>2. Len(pend) = 0 /\ Copied(0) = 0 /\ ~Busy
    BY <2>1 DEF Copied, Busy
  <2>q. QED
    BY <2>1, <2>2 DEF SqInv
<1>7. CqInv(0, 0)
  <2>1. ASSUME NEW i \in 0 .. 0 + CqSize - 1 PROVE cq[i % CqSize].phase = 1 - PhaseOf(i)
    <3>1. i % CqSize = i /\ i \div CqSize = 0 /\ i \in CqSlots
      BY DEF CqSlots
    <3>2. PhaseOf(i) = 1
      BY <3>1 DEF PhaseOf
    <3>3. cq[i].phase = 0
      BY <3>1 DEF Init, Sim!ZeroCqe
    <3>q. QED
      BY <3>1, <3>2, <3>3
  <2>q. QED
    <3>1. sim_pc # "phase" /\ \A i \in 0 .. 0 - 1 : FALSE
      BY DEF Init, Sim!Init
    <3>q. QED
      BY <2>1, <3>1 DEF CqInv
<1>8. DataInv(0, 0, 0)
  BY DEF Init, Gpu!Init, DataInv, Agree, Waiting
<1>9. Inv(0, 0, 0)
  BY <1>5, <1>6, <1>7, <1>8 DEF Inv, RingInv
<1>q. QED
  BY <1>2, <1>3, <1>9 DEF IInv

\* Identifiers and slots in use are in range.
LEMMA PosTyped ==
    ASSUME IInv
    PROVE  /\ sq_tail \in SqSlots /\ sim_sq_head \in SqSlots
           /\ cq_head \in CqSlots /\ sim_cq_tail \in CqSlots
           /\ cid_counter \in Cids /\ sim_phase \in Phases
           /\ gpu_pc = "fence" => pend # <<>> /\ \A w \in sb : w.slot \in SqSlots /\ w.sqe \in Sqes
           /\ gpu_pc # "fence" => sb = {}
           /\ sim_pc = "copy" => pend # <<>>
<1>1. PICK S \in Nat, H \in Nat, C \in Nat : Inv(S, H, C)
  BY DEF IInv
<1>2. /\ sq_tail \in SqSlots /\ sim_sq_head \in SqSlots
      /\ cq_head \in CqSlots /\ sim_cq_tail \in CqSlots
      /\ cid_counter \in Cids /\ sim_phase \in Phases
  BY <1>1, Advance, Phase DEF Inv, RingInv, PosInv
<1>3. Typed /\ CountInv(S, H, C) /\ SqInv(S, H)
  BY <1>1 DEF IInv, Inv, RingInv
<1>4. Copied(H) \in Nat /\ Copied(H) <= S /\ Rung(S) <= S /\ Rung(S) \in Nat
  BY <1>3, Bounds
<1>5. Len(pend) = S - Copied(H)
  BY <1>3 DEF SqInv
<1>6. ASSUME gpu_pc = "fence"
      PROVE  pend # <<>> /\ \A w \in sb : w.slot \in SqSlots /\ w.sqe \in Sqes
  <2>1. Len(pend) \in Nat /\ Len(pend) >= 1 /\ S >= 1 /\ Rung(S) = S - 1
    BY <1>3, <1>4, <1>5, <1>6 DEF CountInv, Rung
  <2>2. Copied(H) + Len(pend) - 1 = S - 1
    BY <1>4, <1>5, <2>1
  <2>3. OnItsWay(S - 1, pend[Len(pend)])
    BY <1>3, <2>1, <2>2 DEF SqInv, Kept
  <2>4. pend[Len(pend)] \in Sqes
    BY <1>3, <2>1 DEF Typed
  <2>5. (S - 1) % SqSize \in SqSlots
    BY <2>1, Advance
  <2>q. QED
    BY <2>1, <2>3, <2>4, <2>5 DEF OnItsWay
<1>7. ASSUME sim_pc = "copy" PROVE pend # <<>>
  BY <1>3, <1>4, <1>5, <1>7 DEF CountInv, Copied, Busy
<1>8. gpu_pc # "fence" => sb = {}
  BY <1>3 DEF SqInv
<1>q. QED
  BY <1>2, <1>6, <1>7, <1>8

LEMMA KernelTyped ==
    ASSUME IInv, (\E r \in Requests : Start(r)) \/ GpuStep
    PROVE  Typed' /\ KernelInv'
<1> USE DEF IInv
<1>0. UNCHANGED <<sim_pc, sim_cmd, sim_status, vdev, want>>
  BY DEF Start, GpuStep, Submit, GpuOther, simLocal
<1>1. ASSUME NEW r \in Requests, Start(r) PROVE Typed' /\ KernelInv'
  <2>1. DOMAIN buf' = BufBlocks
    BY <1>1 DEF Start, Typed
  <2>2. io' = r /\ done' = 0 /\ res' = "run" /\ blocks_done' = 0 /\ gpu_pc' = "loop"
        /\ UNCHANGED <<sq, cq, target, timeouts, cq_doorbell, pend>> /\ gpu_pc = "idle"
    BY <1>1 DEF Start, Gpu!GpuStart, Gpu!memory
  <2>3. io' \in Ios /\ done' \in 0 .. io'.n
    BY <2>2, LbaAssumption DEF Ios
  <2>4. late' \in BOOLEAN /\ calls' \in Nat
    BY <1>1 DEF Start, Typed
  <2>5. Typed'
    BY <1>0, <2>1, <2>2, <2>3, <2>4 DEF Typed
  <2>q. QED
    BY <2>2, <2>5 DEF KernelInv, Waiting
<1>2. CASE Submit
  <2>1. UNCHANGED <<buf, calls, late, sq, cq, cq_doorbell, io, done, res, blocks_done, timeouts>>
        /\ gpu_pc' = "fence" /\ gpu_pc = "loop" /\ target' = cid_counter /\ done < io.n
    BY <1>2 DEF Submit, Gpu!GpuSubmit, Gpu!memory, Gpu!result
  <2>2. pend' \in Seq(Sqes)
    BY <1>2, CommandTyped, PosTyped DEF Submit, Typed
  <2>3. cid_counter \in Cids
    BY PosTyped
  <2>q. QED
    BY <1>0, <2>1, <2>2, <2>3 DEF Typed, KernelInv, Waiting
<1>3. CASE GpuOther
  <2>0. UNCHANGED <<buf, calls, late, pend>>
    BY <1>3 DEF GpuOther
  <2>1. CASE Gpu!GpuStore
    <3>1. PICK w \in sb : sq' = [sq EXCEPT ![w.slot] = IF w.dw0 THEN [@ EXCEPT !.dw0 = w.sqe.dw0]
                                                              ELSE [@ EXCEPT !.args = w.sqe.args]]
      BY <2>1 DEF Gpu!GpuStore
    <3>2. UNCHANGED <<cq, cq_doorbell, io, done, target, res, blocks_done, timeouts, gpu_pc>>
      BY <2>1 DEF Gpu!GpuStore, Gpu!result
    <3>3. w.slot \in SqSlots /\ w.sqe \in Sqes
      BY PosTyped
    <3>4. sq[w.slot] \in Sqes /\ sq \in [SqSlots -> Sqes]
      BY <3>3 DEF Typed
    <3>5. (IF w.dw0 THEN [sq[w.slot] EXCEPT !.dw0 = w.sqe.dw0]
                    ELSE [sq[w.slot] EXCEPT !.args = w.sqe.args]) \in Sqes
      <4>1. PICK e \in Sqes, d \in Sqes : e = sq[w.slot] /\ d = w.sqe
        BY <3>3, <3>4
      <4>2. [e EXCEPT !.dw0 = d.dw0] \in Sqes /\ [e EXCEPT !.args = d.args] \in Sqes
        BY StoreTyped
      <4>q. QED
        BY <4>1, <4>2
    <3>6. sq' \in [SqSlots -> Sqes]
      BY <3>1, <3>4, <3>5
    <3>q. QED
      BY <1>0, <2>0, <3>2, <3>6 DEF Typed, KernelInv, Waiting
  <2>2. CASE Gpu!GpuDoorbell
    BY <1>0, <2>0, <2>2 DEF Gpu!GpuDoorbell, Gpu!result, Typed, KernelInv, Waiting
  <2>3. CASE Gpu!GpuOuter
    BY <1>0, <2>0, <2>3 DEF Gpu!GpuOuter, Gpu!TimeOut, Gpu!Return, Gpu!memory, Gpu!result,
                            Typed, KernelInv, Waiting
  <2>4. CASE Gpu!GpuPollTimeout
    BY <1>0, <2>0, <2>4 DEF Gpu!GpuPollTimeout, Gpu!TimeOut, Gpu!Return, Gpu!memory,
                            Typed, KernelInv, Waiting
  <2>5. CASE Gpu!GpuDiscard \/ Gpu!GpuBatchDone \/ Gpu!GpuBatchError
    <3>1. sq' = sq /\ cq' = cq /\ io' = io /\ target' = target /\ timeouts' = timeouts /\ gpu_pc = "poll"
      BY <2>5 DEF Gpu!GpuDiscard, Gpu!GpuBatchDone, Gpu!GpuBatchError, Gpu!ConsumeCqe, Gpu!result
    <3>2. cq_doorbell' \in CqSlots
      <4>1. PICK C \in Nat : cq_head = C % CqSize
        BY DEF Inv, RingInv, PosInv
      <4>2. AdvanceCqHead(cq_head) \in CqSlots
        BY <4>1, C + 1 \in Nat, Advance
      <4>3. cq_doorbell' = AdvanceCqHead(cq_head)
        <5>1. Gpu!ConsumeCqe
          BY <2>5 DEF Gpu!GpuDiscard, Gpu!GpuBatchDone, Gpu!GpuBatchError
        <5>2. cq_head' = AdvanceCqHead(cq_head) /\ cq_doorbell' = cq_head'
          BY <5>1, Instances DEF Gpu!ConsumeCqe
        <5>q. QED
          BY <5>2
      <4>q. QED
        BY <4>2, <4>3
    <3>3. CASE Gpu!GpuDiscard
      BY <1>0, <2>0, <3>1, <3>2, <3>3 DEF Gpu!GpuDiscard, Gpu!result, Typed, KernelInv, Waiting
    <3>4. CASE Gpu!GpuBatchDone
      <4>1. done' = done + Gpu!Batch /\ gpu_pc' = "loop" /\ res' = res /\ blocks_done' = blocks_done
        BY <3>4 DEF Gpu!GpuBatchDone, Gpu!result
      <4>2. done' \in 0 .. io.n
        BY <4>1, BatchFacts
      <4>q. QED
        BY <1>0, <2>0, <3>1, <3>2, <4>1, <4>2 DEF Typed, KernelInv, Waiting
    <3>5. CASE Gpu!GpuBatchError
      BY <1>0, <2>0, <3>1, <3>2, <3>5 DEF Gpu!GpuBatchError, Gpu!Return, Typed, KernelInv, Waiting
    <3>q. QED
      BY <2>5, <3>3, <3>4, <3>5
  <2>6. CASE Gpu!GpuFinish
    <3>1. done = io.n
      BY <2>6, BatchFacts DEF Gpu!GpuFinish, Typed
    <3>q. QED
      BY <1>0, <2>0, <2>6, <3>1 DEF Gpu!GpuFinish, Gpu!Return, Gpu!memory, Typed, KernelInv, Waiting
  <2>q. QED
    BY <1>3, <2>1, <2>2, <2>3, <2>4, <2>5, <2>6 DEF GpuOther
<1>q. QED
  BY <1>1, <1>2, <1>3 DEF GpuStep

LEMMA CqeTyped ==
    ASSUME NEW e \in Cqes, NEW c \in Cids, NEW st \in {0, 1, 2}, NEW p \in Phases
    PROVE  /\ [e EXCEPT !.cid = c] = [cid |-> c, status |-> e.status, phase |-> e.phase]
           /\ [e EXCEPT !.status = st] = [cid |-> e.cid, status |-> st, phase |-> e.phase]
           /\ [[e EXCEPT !.status = st] EXCEPT !.phase = p]
                = [cid |-> e.cid, status |-> st, phase |-> p]
           /\ [cid |-> c, status |-> e.status, phase |-> e.phase] \in Cqes
           /\ [cid |-> e.cid, status |-> st, phase |-> p] \in Cqes
<1>1. PICK f \in Cqes : f = [cid |-> e.cid, status |-> st, phase |-> e.phase]
  BY DEF Cqes
<1>2. [e EXCEPT !.status = st] = f
  BY <1>1 DEF Cqes
<1>3. [f EXCEPT !.phase = p] = [cid |-> f.cid, status |-> f.status, phase |-> p]
  BY DEF Cqes
<1>4. f.cid = e.cid /\ f.status = st
  BY <1>1
<1>5. [e EXCEPT !.cid = c] = [cid |-> c, status |-> e.status, phase |-> e.phase]
  BY DEF Cqes
<1>6. /\ [cid |-> c, status |-> e.status, phase |-> e.phase] \in Cqes
      /\ [cid |-> e.cid, status |-> st, phase |-> p] \in Cqes
  BY DEF Cqes
<1>q. QED
  BY <1>1, <1>2, <1>3, <1>4, <1>5, <1>6

\* The two steps in which a completion entry is written.
LEMMA CqeWritten ==
    ASSUME IInv, NEW t, t = sim_cq_tail
    PROVE  /\ t \in CqSlots /\ cq[t] \in Cqes
           /\ Sim!SimCqeBody =>
                cq' = [cq EXCEPT ![t] = [cid    |-> sim_cmd.dw0.cid,
                                         status |-> cq[t].status, phase |-> cq[t].phase]]
           /\ Sim!SimCqePhase =>
                cq' = [cq EXCEPT ![t] = [cid    |-> cq[t].cid,
                                         status |-> sim_status, phase |-> sim_phase]]
           /\ Sim!SimCqeBody \/ Sim!SimCqePhase => cq' \in [CqSlots -> Cqes]
<1>0. Typed
  BY DEF IInv
<1>1. t \in CqSlots /\ sim_phase \in Phases
  BY PosTyped
<1>2. cq \in [CqSlots -> Cqes] /\ cq[t] \in Cqes /\ sim_status \in {0, 1, 2} /\ sim_cmd.dw0.cid \in Cids
  BY <1>0, <1>1 DEF Typed, Sqes
<1>3. PICK e \in Cqes : e = cq[t]
  BY <1>2
<1>4. PICK c \in Cids : c = sim_cmd.dw0.cid
  BY <1>2
<1>5. ASSUME Sim!SimCqeBody
      PROVE  cq' = [cq EXCEPT ![t] = [cid |-> c, status |-> e.status, phase |-> e.phase]]
  <2>1. cq' = [cq EXCEPT ![t] = [cq[t] EXCEPT !.cid = c]]
    BY <1>4, <1>5 DEF Sim!SimCqeBody, Sim!CqeBody
  <2>2. [e EXCEPT !.cid = c] = [cid |-> c, status |-> e.status, phase |-> e.phase]
    BY <1>1, <1>2, CqeTyped
  <2>q. QED
    BY <1>3, <2>1, <2>2
<1>6. ASSUME Sim!SimCqePhase
      PROVE  cq' = [cq EXCEPT ![t] = [cid |-> e.cid, status |-> sim_status, phase |-> sim_phase]]
  <2>1. cq' = [cq EXCEPT ![t].status = sim_status, ![t].phase = sim_phase]
    BY <1>6 DEF Sim!SimCqePhase
  <2>2. cq' = [cq EXCEPT ![t] = [[cq[t] EXCEPT !.status = sim_status] EXCEPT !.phase = sim_phase]]
    BY <1>1, <1>2, <2>1
  <2>3. PICK st \in {0, 1, 2}, p \in Phases : st = sim_status /\ p = sim_phase
    BY <1>1, <1>2
  <2>4. [[e EXCEPT !.status = st] EXCEPT !.phase = p] = [cid |-> e.cid, status |-> st, phase |-> p]
    BY CqeTyped
  <2>q. QED
    BY <1>3, <2>2, <2>3, <2>4
<1>7. /\ [cid |-> c, status |-> e.status, phase |-> e.phase] \in Cqes
      /\ [cid |-> e.cid, status |-> sim_status, phase |-> sim_phase] \in Cqes
  BY <1>1, <1>2, CqeTyped
<1>8. Sim!SimCqeBody \/ Sim!SimCqePhase => cq' \in [CqSlots -> Cqes]
  BY <1>1, <1>2, <1>5, <1>6, <1>7
<1>q. QED
  BY <1>1, <1>2, <1>3, <1>4, <1>5, <1>6, <1>8

LEMMA SimTyped ==
    ASSUME IInv, SimStep \/ Create \/ Destroy
    PROVE  Typed' /\ KernelInv'
<1> USE DEF IInv
<1>0. UNCHANGED <<io, done, target, timeouts, calls, late, gpu_pc, res, blocks_done, cq_doorbell>>
  BY DEF SimStep, Copy, SimOther, Create, Destroy, gpuLocal
<1>1. KernelInv'
  BY <1>0 DEF KernelInv, Waiting
<1>2. CASE Copy
  <2>1. sim_cmd' = sq[sim_sq_head] /\ sim_pc' = "exec" /\ want' = Head(pend) /\ pend' = Tail(pend)
        /\ UNCHANGED <<sq, cq, vdev, buf, sim_status>> /\ sim_pc = "copy"
    BY <1>2 DEF Copy, Sim!SimCopy, Sim!shared
  <2>2. sim_cmd' \in Sqes
    BY <2>1, PosTyped DEF Typed
  <2>3. want' \in Sqes /\ pend' \in Seq(Sqes)
    BY <2>1, PosTyped DEF Typed
  <2>q. QED
    BY <1>0, <1>1, <2>1, <2>2, <2>3 DEF Typed
<1>3. CASE SimOther
  <2>0. UNCHANGED <<pend, want>>
    BY <1>3 DEF SimOther
  <2>1. CASE Sim!SimSeeDoorbell \/ Sim!SimExit
    BY <1>0, <1>1, <2>0, <2>1 DEF Sim!SimSeeDoorbell, Sim!SimExit, Sim!shared, Typed
  <2>2. CASE Sim!SimExecute
    <3>1. sim_status' \in {0, 1, 2}
      BY <2>2 DEF Sim!SimExecute, Sim!StatusOf, Sim!SUCCESS, Sim!INVALID_FIELD, Sim!INVALID_OPCODE
    <3>2. DOMAIN buf' = DOMAIN buf /\ DOMAIN vdev' = DOMAIN vdev
      BY <2>2 DEF Sim!SimExecute, Sim!ReadInto, Sim!WriteFrom
    <3>3. sim_pc' = "cqe" /\ UNCHANGED <<sq, cq, sim_cmd>>
      BY <2>2 DEF Sim!SimExecute
    <3>q. QED
      BY <1>0, <1>1, <2>0, <3>1, <3>2, <3>3 DEF Typed
  <2>3. CASE Sim!SimCqeBody \/ Sim!SimCqePhase
    <3>1. cq' \in [CqSlots -> Cqes]
      BY <2>3, CqeWritten
    <3>2. sim_pc' \in {"phase", "poll"} /\ UNCHANGED <<sq, vdev, buf, sim_cmd, sim_status>>
      BY <2>3 DEF Sim!SimCqeBody, Sim!SimCqePhase
    <3>q. QED
      BY <1>0, <1>1, <2>0, <3>1, <3>2 DEF Typed
  <2>4. CASE Sim!SimFree
    BY <1>0, <1>1, <2>0, <2>4 DEF Sim!SimFree, Sim!Joined, Sim!shared, Typed
  <2>q. QED
    BY <1>3, <2>1, <2>2, <2>3, <2>4 DEF SimOther
<1>4. CASE Create
  <2>1. UNCHANGED <<sq, cq, vdev, buf, sim_cmd, sim_status, pend, want>>
    BY <1>4 DEF Create, Sim!SimCreate, Sim!SimCreateFails, Sim!shared
  <2>2. sim_pc' \in {"poll", "exited", "crashed"}
    BY <1>4 DEF Create, Sim!SimCreate, Sim!SimCreateFails
  <2>q. QED
    BY <1>0, <1>1, <2>1, <2>2 DEF Typed
<1>5. CASE Destroy
  BY <1>0, <1>1, <1>5 DEF Destroy, Sim!SimDestroy, Sim!shared, Typed
<1>q. QED
  BY <1>2, <1>3, <1>4, <1>5 DEF SimStep

----------------------------------------------------------------------------
(* The poller thread's memory, the buffer of a write *)

\* The entry the simulator copies is the oldest command, whole.
LEMMA CopyRight ==
    ASSUME IInv, sim_pc = "copy"
    PROVE  sq[sim_sq_head] = pend[1] /\ pend[1] = Head(pend) /\ pend # <<>>
<1>1. PICK S \in Nat, H \in Nat, C \in Nat : Inv(S, H, C)
  BY DEF IInv
<1>2. Typed /\ CountInv(S, H, C) /\ PosInv(S, H, C) /\ SqInv(S, H)
  BY <1>1 DEF IInv, Inv, RingInv
<1>3. Copied(H) = H /\ H < Rung(S) /\ sim_sq_head = H % SqSize /\ Rung(S) \in Nat /\ Rung(S) <= S
  BY <1>2, Bounds DEF CountInv, PosInv, Copied, Busy
<1>4. Len(pend) >= 1 /\ Len(pend) = S - H
  BY <1>2, <1>3 DEF SqInv
<1>5. InRing(H, pend[1])
  <2>1. 1 \in 1 .. Len(pend) /\ H + 1 - 1 = H
    BY <1>4
  <2>q. QED
    BY <1>2, <1>3, <2>1 DEF SqInv, Kept
<1>6. pend \in Seq(Sqes) /\ pend # <<>>
  BY <1>2, <1>4 DEF Typed
<1>q. QED
  BY <1>3, <1>5, <1>6 DEF InRing

LEMMA ThreadStep ==
    ASSUME IInv, Next
    PROVE  ThreadInv'
<1> USE DEF IInv
<1>1. CASE (\E r \in Requests : Start(r)) \/ GpuStep
  BY <1>1 DEF Start, GpuStep, Submit, GpuOther, simLocal, ThreadInv
<1>2. CASE Copy
  BY <1>2 DEF Copy, Sim!SimCopy, Sim!rings, ThreadInv
<1>3. CASE SimOther
  BY <1>3 DEF SimOther, Sim!SimSeeDoorbell, Sim!SimExecute, Sim!SimCqeBody, Sim!SimCqePhase,
              Sim!SimExit, Sim!SimFree, Sim!Joined, Sim!rings, ThreadInv
<1>4. CASE Create
  BY <1>4 DEF Create, Sim!SimCreate, Sim!SimCreateFails, ThreadInv
<1>5. CASE Destroy
  BY <1>5 DEF Destroy, Sim!SimDestroy, ThreadInv
<1>q. QED
  BY <1>1, <1>2, <1>3, <1>4, <1>5 DEF Next, SimStep

LEMMA WriteStep ==
    ASSUME IInv, Next
    PROVE  WriteInv'
<1> USE DEF IInv
<1> SUFFICES ASSUME io'.op = "write", ~late' PROVE WriteInv'
  BY DEF WriteInv
<1>0. Typed
  OBVIOUS
<1>1. ASSUME NEW r \in Requests, Start(r) PROVE WriteInv'
  <2>1. io' = r /\ pend' = pend /\ sim_pc' = sim_pc /\ late' = (pend # <<>> \/ sim_pc # "poll")
        /\ calls' = calls + 1
    BY <1>1 DEF Start, Gpu!GpuStart, simLocal
  <2>2. pend = <<>> /\ sim_pc = "poll"
    BY <2>1
  <2>3. buf' = [i \in BufBlocks |-> CallerData(calls', i)]
    BY <1>1, <2>1 DEF Start
  <2>q. QED
    BY <2>1, <2>2, <2>3 DEF WriteInv
<1>2. ASSUME UNCHANGED <<io, late, calls, buf, pend, sim_cmd>>, sim_pc' = "exec" => sim_pc = "exec"
      PROVE  WriteInv'
  BY <1>2 DEF WriteInv
<1>3. CASE Submit
  <2>1. UNCHANGED <<io, late, calls, buf, sim_pc, sim_cmd>>
    BY <1>3 DEF Submit, Gpu!GpuSubmit, simLocal
  <2>2. PICK cmd \in Sqes : cmd = Gpu!Command(cid_counter) /\ cmd.dw0.op = "write"
    BY <2>1, CommandTyped, PosTyped
  <2>3. pend' = Append(pend, cmd) /\ pend \in Seq(Sqes)
    BY <1>3, <2>2 DEF Submit, Typed
  <2>4. \A k \in 1 .. Len(pend') : pend'[k] = IF k <= Len(pend) THEN pend[k] ELSE cmd
    BY <2>3
  <2>5. \A k \in 1 .. Len(pend) : pend[k].dw0.op = "write"
    BY <2>1 DEF WriteInv
  <2>6. \A k \in 1 .. Len(pend') : pend'[k].dw0.op = "write"
    BY <2>2, <2>3, <2>4, <2>5
  <2>q. QED
    BY <2>1, <2>6 DEF WriteInv
<1>4. CASE GpuOther
  <2>1. UNCHANGED <<late, calls, buf, pend, sim_pc, sim_cmd>>
    BY <1>4 DEF GpuOther, simLocal
  <2>2. io' = io
    BY <1>4 DEF GpuOther, Gpu!GpuStore, Gpu!GpuDoorbell, Gpu!GpuOuter, Gpu!GpuPollTimeout,
                Gpu!GpuDiscard, Gpu!GpuBatchDone, Gpu!GpuBatchError, Gpu!GpuFinish
  <2>q. QED
    BY <1>2, <2>1, <2>2
<1>5. CASE Copy
  <2>1. UNCHANGED <<io, late, calls, buf>> /\ sim_cmd' = sq[sim_sq_head] /\ pend' = Tail(pend)
        /\ sim_pc = "copy"
    BY <1>5 DEF Copy, Sim!SimCopy, Sim!shared, gpuLocal
  <2>2. pend # <<>> /\ pend \in Seq(Sqes)
    BY <2>1, PosTyped DEF Typed
  <2>3. \A k \in 1 .. Len(pend) : pend[k].dw0.op = "write"
    BY <2>1 DEF WriteInv
  <2>4. \A k \in 1 .. Len(pend') : pend'[k].dw0.op = "write"
    BY <2>1, <2>2, <2>3
  <2>5. sim_cmd' = pend[1]
    BY <2>1, CopyRight
  <2>q. QED
    BY <2>1, <2>2, <2>3, <2>4, <2>5 DEF WriteInv
<1>6. CASE SimOther
  <2>1. UNCHANGED <<io, late, calls, pend>>
    BY <1>6 DEF SimOther, gpuLocal
  <2>2. CASE Sim!SimExecute
    <3>1. sim_pc' = "cqe" /\ sim_pc = "exec"
      BY <2>2 DEF Sim!SimExecute
    <3>2. sim_cmd.dw0.op = "write"
      BY <2>1, <3>1 DEF WriteInv
    <3>3. buf' = buf
      BY <2>2, <3>2 DEF Sim!SimExecute
    <3>q. QED
      BY <2>1, <3>1, <3>3 DEF WriteInv
  <2>3. CASE Sim!SimSeeDoorbell \/ Sim!SimCqeBody \/ Sim!SimCqePhase \/ Sim!SimExit \/ Sim!SimFree
    <3>1. UNCHANGED <<buf, sim_cmd>> /\ sim_pc' # "exec"
      BY <2>3 DEF Sim!SimSeeDoorbell, Sim!SimCqeBody, Sim!SimCqePhase, Sim!SimExit, Sim!SimFree,
                  Sim!Joined, Sim!shared
    <3>q. QED
      BY <1>2, <2>1, <3>1
  <2>q. QED
    BY <1>6, <2>2, <2>3 DEF SimOther
<1>7. CASE Create \/ Destroy
  <2>1. UNCHANGED <<io, late, calls, pend, buf, sim_cmd>>
    BY <1>7 DEF Create, Destroy, Sim!SimCreate, Sim!SimCreateFails, Sim!SimDestroy, Sim!shared, gpuLocal
  <2>2. sim_pc' = "exec" => sim_pc = "exec"
    BY <1>7 DEF Create, Destroy, Sim!SimCreate, Sim!SimCreateFails, Sim!SimDestroy
  <2>q. QED
    BY <1>2, <2>1, <2>2
<1>q. QED
  BY <1>1, <1>3, <1>4, <1>5, <1>6, <1>7 DEF Next, GpuStep, SimStep

LEMMA AskedStep ==
    ASSUME IInv, Next
    PROVE  AskedInv'
<1> USE DEF IInv
<1>0. Typed /\ AskedInv
  OBVIOUS
<1>1. ASSUME NEW r \in Requests, Start(r) PROVE AskedInv'
  <2>1. io' = r /\ UNCHANGED <<vdev, pend, sim_pc, sim_cmd>>
    BY <1>1 DEF Start, Gpu!GpuStart, simLocal
  <2>2. asked \subseteq asked' /\ (r.op = "write" => r.lba .. r.lba + r.n - 1 \subseteq asked')
    BY <1>1 DEF Start
  <2>3. Busy' = Busy
    BY <2>1 DEF Busy
  <2>q. QED
    BY <1>0, <2>1, <2>2, <2>3 DEF AskedInv, Covered
<1>2. ASSUME UNCHANGED <<vdev, asked, io, pend, sim_cmd>>, Busy' => Busy, gpu_pc' # "idle" => gpu_pc # "idle"
      PROVE  AskedInv'
  BY <1>0, <1>2 DEF AskedInv, Covered
<1>3. CASE Submit
  <2>1. UNCHANGED <<vdev, asked, io, sim_pc, sim_cmd>> /\ gpu_pc = "loop"
        /\ pend' = Append(pend, Gpu!Command(cid_counter))
    BY <1>3 DEF Submit, Gpu!GpuSubmit, simLocal
  <2>2. PICK c \in Cids : c = cid_counter
    BY PosTyped
  <2>3. PICK b \in Nat, d \in Nat, l \in Nat, n \in Nat :
            b = Gpu!Batch /\ d = done /\ l = io.lba /\ n = io.n /\ d + b <= n
    BY <1>0, BatchFacts
  <2>4. /\ Gpu!Command(c).dw0.op = io.op /\ Gpu!Command(c) \in Sqes
        /\ Gpu!Command(c).args.slba = l + d /\ Gpu!Command(c).args.nlb = b
    BY <1>0, <2>3, CommandTyped
  <2>5. l + d .. l + d + b - 1 \subseteq l .. l + n - 1
    BY <2>3
  <2>6. Covered(Gpu!Command(c))
    BY <1>0, <2>1, <2>3, <2>4, <2>5 DEF AskedInv, Covered
  <2>7. \A k \in 1 .. Len(pend') : pend'[k] = Gpu!Command(c) \/ (k \in 1 .. Len(pend) /\ pend'[k] = pend[k])
    BY <1>0, <2>1, <2>2, <2>4 DEF Typed
  <2>8. \A k \in 1 .. Len(pend') : Covered(pend'[k])
    BY <1>0, <2>6, <2>7 DEF AskedInv
  <2>9. \A cmd : Covered(cmd)' = Covered(cmd)
    BY <2>1 DEF Covered
  <2>q. QED
    BY <1>0, <2>1, <2>8 DEF AskedInv, Covered, Busy
<1>4. CASE GpuOther
  <2>1. UNCHANGED <<vdev, asked, pend, sim_pc, sim_cmd>>
    BY <1>4 DEF GpuOther, simLocal
  <2>2. io' = io /\ (gpu_pc' # "idle" => gpu_pc # "idle")
    BY <1>4 DEF GpuOther, Gpu!GpuStore, Gpu!GpuDoorbell, Gpu!GpuOuter, Gpu!GpuPollTimeout, Gpu!GpuDiscard,
                Gpu!GpuBatchDone, Gpu!GpuBatchError, Gpu!GpuFinish, Gpu!Return
  <2>q. QED
    BY <1>2, <2>1, <2>2 DEF Busy
<1>5. CASE Copy
  <2>1. UNCHANGED <<vdev, asked, io, gpu_pc>> /\ sim_cmd' = sq[sim_sq_head] /\ pend' = Tail(pend)
        /\ sim_pc = "copy"
    BY <1>5 DEF Copy, Sim!SimCopy, Sim!shared, gpuLocal
  <2>2. pend \in Seq(Sqes) /\ pend # <<>> /\ sim_cmd' = pend[1]
    BY <1>0, <2>1, CopyRight DEF Typed
  <2>3. 1 \in 1 .. Len(pend) /\ \A k \in 1 .. Len(pend') : k + 1 \in 1 .. Len(pend) /\ pend'[k] = pend[k + 1]
    BY <2>1, <2>2
  <2>4. Covered(sim_cmd') /\ \A k \in 1 .. Len(pend') : Covered(pend'[k])
    BY <1>0, <2>2, <2>3 DEF AskedInv
  <2>q. QED
    BY <1>0, <2>1, <2>4 DEF AskedInv, Covered
<1>6. CASE SimOther /\ Sim!SimExecute
  <2>1. UNCHANGED <<asked, io, gpu_pc, pend, sim_cmd>> /\ sim_pc = "exec"
    BY <1>6 DEF SimOther, Sim!SimExecute, gpuLocal
  <2>2. DOMAIN vdev' = DOMAIN vdev
    BY <1>6 DEF Sim!SimExecute, Sim!WriteFrom
  <2>3. Covered(sim_cmd)
    BY <1>0, <2>1 DEF AskedInv, Busy
  <2>4. ASSUME NEW l \in DOMAIN vdev, l \notin asked PROVE vdev'[l] = vdev[l]
    BY <1>6, <2>3, <2>4 DEF Sim!SimExecute, Sim!WriteFrom, Covered
  <2>q. QED
    BY <1>0, <2>1, <2>2, <2>3, <2>4 DEF AskedInv, Covered
<1>7. CASE \/ SimOther /\ ~Sim!SimExecute
           \/ Create \/ Destroy
  <2>1. UNCHANGED <<vdev, asked, io, gpu_pc, pend, sim_cmd>>
    BY <1>7 DEF SimOther, Create, Destroy, gpuLocal, Sim!SimSeeDoorbell, Sim!SimCqeBody, Sim!SimCqePhase,
           Sim!SimExit, Sim!SimFree, Sim!SimCreate, Sim!SimCreateFails, Sim!SimDestroy, Sim!shared
  <2>2. Busy' => Busy
    BY <1>7 DEF SimOther, Create, Destroy, Sim!SimSeeDoorbell, Sim!SimCqeBody, Sim!SimCqePhase,
           Sim!SimExit, Sim!SimFree, Sim!SimCreate, Sim!SimCreateFails, Sim!SimDestroy, Busy
  <2>q. QED
    BY <1>2, <2>1, <2>2
<1>q. QED
  BY <1>1, <1>3, <1>4, <1>5, <1>6, <1>7 DEF Next, GpuStep, SimStep

----------------------------------------------------------------------------
(* The rings and the data, step by step: the kernel *)

LEMMA CommandSame ==
    ASSUME UNCHANGED <<io, done>>
    PROVE  Gpu!Batch' = Gpu!Batch /\ \A c : Gpu!Command(c)' = Gpu!Command(c)
BY DEF Gpu!Batch, Gpu!Command, Gpu!CurPhys

LEMMA StartInv ==
    ASSUME IInv, NEW S \in Nat, NEW H \in Nat, NEW C \in Nat, Inv(S, H, C),
           NEW r \in Requests, Start(r)
    PROVE  Inv(S, H, C)'
<1> USE DEF Inv, RingInv
<1>1. gpu_pc = "idle" /\ gpu_pc' = "loop" /\ done' = 0
      /\ UNCHANGED <<sq, cq, sq_doorbell, sq_tail, cq_head, cq_phase, cid_counter, sb, target,
                     timeouts, pend, want>>
  BY DEF Start, Gpu!GpuStart, Gpu!memory, Gpu!queue
<1>2. UNCHANGED <<sim_pc, sim_cmd, sim_sq_head, sim_cq_tail, sim_phase>>
  BY DEF Start, simLocal
<1>3. CountInv(S, H, C)' /\ PosInv(S, H, C)'
  BY <1>1, <1>2 DEF CountInv, PosInv, Copied, Busy, Rung, Waiting
<1>4. SqInv(S, H)'
  BY <1>1, <1>2 DEF SqInv, Kept, Copied, Busy, Rung, InRing, OnItsWay
<1>5. CqInv(H, C)'
  BY <1>1, <1>2 DEF CqInv
<1>6. DataInv(S, H, C)'
  BY <1>1 DEF DataInv, Agree, Waiting
<1>q. QED
  BY <1>3, <1>4, <1>5, <1>6

LEMMA SubmitInv ==
    ASSUME IInv, NEW S \in Nat, NEW H \in Nat, NEW C \in Nat, Inv(S, H, C), Submit
    PROVE  \E T \in Nat : Inv(T, H, C)'
<1> SUFFICES ASSUME NEW T \in Nat, T = S + 1 PROVE Inv(T, H, C)'
  OBVIOUS
<1>0. Typed /\ CountInv(S, H, C) /\ PosInv(S, H, C) /\ SqInv(S, H) /\ CqInv(H, C) /\ DataInv(S, H, C)
  BY DEF IInv, Inv, RingInv
<1>c. PICK cmd \in Sqes : cmd = Gpu!Command(S % CidMod) /\ cmd.dw0.cid = S % CidMod
  BY <1>0, Advance, CommandTyped
<1>1. gpu_pc = "loop" /\ gpu_pc' = "fence"
      /\ UNCHANGED <<sq, cq, sq_doorbell, cq_head, cq_phase, io, done, timeouts>>
  BY DEF Submit, Gpu!GpuSubmit, Gpu!memory, Gpu!result
<1>2. UNCHANGED <<sim_pc, sim_cmd, sim_status, sim_sq_head, sim_cq_tail, sim_phase, vdev, buf, want>>
  BY DEF Submit, simLocal
<1>3. cid_counter = S % CidMod /\ sq_tail = S % SqSize
  BY <1>0 DEF PosInv
<1>4. target' = S % CidMod /\ cid_counter' = (S + 1) % CidMod /\ sq_tail' = (S + 1) % SqSize
  <2>1. target' = S % CidMod /\ cid_counter' = NextCid(S % CidMod) /\ sq_tail' = AdvanceSqTail(S % SqSize)
    BY <1>3, Instances DEF Submit, Gpu!GpuSubmit
  <2>q. QED
    BY <2>1, Advance
<1>5. sb' = {[slot |-> S % SqSize, dw0 |-> f, sqe |-> cmd] : f \in BOOLEAN} /\ pend' = Append(pend, cmd)
  BY <1>3, <1>c DEF Submit, Gpu!GpuSubmit
<1>7. /\ Copied(H) \in Nat /\ Copied(H) <= S /\ Copied(H)' = Copied(H) /\ Busy' = Busy
      /\ Executed(H)' = Executed(H) /\ Executed(H) <= Copied(H) /\ Executed(H) \in Nat
      /\ Rung(S) = S /\ Rung(T)' = S /\ ~Waiting /\ Waiting'
      /\ timeouts \in Nat /\ C <= H /\ H <= Copied(H)
  BY <1>0, <1>1, <1>2, Bounds DEF Copied, Busy, Executed, Rung, Waiting
<1>8. CountInv(T, H, C)'
  BY <1>0, <1>1, <1>2, <1>7 DEF CountInv
<1>9. PosInv(T, H, C)'
  BY <1>0, <1>1, <1>2, <1>4, <1>7 DEF PosInv
<1>10. pend \in Seq(Sqes) /\ Len(pend) = S - Copied(H) /\ Len(pend) \in Nat
  BY <1>0, <1>7 DEF Typed, SqInv
<1>a. Len(pend') = Len(pend) + 1 /\ pend'[Len(pend')] = cmd
      /\ \A k \in 1 .. Len(pend) : pend'[k] = pend[k]
  BY <1>5, <1>10
<1>11. SqInv(T, H)'
  <2>1. ASSUME NEW k \in 1 .. Len(pend'), NEW i \in Nat, i = Copied(H)' + k - 1
        PROVE  Kept(k, i, T)'
    <3>0. i = Copied(H) + k - 1
      BY <1>7, <2>1
    <3>1. CASE k <= Len(pend)
      <4>0. k \in 1 .. Len(pend) /\ i < S
        BY <1>7, <1>10, <3>0, <3>1
      <4>1. k \in 1 .. Len(pend) /\ i < S /\ pend'[k] = pend[k]
        BY <1>a, <4>0
      <4>2. pend[k].dw0.cid = i % CidMod /\ InRing(i, pend[k])
        BY <1>0, <1>7, <3>0, <4>1 DEF SqInv, Kept
      <4>q. QED
        BY <1>1, <1>7, <4>1, <4>2 DEF InRing, Kept
    <3>2. CASE k > Len(pend)
      <4>0. k = Len(pend) + 1
        BY <1>10, <1>a, <3>2
      <4>a. i = S
        BY <1>7, <1>10, <3>0, <4>0
      <4>b. k = Len(pend')
        BY <1>a, <4>0
      <4>1. k = Len(pend') /\ i = S /\ pend'[k] = cmd
        BY <1>a, <4>a, <4>b
      <4>2. OnItsWay(S, cmd)'
        <5>1. \A f \in BOOLEAN : [slot |-> S % SqSize, dw0 |-> f, sqe |-> cmd] \in sb'
          BY <1>5
        <5>q. QED
          BY <1>5, <5>1 DEF OnItsWay
      <4>3. OnItsWay(i, pend[k])'
        BY <4>1, <4>2 DEF OnItsWay
      <4>q. QED
        BY <1>7, <1>c, <4>1, <4>3 DEF Kept
    <3>q. QED
      BY <1>10, <1>a, <3>1, <3>2
  <2>2. \A k \in 1 .. Len(pend'), i \in Nat : i = Copied(H)' + k - 1 => Kept(k, i, T)'
    BY <2>1
  <2>3. Len(pend') = T - Copied(H)'
    BY <1>7, <1>10, <1>a
  <2>4. gpu_pc' # "fence" => sb' = {}
    BY <1>1
  <2>5. Busy' => sim_cmd' = want' /\ want'.dw0.cid = H % CidMod
    BY <1>0, <1>2, <1>7 DEF SqInv
  <2>q. QED
    BY <2>2, <2>3, <2>4, <2>5 DEF SqInv
<1>12. CqInv(H, C)'
  BY <1>0, <1>1, <1>2 DEF CqInv
<1>13. DataInv(T, H, C)'
  <2>1. Agree(0, done)'
    BY <1>0, <1>1, <1>2 DEF DataInv, Agree
  <2>2. done' > 0 => T <= C + 1
    BY <1>0, <1>1 DEF DataInv
  <2>3. LastIsCurrent(T, H)'
    <3>1. T - 1 = S /\ Copied(H)' < T /\ Copied(H)' # T
      BY <1>7
    <3>2. pend'[Len(pend')] = Gpu!Command(S % CidMod)'
      BY <1>1, <1>a, <1>c, CommandSame
    <3>q. QED
      BY <3>1, <3>2 DEF LastIsCurrent
  <2>4. Executed(H)' # T
    BY <1>7
  <2>q. QED
    BY <1>1, <2>1, <2>2, <2>3, <2>4 DEF DataInv
<1>q. QED
  BY <1>8, <1>9, <1>11, <1>12, <1>13 DEF Inv, RingInv

\* A store of the entry being built: other entries are in other slots.
LEMMA StoreInv ==
    ASSUME IInv, NEW S \in Nat, NEW H \in Nat, NEW C \in Nat, Inv(S, H, C), GpuOther, Gpu!GpuStore
    PROVE  Inv(S, H, C)'
<1>0. Typed /\ CountInv(S, H, C) /\ PosInv(S, H, C) /\ SqInv(S, H) /\ CqInv(H, C) /\ DataInv(S, H, C)
  BY DEF IInv, Inv, RingInv
<1>1. UNCHANGED <<cq, sq_doorbell, sq_tail, cq_head, cq_phase, cid_counter, gpu_pc, io, done, target,
                  timeouts>>
  BY DEF Gpu!GpuStore, Gpu!queue, Gpu!result
<1>2. UNCHANGED <<sim_pc, sim_cmd, sim_status, sim_sq_head, sim_cq_tail, sim_phase, vdev, buf, pend, want>>
  BY DEF GpuOther, simLocal
<1>3. PICK w \in sb : sb' = sb \ {w} /\
          sq' = [sq EXCEPT ![w.slot] = IF w.dw0 THEN [sq[w.slot] EXCEPT !.dw0 = w.sqe.dw0]
                                                ELSE [sq[w.slot] EXCEPT !.args = w.sqe.args]]
  BY DEF Gpu!GpuStore
<1>4. gpu_pc = "fence"
  BY <1>3, PosTyped
<1>5. /\ Copied(H)' = Copied(H) /\ Busy' = Busy /\ Executed(H)' = Executed(H) /\ Rung(S)' = Rung(S)
      /\ Waiting' = Waiting
  BY <1>1, <1>2 DEF Copied, Busy, Executed, Rung, Waiting
<1>6. /\ Copied(H) \in Nat /\ Copied(H) < S /\ C <= Copied(H) /\ S - C < SqSize /\ Rung(S) = S - 1
      /\ S \in Nat \ {0}
  BY <1>0, <1>4, Bounds DEF CountInv, Rung
<1>7. PICK n \in Nat, u \in SqSlots : n = S - 1 /\ u = n % SqSize
  BY <1>6, Advance
<1>8. pend \in Seq(Sqes) /\ Len(pend) = S - Copied(H) /\ Len(pend) \in Nat \ {0}
  BY <1>0, <1>6 DEF Typed, SqInv
<1>9. PICK cmd \in Sqes : cmd = pend[Len(pend)]
  BY <1>8
<1>10. OnItsWay(n, cmd)
  <2>1. Len(pend) \in 1 .. Len(pend) /\ n = Copied(H) + Len(pend) - 1
    BY <1>6, <1>7, <1>8
  <2>2. Kept(Len(pend), n, S)
    BY <1>0, <2>1 DEF SqInv
  <2>3. n >= Rung(S)
    BY <1>6, <1>7
  <2>q. QED
    BY <1>9, <2>2, <2>3 DEF Kept
<1>11. PICK e \in Sqes : e = sq[u]
  BY <1>0, <1>7 DEF Typed
<1>12. PICK f \in BOOLEAN : w = [slot |-> u, dw0 |-> f, sqe |-> cmd]
  BY <1>3, <1>7, <1>10 DEF OnItsWay
<1>13. sq' = [sq EXCEPT ![u] = IF f THEN [dw0 |-> cmd.dw0, args |-> e.args]
                                    ELSE [dw0 |-> e.dw0, args |-> cmd.args]]
  <2>1. sq' = [sq EXCEPT ![u] = IF f THEN [e EXCEPT !.dw0 = cmd.dw0] ELSE [e EXCEPT !.args = cmd.args]]
    BY <1>3, <1>11, <1>12
  <2>2. /\ [e EXCEPT !.dw0 = cmd.dw0] = [dw0 |-> cmd.dw0, args |-> e.args]
        /\ [e EXCEPT !.args = cmd.args] = [dw0 |-> e.dw0, args |-> cmd.args]
    BY StoreTyped
  <2>q. QED
    BY <2>1, <2>2
<1>14. OnItsWay(n, cmd)'
  <2>1. sb' \subseteq {[slot |-> u, dw0 |-> g, sqe |-> cmd] : g \in BOOLEAN}
    BY <1>3, <1>7, <1>10 DEF OnItsWay
  <2>2. sq'[u] = IF f THEN [dw0 |-> cmd.dw0, args |-> e.args] ELSE [dw0 |-> e.dw0, args |-> cmd.args]
    BY <1>0, <1>7, <1>13 DEF Typed
  <2>3. /\ [slot |-> u, dw0 |-> TRUE, sqe |-> cmd] \in sb \/ e.dw0 = cmd.dw0
        /\ [slot |-> u, dw0 |-> FALSE, sqe |-> cmd] \in sb \/ e.args = cmd.args
    BY <1>7, <1>10, <1>11 DEF OnItsWay
  <2>4. [slot |-> u, dw0 |-> TRUE, sqe |-> cmd] # [slot |-> u, dw0 |-> FALSE, sqe |-> cmd]
    <3>1. [slot |-> u, dw0 |-> TRUE, sqe |-> cmd].dw0 # [slot |-> u, dw0 |-> FALSE, sqe |-> cmd].dw0
      OBVIOUS
    <3>q. QED
      BY <3>1
  <2>5. CASE f = TRUE
    <3>1. sq'[u].dw0 = cmd.dw0 /\ sq'[u].args = e.args
      BY <2>2, <2>5
    <3>2. [slot |-> u, dw0 |-> FALSE, sqe |-> cmd] \in sb' \/ e.args = cmd.args
      BY <1>3, <1>12, <2>3, <2>4, <2>5
    <3>q. QED
      BY <1>7, <2>1, <3>1, <3>2 DEF OnItsWay
  <2>6. CASE f = FALSE
    <3>1. sq'[u].args = cmd.args /\ sq'[u].dw0 = e.dw0
      BY <2>2, <2>6
    <3>2. [slot |-> u, dw0 |-> TRUE, sqe |-> cmd] \in sb' \/ e.dw0 = cmd.dw0
      BY <1>3, <1>12, <2>3, <2>4, <2>6
    <3>q. QED
      BY <1>7, <2>1, <3>1, <3>2 DEF OnItsWay
  <2>q. QED
    BY <2>5, <2>6
<1>15. ASSUME NEW k \in 1 .. Len(pend), NEW i \in Nat, i = Copied(H) + k - 1 PROVE Kept(k, i, S)'
  <2>1. Kept(k, i, S)
    BY <1>0, <1>15 DEF SqInv
  <2>2. CASE i < S - 1
    <3>1. i % SqSize # u /\ i % SqSize \in SqSlots
      <4>1. i < n /\ n - i < SqSize
        BY <1>6, <1>7, <1>15, <2>2
      <4>2. SqSize \in Nat \ {0}
        OBVIOUS
      <4>q. QED
        BY <1>7, <4>1, <4>2, ModApart, Advance
    <3>2. sq'[i % SqSize] = sq[i % SqSize]
      BY <1>0, <1>13, <3>1 DEF Typed
    <3>q. QED
      BY <1>2, <1>5, <1>6, <2>1, <2>2, <3>2 DEF Kept, InRing
  <2>3. CASE i >= S - 1
    <3>0. PICK L \in Nat, m \in Nat : L = Len(pend) /\ m = Copied(H)
      BY <1>6, <1>8
    <3>a. L = S - m /\ k \in 1 .. L /\ i = m + k - 1
      BY <1>8, <1>15, <3>0
    <3>b. i = n /\ k = L
      BY ONLY <1>7, <2>3, <3>a, S \in Nat, m \in Nat, L \in Nat, n \in Nat, i \in Nat
    <3>1. i = n /\ pend'[k] = cmd /\ pend[k] = cmd
      BY <1>2, <1>9, <3>0, <3>b
    <3>2. OnItsWay(i, pend[k])'
      BY <1>14, <3>1 DEF OnItsWay
    <3>3. ~(i < Rung(S)')
      BY <1>5, <1>6, <1>7, <3>1
    <3>q. QED
      BY <2>1, <3>1, <3>2, <3>3 DEF Kept
  <2>q. QED
    BY <1>6, <2>2, <2>3
<1>16. SqInv(S, H)'
  <2>1. \A k \in 1 .. Len(pend'), i \in Nat : i = Copied(H)' + k - 1 => Kept(k, i, S)'
    BY <1>2, <1>5, <1>15
  <2>q. QED
    BY <1>0, <1>1, <1>2, <1>4, <1>5, <2>1 DEF SqInv
<1>17. CountInv(S, H, C)' /\ PosInv(S, H, C)' /\ CqInv(H, C)'
  BY <1>0, <1>1, <1>2, <1>5 DEF CountInv, PosInv, CqInv
<1>18. DataInv(S, H, C)'
  BY <1>0, <1>1, <1>2, <1>5, CommandSame DEF DataInv, Agree, LastIsCurrent, LastStatus
<1>q. QED
  BY <1>16, <1>17, <1>18 DEF Inv, RingInv

\* After the fence the whole entry is in the ring.
LEMMA DoorbellInv ==
    ASSUME IInv, NEW S \in Nat, NEW H \in Nat, NEW C \in Nat, Inv(S, H, C), GpuOther, Gpu!GpuDoorbell
    PROVE  Inv(S, H, C)'
<1>0. Typed /\ CountInv(S, H, C) /\ PosInv(S, H, C) /\ SqInv(S, H) /\ CqInv(H, C) /\ DataInv(S, H, C)
  BY DEF IInv, Inv, RingInv
<1>1. gpu_pc = "fence" /\ gpu_pc' = "outer" /\ sb = {} /\ sq_doorbell' = sq_tail
      /\ UNCHANGED <<sq, cq, sq_tail, cq_head, cq_phase, cid_counter, sb, io, done, target, timeouts>>
  BY DEF Gpu!GpuDoorbell, Gpu!FenceDone, Gpu!DoorbellValue, Gpu!queue, Gpu!result
<1>2. UNCHANGED <<sim_pc, sim_cmd, sim_status, sim_sq_head, sim_cq_tail, sim_phase, vdev, buf, pend, want>>
  BY DEF GpuOther, simLocal
<1>3. /\ Copied(H)' = Copied(H) /\ Busy' = Busy /\ Executed(H)' = Executed(H)
      /\ Rung(S) = S - 1 /\ Rung(S)' = S /\ Waiting' = Waiting
  BY <1>1, <1>2 DEF Copied, Busy, Executed, Rung, Waiting
<1>4. Copied(H) \in Nat /\ Copied(H) < S
  BY <1>0, <1>1, Bounds DEF CountInv
<1>5. pend \in Seq(Sqes) /\ Len(pend) = S - Copied(H) /\ Len(pend) \in Nat
  BY <1>0, <1>4 DEF Typed, SqInv
<1>6. ASSUME NEW k \in 1 .. Len(pend), NEW i \in Nat, i = Copied(H) + k - 1 PROVE Kept(k, i, S)'
  <2>1. Kept(k, i, S)
    BY <1>0, <1>6 DEF SqInv
  <2>2. i < S
    BY <1>4, <1>5, <1>6
  <2>3. PICK e \in Sqes, d \in Sqes : e = sq[i % SqSize] /\ d = pend[k]
    <3>1. i % SqSize \in SqSlots
      BY Advance
    <3>2. sq[i % SqSize] \in Sqes
      BY <1>0, <3>1 DEF Typed
    <3>3. pend[k] \in Sqes
      BY <1>5
    <3>q. QED
      BY <3>2, <3>3
  <2>4. e = d
    <3>1. CASE i < Rung(S)
      BY <2>1, <2>3, <3>1 DEF Kept, InRing
    <3>2. CASE ~(i < Rung(S))
      <4>1. i >= Rung(S)
        BY <1>3, <3>2
      <4>2. e.dw0 = d.dw0 /\ e.args = d.args
        BY <1>1, <2>1, <2>3, <4>1 DEF Kept, OnItsWay
      <4>q. QED
        BY <4>2, StoreTyped
    <3>q. QED
      BY <3>1, <3>2
  <2>5. InRing(i, pend[k])' /\ pend'[k].dw0.cid = i % CidMod
    BY <1>1, <1>2, <2>1, <2>3, <2>4 DEF InRing, Kept
  <2>q. QED
    BY <1>3, <2>2, <2>5 DEF Kept
<1>7. SqInv(S, H)'
  <2>1. \A k \in 1 .. Len(pend'), i \in Nat : i = Copied(H)' + k - 1 => Kept(k, i, S)'
    BY <1>2, <1>3, <1>6
  <2>q. QED
    BY <1>0, <1>1, <1>2, <1>3, <2>1 DEF SqInv
<1>8. CountInv(S, H, C)'
  BY <1>0, <1>1, <1>2, <1>3 DEF CountInv
<1>9. PosInv(S, H, C)' /\ CqInv(H, C)'
  BY <1>0, <1>1, <1>2, <1>3 DEF PosInv, CqInv
<1>10. DataInv(S, H, C)'
  BY <1>0, <1>1, <1>2, <1>3, CommandSame DEF DataInv, Agree, LastIsCurrent, LastStatus
<1>q. QED
  BY <1>7, <1>8, <1>9, <1>10 DEF Inv, RingInv

\* The steps of the wait that consume nothing: its command stays behind when
\* the kernel gives up.
LEMMA WaitInv ==
    ASSUME IInv, NEW S \in Nat, NEW H \in Nat, NEW C \in Nat, Inv(S, H, C), GpuOther,
           Gpu!GpuOuter \/ Gpu!GpuPollTimeout
    PROVE  Inv(S, H, C)'
<1>0. Typed /\ CountInv(S, H, C) /\ PosInv(S, H, C) /\ SqInv(S, H) /\ CqInv(H, C) /\ DataInv(S, H, C)
  BY DEF IInv, Inv, RingInv
<1>1. /\ gpu_pc \in {"outer", "poll"}
      /\ UNCHANGED <<sq, cq, sq_doorbell, sq_tail, cq_head, cq_phase, cid_counter, sb, io, done, target>>
      /\ \/ gpu_pc' = "poll" /\ timeouts' = timeouts
         \/ gpu_pc' = "idle" /\ timeouts' = timeouts + 1
  BY DEF Gpu!GpuOuter, Gpu!GpuPollTimeout, Gpu!TimeOut, Gpu!Return, Gpu!memory, Gpu!queue, Gpu!result
<1>2. UNCHANGED <<sim_pc, sim_cmd, sim_status, sim_sq_head, sim_cq_tail, sim_phase, vdev, buf, pend, want>>
  BY DEF GpuOther, simLocal
<1>3. /\ Copied(H)' = Copied(H) /\ Busy' = Busy /\ Executed(H)' = Executed(H)
      /\ Rung(S) = S /\ Rung(S)' = S /\ Waiting /\ timeouts \in Nat
  BY <1>0, <1>1, <1>2, Bounds DEF Copied, Busy, Executed, Rung, Waiting
<1>4. CountInv(S, H, C)'
  BY <1>0, <1>1, <1>2, <1>3 DEF CountInv, Waiting
<1>5. PosInv(S, H, C)' /\ CqInv(H, C)'
  BY <1>0, <1>1, <1>2, <1>3 DEF PosInv, CqInv
<1>6. SqInv(S, H)'
  BY <1>0, <1>1, <1>2, <1>3 DEF SqInv, Kept, InRing, OnItsWay
<1>7. DataInv(S, H, C)'
  <2>1. LastIsCurrent(S, H) /\ LastIsCurrent(S, H)'
    BY <1>0, <1>1, <1>2, <1>3, CommandSame DEF DataInv, LastIsCurrent
  <2>2. Agree(0, done)' = Agree(0, done) /\ Agree(done, done + Gpu!Batch)' = Agree(done, done + Gpu!Batch)
    BY <1>1, <1>2, CommandSame DEF Agree
  <2>3. LastStatus(S, H)' = LastStatus(S, H) /\ done' = done
    BY <1>1, <1>2 DEF LastStatus
  <2>q. QED
    BY <1>0, <1>1, <1>3, <2>1, <2>2, <2>3 DEF DataInv
<1>q. QED
  BY <1>4, <1>5, <1>6, <1>7 DEF Inv, RingInv

\* The entry at the head is new exactly when an answer has not been consumed.
LEMMA ReadyMeansAnswered ==
    ASSUME IInv, NEW S \in Nat, NEW H \in Nat, NEW C \in Nat, Inv(S, H, C), Gpu!CqeReady
    PROVE  C < H /\ cq[cq_head].cid = C % CidMod
<1>0. Typed /\ CountInv(S, H, C) /\ PosInv(S, H, C) /\ CqInv(H, C)
  BY DEF IInv, Inv, RingInv
<1>1. C <= H
  BY <1>0, Bounds
<1>2. cq_head = C % CqSize /\ cq[cq_head].phase = PhaseOf(C)
  BY <1>0 DEF PosInv, Gpu!CqeReady
<1>3. C # H
  <2>1. ASSUME C = H PROVE FALSE
    <3>1. C \in H .. H + CqSize - 1
      BY <2>1
    <3>2. cq[cq_head].phase = 1 - PhaseOf(C)
      BY <1>0, <1>2, <3>1 DEF CqInv
    <3>3. PhaseOf(C) \in {0, 1}
      BY Phase DEF Phases
    <3>4. \A p \in {0, 1} : 1 - p # p
      OBVIOUS
    <3>q. QED
      BY <1>2, <3>2, <3>3, <3>4
  <2>q. QED
    BY <2>1
<1>4. C \in C .. H - 1
  BY <1>1, <1>3
<1>q. QED
  BY <1>0, <1>1, <1>2, <1>3, <1>4 DEF CqInv

\* The awaited identifier belongs to the last command only.
LEMMA TargetIsLast ==
    ASSUME IInv, NEW S \in Nat, NEW H \in Nat, NEW C \in Nat, Inv(S, H, C), Gpu!CqeReady, Waiting
    PROVE  Gpu!Matches(cq[cq_head]) <=> C = S - 1
<1>0. Typed /\ CountInv(S, H, C) /\ PosInv(S, H, C)
  BY DEF IInv, Inv, RingInv
<1>1. C < S /\ S - C <= CidMod /\ target = (S - 1) % CidMod
  BY <1>0, Bounds DEF CountInv, PosInv
<1>2. cq[cq_head].cid = C % CidMod
  BY ReadyMeansAnswered
<1>3. PICK n \in Nat : n = S - 1
  BY <1>1
<1>4. C # n => C % CidMod # n % CidMod
  <2>1. C # n => C < n /\ n - C < CidMod
    BY <1>1, <1>3
  <2>2. CidMod \in Nat \ {0}
    OBVIOUS
  <2>q. QED
    BY <2>1, <2>2, ModApart
<1>q. QED
  BY <1>1, <1>2, <1>3, <1>4 DEF Gpu!Matches

LEMMA ConsumeInv ==
    ASSUME IInv, NEW S \in Nat, NEW H \in Nat, NEW C \in Nat, Inv(S, H, C), GpuOther,
           Gpu!GpuDiscard \/ Gpu!GpuBatchDone \/ Gpu!GpuBatchError
    PROVE  \E D \in Nat : Inv(S, H, D)'
<1> SUFFICES ASSUME NEW D \in Nat, D = C + 1 PROVE Inv(S, H, D)'
  OBVIOUS
<1>0. Typed /\ CountInv(S, H, C) /\ PosInv(S, H, C) /\ SqInv(S, H) /\ CqInv(H, C) /\ DataInv(S, H, C)
  BY DEF IInv, Inv, RingInv
<1>1. gpu_pc = "poll" /\ Gpu!CqeReady /\ Gpu!ConsumeCqe /\ UNCHANGED <<sb, io, target, timeouts>>
  BY DEF Gpu!GpuDiscard, Gpu!GpuBatchDone, Gpu!GpuBatchError, Gpu!result
<1>2. UNCHANGED <<sim_pc, sim_cmd, sim_status, sim_sq_head, sim_cq_tail, sim_phase, vdev, buf, pend, want>>
  BY DEF GpuOther, simLocal
<1>3. UNCHANGED <<sq, cq, sq_doorbell, sq_tail, cid_counter>>
  BY <1>1 DEF Gpu!ConsumeCqe
<1>4. cq_head' = D % CqSize /\ cq_phase' = PhaseOf(D)
  <2>1. cq_head' = AdvanceCqHead(cq_head) /\ cq_phase' = AdvanceCqPhase(cq_head, cq_phase)
    BY <1>1, Instances DEF Gpu!ConsumeCqe
  <2>2. cq_head = C % CqSize /\ cq_phase = PhaseOf(C)
    BY <1>0 DEF PosInv
  <2>q. QED
    BY <2>1, <2>2, Advance, Phase
<1>5. Waiting /\ C < H /\ (Gpu!Matches(cq[cq_head]) <=> C = S - 1) /\ Rung(S) = S
  BY <1>1, ReadyMeansAnswered, TargetIsLast DEF Waiting, Rung
<1>6. /\ Copied(H) \in Nat /\ Executed(H) \in Nat /\ H <= Copied(H) /\ Copied(H) <= S
      /\ timeouts \in Nat /\ S - C <= timeouts + 1
      /\ Copied(H)' = Copied(H) /\ Busy' = Busy /\ Executed(H)' = Executed(H)
  BY <1>0, <1>2, <1>5, Bounds DEF CountInv, Copied, Busy, Executed
<1>7. CqInv(H, D)'
  BY <1>0, <1>2, <1>3 DEF CqInv
<1>8. gpu_pc' \in {"outer", "loop", "idle"} /\ Rung(S)' = S
  BY DEF Gpu!GpuDiscard, Gpu!GpuBatchDone, Gpu!GpuBatchError, Gpu!Return, Rung
<1>9. SqInv(S, H)'
  BY <1>0, <1>1, <1>2, <1>3, <1>5, <1>6, <1>8 DEF SqInv, Kept, InRing, OnItsWay
<1>10. PosInv(S, H, D)'
  BY <1>0, <1>1, <1>2, <1>3, <1>4, <1>5, <1>8 DEF PosInv
<1>11. CASE Gpu!GpuDiscard
  <2>1. gpu_pc' = "outer" /\ UNCHANGED done /\ C # S - 1 /\ D < S
    BY <1>5, <1>6, <1>11 DEF Gpu!GpuDiscard
  <2>2. CountInv(S, H, D)'
    BY <1>0, <1>1, <1>2, <1>5, <1>6, <1>8, <2>1 DEF CountInv, Waiting
  <2>3. done = 0 /\ LastIsCurrent(S, H)
    BY <1>0, <1>5, <2>1, BatchFacts DEF DataInv
  <2>4. LastIsCurrent(S, H)' /\ Agree(0, done)' /\ LastStatus(S, H)' = LastStatus(S, H)
    BY <1>0, <1>1, <1>2, <1>3, <1>6, <2>1, <2>3, CommandSame
    DEF LastIsCurrent, DataInv, Agree, LastStatus
  <2>5. Agree(done, done + Gpu!Batch)' = Agree(done, done + Gpu!Batch)
    BY <1>1, <1>2, <2>1, CommandSame DEF Agree
  <2>6. DataInv(S, H, D)'
    BY <1>0, <1>5, <1>6, <2>1, <2>3, <2>4, <2>5 DEF DataInv
  <2>q. QED
    BY <1>7, <1>9, <1>10, <2>2, <2>6 DEF Inv, RingInv
<1>12. CASE Gpu!GpuBatchDone \/ Gpu!GpuBatchError
  <2>1. gpu_pc' \in {"loop", "idle"} /\ C = S - 1
    BY <1>5, <1>12 DEF Gpu!GpuBatchDone, Gpu!GpuBatchError, Gpu!Return
  <2>2. H = S /\ D = S /\ Copied(H) = S /\ ~Busy /\ Executed(H) = S
    BY <1>5, <1>6, <2>1 DEF Copied, Executed, Busy
  <2>3. CountInv(S, H, D)'
    BY <1>0, <1>1, <1>2, <1>5, <1>6, <1>8, <2>1, <2>2 DEF CountInv, Waiting
  <2>4. Agree(0, done)'
    <3>1. CASE Gpu!GpuBatchDone
      <4>1. cq[cq_head].status = 0 /\ done' = done + Gpu!Batch
        BY <3>1 DEF Gpu!GpuBatchDone
      <4>2. LastStatus(S, H) = 0
        BY <1>0, <2>1, <2>2, <4>1 DEF LastStatus, PosInv
      <4>3. Agree(0, done) /\ Agree(done, done + Gpu!Batch)
        BY <1>0, <1>5, <2>2, <4>2 DEF DataInv
      <4>4. done \in Nat /\ Gpu!Batch \in Nat
        BY <1>0, BatchFacts
      <4>5. UNCHANGED <<buf, vdev, io>>
        BY <1>1, <1>2
      <4>q. QED
        BY <4>1, <4>3, <4>4, <4>5 DEF Agree
    <3>2. CASE Gpu!GpuBatchError
      BY <1>0, <1>1, <1>2, <3>2 DEF Gpu!GpuBatchError, DataInv, Agree
    <3>q. QED
      BY <1>12, <3>1, <3>2
  <2>5. DataInv(S, H, D)'
    BY <2>1, <2>2, <2>4 DEF DataInv, Waiting
  <2>q. QED
    BY <1>7, <1>9, <1>10, <2>3, <2>5 DEF Inv, RingInv
<1>q. QED
  BY <1>11, <1>12

LEMMA FinishInv ==
    ASSUME IInv, NEW S \in Nat, NEW H \in Nat, NEW C \in Nat, Inv(S, H, C), GpuOther, Gpu!GpuFinish
    PROVE  Inv(S, H, C)'
<1>0. Typed /\ CountInv(S, H, C) /\ PosInv(S, H, C) /\ SqInv(S, H) /\ CqInv(H, C) /\ DataInv(S, H, C)
  BY DEF IInv, Inv, RingInv
<1>1. gpu_pc = "loop" /\ gpu_pc' = "idle"
      /\ UNCHANGED <<sq, cq, sq_doorbell, sq_tail, cq_head, cq_phase, cid_counter, sb, io, done, target,
                     timeouts>>
  BY DEF Gpu!GpuFinish, Gpu!Return, Gpu!memory, Gpu!queue
<1>2. UNCHANGED <<sim_pc, sim_cmd, sim_status, sim_sq_head, sim_cq_tail, sim_phase, vdev, buf, pend, want>>
  BY DEF GpuOther, simLocal
<1>3. Copied(H)' = Copied(H) /\ Busy' = Busy /\ Rung(S) = S /\ Rung(S)' = S /\ ~Waiting /\ ~Waiting'
  BY <1>1, <1>2 DEF Copied, Busy, Rung, Waiting
<1>4. CountInv(S, H, C)' /\ PosInv(S, H, C)' /\ CqInv(H, C)'
  BY <1>0, <1>1, <1>2, <1>3 DEF CountInv, PosInv, CqInv
<1>5. SqInv(S, H)'
  BY <1>0, <1>1, <1>2, <1>3 DEF SqInv, Kept, InRing, OnItsWay
<1>6. DataInv(S, H, C)'
  BY <1>0, <1>1, <1>2, <1>3 DEF DataInv, Agree
<1>q. QED
  BY <1>4, <1>5, <1>6 DEF Inv, RingInv

----------------------------------------------------------------------------
(* ... and the simulator *)

\* The doorbell announces a command the simulator has not copied.
LEMMA SeeDoorbellInv ==
    ASSUME IInv, NEW S \in Nat, NEW H \in Nat, NEW C \in Nat, Inv(S, H, C), SimOther, Sim!SimSeeDoorbell
    PROVE  Inv(S, H, C)'
<1>0. Typed /\ CountInv(S, H, C) /\ PosInv(S, H, C) /\ SqInv(S, H) /\ CqInv(H, C) /\ DataInv(S, H, C)
  BY DEF IInv, Inv, RingInv
<1>1. sim_pc = "poll" /\ sim_pc' = "copy" /\ sq_doorbell # sim_sq_head
      /\ UNCHANGED <<sq, cq, sq_doorbell, vdev, buf, sim_sq_head, sim_cq_tail, sim_phase, sim_cmd, sim_status>>
  BY DEF Sim!SimSeeDoorbell, Sim!shared, Sim!rings
<1>2. UNCHANGED <<sq_tail, cq_head, cq_phase, cid_counter, sb, gpu_pc, io, done, target, timeouts, pend, want>>
  BY DEF SimOther, gpuLocal
<1>3. /\ ~Busy /\ ~Busy' /\ Copied(H) = H /\ Copied(H)' = H /\ Executed(H) = H /\ Executed(H)' = H
      /\ Rung(S)' = Rung(S) /\ Waiting' = Waiting /\ Rung(S) \in Nat /\ H <= Rung(S)
  BY <1>0, <1>1, <1>2, Bounds DEF Copied, Busy, Executed, Rung, Waiting
<1>4. H # Rung(S)
  BY <1>0, <1>1 DEF PosInv
<1>5. CountInv(S, H, C)'
  BY <1>0, <1>1, <1>2, <1>3, <1>4 DEF CountInv
<1>6. PosInv(S, H, C)' /\ CqInv(H, C)'
  BY <1>0, <1>1, <1>2, <1>3 DEF PosInv, CqInv
<1>7. SqInv(S, H)'
  <2>1. \A k, i : Kept(k, i, S)' = Kept(k, i, S)
    BY <1>1, <1>2, <1>3 DEF Kept, InRing, OnItsWay
  <2>q. QED
    BY <1>0, <1>1, <1>2, <1>3, <2>1 DEF SqInv
<1>8. DataInv(S, H, C)'
  BY <1>0, <1>1, <1>2, <1>3, CommandSame DEF DataInv, Agree, LastIsCurrent, LastStatus
<1>q. QED
  BY <1>5, <1>6, <1>7, <1>8 DEF Inv, RingInv

\* The thread ends, is made or freed: nothing in the rings moves.
LEMMA ThreadInvSame ==
    ASSUME IInv, NEW S \in Nat, NEW H \in Nat, NEW C \in Nat, Inv(S, H, C),
           (SimOther /\ (Sim!SimExit \/ Sim!SimFree)) \/ Create \/ Destroy
    PROVE  Inv(S, H, C)'
<1>0. Typed /\ CountInv(S, H, C) /\ PosInv(S, H, C) /\ SqInv(S, H) /\ CqInv(H, C) /\ DataInv(S, H, C)
  BY DEF IInv, Inv, RingInv
<1>1. UNCHANGED <<sq, cq, sq_doorbell, vdev, buf, sim_sq_head, sim_cq_tail, sim_phase, sim_cmd, sim_status>>
  BY DEF Sim!SimExit, Sim!SimFree, Create, Destroy, Sim!SimCreate, Sim!SimCreateFails, Sim!SimDestroy,
         Sim!shared, Sim!rings
<1>2. \/ sim_pc' = sim_pc
      \/ sim_pc \in {"poll", "exited", "none"} /\ sim_pc' \in {"poll", "exited", "gone", "crashed"}
  BY DEF Sim!SimExit, Sim!SimFree, Sim!Joined, Create, Destroy, Sim!SimCreate, Sim!SimCreateFails,
         Sim!SimDestroy
<1>3. UNCHANGED <<sq_tail, cq_head, cq_phase, cid_counter, sb, gpu_pc, io, done, target, timeouts, pend, want>>
  BY DEF SimOther, Create, Destroy, gpuLocal
<1>4. /\ Busy' = Busy /\ Copied(H)' = Copied(H) /\ Executed(H)' = Executed(H)
      /\ Rung(S)' = Rung(S) /\ Waiting' = Waiting
      /\ (sim_pc' = "copy" => sim_pc = "copy") /\ (sim_pc' = "phase" => sim_pc = "phase")
      /\ (sim_pc' = "exec" => sim_pc = "exec")
  BY <1>2, <1>3 DEF Copied, Busy, Executed, Rung, Waiting
<1>5. CountInv(S, H, C)' /\ PosInv(S, H, C)' /\ CqInv(H, C)'
  BY <1>0, <1>1, <1>3, <1>4 DEF CountInv, PosInv, CqInv
<1>6. SqInv(S, H)'
  <2>1. \A k, i : Kept(k, i, S)' = Kept(k, i, S)
    BY <1>1, <1>3, <1>4 DEF Kept, InRing, OnItsWay
  <2>q. QED
    BY <1>0, <1>1, <1>3, <1>4, <2>1 DEF SqInv
<1>7. DataInv(S, H, C)'
  BY <1>0, <1>1, <1>3, <1>4, CommandSame DEF DataInv, Agree, LastIsCurrent, LastStatus
<1>q. QED
  BY <1>5, <1>6, <1>7 DEF Inv, RingInv

LEMMA CopyInv ==
    ASSUME IInv, NEW S \in Nat, NEW H \in Nat, NEW C \in Nat, Inv(S, H, C), Copy
    PROVE  Inv(S, H, C)'
<1>0. Typed /\ CountInv(S, H, C) /\ PosInv(S, H, C) /\ SqInv(S, H) /\ CqInv(H, C) /\ DataInv(S, H, C)
  BY DEF IInv, Inv, RingInv
<1>1. sim_pc = "copy" /\ sim_pc' = "exec" /\ sim_cmd' = sq[sim_sq_head]
      /\ UNCHANGED <<sq, cq, sq_doorbell, vdev, buf, sim_sq_head, sim_cq_tail, sim_phase, sim_status>>
  BY DEF Copy, Sim!SimCopy, Sim!shared, Sim!rings
<1>2. UNCHANGED <<sq_tail, cq_head, cq_phase, cid_counter, sb, gpu_pc, io, done, target, timeouts>>
      /\ want' = Head(pend) /\ pend' = Tail(pend)
  BY DEF Copy, gpuLocal
<1>3. /\ ~Busy /\ Busy' /\ Copied(H) = H /\ Copied(H)' = H + 1 /\ Executed(H) = H /\ Executed(H)' = H
      /\ Rung(S)' = Rung(S) /\ Waiting' = Waiting /\ Rung(S) \in Nat /\ Rung(S) <= S
      /\ H < Rung(S)
  BY <1>0, <1>1, <1>2, Bounds DEF CountInv, Copied, Busy, Executed, Rung, Waiting
<1>4. pend \in Seq(Sqes) /\ Len(pend) = S - H /\ Len(pend) \in Nat \ {0}
  BY <1>0, <1>3 DEF Typed, SqInv
<1>5. pend' \in Seq(Sqes) /\ Len(pend') = Len(pend) - 1 /\ \A k \in 1 .. Len(pend') : pend'[k] = pend[k + 1]
  BY <1>2, <1>4
<1>6. sim_cmd' = pend[1] /\ want' = pend[1]
  BY <1>1, <1>2, CopyRight
<1>7. CountInv(S, H, C)'
  BY <1>0, <1>1, <1>2, <1>3 DEF CountInv, Rung
<1>8. PosInv(S, H, C)' /\ CqInv(H, C)'
  BY <1>0, <1>1, <1>2, <1>3 DEF PosInv, CqInv
<1>9. SqInv(S, H)'
  <2>1. ASSUME NEW k \in 1 .. Len(pend'), NEW i \in Nat, i = Copied(H)' + k - 1 PROVE Kept(k, i, S)'
    <3>1. PICK j \in 1 .. Len(pend) : j = k + 1
      BY <1>4, <1>5
    <3>2. i = Copied(H) + j - 1
      BY <1>3, <2>1, <3>1
    <3>3. Kept(j, i, S) /\ pend'[k] = pend[j]
      BY <1>0, <1>5, <3>1, <3>2 DEF SqInv
    <3>q. QED
      BY <1>1, <1>2, <1>3, <3>3 DEF Kept, InRing, OnItsWay
  <2>2. \A k \in 1 .. Len(pend'), i \in Nat : i = Copied(H)' + k - 1 => Kept(k, i, S)'
    BY <2>1
  <2>3. pend[1].dw0.cid = H % CidMod
    <3>1. 1 \in 1 .. Len(pend) /\ H = Copied(H) + 1 - 1
      BY <1>3, <1>4
    <3>q. QED
      BY <1>0, <3>1 DEF SqInv, Kept
  <2>4. Len(pend') = S - Copied(H)'
    BY <1>3, <1>4, <1>5
  <2>5. gpu_pc' # "fence" => sb' = {}
    BY <1>0, <1>2 DEF SqInv
  <2>6. Busy' => sim_cmd' = want' /\ want'.dw0.cid = H % CidMod
    BY <1>6, <2>3
  <2>q. QED
    BY <2>2, <2>4, <2>5, <2>6 DEF SqInv
<1>10. DataInv(S, H, C)'
  <2>1. LastIsCurrent(S, H) => LastIsCurrent(S, H)'
    <3>1. SUFFICES ASSUME pend[Len(pend)] = Gpu!Command((S - 1) % CidMod)
                   PROVE  LastIsCurrent(S, H)'
      BY <1>3 DEF LastIsCurrent
    <3>2. Gpu!Command((S - 1) % CidMod)' = Gpu!Command((S - 1) % CidMod)
      BY <1>2, CommandSame
    <3>3. CASE H + 1 < S
      <4>1. Len(pend') \in 1 .. Len(pend') /\ Len(pend') + 1 = Len(pend)
        BY <1>4, <1>5, <3>3
      <4>2. pend'[Len(pend')] = pend[Len(pend)]
        BY <1>5, <4>1
      <4>q. QED
        BY <1>3, <3>1, <3>2, <3>3, <4>2 DEF LastIsCurrent
    <3>4. CASE ~(H + 1 < S)
      <4>1. Len(pend) = 1 /\ ~(Copied(H)' < S)
        BY <1>3, <1>4, <3>4
      <4>q. QED
        BY <1>6, <3>1, <3>2, <4>1 DEF LastIsCurrent
    <3>q. QED
      BY <3>3, <3>4
  <2>2. Agree(0, done)' = Agree(0, done) /\ done' = done
    BY <1>1, <1>2 DEF Agree
  <2>3. Executed(H)' # S
    BY <1>3
  <2>q. QED
    BY <1>0, <1>2, <1>3, <2>1, <2>2, <2>3 DEF DataInv
<1>q. QED
  BY <1>7, <1>8, <1>9, <1>10 DEF Inv, RingInv

\* The command is executed.  Blocks already transferred stay as they are, and
\* if it is the current command and succeeds, its blocks are now the same in
\* the buffer and on the device.
LEMMA ExecuteInv ==
    ASSUME IInv, NEW S \in Nat, NEW H \in Nat, NEW C \in Nat, Inv(S, H, C), SimOther, Sim!SimExecute
    PROVE  Inv(S, H, C)'
<1>0. Typed /\ CountInv(S, H, C) /\ PosInv(S, H, C) /\ SqInv(S, H) /\ CqInv(H, C) /\ DataInv(S, H, C)
  BY DEF IInv, Inv, RingInv
<1>1. sim_pc = "exec" /\ sim_pc' = "cqe"
      /\ UNCHANGED <<sq, cq, sq_doorbell, sim_sq_head, sim_cq_tail, sim_phase, sim_cmd>>
  BY DEF Sim!SimExecute, Sim!rings
<1>2. UNCHANGED <<sq_tail, cq_head, cq_phase, cid_counter, sb, gpu_pc, io, done, target, timeouts, pend, want>>
  BY DEF SimOther, gpuLocal
<1>3. /\ Busy /\ Busy' /\ Copied(H) = H + 1 /\ Copied(H)' = H + 1 /\ Executed(H) = H /\ Executed(H)' = H + 1
      /\ Rung(S)' = Rung(S) /\ Waiting' = Waiting /\ C <= H /\ H + 1 <= S
  BY <1>0, <1>1, <1>2, Bounds DEF CountInv, Copied, Busy, Executed, Rung, Waiting
<1>4. CountInv(S, H, C)' /\ PosInv(S, H, C)' /\ CqInv(H, C)'
  BY <1>0, <1>1, <1>2, <1>3 DEF CountInv, PosInv, CqInv
<1>5. SqInv(S, H)'
  <2>1. \A k, i : Kept(k, i, S)' = Kept(k, i, S)
    BY <1>1, <1>2, <1>3 DEF Kept, InRing, OnItsWay
  <2>q. QED
    BY <1>0, <1>1, <1>2, <1>3, <2>1 DEF SqInv
<1>6. DOMAIN vdev = 0 .. NumBlocks - 1 /\ DOMAIN buf = 0 .. BufSize - 1
  BY <1>0 DEF Typed, BufBlocks
<1>7. PICK b \in Nat, d \in Nat, l \in Nat, n \in 0 .. BufSize :
          b = Gpu!Batch /\ d = done /\ l = io.lba /\ n = io.n /\ d + b <= n /\ l + n < LbaMod
  <2>1. io.lba + io.n < LbaMod
    BY <1>0 DEF Typed, Ios
  <2>q. QED
    BY <1>0, <2>1, BatchFacts
<1>7a. (l + d + b) % LbaMod = l + d + b
  <2>0. LbaMod \in Nat \ {0}
    BY LbaAssumption
  <2>1. PICK e \in Nat : e = l + d + b /\ e < LbaMod
    BY <1>7, <2>0
  <2>2. e % LbaMod = e
    BY <2>0, <2>1
  <2>q. QED
    BY <2>1, <2>2
<1>8. ASSUME H + 1 = S, Waiting \/ done > 0
      PROVE  sim_cmd.args = [prp |-> d, slba |-> l + d, nlb |-> b] /\ sim_cmd.dw0.op = io.op
  <2>1. PICK c \in Cids : c = (S - 1) % CidMod
    BY <1>3, <1>8, Advance
  <2>2. LastIsCurrent(S, H)
    BY <1>0, <1>3, <1>8 DEF DataInv
  <2>3. sim_cmd = Gpu!Command(c)
    BY <1>1, <1>3, <1>8, <2>1, <2>2 DEF LastIsCurrent
  <2>q. QED
    BY <1>0, <1>7, <2>3, CommandTyped
<1>9. /\ sim_status' = Sim!StatusOf(sim_cmd)
      /\ buf' = IF sim_status' = 0 /\ sim_cmd.dw0.op = "read" THEN Sim!ReadInto(sim_cmd) ELSE buf
      /\ vdev' = IF sim_status' = 0 /\ sim_cmd.dw0.op = "write" THEN Sim!WriteFrom(sim_cmd) ELSE vdev
  BY DEF Sim!SimExecute, Sim!SUCCESS
<1>10. Agree(0, done)'
  <2>0. 0 < d => l + d <= NumBlocks
    BY <1>0, <1>7 DEF DataInv, Agree
  <2> SUFFICES ASSUME NEW i \in 0 .. d - 1 PROVE buf'[i] = vdev'[l + i]
    BY <1>2, <1>7, <2>0 DEF Agree
  <2>1. buf[i] = vdev[l + i]
    BY <1>0, <1>7 DEF DataInv, Agree
  <2>2. H + 1 = S /\ done > 0
    BY <1>0, <1>3, <1>7 DEF DataInv
  <2>3. sim_cmd.args.prp = d /\ sim_cmd.args.slba = l + d /\ sim_cmd.args.nlb = b
    BY <1>8, <2>2
  <2>4. buf'[i] = buf[i]
    <3>1. i \in DOMAIN buf /\ ~(i \in d .. d + b - 1)
      BY <1>6, <1>7
    <3>q. QED
      BY <1>9, <2>3, <3>1 DEF Sim!ReadInto
  <2>5. vdev'[l + i] = vdev[l + i]
    <3>1. l + i \in 0 .. NumBlocks - 1 /\ ~(l + i \in l + d .. l + d + b - 1)
      BY <2>0, BlocksAssumption
    <3>2. PICK m \in DOMAIN vdev : m = l + i /\ ~(m \in l + d .. l + d + b - 1)
      BY <1>6, <3>1
    <3>3. vdev'[m] = vdev[m]
      BY <1>9, <2>3, <3>2 DEF Sim!WriteFrom
    <3>q. QED
      BY <3>2, <3>3
  <2>q. QED
    BY <2>1, <2>4, <2>5
<1>11. ASSUME H + 1 = S, Waiting, sim_status' = 0 PROVE Agree(done, done + Gpu!Batch)'
  <2>1. Gpu!Batch' = b /\ done' = d /\ io'.lba = l
    BY <1>2, <1>7, CommandSame
  <2>2. sim_cmd.args.prp = d /\ sim_cmd.args.slba = l + d /\ sim_cmd.args.nlb = b /\ sim_cmd.dw0.op = io.op
    BY <1>8, <1>11
  <2>3. io.op \in {"read", "write"}
    BY <1>0, BatchFacts
  <2>4. l + d + b <= NumBlocks
    <3>1. ~((l + d + b) % LbaMod > NumBlocks)
      BY <1>9, <1>11, <2>2, <2>3 DEF Sim!StatusOf, Sim!SUCCESS, Sim!INVALID_FIELD
    <3>q. QED
      BY <1>7, <1>7a, <3>1, BlocksAssumption
  <2> SUFFICES ASSUME NEW i \in d .. d + b - 1 PROVE buf'[i] = vdev'[l + i]
    BY <2>1, <2>4 DEF Agree
  <2>5. i \in DOMAIN buf /\ l + i \in DOMAIN vdev
    <3>1. i \in 0 .. BufSize - 1
      BY <1>7
    <3>2. l + i \in 0 .. NumBlocks - 1
      BY <1>7, <2>4
    <3>q. QED
      BY <1>6, <3>1, <3>2
  <2>6. CASE io.op = "read"
    <3>1. vdev' = vdev /\ buf' = Sim!ReadInto(sim_cmd)
      BY <1>9, <1>11, <2>2, <2>6
    <3>2. buf'[i] = vdev[(l + d) + (i - d)]
      BY <2>2, <2>5, <3>1 DEF Sim!ReadInto
    <3>3. (l + d) + (i - d) = l + i
      OBVIOUS
    <3>q. QED
      BY <3>1, <3>2, <3>3
  <2>7. CASE io.op = "write"
    <3>1. buf' = buf /\ vdev' = Sim!WriteFrom(sim_cmd)
      BY <1>9, <1>11, <2>2, <2>7
    <3>2. l + i \in l + d .. l + d + b - 1 /\ d + ((l + i) - (l + d)) = i
      OBVIOUS
    <3>3. vdev'[l + i] = buf[d + ((l + i) - (l + d))]
      BY <2>2, <2>5, <3>1, <3>2 DEF Sim!WriteFrom
    <3>q. QED
      BY <3>1, <3>2, <3>3
  <2>q. QED
    BY <2>3, <2>6, <2>7
<1>12. DataInv(S, H, C)'
  <2>1. LastIsCurrent(S, H) => LastIsCurrent(S, H)'
    BY <1>1, <1>2, <1>3, CommandSame DEF LastIsCurrent
  <2>2. LastStatus(S, H)' = sim_status'
    BY <1>3 DEF LastStatus
  <2>q. QED
    BY <1>0, <1>2, <1>3, <1>10, <1>11, <2>1, <2>2 DEF DataInv
<1>q. QED
  BY <1>4, <1>5, <1>12 DEF Inv, RingInv

\* A completion entry is written beside those not consumed yet.
LEMMA CqeSlotFree ==
    ASSUME IInv, NEW S \in Nat, NEW H \in Nat, NEW C \in Nat, Inv(S, H, C), Busy
    PROVE  /\ \A i \in C .. H - 1 : i % CqSize # H % CqSize /\ i % CqSize \in CqSlots
           /\ \A i \in H + 1 .. H + CqSize - 1 : i % CqSize # H % CqSize /\ i % CqSize \in CqSlots
<1>0. Typed /\ CountInv(S, H, C)
  BY DEF IInv, Inv, RingInv
<1>1. C <= H /\ H + 1 <= S /\ S - C <= CqSize /\ CqSize \in Nat \ {0}
  BY <1>0, Bounds DEF CountInv, Copied
<1>2. ASSUME NEW i \in C .. H - 1 PROVE i % CqSize # H % CqSize /\ i % CqSize \in CqSlots
  <2>1. i \in Nat /\ i < H /\ H - i < CqSize
    BY <1>1
  <2>q. QED
    BY <1>1, <2>1, ModApart, Advance
<1>3. ASSUME NEW i \in H + 1 .. H + CqSize - 1 PROVE i % CqSize # H % CqSize /\ i % CqSize \in CqSlots
  <2>1. i \in Nat /\ H < i /\ i - H < CqSize
    BY <1>1
  <2>q. QED
    BY <1>1, <2>1, ModApart, Advance
<1>q. QED
  BY <1>2, <1>3

LEMMA CqeBodyInv ==
    ASSUME IInv, NEW S \in Nat, NEW H \in Nat, NEW C \in Nat, Inv(S, H, C), SimOther, Sim!SimCqeBody
    PROVE  Inv(S, H, C)'
<1>0. Typed /\ CountInv(S, H, C) /\ PosInv(S, H, C) /\ SqInv(S, H) /\ CqInv(H, C) /\ DataInv(S, H, C)
  BY DEF IInv, Inv, RingInv
<1>1. sim_pc = "cqe" /\ sim_pc' = "phase"
      /\ UNCHANGED <<sq, sq_doorbell, vdev, buf, sim_sq_head, sim_cq_tail, sim_phase, sim_cmd, sim_status>>
  BY DEF Sim!SimCqeBody, Sim!rings
<1>2. UNCHANGED <<sq_tail, cq_head, cq_phase, cid_counter, sb, gpu_pc, io, done, target, timeouts, pend, want>>
  BY DEF SimOther, gpuLocal
<1>3. /\ Busy /\ Busy' /\ Copied(H) = H + 1 /\ Copied(H)' = H + 1
      /\ Executed(H) = H + 1 /\ Executed(H)' = H + 1
      /\ Rung(S)' = Rung(S) /\ Waiting' = Waiting /\ H + 1 <= S
  BY <1>0, <1>1, <1>2 DEF CountInv, Copied, Busy, Executed, Rung, Waiting
<1>4. PICK t \in CqSlots : t = sim_cq_tail /\ t = H % CqSize
  BY <1>0, Advance DEF PosInv
<1>5. cq' = [cq EXCEPT ![t] = [cid |-> H % CidMod, status |-> cq[t].status, phase |-> cq[t].phase]]
  <2>1. sim_cmd.dw0.cid = H % CidMod
    BY <1>0, <1>3 DEF SqInv
  <2>q. QED
    BY <1>4, <2>1, CqeWritten
<1>6. cq'[t].cid = H % CidMod /\ cq'[t].phase = cq[t].phase /\ \A s \in CqSlots : s # t => cq'[s] = cq[s]
  BY <1>0, <1>5 DEF Typed
<1>7. CqInv(H, C)'
  <2>1. \A i \in C .. H - 1 : cq'[i % CqSize].cid = i % CidMod
    <3>1. \A i \in C .. H - 1 : i % CqSize # t /\ i % CqSize \in CqSlots
      BY <1>3, <1>4, CqeSlotFree
    <3>q. QED
      BY <1>0, <1>6, <3>1 DEF CqInv
  <2>2. ASSUME NEW i \in H .. H + CqSize - 1 PROVE cq'[i % CqSize].phase = cq[i % CqSize].phase
    <3>1. i \in Nat
      OBVIOUS
    <3>2. i % CqSize \in CqSlots
      BY <3>1, Advance
    <3>q. QED
      BY <1>6, <3>2
  <2>q. QED
    BY <1>0, <1>4, <1>6, <2>1, <2>2 DEF CqInv
<1>8. CountInv(S, H, C)' /\ PosInv(S, H, C)'
  BY <1>0, <1>1, <1>2, <1>3 DEF CountInv, PosInv
<1>9. SqInv(S, H)'
  <2>1. \A k, i : Kept(k, i, S)' = Kept(k, i, S)
    BY <1>1, <1>2, <1>3 DEF Kept, InRing, OnItsWay
  <2>q. QED
    BY <1>0, <1>1, <1>2, <1>3, <2>1 DEF SqInv
<1>10. DataInv(S, H, C)'
  <2>1. LastIsCurrent(S, H) => LastIsCurrent(S, H)'
    BY <1>1, <1>2, <1>3, CommandSame DEF LastIsCurrent
  <2>2. LastStatus(S, H)' = LastStatus(S, H)
    BY <1>1, <1>3 DEF LastStatus
  <2>3. Agree(0, done)' = Agree(0, done) /\ Agree(done, done + Gpu!Batch)' = Agree(done, done + Gpu!Batch)
    BY <1>1, <1>2, CommandSame DEF Agree
  <2>q. QED
    BY <1>0, <1>2, <1>3, <2>1, <2>2, <2>3 DEF DataInv
<1>q. QED
  BY <1>7, <1>8, <1>9, <1>10 DEF Inv, RingInv

LEMMA CqePhaseInv ==
    ASSUME IInv, NEW S \in Nat, NEW H \in Nat, NEW C \in Nat, Inv(S, H, C), SimOther, Sim!SimCqePhase
    PROVE  \E G \in Nat : Inv(S, G, C)'
<1> SUFFICES ASSUME NEW G \in Nat, G = H + 1 PROVE Inv(S, G, C)'
  OBVIOUS
<1>0. Typed /\ CountInv(S, H, C) /\ PosInv(S, H, C) /\ SqInv(S, H) /\ CqInv(H, C) /\ DataInv(S, H, C)
  BY DEF IInv, Inv, RingInv
<1>1. sim_pc = "phase" /\ sim_pc' = "poll"
      /\ UNCHANGED <<sq, sq_doorbell, vdev, buf, sim_cmd, sim_status>>
  BY DEF Sim!SimCqePhase
<1>2. UNCHANGED <<sq_tail, cq_head, cq_phase, cid_counter, sb, gpu_pc, io, done, target, timeouts, pend, want>>
  BY DEF SimOther, gpuLocal
<1>3. /\ Busy /\ ~Busy' /\ Copied(H) = G /\ Copied(G)' = G /\ Executed(H) = G /\ Executed(G)' = G
      /\ Rung(S)' = Rung(S) /\ Waiting' = Waiting /\ C <= H /\ G <= S
  BY <1>0, <1>1, <1>2 DEF CountInv, Copied, Busy, Executed, Rung, Waiting
<1>4. PICK t \in CqSlots : t = sim_cq_tail /\ t = H % CqSize
  BY <1>0, Advance DEF PosInv
<1>5. sim_sq_head' = G % SqSize /\ sim_cq_tail' = G % CqSize /\ sim_phase' = PhaseOf(G)
  <2>1. /\ sim_sq_head' = AdvanceSqTail(sim_sq_head) /\ sim_cq_tail' = AdvanceCqHead(sim_cq_tail)
        /\ sim_phase' = AdvanceCqPhase(sim_cq_tail, sim_phase)
    BY Instances DEF Sim!SimCqePhase
  <2>2. sim_sq_head = H % SqSize /\ sim_cq_tail = H % CqSize /\ sim_phase = PhaseOf(H)
    BY <1>0 DEF PosInv
  <2>q. QED
    BY <2>1, <2>2, Advance, Phase
<1>6. cq' = [cq EXCEPT ![t] = [cid |-> cq[t].cid, status |-> sim_status, phase |-> PhaseOf(H)]]
  <2>1. sim_phase = PhaseOf(H)
    BY <1>0 DEF PosInv
  <2>q. QED
    BY <1>4, <2>1, CqeWritten
<1>7. /\ cq'[t].cid = cq[t].cid /\ cq'[t].status = sim_status /\ cq'[t].phase = PhaseOf(H)
      /\ \A s \in CqSlots : s # t => cq'[s] = cq[s]
  BY <1>0, <1>6 DEF Typed
<1>8. CqInv(G, C)'
  <2>1. ASSUME NEW i \in C .. G - 1 PROVE cq'[i % CqSize].cid = i % CidMod
    <3>1. CASE i = H
      BY <1>0, <1>1, <1>4, <1>7, <3>1 DEF CqInv
    <3>2. CASE i # H
      <4>1. i \in C .. H - 1
        BY <1>3, <3>2
      <4>2. i % CqSize # t /\ i % CqSize \in CqSlots
        BY <1>3, <1>4, <4>1, CqeSlotFree
      <4>3. cq[i % CqSize].cid = i % CidMod
        BY <1>0, <4>1 DEF CqInv
      <4>q. QED
        BY <1>7, <4>2, <4>3
    <3>q. QED
      BY <3>1, <3>2
  <2>2. ASSUME NEW i \in G .. G + CqSize - 1 PROVE cq'[i % CqSize].phase = 1 - PhaseOf(i)
    <3>1. CASE i = H + CqSize
      <4>1. i % CqSize = t /\ PhaseOf(i) = 1 - PhaseOf(H)
        BY <1>4, <3>1, Phase
      <4>2. PhaseOf(H) \in {0, 1}
        BY Phase DEF Phases
      <4>3. \A p \in {0, 1} : 1 - (1 - p) = p
        OBVIOUS
      <4>q. QED
        BY <1>7, <4>1, <4>2, <4>3
    <3>2. CASE i # H + CqSize
      <4>1. i \in H + 1 .. H + CqSize - 1 /\ i \in H .. H + CqSize - 1
        BY <3>2
      <4>2. i % CqSize # t /\ i % CqSize \in CqSlots
        BY <1>3, <1>4, <4>1, CqeSlotFree
      <4>3. cq[i % CqSize].phase = 1 - PhaseOf(i)
        BY <1>0, <4>1 DEF CqInv
      <4>q. QED
        BY <1>7, <4>2, <4>3
    <3>q. QED
      BY <3>1, <3>2
  <2>q. QED
    BY <1>1, <2>1, <2>2 DEF CqInv
<1>9. CountInv(S, G, C)'
  BY <1>0, <1>1, <1>2, <1>3 DEF CountInv
<1>10. PosInv(S, G, C)'
  BY <1>0, <1>1, <1>2, <1>3, <1>5 DEF PosInv
<1>11. SqInv(S, G)'
  <2>1. \A k, i : Kept(k, i, S)' = Kept(k, i, S)
    BY <1>1, <1>2, <1>3 DEF Kept, InRing, OnItsWay
  <2>2. Len(pend) = S - G /\ \A k \in 1 .. Len(pend), i \in Nat : i = G + k - 1 => Kept(k, i, S)
    BY <1>0, <1>3 DEF SqInv
  <2>3. \A k \in 1 .. Len(pend'), i \in Nat : i = Copied(G)' + k - 1 => Kept(k, i, S)'
    BY <1>2, <1>3, <2>1, <2>2
  <2>4. gpu_pc' # "fence" => sb' = {}
    BY <1>0, <1>2 DEF SqInv
  <2>5. Len(pend') = S - Copied(G)'
    BY <1>2, <1>3, <2>2
  <2>q. QED
    BY <1>3, <2>3, <2>4, <2>5 DEF SqInv
<1>12. DataInv(S, G, C)'
  <2>1. LastIsCurrent(S, H) => LastIsCurrent(S, G)'
    BY <1>1, <1>2, <1>3, CommandSame DEF LastIsCurrent
  <2>2. G = S => LastStatus(S, G)' = sim_status /\ LastStatus(S, H) = sim_status
    BY <1>3, <1>4, <1>7 DEF LastStatus
  <2>3. Agree(0, done)' = Agree(0, done) /\ Agree(done, done + Gpu!Batch)' = Agree(done, done + Gpu!Batch)
    BY <1>1, <1>2, CommandSame DEF Agree
  <2>q. QED
    BY <1>0, <1>2, <1>3, <2>1, <2>2, <2>3 DEF DataInv
<1>q. QED
  BY <1>8, <1>9, <1>10, <1>11, <1>12 DEF Inv, RingInv

----------------------------------------------------------------------------
(* The invariant is inductive *)

LEMMA NextInv == IInv /\ Next => IInv'
<1> SUFFICES ASSUME IInv, Next PROVE IInv'
  OBVIOUS
<1>1. Typed' /\ KernelInv'
  BY KernelTyped, SimTyped DEF Next
<1>2. ThreadInv' /\ WriteInv' /\ AskedInv'
  BY ThreadStep, WriteStep, AskedStep
<1>3. PICK S \in Nat, H \in Nat, C \in Nat : Inv(S, H, C)
  BY DEF IInv
<1>4. \E T, G, D \in Nat : Inv(T, G, D)'
  <2>1. CASE \E r \in Requests : Start(r)
    BY <1>3, <2>1, StartInv
  <2>2. CASE Submit
    BY <1>3, <2>2, SubmitInv
  <2>3. CASE GpuOther
    <3>1. CASE Gpu!GpuStore
      BY <1>3, <2>3, <3>1, StoreInv
    <3>2. CASE Gpu!GpuDoorbell
      BY <1>3, <2>3, <3>2, DoorbellInv
    <3>3. CASE Gpu!GpuOuter \/ Gpu!GpuPollTimeout
      BY <1>3, <2>3, <3>3, WaitInv
    <3>4. CASE Gpu!GpuDiscard \/ Gpu!GpuBatchDone \/ Gpu!GpuBatchError
      BY <1>3, <2>3, <3>4, ConsumeInv
    <3>5. CASE Gpu!GpuFinish
      BY <1>3, <2>3, <3>5, FinishInv
    <3>q. QED
      BY <2>3, <3>1, <3>2, <3>3, <3>4, <3>5 DEF GpuOther
  <2>4. CASE Copy
    BY <1>3, <2>4, CopyInv
  <2>5. CASE SimOther
    <3>1. CASE Sim!SimSeeDoorbell
      BY <1>3, <2>5, <3>1, SeeDoorbellInv
    <3>2. CASE Sim!SimExecute
      BY <1>3, <2>5, <3>2, ExecuteInv
    <3>3. CASE Sim!SimCqeBody
      BY <1>3, <2>5, <3>3, CqeBodyInv
    <3>4. CASE Sim!SimCqePhase
      BY <1>3, <2>5, <3>4, CqePhaseInv
    <3>5. CASE Sim!SimExit \/ Sim!SimFree
      BY <1>3, <2>5, <3>5, ThreadInvSame
    <3>q. QED
      BY <2>5, <3>1, <3>2, <3>3, <3>4, <3>5 DEF SimOther
  <2>6. CASE Create \/ Destroy
    BY <1>3, <2>6, ThreadInvSame
  <2>q. QED
    BY <2>1, <2>2, <2>3, <2>4, <2>5, <2>6 DEF Next, GpuStep, SimStep
<1>q. QED
  BY <1>1, <1>2, <1>4 DEF IInv

LEMMA StutterInv == IInv /\ UNCHANGED vars => IInv'
<1> SUFFICES ASSUME IInv, UNCHANGED vars PROVE IInv'
  OBVIOUS
<1>1. UNCHANGED <<sq, cq, sq_doorbell, cq_doorbell, vdev, buf, sim_pc, sim_cmd, sim_status, sim_sq_head,
                  sim_cq_tail, sim_phase, sim_held, sq_tail, cq_head, cq_phase, cid_counter, sb, gpu_pc,
                  io, done, target, res, blocks_done, timeouts, calls, pend, want, late, asked>>
  BY DEF vars, gpuLocal, simLocal
<1>2. Typed' /\ KernelInv' /\ ThreadInv' /\ WriteInv' /\ AskedInv'
  BY <1>1 DEF IInv, Typed, KernelInv, Waiting, ThreadInv, WriteInv, AskedInv, Covered, Busy
<1>3. PICK S \in Nat, H \in Nat, C \in Nat : Inv(S, H, C)
  BY DEF IInv
<1>4. /\ Busy' = Busy /\ Copied(H)' = Copied(H) /\ Executed(H)' = Executed(H)
      /\ Rung(S)' = Rung(S) /\ Waiting' = Waiting
  BY <1>1 DEF Copied, Busy, Executed, Rung, Waiting
<1>5. CountInv(S, H, C)' /\ PosInv(S, H, C)' /\ CqInv(H, C)'
  BY <1>1, <1>3, <1>4 DEF Inv, RingInv, CountInv, PosInv, CqInv
<1>6. SqInv(S, H)'
  <2>1. \A k, i : Kept(k, i, S)' = Kept(k, i, S)
    BY <1>1, <1>4 DEF Kept, InRing, OnItsWay
  <2>q. QED
    BY <1>1, <1>3, <1>4, <2>1 DEF Inv, RingInv, SqInv
<1>7. DataInv(S, H, C)'
  BY <1>1, <1>3, <1>4, CommandSame DEF Inv, DataInv, Agree, LastIsCurrent, LastStatus
<1>q. QED
  BY <1>2, <1>5, <1>6, <1>7 DEF IInv, Inv, RingInv

\* In every behaviour of kernels and simulator the positions, phases and
\* identifiers of both follow from how many commands were submitted, answered
\* and consumed; the entries in the rings are those commands and their
\* completions; and the blocks transferred are in place.
THEOREM Invariance == Spec => []IInv
<1>1. Init => IInv
  BY InitInv
<1>2. IInv /\ [Next]_vars => IInv'
  BY NextInv, StutterInv
<1>q. QED
  BY <1>1, <1>2, PTL DEF Spec

\* Ring positions, doorbells, phases and identifiers of the kernel and of
\* the simulator always stay in range, and a kernel never reports more blocks
\* than it was asked for.
THEOREM TypeCorrect == Spec => []TypeOK
<1>1. IInv => TypeOK
  <2> SUFFICES ASSUME IInv PROVE TypeOK
    OBVIOUS
  <2>1. PICK S \in Nat, H \in Nat, C \in Nat : Inv(S, H, C)
    BY DEF IInv
  <2>2. Typed /\ KernelInv /\ CountInv(S, H, C) /\ PosInv(S, H, C)
    BY <2>1 DEF IInv, Inv, RingInv
  <2>3. sq_doorbell \in SqSlots /\ cq_phase \in Phases
    BY <2>2, Bounds, Advance, Phase DEF PosInv
  <2>4. \A s \in CqSlots : cq[s].cid \in Cids /\ cq[s].phase \in Phases
    BY <2>2 DEF Typed, Cqes
  <2>5. done \in Nat /\ io.n \in 0 .. BufSize /\ done \in 0 .. io.n
    BY <2>2, BatchFacts DEF Typed
  <2>6. blocks_done \in 0 .. io.n
    BY <2>2, <2>5 DEF KernelInv
  <2>q. QED
    BY <2>2, <2>3, <2>4, <2>5, <2>6, PosTyped DEF TypeOK, Typed
<1>q. QED
  BY <1>1, Invariance, PTL

\* sim_poller_thread copies every submission entry whole and executes the
\* commands in the order in which the kernels submitted them, although the
\* kernel's stores become visible in any order before __threadfence_system
\* and the ring is reused lap after lap.
THEOREM CopiedTheorem == Spec => []CopiedAsSubmitted
<1>1. IInv => CopiedAsSubmitted
  BY DEF IInv, Inv, RingInv, SqInv, Busy, CopiedAsSubmitted
<1>q. QED
  BY <1>1, Invariance, PTL

\* Whatever a read or write kernel of block_io.cu reports done is the same in
\* the buffer and on the device when it returns, although completions and
\* data of kernels that gave up on the same queue arrive late.
THEOREM AgreeTheorem == Spec => []DoneBlocksAgree
<1>1. IInv => DoneBlocksAgree
  <2>1. ASSUME IInv, gpu_pc = "idle" PROVE blocks_done = done /\ (res = "ok" => done = io.n)
    BY <2>1 DEF IInv, KernelInv
  <2>2. ASSUME IInv PROVE Agree(0, done)
    BY <2>2 DEF IInv, Inv, DataInv
  <2>q. QED
    BY <2>1, <2>2 DEF DoneBlocksAgree, Agree
<1>q. QED
  BY <1>1, Invariance, PTL

\* A write kernel that returns success has put the data of its own caller on
\* the device, if it began with nothing of an earlier call unprocessed.
THEOREM WrittenTheorem == Spec => []WrittenIsCallers
<1>1. IInv => WrittenIsCallers
  <2> SUFFICES ASSUME IInv, gpu_pc = "idle", res = "ok", io.op = "write", ~late,
                      NEW i \in 0 .. io.n - 1
               PROVE  vdev[io.lba + i] = CallerData(calls, i)
    BY DEF WrittenIsCallers
  <2>1. done = io.n /\ Agree(0, done)
    BY DEF IInv, KernelInv, Inv, DataInv
  <2>2. io.n \in 0 .. BufSize
    BY BatchFacts DEF IInv
  <2>3. i \in BufBlocks /\ i \in 0 .. done - 1
    BY <2>1, <2>2 DEF BufBlocks
  <2>4. buf[i] = CallerData(calls, i)
    BY <2>3 DEF IInv, WriteInv
  <2>q. QED
    BY <2>1, <2>3, <2>4 DEF Agree
<1>q. QED
  BY <1>1, Invariance, PTL

\* nvme_sim_destroy frees nothing the poller thread still works on.
THEOREM MemoryTheorem == Spec => []SimMemoryHeld
<1>1. IInv => SimMemoryHeld
  BY DEF IInv, ThreadInv, SimMemoryHeld
<1>q. QED
  BY <1>1, Invariance, PTL

\* Blocks of the virtual device that no write kernel was ever asked for keep
\* what was on them, over splits, time-outs, late commands and laps of the
\* rings, and a kernel that returns success had all its blocks on the device.
THEOREM OnlyAskedTheorem == Spec => []OnlyAskedWritten
<1>1. IInv => OnlyAskedWritten
  <2>1. ASSUME IInv, gpu_pc = "idle", res = "ok", io.n > 0 PROVE io.lba + io.n <= NumBlocks
    <3>1. done = io.n /\ Agree(0, done)
      BY <2>1 DEF IInv, KernelInv, Inv, DataInv
    <3>q. QED
      BY <2>1, <3>1 DEF Agree
  <2>q. QED
    BY <2>1 DEF IInv, AskedInv, OnlyAskedWritten
<1>q. QED
  BY <1>1, Invariance, PTL
=============================================================================
