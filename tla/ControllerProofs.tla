-------------------------- MODULE ControllerProofs --------------------------
(***************************************************************************)
(* Controller proved: for every ring size, every set of faults and any      *)
(* number of initialisations.                                               *)
(*                                                                         *)
(* The host never looks at an identifier, so that an answer is its own only *)
(* because nothing else can be on its way: since the last enable, which     *)
(* found the controller reset, every command was waited for (SyncInv).      *)
(* What the controller has of a queue pair then follows from the command    *)
(* the host is waiting for and whether it has been answered (QueueInv).     *)
(***************************************************************************)
EXTENDS Controller, TLAPS

USE SqSizeAssumption, CqSizeAssumption, CidModAssumption, ErrorCodesAssumption

----------------------------------------------------------------------------
(* The inductive invariant *)

\* What a reset leaves.
AtReset ==
    /\ sq_doorbell = 0 /\ cq_doorbell = 0
    /\ dev_sq_head = 0 /\ dev_cq_tail = 0 /\ dev_phase = 1
    /\ active = {} /\ ~dev_iocq /\ ~dev_iosq

\* EN follows the host's progress and the controller's state follows EN.
EnableInv ==
    /\ pc \in {"wait0", "alloc"} => ~en
    /\ pc \in {"wait1", "poll", "up", "shst"} => en
    /\ dstate \in (IF en THEN {"starting", "ready", "stopping"} ELSE {"off", "stopping"})
    /\ dstate = "off" \/ (dstate = "starting" /\ ~desync) => AtReset

\* What the host's structures say, whatever the controller does.
HostInv ==
    /\ pc \in {"wait0", "alloc", "wait1"} => xfer = "unset" /\ blk = "unset" /\ ioq = "none"
    /\ pc \in {"up", "shst"} => ioq # "alloc"
    /\ pc = "poll" => /\ cur.op # "none"
                      /\ cur.op = "id_ctrl" => xfer = "unset" /\ blk = "unset"
                      /\ cur.op \in {"id_ctrl", "id_ns"} => ioq = "none"
                      /\ cur.op \in {"create_cq", "create_sq", "undo_cq"} => ioq = "alloc"
                      /\ cur.op \in {"delete_sq", "delete_cq"} => ioq = "live"

\* Entries of this lap lie below the controller's position.
LapInv == \A s \in CqSlots :
    admin_cq[s].phase = IF s < dev_cq_tail THEN dev_phase ELSE 1 - dev_phase

\* Nothing is on its way to the controller, or from it.
NoCommand == active = {} /\ dev_sq_head = sq_doorbell
NoAnswer  == dev_cq_tail = cq_head /\ dev_phase = cq_phase

\* The command the host waits for: in the ring, at the controller, answered.
Unfetched == /\ active = {} /\ admin_sq[dev_sq_head] = cur
             /\ AdvanceSqTail(dev_sq_head) = sq_doorbell /\ NoAnswer
Fetched   == active = {cur} /\ dev_sq_head = sq_doorbell /\ NoAnswer
Answered  ==
    /\ NoCommand
    /\ dev_cq_tail = AdvanceCqHead(cq_head) /\ dev_phase = AdvanceCqPhase(cq_head, cq_phase)
    /\ admin_cq[cq_head].cid = cur.cid /\ admin_cq[cq_head].phase = cq_phase
    /\ admin_cq[cq_head].sct = 0 => admin_cq[cq_head].sc = 0 /\ (filled \/ cur.op \in blind)

\* Host and controller are in step.
InStep ==
    /\ dstate = "ready" /\ dev_gen = gen
    /\ sq_doorbell = sq_tail /\ cq_doorbell = cq_head
    /\ LapInv
    /\ IF pc = "poll" THEN Unfetched \/ Fetched \/ Answered ELSE NoCommand /\ NoAnswer

SyncInv == ~desync =>
    /\ pc \in {"off", "wait0", "alloc"} => NoCommand
    /\ pc = "wait1" => /\ AtReset /\ admin_cq = ZeroCq
                       /\ dstate # "stopping" /\ (dstate = "ready" => dev_gen = gen)
    /\ pc \in {"poll", "up", "shst"} => InStep

\* The controller's queues, by the command the host waits for.
AtCommand(op) ==
    LET cqe == admin_cq[cq_head] IN
    /\ op \in {"id_ctrl", "id_ns"} => ~dev_iocq /\ ~dev_iosq
    /\ op = "create_cq" => ~dev_iosq /\ (dev_iocq <=> CqeReady /\ cqe.sct = 0)
    /\ op = "create_sq" => (dev_iocq \/ masked) /\ (dev_iosq <=> CqeReady /\ cqe.sct = 0)
    /\ op \in {"undo_cq", "delete_cq"} => ~dev_iosq /\ (CqeReady => ~dev_iocq)
    /\ op = "delete_sq" /\ CqeReady => ~dev_iosq

QueueInv == ~desync /\ ~leak =>
    /\ pc # "poll" /\ ioq = "none" => ~dev_iocq /\ ~dev_iosq
    /\ pc \in {"up", "shst"} /\ ioq = "live" => masked \/ (dev_iocq /\ dev_iosq)
    /\ pc = "poll" => AtCommand(cur.op)

IInv == TypeOK /\ EnableInv /\ HostInv /\ SyncInv /\ IdentifiedIsReal /\ QueueInv

----------------------------------------------------------------------------
(* Rings and types *)

LEMMA Rings ==
    /\ \A t \in SqSlots : AdvanceSqTail(t) \in SqSlots /\ AdvanceSqTail(t) # t
    /\ \A h \in CqSlots : AdvanceCqHead(h) \in CqSlots
    /\ \A h \in CqSlots, p \in Phases : AdvanceCqPhase(h, p) \in Phases
    /\ \A c \in Cids : NextCid(c) \in Cids
    /\ 0 \in SqSlots /\ 0 \in CqSlots /\ 0 \in Cids
<1>1. ASSUME NEW t \in SqSlots PROVE AdvanceSqTail(t) \in SqSlots /\ AdvanceSqTail(t) # t
  <2>1. CASE t + 1 < SqSize
    BY <2>1 DEF SqSlots, AdvanceSqTail
  <2>2. CASE t + 1 = SqSize
    BY <2>2 DEF SqSlots, AdvanceSqTail
  <2>q. QED
    BY <2>1, <2>2 DEF SqSlots
<1>2. ASSUME NEW c \in Cids PROVE NextCid(c) \in Cids
  BY DEF Cids, NextCid
<1>q. QED
  BY <1>1, <1>2 DEF SqSlots, CqSlots, Cids, Phases, AdvanceCqHead, AdvanceCqPhase

Commands == [cid : Cids, op : Ops \cup {"none"}]
Answers  == [cid : Cids, sct : {0, 1}, sc : {0, 1}, phase : Phases]

LEMMA ZeroTyped ==
    /\ ZeroSqe \in Commands /\ ZeroSq \in [SqSlots -> Commands]
    /\ ZeroCq \in [CqSlots -> Answers]
BY Rings DEF ZeroSqe, ZeroSq, ZeroCqe, ZeroCq, Commands, Answers, Phases

LEMMA SubmitTyped ==
    ASSUME TypeOK, NEW op \in Ops, NEW tail \in SqSlots, NEW cid \in Cids, Submit(op, tail, cid)
    PROVE  /\ cur' \in Commands /\ admin_sq' \in [SqSlots -> Commands]
           /\ sq_tail' \in SqSlots /\ sq_doorbell' \in SqSlots /\ admin_cid' \in Cids
           /\ filled' \in BOOLEAN
<1>1. cur' \in Commands
  BY DEF Submit, Commands
<1>2. admin_sq \in [SqSlots -> Commands]
  BY DEF TypeOK, Commands
<1>3. admin_sq' \in [SqSlots -> Commands]
  BY <1>1, <1>2 DEF Submit
<1>q. QED
  BY <1>1, <1>3, Rings DEF Submit

LEMMA BackTyped ==
    ASSUME TypeOK, NEW w, NEW code, Back(w, code)
    PROVE  /\ cur' \in Commands /\ admin_sq' \in [SqSlots -> Commands]
           /\ sq_tail' \in SqSlots /\ sq_doorbell' \in SqSlots /\ admin_cid' \in Cids
           /\ filled' \in BOOLEAN
BY DEF Back, TypeOK, Commands

\* What a caller of gpunvme_admin_submit does next: it submits or it returns.
Outcome ==
    \/ \E op \in Ops : SubmitNext(op)
    \/ Back("up", "ok") \/ Back("up", "nomem") \/ Back("off", "nomem")

LEMMA AfterOutcome ==
    ASSUME TypeOK, NEW ok \in BOOLEAN, After(ok)
    PROVE  /\ Outcome
           /\ xfer' \in {"unset", "real", "garbage"} /\ blk' \in {"unset", "real", "garbage"}
           /\ ioq' \in {"none", "alloc", "live"} /\ leak' \in BOOLEAN
           /\ blind' \subseteq {"id_ctrl", "id_ns", "ioq"}
<1>0. xfer \in {"unset", "real", "garbage"} /\ blk \in {"unset", "real", "garbage"}
      /\ ioq \in {"none", "alloc", "live"} /\ leak \in BOOLEAN
      /\ blind \subseteq {"id_ctrl", "id_ns", "ioq"}
  BY DEF TypeOK
<1>1. CASE AfterIdentify(ok)
  <2>1. Parsed(ok) \in {"unset", "real", "garbage"}
    BY DEF Parsed
  <2>2. Outcome
    BY <1>1 DEF AfterIdentify, Outcome, Ops
  <2>q. QED
    BY <1>0, <1>1, <2>1, <2>2 DEF AfterIdentify, Lookup
<1>2. CASE AfterCreate(ok)
  BY <1>0, <1>2 DEF AfterCreate, CreateFailed, Outcome, Ops, UndoCq
<1>3. CASE AfterDelete
  BY <1>0, <1>3 DEF AfterDelete, Outcome, Ops
<1>q. QED
  BY <1>1, <1>2, <1>3 DEF After

LEMMA OutcomeTyped ==
    ASSUME TypeOK, Outcome
    PROVE  /\ cur' \in Commands /\ admin_sq' \in [SqSlots -> Commands]
           /\ sq_tail' \in SqSlots /\ sq_doorbell' \in SqSlots /\ admin_cid' \in Cids
           /\ filled' \in BOOLEAN /\ pc' \in {"poll", "up", "off"}
           /\ ret' \in {"none", "ok", "fatal", "timeout", "nomem"}
<1>0. sq_tail \in SqSlots /\ admin_cid \in Cids
  BY DEF TypeOK
<1>1. ASSUME NEW op \in Ops, SubmitNext(op)
      PROVE  Submit(op, sq_tail, admin_cid) /\ pc' = "poll" /\ ret' = ret
  BY <1>1 DEF SubmitNext, Submit
<1>2. CASE \E op \in Ops : SubmitNext(op)
  BY <1>0, <1>1, <1>2, SubmitTyped DEF TypeOK
<1>3. ASSUME NEW w, NEW code, Back(w, code) PROVE pc' = w /\ ret' = code
  BY <1>3 DEF Back
<1>q. QED
  BY <1>2, <1>3, BackTyped DEF Outcome

\* The completion entry is typed, and so are the controller's positions after it.
LEMMA PostTyped ==
    ASSUME TypeOK, NEW c \in active, NEW sct \in {0, 1}, NEW sc \in {0, 1}, Post(c, sct, sc)
    PROVE  /\ active' \subseteq Commands /\ admin_cq' \in [CqSlots -> Answers]
           /\ dev_cq_tail' \in CqSlots /\ dev_phase' \in Phases
<1>1. c \in Commands /\ active \subseteq Commands
  BY DEF TypeOK, Commands
<1>2. dev_cq_tail \in CqSlots /\ dev_phase \in Phases /\ admin_cq \in [CqSlots -> Answers]
  BY DEF TypeOK, Answers
<1>3. [cid |-> c.cid, sct |-> sct, sc |-> sc, phase |-> dev_phase] \in Answers
  BY <1>1, <1>2 DEF Answers, Commands
<1>4. admin_cq' \in [CqSlots -> Answers]
  BY <1>2, <1>3 DEF Post
<1>q. QED
  BY <1>1, <1>2, <1>4, Rings DEF Post

\* TypeOK in the words of the lemmas above.
LEMMA TypeParts ==
    TypeOK <=>
    /\ en \in BOOLEAN /\ shn \in BOOLEAN /\ shst \in BOOLEAN /\ cfs \in BOOLEAN
    /\ dev_iocq \in BOOLEAN /\ dev_iosq \in BOOLEAN /\ filled \in BOOLEAN
    /\ desync \in BOOLEAN /\ leak \in BOOLEAN /\ masked \in BOOLEAN
    /\ dstate \in {"off", "starting", "ready", "stopping"}
    /\ sq_doorbell \in SqSlots /\ dev_sq_head \in SqSlots /\ sq_tail \in SqSlots
    /\ cq_doorbell \in CqSlots /\ dev_cq_tail \in CqSlots /\ cq_head \in CqSlots
    /\ cq_phase \in Phases /\ dev_phase \in Phases
    /\ admin_cid \in Cids /\ gen \in Nat /\ dev_gen \in Nat /\ timeouts \in Nat
    /\ active \subseteq Commands
    /\ admin_sq \in [SqSlots -> Commands] /\ admin_cq \in [CqSlots -> Answers]
    /\ pc \in {"off", "wait0", "alloc", "wait1", "poll", "up", "shst"}
    /\ cur \in Commands
    /\ ret \in {"none", "ok", "fatal", "timeout", "nomem"}
    /\ xfer \in {"unset", "real", "garbage"} /\ blk \in {"unset", "real", "garbage"}
    /\ ioq \in {"none", "alloc", "live"}
    /\ blind \subseteq {"id_ctrl", "id_ns", "ioq"}
BY DEF TypeOK, Commands, Answers

LEMMA InitTyped == Init => TypeOK
<1> SUFFICES ASSUME Init PROVE TypeOK
  OBVIOUS
<1>1. /\ admin_sq \in [SqSlots -> Commands] /\ admin_cq \in [CqSlots -> Answers]
      /\ cur \in Commands
  BY ZeroTyped DEF Init
<1>2. dstate \in {"off", "starting", "ready", "stopping"}
  BY DEF Init
<1>q. QED
  BY <1>1, <1>2, Rings, TypeParts DEF Init, Phases

LEMMA HostTyped == TypeOK /\ Host => TypeOK'
<1> SUFFICES ASSUME TypeOK, Host PROVE TypeOK'
  OBVIOUS
<1>0. ASSUME NEW b \in BOOLEAN, WriteEn(b)
      PROVE  en' \in BOOLEAN /\ dstate' \in {"off", "starting", "ready", "stopping"}
  BY <1>0 DEF WriteEn, TypeOK
<1>1. CASE InitStart
  BY <1>0, <1>1 DEF InitStart, TypeOK, ring, hist
<1>2. CASE Wait0
  BY <1>2 DEF Wait0, Fail, TypeOK, regs, device, ring, hist
<1>3. CASE AllocFails
  BY <1>3 DEF AllocFails, Fail, TypeOK, regs, device, ring, hist
<1>4. CASE Enable
  <2>1. desync' \in BOOLEAN
    BY <1>4 DEF Enable, rdy
  <2>2. en' \in BOOLEAN /\ dstate' \in {"off", "starting", "ready", "stopping"}
    BY <1>0, <1>4 DEF Enable
  <2>3. admin_sq' \in [SqSlots -> Commands] /\ admin_cq' \in [CqSlots -> Answers]
    BY <1>4, ZeroTyped DEF Enable
  <2>4. shn' = FALSE /\ leak' = FALSE /\ masked' = FALSE /\ blind' = {} /\ pc' = "wait1" /\ gen' \in Nat
    BY <1>4 DEF Enable, TypeOK
  <2>5. UNCHANGED <<shst, cfs, sq_doorbell, cq_doorbell, dev_sq_head, dev_cq_tail, dev_phase,
                    dev_gen, active, dev_iocq, dev_iosq, sq_tail, cq_head, cq_phase, admin_cid,
                    cur, ret, xfer, blk, filled, ioq, timeouts>>
    BY <1>4 DEF Enable
  <2>q. QED
    BY <2>1, <2>2, <2>3, <2>4, <2>5 DEF TypeOK, Commands, Answers
<1>5. CASE Wait1Ready
  <2>1. blind' \subseteq {"id_ctrl", "id_ns", "ioq"}
    BY <1>5 DEF Wait1Ready, Lookup, TypeOK
  <2>2. /\ cur' \in Commands /\ admin_sq' \in [SqSlots -> Commands] /\ sq_tail' \in SqSlots
        /\ sq_doorbell' \in SqSlots /\ admin_cid' \in Cids /\ filled' \in BOOLEAN
        /\ pc' \in {"poll", "off"} /\ ret' \in {"none", "ok", "fatal", "timeout", "nomem"}
    <3>1. CASE Submit("id_ctrl", 0, 0) /\ UNCHANGED ret
      <4>1. "id_ctrl" \in Ops /\ pc' = "poll"
        BY <3>1 DEF Ops, Submit
      <4>q. QED
        BY <3>1, <4>1, SubmitTyped, Rings DEF TypeOK
    <3>2. CASE /\ Fail("nomem") /\ sq_tail' = 0 /\ admin_cid' = 0
               /\ UNCHANGED <<cur, admin_sq, sq_doorbell, filled>>
      BY <3>2, Rings DEF Fail, TypeOK, Commands
    <3>q. QED
      BY <1>5, <3>1, <3>2 DEF Wait1Ready
  <2>3. cq_head' \in CqSlots /\ cq_phase' \in Phases
    BY <1>5, Rings DEF Wait1Ready, Phases
  <2>4. UNCHANGED <<en, shn, shst, cfs, cq_doorbell, device, admin_cq, gen, xfer, blk, ioq,
                    desync, leak, masked, timeouts>>
    BY <1>5 DEF Wait1Ready
  <2>q. QED
    BY <2>1, <2>2, <2>3, <2>4 DEF TypeOK, device, Commands, Answers
<1>6. CASE Wait1Fails
  BY <1>6 DEF Wait1Fails, Fail, TypeOK, regs, device, ring, hist
<1>7. CASE PollAnswer
  <2>1. PICK ok \in BOOLEAN : After(ok)
    BY <1>7 DEF PollAnswer, Succeeded
  <2>2. Outcome
    BY <2>1, AfterOutcome
  <2>3. masked' \in BOOLEAN
    BY <1>7 DEF PollAnswer
  <2>4. cq_head' \in CqSlots /\ cq_phase' \in Phases /\ cq_doorbell' \in CqSlots
    BY <1>7, Rings DEF PollAnswer, TypeOK
  <2>5. UNCHANGED <<en, shn, shst, cfs, device, admin_cq, gen, desync, timeouts>>
    BY <1>7 DEF PollAnswer
  <2>q. QED
    BY <2>1, <2>2, <2>3, <2>4, <2>5, AfterOutcome, OutcomeTyped DEF device, TypeOK, Commands, Answers
<1>8. CASE PollTimeout
  <2>1. After(FALSE)
    BY <1>8 DEF PollTimeout
  <2>2. Outcome
    BY <2>1, AfterOutcome
  <2>3. timeouts' \in Nat /\ desync' \in BOOLEAN
    BY <1>8 DEF PollTimeout, TypeOK
  <2>4. UNCHANGED <<en, shn, shst, cfs, cq_doorbell, device, admin_cq, cq_head, cq_phase, gen, masked>>
    BY <1>8 DEF PollTimeout
  <2>q. QED
    BY <2>1, <2>2, <2>3, <2>4, AfterOutcome, OutcomeTyped DEF device, TypeOK, Commands, Answers
<1>9. CASE CreateQueue
  <2>1. blind' \subseteq {"id_ctrl", "id_ns", "ioq"}
    BY <1>9 DEF CreateQueue, Lookup, TypeOK
  <2>2. /\ cur' \in Commands /\ admin_sq' \in [SqSlots -> Commands] /\ sq_tail' \in SqSlots
        /\ sq_doorbell' \in SqSlots /\ admin_cid' \in Cids /\ filled' \in BOOLEAN
    <3>1. "create_cq" \in Ops /\ sq_tail \in SqSlots /\ admin_cid \in Cids
      BY DEF Ops, TypeOK
    <3>q. QED
      BY <1>9, <3>1, SubmitTyped DEF CreateQueue
  <2>3. /\ pc' = "poll" /\ ioq' = "alloc" /\ ret' = "none"
        /\ UNCHANGED <<en, shn, shst, cfs, cq_doorbell, device, admin_cq, cq_head, cq_phase, gen,
                       xfer, blk, desync, leak, masked, timeouts>>
    BY <1>9 DEF CreateQueue, Submit
  <2>q. QED
    BY <2>1, <2>2, <2>3 DEF TypeOK, device, Commands, Answers
<1>10. CASE CreateNomem
  BY <1>10 DEF CreateNomem, TypeOK, regs, device, ring, hist
<1>11. CASE DeleteQueue
  BY <1>11, SubmitTyped DEF DeleteQueue, Submit, TypeOK, device, hist, Commands, Answers, Ops
<1>12. CASE ShutdownStart
  BY <1>12 DEF ShutdownStart, TypeOK, device, ring, hist
<1>13. CASE ShutdownEnd
  BY <1>0, <1>13 DEF ShutdownEnd, Fail, TypeOK, ring, hist
<1>q. QED
  BY <1>1, <1>2, <1>3, <1>4, <1>5, <1>6, <1>7, <1>8, <1>9, <1>10, <1>11, <1>12, <1>13 DEF Host

\* The three ways a command ends, as one: the controller answers it.
Ends(c) == DevExecute(c) \/ DevRefuse(c) \/ \E sc \in ErrorCodes : DevError(c, sc)

LEMMA EndsPosts ==
    ASSUME NEW c, Ends(c)
    PROVE  \E sct \in {0, 1}, sc \in {0, 1} : Post(c, sct, sc)
<1>1. CASE DevExecute(c)
  BY <1>1 DEF DevExecute
<1>2. CASE DevRefuse(c)
  BY <1>2 DEF DevRefuse
<1>3. CASE \E sc \in ErrorCodes : DevError(c, sc)
  BY <1>3 DEF DevError
<1>q. QED
  BY <1>1, <1>2, <1>3 DEF Ends

LEMMA DeviceTyped == TypeOK /\ Device => TypeOK'
<1> SUFFICES ASSUME TypeOK, Device PROVE TypeOK'
  OBVIOUS
<1>1. CASE DevReady
  BY <1>1 DEF DevReady, TypeOK, regs, ring, host, hist
<1>2. CASE DevResetDone
  BY <1>2, Rings DEF DevResetDone, TypeOK, ring, host, hist, Phases
<1>3. CASE DevShutdown
  BY <1>3 DEF DevShutdown, TypeOK, device, ring, host, hist
<1>4. CASE DevFatal
  BY <1>4 DEF DevFatal, TypeOK, device, ring, host, hist
<1>5. CASE DevFetch
  <2>1. active' \subseteq Commands
    BY <1>5 DEF DevFetch, TypeOK, Commands
  <2>q. QED
    BY <1>5, <2>1, Rings DEF DevFetch, TypeOK, regs, ring, host, hist, Commands
<1>6. ASSUME NEW c \in active, Ends(c) PROVE TypeOK'
  <2>1. PICK sct \in {0, 1}, sc \in {0, 1} : Post(c, sct, sc)
    BY <1>6, EndsPosts
  <2>2. /\ active' \subseteq Commands /\ admin_cq' \in [CqSlots -> Answers]
        /\ dev_cq_tail' \in CqSlots /\ dev_phase' \in Phases
    BY <2>1, PostTyped
  <2>3. /\ dev_iocq' \in BOOLEAN /\ dev_iosq' \in BOOLEAN
        /\ filled' \in BOOLEAN /\ leak' \in BOOLEAN
    BY <1>6 DEF Ends, DevExecute, DevRefuse, DevError, TypeOK
  <2>4. UNCHANGED <<regs, dstate, dev_sq_head, dev_gen, admin_sq, sq_tail, cq_head, cq_phase,
                    admin_cid, gen, pc, cur, ret, xfer, blk, ioq, desync, masked, blind, timeouts>>
    BY <2>1 DEF Post
  <2>q. QED
    BY <2>2, <2>3, <2>4 DEF TypeOK, regs, Commands, Answers
<1>q. QED
  BY <1>1, <1>2, <1>3, <1>4, <1>5, <1>6 DEF Device, Ends

----------------------------------------------------------------------------
(* EN, and what the host's structures say *)

LEMMA EnableHost ==
    ASSUME IInv, Host
    PROVE  EnableInv'
<1> USE DEF IInv
<1>1. CASE InitStart
  BY <1>1 DEF InitStart, WriteEn, EnableInv, AtReset, TypeOK, ring, hist
<1>2. CASE Wait0
  BY <1>2 DEF Wait0, Fail, EnableInv, AtReset, TypeOK, regs, device, hist
<1>3. CASE AllocFails
  BY <1>3 DEF AllocFails, Fail, EnableInv, AtReset, TypeOK, regs, device, hist
<1>4. CASE Enable
  BY <1>4 DEF Enable, WriteEn, EnableInv, AtReset, TypeOK, rdy
<1>5. CASE Wait1Ready
  <2>1. en /\ dstate # "off" /\ dstate # "starting"
    BY <1>5 DEF Wait1Ready, EnableInv, rdy
  <2>2. en' /\ dstate' = dstate /\ pc' \in {"poll", "off"}
    BY <1>5, <2>1 DEF Wait1Ready, device, Submit, Fail
  <2>q. QED
    BY <1>5, <2>1, <2>2 DEF EnableInv
<1>6. CASE Wait1Fails
  BY <1>6 DEF Wait1Fails, Fail, EnableInv, AtReset, TypeOK, regs, device, hist
<1>7. CASE PollAnswer \/ PollTimeout
  <2>1. en /\ dstate # "off" /\ (dstate = "starting" => desync)
    BY <1>7 DEF PollAnswer, PollTimeout, EnableInv, SyncInv, InStep
  <2>2. en' = en /\ dstate' = dstate
    BY <1>7 DEF PollAnswer, PollTimeout, device
  <2>3. desync => desync'
    BY <1>7 DEF PollAnswer, PollTimeout
  <2>4. PICK ok \in BOOLEAN : After(ok)
    BY <1>7 DEF PollAnswer, PollTimeout, Succeeded
  <2>5. pc' \in {"poll", "up", "off"}
    BY <2>4, AfterOutcome, OutcomeTyped
  <2>q. QED
    BY <2>1, <2>2, <2>3, <2>5 DEF EnableInv, TypeOK
<1>8. CASE CreateQueue \/ DeleteQueue
  <2>1. en /\ dstate # "off" /\ (dstate = "starting" => desync)
    BY <1>8 DEF CreateQueue, DeleteQueue, EnableInv, SyncInv, InStep
  <2>2. en' = en /\ dstate' = dstate /\ desync' = desync /\ pc' = "poll"
    BY <1>8 DEF CreateQueue, DeleteQueue, Submit, device, hist
  <2>q. QED
    BY <2>1, <2>2 DEF EnableInv, TypeOK
<1>9. CASE CreateNomem
  BY <1>9 DEF CreateNomem, EnableInv, AtReset, TypeOK, regs, device, hist
<1>10. CASE ShutdownStart
  BY <1>10 DEF ShutdownStart, EnableInv, AtReset, TypeOK, device, hist
<1>11. CASE ShutdownEnd
  BY <1>11 DEF ShutdownEnd, WriteEn, Fail, EnableInv, AtReset, TypeOK, hist
<1>q. QED
  BY <1>1, <1>2, <1>3, <1>4, <1>5, <1>6, <1>7, <1>8, <1>9, <1>10, <1>11 DEF Host

LEMMA EnableDevice ==
    ASSUME IInv, Device
    PROVE  EnableInv'
<1> USE DEF IInv
<1>1. CASE DevReady
  BY <1>1 DEF DevReady, EnableInv, TypeOK, regs, host, hist
<1>2. CASE DevResetDone
  BY <1>2 DEF DevResetDone, EnableInv, AtReset, TypeOK, host, hist
<1>3. CASE DevShutdown
  BY <1>3 DEF DevShutdown, EnableInv, AtReset, TypeOK, device, host, hist
<1>4. CASE DevFatal
  BY <1>4 DEF DevFatal, EnableInv, AtReset, TypeOK, device, host, hist
<1>5. CASE DevFetch
  BY <1>5 DEF DevFetch, EnableInv, TypeOK, regs, host, hist
<1>6. ASSUME NEW c \in active, Ends(c) PROVE EnableInv'
  <2>1. PICK sct \in {0, 1}, sc \in {0, 1} : Post(c, sct, sc)
    BY <1>6, EndsPosts
  <2>2. rdy
    BY <1>6 DEF Ends, DevExecute, DevRefuse, DevError
  <2>q. QED
    BY <2>1, <2>2 DEF Post, EnableInv, TypeOK, rdy, regs
<1>q. QED
  BY <1>1, <1>2, <1>3, <1>4, <1>5, <1>6 DEF Device, Ends

LEMMA HostInvHost ==
    ASSUME IInv, Host
    PROVE  HostInv'
<1> USE DEF IInv
<1>1. CASE InitStart
  BY <1>1 DEF InitStart, HostInv
<1>2. CASE Wait0
  BY <1>2 DEF Wait0, Fail, HostInv
<1>3. CASE AllocFails \/ Wait1Fails
  BY <1>3 DEF AllocFails, Wait1Fails, Fail, HostInv
<1>4. CASE Enable
  BY <1>4 DEF Enable, HostInv
<1>5. CASE Wait1Ready
  BY <1>5 DEF Wait1Ready, Submit, Fail, HostInv
<1>6. ASSUME NEW ok \in BOOLEAN, pc = "poll", After(ok) PROVE HostInv'
  <2>1. CASE AfterIdentify(ok)
    BY <1>6, <2>1 DEF AfterIdentify, SubmitNext, Submit, Back, HostInv
  <2>2. CASE AfterCreate(ok)
    BY <1>6, <2>2 DEF AfterCreate, CreateFailed, UndoCq, SubmitNext, Submit, Back, HostInv
  <2>3. CASE AfterDelete
    BY <1>6, <2>3 DEF AfterDelete, SubmitNext, Submit, Back, HostInv
  <2>q. QED
    BY <1>6, <2>1, <2>2, <2>3 DEF After
<1>7. CASE PollAnswer
  <2>1. PICK ok \in BOOLEAN : After(ok)
    BY <1>7 DEF PollAnswer, Succeeded
  <2>q. QED
    BY <1>6, <1>7, <2>1 DEF PollAnswer
<1>8. CASE PollTimeout
  BY <1>6, <1>8 DEF PollTimeout
<1>9. CASE CreateQueue \/ DeleteQueue
  BY <1>9 DEF CreateQueue, DeleteQueue, Submit, HostInv
<1>10. CASE CreateNomem \/ ShutdownStart \/ ShutdownEnd
  BY <1>10 DEF CreateNomem, ShutdownStart, ShutdownEnd, Fail, HostInv
<1>q. QED
  BY <1>1, <1>2, <1>3, <1>4, <1>5, <1>7, <1>8, <1>9, <1>10 DEF Host

\* The controller changes nothing of the host's but the buffer it fills.
LEMMA DeviceKeeps ==
    ASSUME Device
    PROVE  UNCHANGED <<en, shn, admin_sq, sq_tail, cq_head, cq_phase, admin_cid, gen,
                       pc, cur, ret, xfer, blk, ioq, desync, masked, blind, timeouts>>
<1>1. CASE DevReady \/ DevResetDone \/ DevShutdown \/ DevFatal \/ DevFetch
  BY <1>1 DEF DevReady, DevResetDone, DevShutdown, DevFatal, DevFetch, regs, ring, host, hist
<1>2. ASSUME NEW c \in active, Ends(c)
      PROVE  UNCHANGED <<en, shn, admin_sq, sq_tail, cq_head, cq_phase, admin_cid, gen,
                         pc, cur, ret, xfer, blk, ioq, desync, masked, blind, timeouts>>
  BY <1>2, EndsPosts DEF Post, regs
<1>q. QED
  BY <1>1, <1>2 DEF Device, Ends

----------------------------------------------------------------------------
(* Host and controller in step *)

\* With nothing on its way, a submission puts the one command into the ring.
LEMMA SubmitSync ==
    ASSUME TypeOK, NoCommand, sq_doorbell = sq_tail, NEW op, Submit(op, sq_tail, admin_cid),
           UNCHANGED <<active, dev_sq_head>>
    PROVE  /\ pc' = "poll" /\ sq_doorbell' = sq_tail'
           /\ active' = {} /\ admin_sq'[dev_sq_head'] = cur'
           /\ AdvanceSqTail(dev_sq_head') = sq_doorbell'
<1>1. dev_sq_head = sq_tail /\ dev_sq_head' = sq_tail /\ active' = {}
  BY DEF NoCommand
<1>2. admin_sq' = [admin_sq EXCEPT ![sq_tail] = cur'] /\ sq_tail \in DOMAIN admin_sq
  BY DEF Submit, TypeOK
<1>3. admin_sq'[sq_tail] = cur'
  BY <1>2
<1>q. QED
  BY <1>1, <1>3 DEF Submit

\* As long as the entry at the host's position is of the last lap, there is no
\* answer; so if there is one, it is the command's.
LEMMA ReadyMeansAnswered ==
    ASSUME TypeOK, InStep
    PROVE  /\ pc = "poll" => (CqeReady <=> Answered)
           /\ pc # "poll" => ~CqeReady
           /\ Unfetched \/ Fetched => ~CqeReady
<1>1. ASSUME NoAnswer PROVE ~CqeReady
  <2>1. admin_cq[cq_head].phase = 1 - cq_phase
    BY <1>1 DEF InStep, LapInv, NoAnswer, TypeOK, CqSlots
  <2>2. 1 - cq_phase # cq_phase
    BY DEF TypeOK, Phases
  <2>q. QED
    BY <2>1, <2>2 DEF CqeReady
<1>2. Answered => CqeReady
  BY DEF Answered, CqeReady
<1>q. QED
  BY <1>1, <1>2 DEF InStep, Unfetched, Fetched

LEMMA SyncSubmits ==
    ASSUME TypeOK, InStep, ~desync, pc = "up", NEW op, Submit(op, sq_tail, admin_cid),
           UNCHANGED <<device, admin_cq, cq_head, cq_phase, cq_doorbell, gen>>
    PROVE  SyncInv'
<1>1. NoCommand /\ NoAnswer /\ sq_doorbell = sq_tail /\ UNCHANGED <<active, dev_sq_head>>
  BY DEF InStep, device
<1>2. /\ pc' = "poll" /\ sq_doorbell' = sq_tail'
      /\ active' = {} /\ admin_sq'[dev_sq_head'] = cur'
      /\ AdvanceSqTail(dev_sq_head') = sq_doorbell'
  BY <1>1, SubmitSync
<1>3. Unfetched'
  BY <1>1, <1>2 DEF Unfetched, NoAnswer, device
<1>4. LapInv'
  BY DEF InStep, LapInv, device
<1>5. InStep'
  BY <1>2, <1>3, <1>4 DEF InStep, device
<1>q. QED
  BY <1>2, <1>5 DEF SyncInv

\* Taking the answer brings the host to the controller's position.
LEMMA AnswerTaken ==
    ASSUME TypeOK, InStep, pc = "poll", PollAnswer
    PROVE  /\ Answered
           /\ cq_head' = dev_cq_tail' /\ cq_phase' = dev_phase' /\ cq_doorbell' = cq_head'
           /\ NoCommand /\ UNCHANGED <<active, dev_sq_head, dstate, dev_gen, gen, desync>>
           /\ LapInv' /\ sq_doorbell = sq_tail
<1>1. CqeReady
  BY DEF PollAnswer
<1>2. Answered
  BY <1>1, ReadyMeansAnswered
<1>3. UNCHANGED <<device, admin_cq, gen, desync>>
  BY DEF PollAnswer
<1>4. UNCHANGED <<active, dev_sq_head, dstate, dev_gen, gen, desync, dev_cq_tail, dev_phase, admin_cq>>
  BY <1>3 DEF device
<1>5. cq_head' = AdvanceCqHead(cq_head) /\ cq_phase' = AdvanceCqPhase(cq_head, cq_phase)
      /\ cq_doorbell' = cq_head'
  BY DEF PollAnswer
<1>6. LapInv'
  BY <1>4 DEF InStep, LapInv
<1>q. QED
  BY <1>2, <1>4, <1>5, <1>6 DEF Answered, InStep

LEMMA SyncHost ==
    ASSUME IInv, Host
    PROVE  SyncInv'
<1> USE DEF IInv
<1>1. CASE InitStart
  <2>1. UNCHANGED <<sq_doorbell, dev_sq_head, active, desync>> /\ pc = "off"
    BY <1>1 DEF InitStart, hist
  <2>2. pc' \in {"wait0", "alloc"}
    BY <1>1 DEF InitStart
  <2>q. QED
    BY <2>1, <2>2 DEF SyncInv, NoCommand
<1>2. CASE Wait0 \/ AllocFails \/ Wait1Fails
  <2>1. UNCHANGED <<sq_doorbell, dev_sq_head, active, desync>>
    BY <1>2 DEF Wait0, AllocFails, Wait1Fails, regs, device, hist
  <2>2. pc' \in {"off", "alloc"} /\ pc \in {"wait0", "alloc", "wait1"}
    BY <1>2 DEF Wait0, AllocFails, Wait1Fails, Fail
  <2>q. QED
    BY <2>1, <2>2 DEF SyncInv, NoCommand, AtReset
<1>3. CASE Enable
  <2> SUFFICES ASSUME ~desync' PROVE SyncInv'
    BY DEF SyncInv
  <2>1. ~rdy /\ ~en
    BY <1>3 DEF Enable, EnableInv, TypeOK
  <2>2. dstate = "off" /\ AtReset
    BY <2>1 DEF EnableInv, rdy
  <2>3. dstate' = "starting" /\ pc' = "wait1" /\ admin_cq' = ZeroCq
    BY <1>3, <2>2 DEF Enable, WriteEn
  <2>4. AtReset'
    BY <1>3, <2>2 DEF Enable, AtReset
  <2>q. QED
    BY <2>3, <2>4 DEF SyncInv
<1>4. CASE Wait1Ready
  <2> SUFFICES ASSUME ~desync' PROVE SyncInv'
    BY DEF SyncInv
  <2>0. UNCHANGED <<cq_doorbell, device, admin_cq, gen, desync>>
    BY <1>4 DEF Wait1Ready, hist
  <2>1. AtReset /\ admin_cq = ZeroCq /\ dstate = "ready" /\ dev_gen = gen
    BY <1>4, <2>0 DEF Wait1Ready, SyncInv, rdy
  <2>2. CASE Submit("id_ctrl", 0, 0)
    <3>1. admin_sq' = [admin_sq EXCEPT ![0] = cur'] /\ 0 \in DOMAIN admin_sq
      BY <2>2, Rings DEF Submit, TypeOK
    <3>2. admin_sq'[0] = cur'
      BY <3>1
    <3>3. pc' = "poll" /\ sq_tail' = AdvanceSqTail(0) /\ sq_doorbell' = sq_tail'
      BY <2>2 DEF Submit
    <3>4. cq_head' = 0 /\ cq_phase' = 1
      BY <1>4 DEF Wait1Ready
    <3>5. Unfetched'
      BY <2>0, <2>1, <3>2, <3>3, <3>4 DEF Unfetched, NoAnswer, AtReset, device
    <3>6. LapInv'
      <4>1. \A s \in CqSlots : ZeroCq[s].phase = 0
        BY DEF ZeroCq, ZeroCqe
      <4>2. admin_cq' = ZeroCq /\ dev_cq_tail' = 0 /\ dev_phase' = 1
        BY <2>0, <2>1 DEF AtReset, device
      <4>q. QED
        BY <4>1, <4>2 DEF LapInv, CqSlots
    <3>7. InStep'
      BY <2>0, <2>1, <3>3, <3>4, <3>5, <3>6 DEF InStep, AtReset, device
    <3>q. QED
      BY <3>3, <3>7 DEF SyncInv
  <2>3. CASE pc' = "off" /\ UNCHANGED sq_doorbell
    BY <2>0, <2>1, <2>3 DEF SyncInv, NoCommand, AtReset, device
  <2>q. QED
    BY <1>4, <2>2, <2>3 DEF Wait1Ready, Fail
<1>5. CASE PollAnswer
  <2> SUFFICES ASSUME ~desync' PROVE SyncInv'
    BY DEF SyncInv
  <2>0. ~desync /\ pc = "poll"
    BY <1>5 DEF PollAnswer
  <2>1. InStep
    BY <2>0 DEF SyncInv
  <2>2. /\ cq_head' = dev_cq_tail' /\ cq_phase' = dev_phase' /\ cq_doorbell' = cq_head'
        /\ NoCommand /\ UNCHANGED <<active, dev_sq_head, dstate, dev_gen, gen, desync>>
        /\ LapInv' /\ sq_doorbell = sq_tail
    BY <1>5, <2>0, <2>1, AnswerTaken
  <2>3. PICK ok \in BOOLEAN : After(ok)
    BY <1>5 DEF PollAnswer, Succeeded
  <2>4. Outcome
    BY <2>3, AfterOutcome
  <2>5. ASSUME NEW op \in Ops, SubmitNext(op) PROVE SyncInv'
    <3>1. /\ pc' = "poll" /\ sq_doorbell' = sq_tail'
          /\ active' = {} /\ admin_sq'[dev_sq_head'] = cur'
          /\ AdvanceSqTail(dev_sq_head') = sq_doorbell'
      BY <2>2, <2>5, SubmitSync DEF SubmitNext
    <3>2. Unfetched' /\ NoAnswer'
      BY <2>2, <3>1 DEF Unfetched, NoAnswer
    <3>3. InStep'
      BY <2>1, <2>2, <3>1, <3>2 DEF InStep
    <3>q. QED
      BY <3>1, <3>3 DEF SyncInv
  <2>6. ASSUME NEW w \in {"up", "off"}, NEW code, Back(w, code) PROVE SyncInv'
    <3>1. pc' = w /\ sq_doorbell' = sq_doorbell /\ sq_tail' = sq_tail
      BY <2>6 DEF Back
    <3>2. NoCommand' /\ NoAnswer'
      BY <2>2, <3>1 DEF NoCommand, NoAnswer
    <3>3. InStep'
      BY <2>1, <2>2, <3>1, <3>2 DEF InStep
    <3>q. QED
      BY <3>1, <3>2, <3>3 DEF SyncInv
  <2>q. QED
    BY <2>4, <2>5, <2>6 DEF Outcome
<1>6. CASE PollTimeout
  BY <1>6 DEF PollTimeout, SyncInv
<1>7. CASE CreateQueue \/ DeleteQueue
  <2> SUFFICES ASSUME ~desync' PROVE SyncInv'
    BY DEF SyncInv
  <2>1. ~desync /\ pc = "up"
    BY <1>7 DEF CreateQueue, DeleteQueue, hist
  <2>2. UNCHANGED <<device, admin_cq, cq_head, cq_phase, cq_doorbell, gen>>
    BY <1>7 DEF CreateQueue, DeleteQueue
  <2>3. PICK op : Submit(op, sq_tail, admin_cid)
    BY <1>7 DEF CreateQueue, DeleteQueue
  <2>q. QED
    BY <2>1, <2>2, <2>3, SyncSubmits DEF SyncInv
<1>8. CASE CreateNomem \/ ShutdownStart
  <2>1. UNCHANGED <<dstate, dev_gen, gen, sq_doorbell, sq_tail, cq_doorbell, cq_head, cq_phase,
                    active, dev_sq_head, dev_cq_tail, dev_phase, admin_cq, desync>>
    BY <1>8 DEF CreateNomem, ShutdownStart, regs, device, ring, hist
  <2>2. pc = "up" /\ pc' \in {"up", "shst"}
    BY <1>8 DEF CreateNomem, ShutdownStart
  <2>q. QED
    BY <2>1, <2>2 DEF SyncInv, InStep, NoCommand, NoAnswer, LapInv
<1>9. CASE ShutdownEnd
  <2>1. UNCHANGED <<sq_doorbell, active, dev_sq_head, desync>> /\ pc = "shst" /\ pc' = "off"
    BY <1>9 DEF ShutdownEnd, Fail, hist
  <2>q. QED
    BY <2>1 DEF SyncInv, InStep, NoCommand
<1>q. QED
  BY <1>1, <1>2, <1>3, <1>4, <1>5, <1>6, <1>7, <1>8, <1>9 DEF Host

\* In step, a command that ends is the one the host waits for, and its answer
\* is what the host finds next.
LEMMA EndsAnswers ==
    ASSUME IInv, ~desync, NEW c \in active, Ends(c)
    PROVE  /\ pc = "poll" /\ InStep /\ Fetched /\ c = cur
           /\ InStep' /\ Answered'
<1> USE DEF IInv
<1>1. pc = "poll" /\ InStep
  BY DEF SyncInv, InStep, NoCommand, AtReset, TypeOK
<1>2. Fetched /\ c = cur
  BY <1>1 DEF InStep, Unfetched, Fetched, Answered, NoCommand
<1>3. PICK sct \in {0, 1}, sc \in {0, 1} :
        Post(c, sct, sc) /\ (sct = 0 => sc = 0 /\ (filled' \/ cur.op \in blind))
  <2>1. CASE DevExecute(c)
    BY <1>1, <1>2, <2>1 DEF DevExecute, InStep
  <2>2. CASE DevRefuse(c)
    BY <2>2 DEF DevRefuse
  <2>3. CASE \E sc \in ErrorCodes : DevError(c, sc)
    BY <2>3 DEF DevError
  <2>q. QED
    BY <2>1, <2>2, <2>3 DEF Ends
<1> DEFINE e == [cid |-> c.cid, sct |-> sct, sc |-> sc, phase |-> dev_phase]
           t == dev_cq_tail
<1>4. admin_cq' = [admin_cq EXCEPT ![t] = e] /\ t \in CqSlots /\ DOMAIN admin_cq = CqSlots
  BY <1>1, <1>3 DEF Post, InStep, TypeOK
<1>5. admin_cq'[t] = e /\ \A s \in CqSlots : s # t => admin_cq'[s] = admin_cq[s]
  BY <1>4
<1>6. dev_cq_tail' = AdvanceCqHead(t) /\ dev_phase' = AdvanceCqPhase(t, dev_phase)
      /\ active' = active \ {c}
  BY <1>3 DEF Post
<1>7. UNCHANGED <<dstate, dev_sq_head, dev_gen, sq_tail, cq_head, cq_phase, gen, pc, cur,
                  sq_doorbell, cq_doorbell, blind>>
  BY <1>3 DEF Post, regs
<1>8. dev_cq_tail = cq_head /\ dev_phase = cq_phase /\ dev_phase \in {0, 1}
  BY <1>2 DEF Fetched, NoAnswer, TypeOK, Phases
<1>9. Answered'
  <2>1. admin_cq'[cq_head'] = e
    BY <1>5, <1>7, <1>8
  <2>2. e.cid = cur'.cid /\ e.phase = cq_phase' /\ (e.sct = 0 => e.sc = 0 /\ (filled' \/ cur'.op \in blind'))
    BY <1>2, <1>3, <1>7, <1>8
  <2>3. NoCommand'
    BY <1>2, <1>6, <1>7 DEF Fetched, NoCommand
  <2>4. dev_cq_tail' = AdvanceCqHead(cq_head') /\ dev_phase' = AdvanceCqPhase(cq_head', cq_phase')
    BY <1>6, <1>7, <1>8
  <2> HIDE DEF e, t
  <2>q. QED
    BY <2>1, <2>2, <2>3, <2>4 DEF Answered
<1>10. LapInv'
  <2> SUFFICES ASSUME NEW s \in CqSlots
               PROVE  admin_cq'[s].phase = IF s < dev_cq_tail' THEN dev_phase' ELSE 1 - dev_phase'
    BY DEF LapInv
  <2>1. admin_cq[s].phase = IF s < t THEN dev_phase ELSE 1 - dev_phase
    BY <1>1 DEF InStep, LapInv
  <2>2. admin_cq'[s].phase = IF s <= t THEN dev_phase ELSE 1 - dev_phase
    <3>1. CASE s = t
      BY <1>5, <3>1, <1>4 DEF CqSlots
    <3>2. CASE s # t
      BY <1>5, <2>1, <3>2, <1>4 DEF CqSlots
    <3>q. QED
      BY <3>1, <3>2
  <2> HIDE DEF e, t
  <2>3. CASE t + 1 >= CqSize
    <3>1. s <= t /\ dev_cq_tail' = 0 /\ dev_phase' = 1 - dev_phase
      BY <1>4, <1>6, <2>3 DEF AdvanceCqHead, AdvanceCqPhase, CqSlots
    <3>q. QED
      BY <1>8, <2>2, <3>1 DEF CqSlots
  <2>4. CASE ~(t + 1 >= CqSize)
    <3>1. dev_cq_tail' = t + 1 /\ dev_phase' = dev_phase
      BY <1>6, <2>4 DEF AdvanceCqHead, AdvanceCqPhase
    <3>q. QED
      BY <1>4, <2>2, <3>1 DEF CqSlots
  <2>q. QED
    BY <2>3, <2>4
<1>11. InStep'
  <2> HIDE DEF e, t
  <2>q. QED
    BY <1>1, <1>7, <1>9, <1>10 DEF InStep
<1>q. QED
  BY <1>1, <1>2, <1>9, <1>11

LEMMA SyncDevice ==
    ASSUME IInv, Device
    PROVE  SyncInv'
<1> USE DEF IInv
<1> SUFFICES ASSUME ~desync' PROVE SyncInv'
  BY DEF SyncInv
<1>0. ~desync /\ UNCHANGED <<pc, cur, gen, sq_tail, cq_head, cq_phase, admin_sq, blind>>
  BY DeviceKeeps
<1>1. CASE DevReady
  <2>1. ~(pc \in {"poll", "up", "shst"})
    BY <1>0, <1>1 DEF DevReady, SyncInv, InStep
  <2>2. UNCHANGED <<sq_doorbell, cq_doorbell, dev_sq_head, dev_cq_tail, dev_phase, active,
                    dev_iocq, dev_iosq, admin_cq>> /\ dstate' = "ready" /\ dev_gen' = gen
    BY <1>1 DEF DevReady, regs, ring
  <2>q. QED
    BY <1>0, <2>1, <2>2 DEF SyncInv, NoCommand, AtReset
<1>2. CASE DevResetDone
  <2>1. pc \in {"off", "wait0", "alloc"}
    BY <1>0, <1>2 DEF DevResetDone, SyncInv, InStep, TypeOK
  <2>2. NoCommand'
    BY <1>2 DEF DevResetDone, NoCommand
  <2>q. QED
    BY <1>0, <2>1, <2>2 DEF SyncInv
<1>3. CASE DevShutdown \/ DevFatal
  <2>1. UNCHANGED <<dstate, dev_gen, gen, sq_doorbell, sq_tail, cq_doorbell, cq_head, cq_phase,
                    active, dev_sq_head, dev_cq_tail, dev_phase, admin_cq, admin_sq, filled,
                    dev_iocq, dev_iosq>>
    BY <1>3 DEF DevShutdown, DevFatal, device, ring, host
  <2>q. QED
    BY <1>0, <2>1 DEF SyncInv, InStep, NoCommand, NoAnswer, LapInv, AtReset,
                      Unfetched, Fetched, Answered
<1>4. CASE DevFetch
  <2>1. pc = "poll" /\ InStep
    BY <1>0, <1>4 DEF DevFetch, SyncInv, InStep, NoCommand, AtReset, TypeOK
  <2>2. Unfetched
    BY <1>4, <2>1 DEF DevFetch, InStep, Fetched, Answered, NoCommand
  <2>3. active' = {cur} /\ dev_sq_head' = sq_doorbell
    BY <1>4, <2>2 DEF DevFetch, Unfetched
  <2>4. UNCHANGED <<dstate, dev_gen, sq_doorbell, cq_doorbell, dev_cq_tail, dev_phase, admin_cq>>
    BY <1>4 DEF DevFetch, regs, ring
  <2>5. Fetched'
    BY <1>0, <2>2, <2>3, <2>4 DEF Unfetched, Fetched, NoAnswer
  <2>6. InStep'
    BY <1>0, <2>1, <2>4, <2>5 DEF InStep, LapInv
  <2>q. QED
    BY <1>0, <2>1, <2>6 DEF SyncInv
<1>5. ASSUME NEW c \in active, Ends(c) PROVE SyncInv'
  BY <1>0, <1>5, EndsAnswers DEF SyncInv
<1>q. QED
  BY <1>1, <1>2, <1>3, <1>4, <1>5 DEF Device, Ends

----------------------------------------------------------------------------
(* Identify data *)

LEMMA IdentifiedStep ==
    ASSUME IInv, Next
    PROVE  IdentifiedIsReal'
<1> USE DEF IInv
<1> SUFFICES ASSUME ~desync', ~masked' PROVE IdentifiedIsReal'
  BY DEF IdentifiedIsReal
<1>1. CASE InitStart
  BY <1>1 DEF InitStart, IdentifiedIsReal
<1>2. CASE Enable \/ Wait1Ready
  <2>1. xfer' = "unset" /\ blk' = "unset"
    BY <1>2 DEF Enable, Wait1Ready, HostInv
  <2>q. QED
    BY <2>1 DEF IdentifiedIsReal
<1>3. CASE PollAnswer
  <2>0. ~desync /\ pc = "poll"
    BY <1>3 DEF PollAnswer
  <2>1. InStep
    BY <2>0 DEF SyncInv
  <2>2. Answered
    BY <1>3, <2>0, <2>1, AnswerTaken
  <2> DEFINE cqe == admin_cq[cq_head]
  <2>3. masked' = (masked \/ (cqe.sct # 0 /\ cqe.sc = 0)) /\ After(Succeeded(cqe))
    BY <1>3 DEF PollAnswer
  <2>4. ~masked /\ (Succeeded(cqe) => cqe.sct = 0)
    BY <2>3 DEF Succeeded, TypeOK
  <2>5. Succeeded(cqe) => filled \/ cur.op \in blind
    BY <2>2, <2>4 DEF Answered
  <2>6. Parsed(Succeeded(cqe)) = "garbage" => cur.op \in blind
    BY <2>5 DEF Parsed
  <2>7. (xfer = "garbage" => "id_ctrl" \in blind) /\ (blk = "garbage" => "id_ns" \in blind)
    BY <2>0, <2>4 DEF IdentifiedIsReal
  <2>8. cur.op = "id_ctrl" => blk = "unset"
    BY <2>0 DEF HostInv
  <2> HIDE DEF cqe
  <2>9. CASE AfterIdentify(Succeeded(cqe))
    <3>1. "id_ctrl" \in blind => "id_ctrl" \in blind'
      BY <2>9 DEF AfterIdentify, Lookup
    <3>2. CASE cur.op = "id_ctrl"
      <4>1. xfer' = Parsed(Succeeded(cqe)) /\ blk' = "unset"
        BY <2>8, <2>9, <3>2 DEF AfterIdentify
      <4>q. QED
        BY <2>6, <3>1, <3>2, <4>1 DEF IdentifiedIsReal
    <3>3. CASE cur.op = "id_ns"
      <4>1. blk' = Parsed(Succeeded(cqe)) /\ xfer' = xfer /\ blind' = blind
        BY <2>9, <3>3 DEF AfterIdentify
      <4>q. QED
        BY <2>6, <2>7, <3>3, <4>1 DEF IdentifiedIsReal
    <3>q. QED
      BY <2>9, <3>2, <3>3 DEF AfterIdentify
  <2>10. CASE AfterCreate(Succeeded(cqe)) \/ AfterDelete
    <3>1. UNCHANGED <<xfer, blk, blind>>
      BY <2>10 DEF AfterCreate, AfterDelete
    <3>q. QED
      BY <2>7, <3>1 DEF IdentifiedIsReal
  <2>q. QED
    BY <2>3, <2>9, <2>10 DEF After
<1>4. CASE PollTimeout
  BY <1>4 DEF PollTimeout
<1>5. ASSUME UNCHANGED <<xfer, blk, desync, masked>>,
             \A what \in {"id_ctrl", "id_ns"} : what \in blind => what \in blind'
      PROVE  IdentifiedIsReal'
  BY <1>5 DEF IdentifiedIsReal
<1>6. CASE Wait0 \/ AllocFails \/ Wait1Fails \/ CreateNomem
            \/ DeleteQueue \/ ShutdownStart \/ ShutdownEnd
  <2>1. UNCHANGED <<xfer, blk, desync, masked, blind>>
    BY <1>6 DEF Wait0, AllocFails, Wait1Fails, CreateNomem, DeleteQueue,
                ShutdownStart, ShutdownEnd, hist
  <2>q. QED
    BY <1>5, <2>1
<1>7. CASE CreateQueue
  <2>1. UNCHANGED <<xfer, blk, desync, masked>> /\ Lookup("ioq")
    BY <1>7 DEF CreateQueue
  <2>2. \A what \in {"id_ctrl", "id_ns"} : what \in blind => what \in blind'
    BY <2>1 DEF Lookup
  <2>q. QED
    BY <1>5, <2>1, <2>2
<1>8. CASE Device
  BY <1>5, <1>8, DeviceKeeps
<1>q. QED
  BY <1>1, <1>2, <1>3, <1>4, <1>6, <1>7, <1>8 DEF Next, Host

----------------------------------------------------------------------------
(* The controller's queues *)

\* ReadyMeansAnswered after a step.
LEMMA NotReadyYet ==
    ASSUME TypeOK', LapInv', NoAnswer'
    PROVE  ~CqeReady'
<1>1. /\ cq_head' \in CqSlots /\ cq_phase' \in {0, 1}
      /\ dev_cq_tail' = cq_head' /\ dev_phase' = cq_phase'
  BY DEF TypeOK, Phases, NoAnswer
<1>2. admin_cq'[cq_head'].phase = 1 - cq_phase'
  BY <1>1 DEF LapInv, CqSlots
<1>3. \A p \in {0, 1} : 1 - p # p
  OBVIOUS
<1>q. QED
  BY <1>1, <1>2, <1>3 DEF CqeReady

\* A command just submitted has no answer.
LEMMA SubmittedNotReady ==
    ASSUME IInv, Host, TypeOK', SyncInv', ~desync', pc' = "poll"
    PROVE  ~CqeReady'
<1> USE DEF IInv
<1>0. InStep'
  BY DEF SyncInv
<1>1. CASE Wait1Ready
  <2>1. dev_cq_tail' = 0 /\ dev_phase' = 1 /\ cq_head' = 0 /\ cq_phase' = 1
    BY <1>1 DEF Wait1Ready, SyncInv, AtReset, device, hist
  <2>q. QED
    BY <1>0, <2>1, NotReadyYet DEF InStep, NoAnswer
<1>2. CASE PollAnswer
  <2>1. ~desync /\ pc = "poll"
    BY <1>2 DEF PollAnswer
  <2>2. cq_head' = dev_cq_tail' /\ cq_phase' = dev_phase'
    BY <1>2, <2>1, AnswerTaken DEF SyncInv
  <2>q. QED
    BY <1>0, <2>2, NotReadyYet DEF InStep, NoAnswer
<1>3. CASE PollTimeout
  BY <1>3 DEF PollTimeout
<1>4. CASE CreateQueue \/ DeleteQueue
  <2>1. UNCHANGED <<device, cq_head, cq_phase, desync>> /\ pc = "up"
    BY <1>4 DEF CreateQueue, DeleteQueue, hist
  <2>2. NoAnswer'
    BY <2>1 DEF SyncInv, InStep, NoAnswer, device
  <2>q. QED
    BY <1>0, <2>2, NotReadyYet DEF InStep
<1>5. CASE InitStart
  BY <1>5 DEF InitStart
<1>6. CASE Wait0 \/ AllocFails \/ Wait1Fails \/ ShutdownEnd
  BY <1>6 DEF Wait0, AllocFails, Wait1Fails, ShutdownEnd, Fail
<1>7. CASE Enable \/ ShutdownStart
  BY <1>7 DEF Enable, ShutdownStart
<1>8. CASE CreateNomem
  BY <1>8 DEF CreateNomem
<1>q. QED
  BY <1>1, <1>2, <1>3, <1>4, <1>5, <1>6, <1>7, <1>8 DEF Host

\* What the host concludes from an answer agrees with the controller.
LEMMA QueueAnswer ==
    ASSUME IInv, PollAnswer, TypeOK', SyncInv', ~desync', ~leak'
    PROVE  QueueInv'
<1> USE DEF IInv
<1>0. ~desync /\ pc = "poll" /\ CqeReady /\ UNCHANGED <<dev_iocq, dev_iosq>>
  BY DEF PollAnswer, device
<1>1. Answered
  BY <1>0, AnswerTaken DEF SyncInv
<1> DEFINE cqe == admin_cq[cq_head]
           ok  == Succeeded(cqe)
<1>2. masked' = (masked \/ (cqe.sct # 0 /\ cqe.sc = 0)) /\ After(ok)
  BY DEF PollAnswer
<1>3. ~leak
  BY <1>2 DEF After, AfterIdentify, AfterCreate, AfterDelete, CreateFailed, TypeOK
<1>4. AtCommand(cur.op)
  BY <1>0, <1>3 DEF QueueInv
<1>5. cqe.sct = 0 => cqe.sc = 0
  BY <1>1 DEF Answered
<1>6. ok <=> cqe.sc = 0
  BY DEF Succeeded
<1>7. pc' = "poll" => ~CqeReady'
  <2>1. Host
    BY DEF Host
  <2>q. QED
    BY <2>1, SubmittedNotReady
<1>h. ok \in BOOLEAN
  BY DEF Succeeded
<1> HIDE DEF cqe, ok
<1>8. CASE AfterIdentify(ok)
  <2>1. ~dev_iocq /\ ~dev_iosq
    BY <1>4, <1>8 DEF AfterIdentify, AtCommand
  <2>2. ioq' = "none" /\ pc' \in {"poll", "up", "off"} /\ (pc' = "poll" => cur'.op = "id_ns")
    BY <1>0, <1>8 DEF AfterIdentify, HostInv, SubmitNext, Submit, Back
  <2>q. QED
    BY <1>0, <2>1, <2>2 DEF QueueInv, AtCommand
<1>9. CASE AfterDelete
  <2>1. CASE cur.op = "delete_sq"
    <3>1. ~dev_iosq
      BY <1>0, <1>4, <2>1 DEF AtCommand
    <3>2. pc' = "poll" /\ cur'.op = "delete_cq"
      BY <1>9, <2>1 DEF AfterDelete, SubmitNext, Submit
    <3>q. QED
      BY <1>0, <1>7, <3>1, <3>2 DEF QueueInv, AtCommand
  <2>2. CASE cur.op = "delete_cq"
    <3>1. ~dev_iocq /\ ~dev_iosq
      BY <1>0, <1>4, <2>2 DEF AtCommand
    <3>2. pc' = "up" /\ ioq' = "none"
      BY <1>9, <2>2 DEF AfterDelete, Back
    <3>q. QED
      BY <1>0, <3>1, <3>2 DEF QueueInv
  <2>q. QED
    BY <1>9, <2>1, <2>2 DEF AfterDelete
<1>10. CASE AfterCreate(ok)
  <2>1. CASE cur.op = "create_cq" /\ ok
    <3>1. (dev_iocq \/ masked') /\ ~dev_iosq
      BY <1>0, <1>2, <1>4, <1>6, <2>1 DEF AtCommand, cqe
    <3>2. pc' = "poll" /\ cur'.op = "create_sq"
      BY <1>10, <2>1 DEF AfterCreate, SubmitNext, Submit
    <3>q. QED
      BY <1>0, <1>7, <3>1, <3>2 DEF QueueInv, AtCommand
  <2>2. CASE cur.op = "create_cq" /\ ~ok
    <3>1. ~dev_iocq /\ ~dev_iosq
      BY <1>0, <1>4, <1>5, <1>6, <2>2 DEF AtCommand, cqe
    <3>2. pc' = "up" /\ ioq' = "none"
      BY <1>10, <2>2 DEF AfterCreate, CreateFailed, Back
    <3>q. QED
      BY <1>0, <3>1, <3>2 DEF QueueInv
  <2>3. CASE cur.op = "create_sq" /\ ok
    <3>1. (dev_iocq \/ masked) /\ (dev_iosq <=> cqe.sct = 0)
      BY <1>0, <1>4, <2>3 DEF AtCommand, cqe
    <3>2. pc' = "up" /\ ioq' = "live"
      BY <1>10, <2>3 DEF AfterCreate, CreateFailed, Back
    <3>3. masked' \/ (dev_iocq' /\ dev_iosq')
      BY <1>0, <1>2, <1>6, <2>3, <3>1
    <3>q. QED
      BY <1>0, <3>1, <3>2, <3>3 DEF QueueInv
  <2>4. CASE cur.op = "create_sq" /\ ~ok
    <3>1. ~dev_iosq
      BY <1>0, <1>4, <1>5, <1>6, <2>4 DEF AtCommand, cqe
    <3>2a. SubmitNext("undo_cq")
      BY <1>10, <2>4 DEF AfterCreate, UndoCq
    <3>2. pc' = "poll" /\ cur'.op = "undo_cq"
      BY <3>2a DEF SubmitNext, Submit
    <3>q. QED
      BY <1>0, <1>7, <3>1, <3>2 DEF QueueInv, AtCommand
  <2>5. CASE cur.op = "undo_cq"
    <3>1. ~dev_iocq /\ ~dev_iosq
      BY <1>0, <1>4, <2>5 DEF AtCommand
    <3>2. pc' = "up" /\ ioq' = "none"
      BY <1>10, <2>5 DEF AfterCreate, CreateFailed, Back
    <3>q. QED
      BY <1>0, <3>1, <3>2 DEF QueueInv
  <2>q. QED
    BY <1>10, <2>1, <2>2, <2>3, <2>4, <2>5 DEF AfterCreate
<1>q. QED
  BY <1>2, <1>8, <1>9, <1>10 DEF After

LEMMA QueueHost ==
    ASSUME IInv, Host, TypeOK', SyncInv'
    PROVE  QueueInv'
<1> USE DEF IInv
<1> SUFFICES ASSUME ~desync', ~leak' PROVE QueueInv'
  BY DEF QueueInv
<1>1. CASE InitStart
  <2>1. UNCHANGED <<dev_iocq, dev_iosq, desync, leak, ioq>> /\ pc = "off"
    BY <1>1 DEF InitStart, hist
  <2>2. pc' \in {"wait0", "alloc"}
    BY <1>1 DEF InitStart
  <2>q. QED
    BY <2>1, <2>2 DEF QueueInv
<1>2. CASE Wait0 \/ AllocFails \/ Wait1Fails
  <2>1. UNCHANGED <<dev_iocq, dev_iosq, desync, leak, ioq>> /\ pc \in {"wait0", "alloc", "wait1"}
    BY <1>2 DEF Wait0, AllocFails, Wait1Fails, device, hist
  <2>2. pc' \in {"off", "alloc"}
    BY <1>2 DEF Wait0, AllocFails, Wait1Fails, Fail
  <2>q. QED
    BY <2>1, <2>2 DEF QueueInv
<1>3. CASE Enable
  <2>1. pc' = "wait1"
    BY <1>3 DEF Enable
  <2>2. AtReset'
    BY <2>1 DEF SyncInv
  <2>q. QED
    BY <2>1, <2>2 DEF QueueInv, AtReset
<1>4. CASE Wait1Ready
  <2>1. UNCHANGED <<dev_iocq, dev_iosq, desync>> /\ pc = "wait1"
    BY <1>4 DEF Wait1Ready, device
  <2>2. ~dev_iocq /\ ~dev_iosq
    BY <2>1 DEF SyncInv, AtReset
  <2>3. pc' = "off" \/ (pc' = "poll" /\ cur'.op = "id_ctrl")
    BY <1>4 DEF Wait1Ready, Submit, Fail
  <2>q. QED
    BY <2>1, <2>2, <2>3 DEF QueueInv, AtCommand
<1>5. CASE PollAnswer
  BY <1>5, QueueAnswer
<1>6. CASE PollTimeout
  BY <1>6 DEF PollTimeout
<1>7. CASE CreateQueue \/ DeleteQueue
  <2>1. UNCHANGED <<dev_iocq, dev_iosq, desync, leak, masked>> /\ pc = "up"
    BY <1>7 DEF CreateQueue, DeleteQueue, device, hist
  <2>2. pc' = "poll"
    BY <1>7 DEF CreateQueue, DeleteQueue, Submit
  <2>3. ~CqeReady'
    BY <2>2, SubmittedNotReady
  <2>4. CASE CreateQueue
    <3>1. ioq = "none" /\ cur'.op = "create_cq"
      BY <2>4 DEF CreateQueue, Submit
    <3>q. QED
      BY <2>1, <2>2, <2>3, <3>1 DEF QueueInv, AtCommand
  <2>5. CASE DeleteQueue
    <3>1. ioq = "live" /\ cur'.op = "delete_sq"
      BY <2>5 DEF DeleteQueue, Submit
    <3>q. QED
      BY <2>1, <2>2, <2>3, <3>1 DEF QueueInv, AtCommand
  <2>q. QED
    BY <1>7, <2>4, <2>5
<1>8. CASE CreateNomem \/ ShutdownStart \/ ShutdownEnd
  <2>1. UNCHANGED <<dev_iocq, dev_iosq, desync, leak, masked, ioq>>
    BY <1>8 DEF CreateNomem, ShutdownStart, ShutdownEnd, device, hist
  <2>2. pc \in {"up", "shst"} /\ pc' \in {"up", "shst", "off"}
    BY <1>8 DEF CreateNomem, ShutdownStart, ShutdownEnd, Fail
  <2>q. QED
    BY <2>1, <2>2 DEF QueueInv
<1>q. QED
  BY <1>1, <1>2, <1>3, <1>4, <1>5, <1>6, <1>7, <1>8 DEF Host

\* What the controller answers agrees with what it did.
LEMMA QueueEnds ==
    ASSUME IInv, NEW c \in active, Ends(c), ~desync', ~leak'
    PROVE  QueueInv'
<1> USE DEF IInv
<1>1. PICK sct0 \in {0, 1}, sc0 \in {0, 1} : Post(c, sct0, sc0)
  BY EndsPosts
<1>2. UNCHANGED <<pc, cur, cq_head, masked, desync, ioq>>
  BY <1>1 DEF Post
<1>3. ~leak
  BY DEF Ends, DevExecute, DevRefuse, DevError, TypeOK
<1>4. pc = "poll" /\ InStep /\ Fetched /\ c = cur /\ Answered'
  BY <1>2, EndsAnswers
<1>5. ~CqeReady
  BY <1>4, ReadyMeansAnswered
<1>6. CqeReady'
  BY <1>4 DEF Answered, CqeReady
<1>7. AtCommand(cur.op)
  BY <1>2, <1>3, <1>4 DEF QueueInv
<1>8. cur.op \in Ops
  BY <1>4 DEF HostInv, TypeOK
<1>9. ASSUME NEW sct, NEW sc, Post(c, sct, sc)
      PROVE  admin_cq'[cq_head'].sct = sct /\ admin_cq'[cq_head'].sc = sc
  <2>1. dev_gen = gen /\ dev_cq_tail = cq_head /\ cq_head' = cq_head
    BY <1>2, <1>4 DEF InStep, Fetched, NoAnswer
  <2>2. cq_head \in DOMAIN admin_cq
    BY DEF TypeOK
  <2>3. admin_cq'[cq_head] = [cid |-> c.cid, sct |-> sct, sc |-> sc, phase |-> dev_phase]
    BY <1>9, <2>1, <2>2 DEF Post
  <2>q. QED
    BY <2>1, <2>3
<1>10. AtCommand(cur.op)'
  <2>1. CASE DevExecute(c)
    <3>1. admin_cq'[cq_head'].sct = 0 /\ admin_cq'[cq_head'].sc = 0
      BY <1>9, <2>1 DEF DevExecute
    <3>2. /\ dev_iocq' = (cur.op = "create_cq" \/ (dev_iocq /\ cur.op \notin {"undo_cq", "delete_cq"}))
          /\ dev_iosq' = (cur.op = "create_sq" \/ (dev_iosq /\ cur.op # "delete_sq"))
      BY <1>4, <2>1 DEF DevExecute
    <3>q. QED
      BY <1>2, <1>5, <1>6, <1>7, <1>8, <3>1, <3>2 DEF AtCommand, Ops
  <2>2. CASE DevRefuse(c)
    <3>1. UNCHANGED <<dev_iocq, dev_iosq>> /\ ~Legal(cur.op)
      BY <1>4, <2>2 DEF DevRefuse
    <3>2. /\ cur.op \in {"create_sq", "undo_cq", "delete_sq", "delete_cq"} /\ ~dev_iosq
          /\ cur.op \in {"undo_cq", "delete_cq"} => ~dev_iocq
      BY <1>5, <1>7, <1>8, <3>1 DEF AtCommand, Legal, Ops
    <3>3. admin_cq'[cq_head'].sct = 1
      BY <1>9, <2>2 DEF DevRefuse
    <3>q. QED
      BY <1>2, <1>6, <1>7, <3>1, <3>2, <3>3 DEF AtCommand
  <2>3. ASSUME NEW sc \in ErrorCodes, DevError(c, sc) PROVE AtCommand(cur.op)'
    <3>1. UNCHANGED <<dev_iocq, dev_iosq>>
      BY <1>4, <2>3 DEF DevError
    <3>2. cur.op \notin {"undo_cq", "delete_sq", "delete_cq"}
      BY <1>4, <2>3 DEF DevError
    <3>3. admin_cq'[cq_head'].sct = 1
      BY <1>9, <2>3 DEF DevError
    <3>q. QED
      BY <1>2, <1>5, <1>6, <1>7, <1>8, <3>1, <3>2, <3>3 DEF AtCommand, Ops
  <2>q. QED
    BY <2>1, <2>2, <2>3 DEF Ends
<1>q. QED
  BY <1>2, <1>4, <1>10 DEF QueueInv

LEMMA QueueDevice ==
    ASSUME IInv, Device
    PROVE  QueueInv'
<1> USE DEF IInv
<1> SUFFICES ASSUME ~desync', ~leak' PROVE QueueInv'
  BY DEF QueueInv
<1>0. ~desync /\ UNCHANGED <<pc, cur, cq_head, cq_phase, ioq, masked>>
  BY DeviceKeeps
<1>1. CASE DevReady \/ DevShutdown \/ DevFatal \/ DevFetch
  <2>1. UNCHANGED <<dev_iocq, dev_iosq, leak, admin_cq>>
    BY <1>1 DEF DevReady, DevShutdown, DevFatal, DevFetch, device, ring, hist
  <2>q. QED
    BY <1>0, <2>1 DEF QueueInv, AtCommand, CqeReady
<1>2. CASE DevResetDone
  <2>1. pc \in {"off", "wait0", "alloc", "wait1"}
    BY <1>0, <1>2 DEF DevResetDone, SyncInv, InStep, TypeOK
  <2>q. QED
    BY <1>0, <1>2, <2>1 DEF DevResetDone, QueueInv
<1>3. ASSUME NEW c \in active, Ends(c) PROVE QueueInv'
  BY <1>3, QueueEnds
<1>q. QED
  BY <1>1, <1>2, <1>3 DEF Device, Ends

----------------------------------------------------------------------------
(* The invariant *)

LEMMA InitInv == Init => IInv
<1> SUFFICES ASSUME Init PROVE IInv
  OBVIOUS
<1>1. TypeOK
  BY InitTyped
<1>2. EnableInv /\ HostInv
  BY DEF Init, EnableInv, HostInv, AtReset
<1>3. SyncInv /\ IdentifiedIsReal /\ QueueInv
  BY DEF Init, SyncInv, NoCommand, IdentifiedIsReal, QueueInv
<1>q. QED
  BY <1>1, <1>2, <1>3 DEF IInv

LEMMA StepInv == IInv /\ [Next]_vars => IInv'
<1> SUFFICES ASSUME IInv, [Next]_vars PROVE IInv'
  OBVIOUS
<1>0. TypeOK
  BY DEF IInv
<1>1. CASE Host
  <2>1. TypeOK'
    BY <1>0, <1>1, HostTyped
  <2>2. EnableInv' /\ HostInv' /\ SyncInv'
    BY <1>1, EnableHost, HostInvHost, SyncHost
  <2>3. IdentifiedIsReal'
    BY <1>1, IdentifiedStep DEF Next
  <2>4. QueueInv'
    BY <1>1, <2>1, <2>2, QueueHost
  <2>q. QED
    BY <2>1, <2>2, <2>3, <2>4 DEF IInv
<1>2. CASE Device
  <2>1. TypeOK'
    BY <1>0, <1>2, DeviceTyped
  <2>2. EnableInv' /\ SyncInv' /\ QueueInv'
    BY <1>2, EnableDevice, SyncDevice, QueueDevice
  <2>3. IdentifiedIsReal'
    BY <1>2, IdentifiedStep DEF Next
  <2>4. HostInv'
    BY <1>2, DeviceKeeps DEF IInv, HostInv
  <2>q. QED
    BY <2>1, <2>2, <2>3, <2>4 DEF IInv
<1>3. CASE UNCHANGED vars
  <2>1. UNCHANGED <<regs, device, ring, host, hist>>
    BY <1>3 DEF vars
  <2>2. TypeOK' /\ EnableInv' /\ HostInv' /\ IdentifiedIsReal'
    BY <2>1 DEF IInv, TypeOK, EnableInv, HostInv, IdentifiedIsReal, AtReset,
                regs, device, ring, host, hist
  <2>3. SyncInv'
    BY <2>1 DEF IInv, SyncInv, InStep, AtReset, NoCommand, NoAnswer, LapInv, Unfetched, Fetched,
                Answered, regs, device, ring, host, hist
  <2>4. QueueInv'
    BY <2>1 DEF IInv, QueueInv, AtCommand, CqeReady, regs, device, ring, host, hist
  <2>q. QED
    BY <2>2, <2>3, <2>4 DEF IInv
<1>q. QED
  BY <1>1, <1>2, <1>3 DEF Next

\* Where host and controller are with the command in progress, what a reset
\* leaves and what is on the controller, for every history of initialisations,
\* failures and shutdowns.
THEOREM Invariance == Spec => []IInv
BY InitInv, StepInv, PTL DEF Spec

----------------------------------------------------------------------------
(* The properties of the run *)

\* Ring positions, register images, commands and answers keep their types.
THEOREM TypeCorrect == Spec => []TypeOK
<1>1. IInv => TypeOK
  BY DEF IInv
<1>q. QED
  BY <1>1, Invariance, PTL

\* A completion gpunvme_admin_submit takes is that of its own command, although
\* it compares no identifiers, and the controller holds no other, unless a
\* command was abandoned or the controller was enabled during its reset.
THEOREM AnswersTheorem == Spec => []AnswersAreMine
<1>1. ASSUME IInv PROVE AnswersAreMine
  <2> SUFFICES ASSUME pc \in {"poll", "up", "shst"}, ~desync
               PROVE  /\ active \subseteq {cur} /\ (active # {} => pc = "poll")
                      /\ pc = "poll" /\ CqeReady => admin_cq[cq_head].cid = cur.cid
                      /\ pc # "poll" => ~CqeReady
    BY DEF AnswersAreMine
  <2>1. TypeOK /\ InStep
    BY <1>1 DEF IInv, SyncInv
  <2>2. active \subseteq {cur} /\ (active # {} => pc = "poll")
    BY <2>1 DEF InStep, NoCommand, Unfetched, Fetched, Answered
  <2>3. /\ pc = "poll" /\ CqeReady => Answered
        /\ pc # "poll" => ~CqeReady
    BY <2>1, ReadyMeansAnswered
  <2>q. QED
    BY <2>2, <2>3 DEF Answered
<1>q. QED
  BY <1>1, Invariance, PTL

\* Limits and block size are parsed from data the controller delivered, with
\* the same exceptions, that of a failure whose status code is 0, and that of a
\* buffer whose own address gpunvme_virt_to_phys did not find.
THEOREM IdentifiedTheorem == Spec => []IdentifiedIsReal
<1>1. IInv => IdentifiedIsReal
  BY DEF IInv
<1>q. QED
  BY <1>1, Invariance, PTL

\* The controller has no I/O queue whose memory gpunvme_create_io_queue or
\* gpunvme_delete_io_queue has freed, wherever a creation failed.
THEOREM BackedTheorem == Spec => []QueuesBacked
<1>1. ASSUME IInv PROVE QueuesBacked
  <2> SUFFICES ASSUME ~desync, ~leak, ioq = "none" PROVE ~dev_iocq /\ ~dev_iosq
    BY DEF QueuesBacked
  <2>1. CASE pc # "poll"
    BY <1>1, <2>1 DEF IInv, QueueInv
  <2>2. CASE pc = "poll"
    <3>1. cur.op \in {"id_ctrl", "id_ns"}
      BY <1>1, <2>2 DEF IInv, HostInv, TypeOK, Ops
    <3>q. QED
      BY <1>1, <2>2, <3>1 DEF IInv, QueueInv, AtCommand
  <2>q. QED
    BY <2>1, <2>2
<1>q. QED
  BY <1>1, Invariance, PTL

\* A queue pair that was reported as created exists on the controller.
THEOREM CreatedTheorem == Spec => []CreatedMeansCreated
<1>1. IInv => CreatedMeansCreated
  BY DEF IInv, QueueInv, CreatedMeansCreated
<1>q. QED
  BY <1>1, Invariance, PTL
=============================================================================
