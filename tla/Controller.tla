----------------------------- MODULE Controller -----------------------------
(***************************************************************************)
(* The host's management of the NVMe controller: gpunvme_ctrl_init,         *)
(* gpunvme_admin_submit and gpunvme_ctrl_shutdown (src/host/controller.c),  *)
(* the admin commands (admin.c) and the creation and deletion of an I/O     *)
(* queue pair (io_queue.c), against a controller (external) that resets,    *)
(* becomes ready, answers and fails in its own time.                        *)
(*                                                                         *)
(* The host is one thread that runs one API call at a time; `pc' is where   *)
(* it waits and `cur' the admin command it waits for.  Rings, phases and    *)
(* doorbells are kept; the identify data is reduced to whether a field of   *)
(* gpunvme_ctrl_t is still unset, was parsed from the controller's data, or *)
(* from a buffer nobody filled.                                             *)
(***************************************************************************)
EXTENDS NvmeQueue, FiniteSets

CONSTANTS
    Faults,      \* which failures may happen: "timeout", "nomem", "lookup", "status", "fatal"
    ErrorCodes,  \* status codes of failing commands; 0 = only the code type is set
    MaxInits,    \* bound: how often the controller is initialised
    MaxUpsets    \* bound: how many commands are abandoned, lookups fail and errors pass for success

ASSUME FaultsAssumption == Faults \subseteq {"timeout", "nomem", "lookup", "status", "fatal"}
ASSUME ErrorCodesAssumption == ErrorCodes \subseteq {0, 1}
ASSUME BoundsAssumption == MaxInits \in Nat /\ MaxUpsets \in Nat

VARIABLES
    \* registers: CC.EN, CC.SHN, CSTS.SHST = complete, CSTS.CFS, doorbells
    en, shn, shst, cfs, sq_doorbell, cq_doorbell,
    \* the controller: its state, ring positions, the admin rings it latched,
    \* commands it holds, and the I/O queues it has
    dstate, dev_sq_head, dev_cq_tail, dev_phase, dev_gen, active, dev_iocq, dev_iosq,
    \* admin rings of the current gpunvme_ctrl_t and the host's positions
    admin_sq, admin_cq, sq_tail, cq_head, cq_phase, admin_cid, gen,
    \* the host thread
    pc, cur, ret,
    \* max_transfer_bytes and block_size; whether the identify buffer is filled
    xfer, blk, filled,
    \* memory of the I/O queue pair: "none", "alloc" (being created), "live"
    ioq,
    \* history: a command was abandoned or the reset handshake was skipped
    \* since the last clean enable; a queue's memory was freed although the
    \* controller was not told or had refused; a failure whose code is 0 was
    \* taken for success since the last enable; the memory whose address was
    \* not found, and given to the controller as 0 all the same
    desync, leak, masked, blind,
    timeouts   \* bound: admin commands abandoned so far

regs   == <<en, shn, shst, cfs, sq_doorbell, cq_doorbell>>
device == <<dstate, dev_sq_head, dev_cq_tail, dev_phase, dev_gen, active, dev_iocq, dev_iosq>>
ring   == <<admin_sq, admin_cq, sq_tail, cq_head, cq_phase, admin_cid, gen>>
host   == <<pc, cur, ret, xfer, blk, filled, ioq>>
hist   == <<desync, leak, masked, blind, timeouts>>
vars   == <<regs, device, ring, host, hist>>

Ops    == {"id_ctrl", "id_ns", "create_cq", "create_sq", "undo_cq", "delete_sq", "delete_cq"}
ZeroSqe == [cid |-> 0, op |-> "none"]
ZeroCqe == [cid |-> 0, sct |-> 0, sc |-> 0, phase |-> 0]
ZeroSq  == [s \in SqSlots |-> ZeroSqe]
ZeroCq  == [s \in CqSlots |-> ZeroCqe]

rdy == dstate \in {"ready", "stopping"}

Init ==
    /\ en \in BOOLEAN /\ dstate = (IF en THEN "ready" ELSE "off")
    /\ shn = FALSE /\ shst = FALSE /\ cfs = FALSE
    /\ sq_doorbell = 0 /\ cq_doorbell = 0
    /\ dev_sq_head = 0 /\ dev_cq_tail = 0 /\ dev_phase = 1 /\ dev_gen = 0
    /\ active = {} /\ dev_iocq = FALSE /\ dev_iosq = FALSE
    /\ admin_sq = ZeroSq /\ admin_cq = ZeroCq
    /\ sq_tail = 0 /\ cq_head = 0 /\ cq_phase = 1 /\ admin_cid = 0 /\ gen = 0
    /\ pc = "off" /\ cur = ZeroSqe /\ ret = "none"
    /\ xfer = "unset" /\ blk = "unset" /\ filled = FALSE /\ ioq = "none"
    /\ desync = FALSE /\ leak = FALSE /\ masked = FALSE /\ blind = {} /\ timeouts = 0

----------------------------------------------------------------------------
(* Defects: a failed SQ creation leaves the CQ; identify data is parsed, or *)
(* a queue taken for created, whatever the status says.                     *)
UndoSkipped == FALSE
ParsedUnchecked(ok) == IF filled THEN "real" ELSE "garbage"
SucceededAlways(cqe) == TRUE

----------------------------------------------------------------------------
(* Waiting for CSTS *)

WriteEn(b) ==
    /\ en' = b
    /\ dstate' = CASE b /\ dstate = "off" -> "starting"
                   [] ~b /\ dstate \in {"ready", "starting"} -> "stopping"
                   [] OTHER -> dstate

Fail(code) == pc' = "off" /\ ret' = code

\* gpunvme_ctrl_init up to the first wait: the structure is cleared, an
\* enabled controller is disabled, one that is not is taken for reset.
InitStart ==
    /\ pc = "off" /\ ioq = "none" /\ gen < MaxInits
    /\ xfer' = "unset" /\ blk' = "unset" /\ ret' = "none"
    /\ IF en THEN WriteEn(FALSE) /\ pc' = "wait0"
             ELSE pc' = "alloc" /\ UNCHANGED <<en, dstate>>
    /\ UNCHANGED <<shn, shst, cfs, sq_doorbell, cq_doorbell, dev_sq_head, dev_cq_tail,
                   dev_phase, dev_gen, active, dev_iocq, dev_iosq, ring,
                   cur, filled, ioq, hist>>

\* wait_csts_rdy(0)
Wait0 ==
    /\ pc = "wait0"
    /\ \/ cfs /\ Fail("fatal")
       \/ ~cfs /\ ~rdy /\ pc' = "alloc" /\ UNCHANGED ret
       \/ ~cfs /\ rdy /\ "timeout" \in Faults /\ Fail("timeout")
    /\ UNCHANGED <<regs, device, ring, cur, xfer, blk, filled, ioq, hist>>

\* No memory for the admin rings, or no physical address: nothing of this
\* reaches the controller.
AllocFails ==
    /\ pc = "alloc" /\ "nomem" \in Faults /\ Fail("nomem")
    /\ UNCHANGED <<regs, device, ring, cur, xfer, blk, filled, ioq, hist>>

\* Fresh, zeroed rings; AQA, ASQ, ACQ, CC, and EN = 1.
Enable ==
    /\ pc = "alloc"
    /\ admin_sq' = ZeroSq /\ admin_cq' = ZeroCq /\ gen' = gen + 1
    /\ WriteEn(TRUE) /\ shn' = FALSE
    /\ pc' = "wait1"
    /\ desync' = rdy /\ leak' = FALSE /\ masked' = FALSE /\ blind' = {}
    /\ UNCHANGED <<shst, cfs, sq_doorbell, cq_doorbell, dev_sq_head, dev_cq_tail, dev_phase,
                   dev_gen, active, dev_iocq, dev_iosq, sq_tail, cq_head, cq_phase, admin_cid,
                   cur, ret, xfer, blk, filled, ioq, timeouts>>

----------------------------------------------------------------------------
(* gpunvme_admin_submit: write the command, advance, ring, and wait *)

Submit(op, tail, cid) ==
    /\ cur' = [cid |-> cid, op |-> op]
    /\ admin_sq' = [admin_sq EXCEPT ![tail] = cur']
    /\ sq_tail' = AdvanceSqTail(tail) /\ sq_doorbell' = sq_tail'
    /\ admin_cid' = NextCid(cid)
    /\ filled' = FALSE
    /\ pc' = "poll"

\* Return from the API call to the caller.
Back(where, code) ==
    /\ pc' = where /\ ret' = code
    /\ UNCHANGED <<cur, admin_sq, sq_tail, sq_doorbell, admin_cid, filled>>

\* The bound on what may befall the host at once.
MoreUpsets == timeouts + Cardinality(blind) + (IF masked THEN 1 ELSE 0) < MaxUpsets

\* gpunvme_virt_to_phys; a failure leaves the address 0 and goes unnoticed.
Lookup(what) ==
    \/ blind' = blind \ {what}
    \/ "lookup" \in Faults /\ MoreUpsets /\ blind' = blind \cup {what}

\* wait_csts_rdy(1), then the ring positions are reset and the first identify
\* command is submitted, if there is memory for its data.
Wait1Ready ==
    /\ pc = "wait1" /\ ~cfs /\ rdy
    /\ cq_head' = 0 /\ cq_phase' = 1
    /\ \/ Lookup("id_ctrl") /\ Submit("id_ctrl", 0, 0) /\ UNCHANGED ret
       \/ /\ "nomem" \in Faults /\ Fail("nomem")
          /\ sq_tail' = 0 /\ admin_cid' = 0
          /\ UNCHANGED <<cur, admin_sq, sq_doorbell, filled, blind>>
    /\ UNCHANGED <<en, shn, shst, cfs, cq_doorbell, device, admin_cq, gen, xfer, blk, ioq,
                   desync, leak, masked, timeouts>>

Wait1Fails ==
    /\ pc = "wait1"
    /\ \/ cfs /\ Fail("fatal")
       \/ ~cfs /\ ~rdy /\ "timeout" \in Faults /\ Fail("timeout")
    /\ UNCHANGED <<regs, device, ring, cur, xfer, blk, filled, ioq, hist>>

----------------------------------------------------------------------------
(* What each caller of gpunvme_admin_submit does with its result *)

Parsed(ok) == CASE ~ok -> "unset" [] ok /\ filled -> "real" [] OTHER -> "garbage"

SubmitNext(op) == Submit(op, sq_tail, admin_cid) /\ UNCHANGED ret

\* io_queue.c, label fail: the memory goes, whatever the controller has.
CreateFailed(lost) ==
    /\ Back("up", "nomem") /\ ioq' = "none" /\ leak' = (leak \/ lost)

AfterIdentify(ok) ==
    /\ ioq' = ioq /\ leak' = leak
    /\ \/ /\ cur.op = "id_ctrl" /\ xfer' = Parsed(ok) /\ blk' = blk
          /\ \/ Lookup("id_ns") /\ SubmitNext("id_ns")
             \/ "nomem" \in Faults /\ Back("off", "nomem") /\ blind' = blind
       \/ /\ cur.op = "id_ns" /\ blk' = Parsed(ok) /\ xfer' = xfer
          /\ Back("up", "ok") /\ blind' = blind

UndoCq == TRUE

AfterCreate(ok) ==
    /\ UNCHANGED <<xfer, blk, blind>>
    /\ \/ /\ cur.op = "create_cq"
          /\ IF ok THEN SubmitNext("create_sq") /\ UNCHANGED <<ioq, leak>>
                   ELSE CreateFailed(FALSE)
       \/ /\ cur.op = "create_sq" /\ ok
          /\ \/ Back("up", "ok") /\ ioq' = "live" /\ leak' = leak
             \/ "nomem" \in Faults /\ CreateFailed(TRUE)
       \/ /\ cur.op = "create_sq" /\ ~ok
          /\ IF UndoCq THEN SubmitNext("undo_cq") /\ UNCHANGED <<ioq, leak>>
                       ELSE CreateFailed(FALSE)
       \/ cur.op = "undo_cq" /\ CreateFailed(FALSE)

AfterDelete ==
    /\ UNCHANGED <<xfer, blk, leak, blind>>
    /\ \/ cur.op = "delete_sq" /\ SubmitNext("delete_cq") /\ UNCHANGED ioq
       \/ cur.op = "delete_cq" /\ Back("up", "ok") /\ ioq' = "none"

After(ok) == AfterIdentify(ok) \/ AfterCreate(ok) \/ AfterDelete

CqeReady == admin_cq[cq_head].phase = cq_phase

\* Only the status code is looked at, neither the code type nor the command
\* identifier.
Succeeded(cqe) == cqe.sc = 0

PollAnswer ==
    /\ pc = "poll" /\ CqeReady
    /\ LET cqe == admin_cq[cq_head]
       IN  /\ masked' = (masked \/ (cqe.sct # 0 /\ cqe.sc = 0))
           /\ After(Succeeded(cqe))
    /\ cq_head' = AdvanceCqHead(cq_head)
    /\ cq_phase' = AdvanceCqPhase(cq_head, cq_phase)
    /\ cq_doorbell' = cq_head'
    /\ UNCHANGED <<en, shn, shst, cfs, device, admin_cq, gen, desync, timeouts>>

\* The command is abandoned; the identify buffer is freed all the same.
PollTimeout ==
    /\ pc = "poll" /\ ~CqeReady /\ "timeout" \in Faults
    /\ MoreUpsets /\ timeouts' = timeouts + 1
    /\ After(FALSE)
    /\ desync' = TRUE
    /\ UNCHANGED <<en, shn, shst, cfs, cq_doorbell, device, admin_cq, cq_head, cq_phase, gen, masked>>

----------------------------------------------------------------------------
(* The other API calls *)

\* gpunvme_create_io_queue up to the first admin command; either ring's address
\* may be missing
CreateQueue ==
    /\ pc = "up" /\ ioq = "none"
    /\ ioq' = "alloc" /\ Lookup("ioq")
    /\ Submit("create_cq", sq_tail, admin_cid) /\ ret' = "none"
    /\ UNCHANGED <<en, shn, shst, cfs, cq_doorbell, device, admin_cq, cq_head, cq_phase, gen,
                   xfer, blk, desync, leak, masked, timeouts>>

\* No memory for its rings or its data buffer: nothing was asked of the
\* controller.
CreateNomem ==
    /\ pc = "up" /\ ioq = "none" /\ "nomem" \in Faults
    /\ ret' = "nomem"
    /\ UNCHANGED <<regs, device, ring, pc, cur, xfer, blk, filled, ioq, hist>>

\* gpunvme_delete_io_queue: SQ first, results ignored
DeleteQueue ==
    /\ pc = "up" /\ ioq = "live"
    /\ Submit("delete_sq", sq_tail, admin_cid) /\ ret' = "none"
    /\ UNCHANGED <<en, shn, shst, cfs, cq_doorbell, device, admin_cq, cq_head, cq_phase, gen,
                   xfer, blk, ioq, hist>>

\* gpunvme_ctrl_shutdown: ask, wait a while, disable, free the admin rings
ShutdownStart ==
    /\ pc = "up"
    /\ shn' = TRUE /\ pc' = "shst" /\ ret' = "none"
    /\ UNCHANGED <<en, shst, cfs, sq_doorbell, cq_doorbell, device, ring, cur, xfer, blk,
                   filled, ioq, hist>>

ShutdownEnd ==
    /\ pc = "shst" /\ (shst \/ "timeout" \in Faults)
    /\ WriteEn(FALSE) /\ Fail("ok")
    /\ UNCHANGED <<shn, shst, cfs, sq_doorbell, cq_doorbell, dev_sq_head, dev_cq_tail, dev_phase,
                   dev_gen, active, dev_iocq, dev_iosq, ring, cur, xfer, blk, filled, ioq, hist>>

----------------------------------------------------------------------------
(* The controller, external *)

\* It finishes what EN = 1 started: rings are latched and empty.
DevReady ==
    /\ dstate = "starting"
    /\ dstate' = "ready" /\ dev_gen' = gen
    /\ UNCHANGED <<regs, dev_sq_head, dev_cq_tail, dev_phase, active, dev_iocq, dev_iosq,
                   ring, host, hist>>

\* It finishes what EN = 0 started: everything it held is gone.
DevResetDone ==
    /\ dstate = "stopping"
    /\ dstate' = (IF en THEN "starting" ELSE "off")
    /\ dev_sq_head' = 0 /\ dev_cq_tail' = 0 /\ dev_phase' = 1
    /\ active' = {} /\ dev_iocq' = FALSE /\ dev_iosq' = FALSE
    /\ sq_doorbell' = 0 /\ cq_doorbell' = 0 /\ cfs' = FALSE /\ shst' = FALSE
    /\ UNCHANGED <<en, shn, dev_gen, ring, host, hist>>

DevShutdown ==
    /\ dstate = "ready" /\ shn /\ ~shst /\ ~cfs
    /\ shst' = TRUE
    /\ UNCHANGED <<en, shn, cfs, sq_doorbell, cq_doorbell, device, ring, host, hist>>

DevFatal ==
    /\ dstate = "ready" /\ ~cfs /\ "fatal" \in Faults
    /\ cfs' = TRUE
    /\ UNCHANGED <<en, shn, shst, sq_doorbell, cq_doorbell, device, ring, host, hist>>

DevFetch ==
    /\ dstate = "ready" /\ ~cfs /\ dev_gen = gen
    /\ dev_sq_head # sq_doorbell
    /\ active' = active \cup {admin_sq[dev_sq_head]}
    /\ dev_sq_head' = AdvanceSqTail(dev_sq_head)
    /\ UNCHANGED <<regs, dstate, dev_cq_tail, dev_phase, dev_gen, dev_iocq, dev_iosq,
                   ring, host, hist>>

\* A queue command the controller's state allows.
Legal(op) ==
    CASE op = "create_cq" -> ~dev_iocq
      [] op = "create_sq" -> dev_iocq /\ ~dev_iosq
      [] op \in {"undo_cq", "delete_cq"} -> dev_iocq /\ ~dev_iosq
      [] op = "delete_sq" -> dev_iosq
      [] OTHER -> TRUE

\* The completion entry, if the ring the controller latched is the current
\* one (an entry of an older ring goes to memory the host no longer reads).
Post(c, sct, sc) ==
    /\ AdvanceCqHead(dev_cq_tail) # cq_doorbell
    /\ active' = active \ {c}
    /\ admin_cq' = IF dev_gen = gen
                   THEN [admin_cq EXCEPT ![dev_cq_tail] =
                            [cid |-> c.cid, sct |-> sct, sc |-> sc, phase |-> dev_phase]]
                   ELSE admin_cq
    /\ dev_cq_tail' = AdvanceCqHead(dev_cq_tail)
    /\ dev_phase' = AdvanceCqPhase(dev_cq_tail, dev_phase)
    /\ UNCHANGED <<regs, dstate, dev_sq_head, dev_gen, admin_sq, sq_tail, cq_head, cq_phase,
                   admin_cid, gen, pc, cur, ret, xfer, blk, ioq, desync, masked, blind, timeouts>>

\* It executes a command, data to address 0 going elsewhere than to the host's
\* buffer.  While it is being reset it may still finish some.
DevExecute(c) ==
    /\ rdy /\ ~cfs /\ c \in active /\ Legal(c.op)
    /\ Post(c, 0, 0)
    /\ dev_iocq' = (c.op = "create_cq" \/ (dev_iocq /\ c.op \notin {"undo_cq", "delete_cq"}))
    /\ dev_iosq' = (c.op = "create_sq" \/ (dev_iosq /\ c.op # "delete_sq"))
    /\ filled' = (filled \/ (c = cur /\ dev_gen = gen /\ cur.op \notin blind))
    /\ UNCHANGED leak

\* It refuses a command that its state does not allow, all of them errors
\* specific to the command; "completion queue invalid" has status code 0.
DevRefuse(c) ==
    /\ rdy /\ ~cfs /\ c \in active /\ ~Legal(c.op)
    /\ Post(c, 1, IF c.op = "create_sq" /\ ~dev_iocq THEN 0 ELSE 1)
    /\ UNCHANGED <<dev_iocq, dev_iosq, filled, leak>>

\* Or it fails one for a reason of its own, with any code of any type.
DevError(c, sc) ==
    /\ rdy /\ ~cfs /\ c \in active /\ Legal(c.op) /\ "status" \in Faults
    /\ sc = 0 => MoreUpsets
    /\ Post(c, 1, sc)
    /\ leak' = (leak \/ c.op \in {"undo_cq", "delete_sq", "delete_cq"})
    /\ UNCHANGED <<dev_iocq, dev_iosq, filled>>

----------------------------------------------------------------------------
Host == \/ InitStart \/ Wait0 \/ AllocFails \/ Enable \/ Wait1Ready \/ Wait1Fails
        \/ PollAnswer \/ PollTimeout
        \/ CreateQueue \/ CreateNomem \/ DeleteQueue \/ ShutdownStart \/ ShutdownEnd

Device == \/ DevReady \/ DevResetDone \/ DevShutdown \/ DevFatal \/ DevFetch
          \/ \E c \in active : DevExecute(c) \/ DevRefuse(c) \/ (\E sc \in ErrorCodes : DevError(c, sc))

Next == Host \/ Device

Spec == Init /\ [][Next]_vars

----------------------------------------------------------------------------
(* Properties *)

\* Ring positions, register images and answers of the admin queue keep their
\* types (struct gpunvme_ctrl_t, gpunvme_admin_submit).
TypeOK ==
    /\ {en, shn, shst, cfs, dev_iocq, dev_iosq, filled, desync, leak} \subseteq BOOLEAN
    /\ dstate \in {"off", "starting", "ready", "stopping"}
    /\ {sq_doorbell, dev_sq_head, sq_tail} \subseteq SqSlots
    /\ {cq_doorbell, dev_cq_tail, cq_head} \subseteq CqSlots
    /\ {cq_phase, dev_phase} \subseteq Phases
    /\ admin_cid \in Cids /\ {gen, dev_gen, timeouts} \subseteq Nat
    /\ active \subseteq [cid : Cids, op : Ops \cup {"none"}]
    /\ admin_sq \in [SqSlots -> [cid : Cids, op : Ops \cup {"none"}]]
    /\ admin_cq \in [CqSlots -> [cid : Cids, sct : {0, 1}, sc : {0, 1}, phase : Phases]]
    /\ pc \in {"off", "wait0", "alloc", "wait1", "poll", "up", "shst"}
    /\ cur \in [cid : Cids, op : Ops \cup {"none"}]
    /\ ret \in {"none", "ok", "fatal", "timeout", "nomem"}
    /\ {xfer, blk} \subseteq {"unset", "real", "garbage"}
    /\ ioq \in {"none", "alloc", "live"}
    /\ {desync, leak, masked} \subseteq BOOLEAN
    /\ blind \subseteq {"id_ctrl", "id_ns", "ioq"}

\* While no command was abandoned, the controller holds no command but the one
\* the host waits for, and a completion the host takes is that command's: the
\* code compares no identifiers.  So no data and no completion lands in a
\* buffer or a ring that is already freed, across resets and shutdowns too.
AnswersAreMine ==
    pc \in {"poll", "up", "shst"} /\ ~desync =>
        /\ active \subseteq {cur}
        /\ active # {} => pc = "poll"
        /\ pc = "poll" /\ CqeReady => admin_cq[cq_head].cid = cur.cid
        /\ pc # "poll" => ~CqeReady

\* Nothing is parsed out of an identify buffer the controller did not fill,
\* unless the controller refused with a code of 0, which admin_submit cannot
\* tell from success, or the physical address of that very buffer was not found,
\* which gpunvme_ctrl_init does not look at.
IdentifiedIsReal == ~desync /\ ~masked =>
    /\ xfer = "garbage" => "id_ctrl" \in blind
    /\ blk = "garbage" => "id_ns" \in blind

\* The controller's I/O queues lie in memory that is still allocated, unless a
\* command was abandoned, a deletion failed on the controller's side, the last
\* allocation of a creation failed, or the rings' addresses were not found.
QueuesBacked == ~desync /\ ~leak /\ "ioq" \notin blind => (dev_iocq \/ dev_iosq => ioq # "none")

\* A queue pair reported as created exists on the controller until it is
\* deleted, although the code decides this from one status code -- with the
\* same exception.
CreatedMeansCreated ==
    pc = "up" /\ ioq = "live" /\ ~desync /\ ~leak /\ ~masked /\ en /\ dstate = "ready"
        => dev_iocq /\ dev_iosq

\* EN goes from 0 to 1 only after the last reset has finished.
EnableAfterReset == [][en' /\ ~en => ~rdy]_vars
=============================================================================
