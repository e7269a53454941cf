---------------------------- MODULE LayerLoadInv ----------------------------
(***************************************************************************)
(* The inductive invariant of LayerLoad.                                    *)
(*                                                                         *)
(* The kernel counts completions and never looks at what they complete, so  *)
(* the count is worth something only because every command of the call is   *)
(* at any moment in exactly one place: not yet submitted, in the submission *)
(* ring, in the controller, in the completion ring, or taken.               *)
(***************************************************************************)
EXTENDS LayerLoad

SqDist == Dist(dev_sq_head, sq_tail, SqSize)

\* The submission ring is a FIFO and commands are numbered in the order they
\* are submitted: those fetched so far are exactly 0 .. FetchedUpTo - 1.
FetchedUpTo == submitted - SqDist

ChunkOf(i) == [slba |-> CmdLba(req, i), nlb |-> CmdNlb(req, i)]

IsCmd(c, i) == /\ c.idx = i /\ c.dest = req.dest
               /\ c.slba = CmdLba(req, i) /\ c.nlb = CmdNlb(req, i)

\* The slots between the kernel's CQ head and the controller's CQ tail.
Posted == {s \in CqSlots : IF cq_head <= dev_cq_tail
                           THEN cq_head <= s /\ s < dev_cq_tail
                           ELSE cq_head <= s \/ s < dev_cq_tail}

\* The phase bit of every slot tells its lap.
RingInv ==
    /\ sq_doorbell = sq_tail /\ cq_doorbell = cq_head
    /\ \A s \in CqSlots : cq[s].phase = IF s < dev_cq_tail THEN dev_phase ELSE 1 - dev_phase
    /\ cq_phase = IF cq_head <= dev_cq_tail THEN dev_phase ELSE 1 - dev_phase

\* The commands of a load in plain numbers: no count wraps.
CommandsOf(blocks) == (blocks + BlocksPer - 1) \div BlocksPer

ReqInv == /\ req.n = CommandsOf(req.blocks) /\ req.n <= MaxCommands

CountInv ==
    /\ completed <= submitted /\ submitted <= req.n
    /\ submitted - completed <= PipeDepth
    /\ SqDist <= submitted
    /\ taken \subseteq 0 .. FetchedUpTo - 1
    /\ Cardinality(taken) = completed

SqInv ==
    \A s \in SqSlots :
        Dist(dev_sq_head, s, SqSize) < SqDist
            => IsCmd(sq[s], FetchedUpTo + Dist(dev_sq_head, s, SqSize))

DeviceInv ==
    /\ \A c \in fetched \cup done :
        c.idx \in 0 .. FetchedUpTo - 1 /\ c.idx \notin taken /\ IsCmd(c, c.idx)
    /\ \A c, d \in fetched \cup done : c.idx = d.idx => c = d
    /\ fetched \cap done = {}

CqInv ==
    /\ \A s \in Posted :
        /\ cq[s].idx \in 0 .. FetchedUpTo - 1 /\ cq[s].idx \notin taken
        /\ \A c \in fetched \cup done : c.idx # cq[s].idx
    /\ \A s, t \in Posted : cq[s].idx = cq[t].idx => s = t

Landed(i) == buf[req.dest][i] = ChunkOf(i)

BufInv ==
    /\ \A i \in taken : Landed(i)
    /\ \A c \in done : Landed(c.idx)
    /\ \A s \in Posted : cq[s].ok => Landed(cq[s].idx)
    /\ \A i \in ChunkIdx : i >= req.n => buf[req.dest][i] = NoData

RunInv == /\ ret = "none" /\ ran /\ ReqInv /\ CountInv /\ SqInv /\ DeviceInv /\ CqInv /\ BufInv

Loaded ==
    /\ ReqInv
    /\ \A i \in ChunkIdx : buf[req.dest][i] = IF i < req.n THEN ChunkOf(i) ELSE NoData

\* What kernel, controller and buffer agree on while no call was abandoned.
SyncInv ==
    /\ pc = "run" => RunInv
    /\ pc = "idle" => Quiet
    /\ ret = "ok" => pc = "idle" /\ (ran => Loaded)

\* The inductive invariant: the phase protocol holds in every state, and the
\* rest until a call is abandoned.
IInv == TypeOK /\ RingInv /\ (~desync => SyncInv)
=============================================================================
