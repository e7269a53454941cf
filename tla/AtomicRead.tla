----------------------------- MODULE AtomicRead -----------------------------
(***************************************************************************)
(* What a caller of gpunvme_load_layer relies on, without queues, commands, *)
(* completions or pipelining: a load is asked for, runs, and is answered    *)
(* once; an answer of GPUNVME_OK comes together with exactly the blocks     *)
(* asked for, and they stay put until the caller asks again.  Only a launch *)
(* that is refused is answered with GPUNVME_OK and delivers nothing.        *)
(*                                                                         *)
(* The promise is void from the moment a load failed with commands still at *)
(* the controller (abandoned): nothing in the code recalls them.            *)
(***************************************************************************)
EXTENDS Integers

CONSTANTS
    Requests,   \* what callers ask for: [lba, bytes]
    BlockSize,  \* bytes of a block
    MaxBlocks,  \* the largest load the loader was sized for, in blocks
    LaunchFails \* whether CUDA may refuse to launch a kernel

VARIABLES
    busy,       \* a load is running
    want,       \* the last load that was accepted: [lba, blocks]
    answer,     \* what the last call returned, "none" while it runs
    data,       \* the blocks delivered by the last call, when it returned OK
    abandoned   \* a load failed and left commands at the controller

absVars == <<busy, want, answer, data, abandoned>>

BlocksOf(r) == (r.bytes + BlockSize - 1) \div BlockSize

Nothing == [k \in 0 .. MaxBlocks - 1 |-> -1]
Wanted  == [k \in 0 .. MaxBlocks - 1 |-> IF k < want.blocks THEN want.lba + k ELSE -1]

AbsInit ==
    /\ ~busy /\ answer = "none" /\ data = Nothing /\ ~abandoned
    /\ want = [lba |-> 0, blocks |-> 0]

\* Too large, or not possible at the moment: nothing is read.
Refuse(r) ==
    /\ ~busy
    /\ answer' \in IF BlocksOf(r) > MaxBlocks THEN {"invalid"} ELSE {"dma", "cuda"}
    /\ data' = Nothing
    /\ UNCHANGED <<busy, want, abandoned>>

Begin(r) ==
    /\ ~busy /\ BlocksOf(r) <= MaxBlocks
    /\ busy' = TRUE /\ want' = [lba |-> r.lba, blocks |-> BlocksOf(r)]
    /\ answer' = "none" /\ data' = Nothing
    /\ UNCHANGED abandoned

\* The launch is refused and nobody notices.
Unlaunched(r) ==
    /\ LaunchFails /\ ~busy /\ BlocksOf(r) <= MaxBlocks
    /\ want' = [lba |-> r.lba, blocks |-> BlocksOf(r)]
    /\ answer' = "ok" /\ data' = Nothing
    /\ UNCHANGED <<busy, abandoned>>

Succeed ==
    /\ busy /\ busy' = FALSE
    /\ answer' = "ok"
    /\ ~abandoned => data' = Wanted
    /\ UNCHANGED <<want, abandoned>>

Fail ==
    /\ busy /\ busy' = FALSE
    /\ answer' \in {"timeout", "nvme", "cuda"} /\ data' = Nothing
    /\ abandoned => abandoned'
    /\ UNCHANGED want

\* A command of an abandoned load reaches the caller's buffer late.
Late ==
    /\ abandoned /\ answer = "ok"
    /\ UNCHANGED <<busy, want, answer, abandoned>>

AbsNext == (\E r \in Requests : Refuse(r) \/ Begin(r) \/ Unlaunched(r)) \/ Succeed \/ Fail \/ Late

AbsSpec == AbsInit /\ [][AbsNext]_absVars
=============================================================================
