----------------------------- MODULE LoaderPrp -----------------------------
(***************************************************************************)
(* The PRPs of a layer load (src/host/layer_loader.cu): both                *)
(* gpunvme_load_layer and gpunvme_load_layer_vram rewrite, for every        *)
(* command, its entries of two arrays and its own page of a list pool that  *)
(* is allocated once and reused by every load.                              *)
(*                                                                         *)
(* A layer is a sequence of pages; page g belongs to command g \div CmdMax. *)
(***************************************************************************)
EXTENDS PrpList, Integers

CONSTANTS
    CmdMax,         \* pages of a command of full size: max_transfer / page_size
    BlocksPerPage,  \* page_size / block_size
    MaxCommands,    \* loader->max_commands
    PoolFrames      \* physical page of each command's list page

\* One list page per command: true of controllers with MDTS of at most 9, not
\* checked by the code.
ASSUME MdtsAssumption == CmdMax \in Nat \ {0} /\ CmdMax <= PerPage + 1
ASSUME PageAssumption == BlocksPerPage \in Nat \ {0} /\ MaxCommands \in Nat
ASSUME PoolAssumption == \A i, j \in 0 .. MaxCommands - 1 :
                            PoolFrames[i] = PoolFrames[j] => i = j

VARIABLES
    pool,           \* contents of the list pages, by physical page
    prp1, prp2,     \* prp1_array, prp2_array
    job             \* the running load: [n, pages, want]

prpVars == <<pool, prp1, prp2, job>>

Cmds  == 0 .. MaxCommands - 1
NoJob == [n |-> 0, pages |-> <<>>, want |-> <<>>]

PrpInit ==
    /\ pool = [f \in {PoolFrames[i] : i \in Cmds} |-> [e \in Entries |-> 0]]
    /\ prp1 = [i \in Cmds |-> 0] /\ prp2 = [i \in Cmds |-> 0]
    /\ job = NoJob

\* Pool and arrays are gone with the loader; the next one's pool is set to zero
\* and its arrays are not read before they are written.
DropPrps ==
    /\ pool' = [f \in DOMAIN pool |-> [e \in Entries |-> 0]]
    /\ prp1' = [i \in Cmds |-> 0] /\ prp2' = [i \in Cmds |-> 0]
    /\ UNCHANGED job

----------------------------------------------------------------------------
(* Defect: the last command is taken for a full one.                        *)
CmdPagesFull(blocks, i) == CmdMax

----------------------------------------------------------------------------
BlocksPerCmd      == CmdMax * BlocksPerPage
NCommands(blocks) == CeilDiv(blocks, BlocksPerCmd)

\* cmd_pages: the last command may be smaller
CmdPages(blocks, i) ==
    LET remaining == blocks - i * BlocksPerCmd
    IN  CeilDiv(IF remaining < BlocksPerCmd THEN remaining ELSE BlocksPerCmd, BlocksPerPage)

LayerPages(blocks) == CeilDiv(blocks, BlocksPerPage)

\* The loops over commands and pages, stopped at page `stop' of the layer:
\* addr is the address of each page.  Commands whose pages are all done have
\* their array entries; the one the loop stopped in has only list entries.
BuildPrps(addr, blocks, stop) ==
    LET total == LayerPages(blocks)
        whole == IF stop = total THEN NCommands(blocks) ELSE stop \div CmdMax
    IN  /\ pool' = [f \in DOMAIN pool |-> [e \in Entries |->
                LET ps == {g \in 0 .. stop - 1 :
                            /\ PoolFrames[g \div CmdMax] = f
                            /\ g % CmdMax > 0 /\ ListSlot(g % CmdMax) = e}
                IN  IF ps = {} THEN pool[f][e] ELSE addr[CHOOSE g \in ps : TRUE]]]
        /\ prp1' = [i \in Cmds |-> IF i < whole THEN addr[i * CmdMax] ELSE prp1[i]]
        /\ prp2' = [i \in Cmds |->
                IF i < whole
                THEN Prp2For(CmdPages(blocks, i), pool'[PoolFrames[i]][0], PoolFrames[i])
                ELSE prp2[i]]

\* The kernel is launched on the arrays; want[g] is where page g belongs.
StartJob(blocks, want) ==
    job' = [n     |-> NCommands(blocks),
            pages |-> [i \in 0 .. NCommands(blocks) - 1 |-> CmdPages(blocks, i)],
            want  |-> want]

\* Where command i of the running load moves its data.
MovesTo(i) == Pages(pool, prp1[i], prp2[i], job.pages[i])
=============================================================================
