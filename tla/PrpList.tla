------------------------------ MODULE PrpList ------------------------------
(***************************************************************************)
(* Physical region pages: how a data buffer is described to the controller. *)
(* Memory is counted in pages.  A physical page is its frame number; 0 is   *)
(* the address the code uses for "none".                                    *)
(*                                                                         *)
(* A command of n pages carries two entries.  PRP1 is the first page; PRP2  *)
(* is unused for one page, the second page for two, and otherwise the page  *)
(* that holds the list of the remaining ones.                               *)
(***************************************************************************)
EXTENDS Naturals

CONSTANT PerPage    \* 64-bit entries in one page of a list, 512 in the code

ASSUME PerPageAssumption == PerPage \in Nat /\ PerPage >= 2

Entries == 0 .. PerPage - 1

\* (bytes + page_size - 1) / page_size, and the same for entries of a list
CeilDiv(a, b) == (a + b - 1) \div b

----------------------------------------------------------------------------
(* Defect: PRP2 names a list for two pages too.                             *)
Prp2ForAlwaysList(n, second, list) == IF n <= 1 THEN 0 ELSE list

----------------------------------------------------------------------------
(* The writer: gpunvme_prp_list_build, gpunvme_load_layer and               *)
(* gpunvme_load_layer_vram.                                                 *)

\* Page p > 0 of the transfer goes into this entry of the list ...
ListSlot(p) == p - 1

\* ... and PRP2 is chosen by the number of pages.
Prp2For(n, second, list) ==
    IF n <= 1 THEN 0 ELSE IF n = 2 THEN second ELSE list

----------------------------------------------------------------------------
(* The reader, external: what the NVMe controller takes the entries for.    *)
(* The last entry of a list page is a data page only if it is the last of   *)
(* the transfer; otherwise it is the next page of the list.                 *)

\* How many pages of a list of m entries lie before the one that holds entry j,
\* when the list is too long for one page.
Hops(j, m) ==
    LET last == (m - 2) \div (PerPage - 1)
        here == j \div (PerPage - 1)
    IN  IF here < last THEN here ELSE last

\* Entry j of the list of m entries that starts at frame l.
ListEntry(mem, l, j, m) ==
    LET page[h \in Nat] == IF h = 0 THEN l ELSE mem[page[h - 1]][PerPage - 1]
    IN  IF m <= PerPage THEN mem[l][j]
        ELSE mem[page[Hops(j, m)]][j - Hops(j, m) * (PerPage - 1)]

\* The pages a command of n pages moves data to, in order.
Pages(mem, prp1, prp2, n) ==
    [k \in 0 .. n - 1 |->
        IF k = 0 THEN prp1
        ELSE IF n = 2 THEN prp2
        ELSE ListEntry(mem, prp2, k - 1, n - 1)]
=============================================================================
