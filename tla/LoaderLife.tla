----------------------------- MODULE LoaderLife -----------------------------
(***************************************************************************)
(* The life of a layer loader (src/host/layer_loader.cu): the ladder of     *)
(* acquisitions of gpunvme_layer_loader_init with its three cleanup labels, *)
(* and gpunvme_layer_loader_destroy.  Releases are single steps, so that a  *)
(* thread or the controller can be caught in between.                       *)
(***************************************************************************)
EXTENDS Integers, Sequences

CONSTANT InitFaults     \* the acquisitions that may fail, a subset of Resources

VARIABLES
    lpc,        \* "none" | "unwind" | "up" | "call" | "teardown"
    held,       \* what the process really holds
    fields,     \* the loader's non-null pointers and open descriptors
    todo,       \* releases still to be made by the running cleanup
    stray,      \* history: something was released that was not held
    leaks       \* history: what a failed init is known to leave behind

lifeVars == <<lpc, held, fields, todo, stray, leaks>>

\* In the order init acquires them: file, mapping and CUDA registration of
\* BAR0, the enabled controller, the I/O queue pair, the PRP pool and arrays,
\* the kernel's parameter and result blocks, the pagemap file.
Steps == <<"fd", "map", "reg", "ctrl", "ioq", "pool", "prp1", "prp2",
           "params", "result", "pagemap">>
Resources == {Steps[i] : i \in 1 .. Len(Steps)}

\* What a resource is built on.
Needs(r) == CASE r \in {"reg", "ctrl"} -> {"map"}
              [] r = "ioq"             -> {"ctrl"}
              [] OTHER                 -> {}

LifeInit == /\ lpc = "none" /\ held = {} /\ fields = {} /\ todo = <<>>
            /\ stray = FALSE /\ leaks = {}

----------------------------------------------------------------------------
(* Defects: BAR0 is unmapped before it is unregistered; pointers are set    *)
(* before the allocation they are for.                                      *)
FailBar0Early == <<"map", "reg", "fd">>
FieldsTooSoon(k) == {Steps[i] : i \in 1 .. k + 1}

----------------------------------------------------------------------------
(* gpunvme_layer_loader_init *)

Acquired(k) == {Steps[i] : i \in 1 .. k}

\* The pointers set after k acquisitions: kernel_params and kernel_result are
\* stored only when both blocks are there.
Fields(k) == Acquired(k) \ (IF k < 10 THEN {"params"} ELSE {})

\* The labels, which run into one another.
FailBar0 == <<"reg", "map", "fd">>
FailIoq  == <<"ioq", "ctrl", "reg", "map", "fd">>
FailPrp  == <<"result", "params", "prp2", "prp1", "pool", "ioq", "ctrl", "reg", "map", "fd">>

\* The cleanup when acquisition k fails.
Unwind(k) ==
    CASE Steps[k] = "fd"   -> <<>>
      [] Steps[k] = "map"  -> <<"fd">>
      [] Steps[k] = "reg"  -> <<"map", "fd">>
      [] Steps[k] = "ctrl" -> FailBar0
      [] Steps[k] = "ioq"  -> <<"ctrl", "reg", "map", "fd">>
      [] Steps[k] = "pool" -> FailIoq
      [] OTHER             -> FailPrp

InitOk ==
    /\ lpc = "none" /\ lpc' = "up"
    /\ held' = Resources /\ fields' = Resources
    /\ UNCHANGED <<todo, stray, leaks>>

\* What gpunvme_ctrl_init, failing itself, may leave behind: nothing; the admin
\* rings, when the address of one is not found; an enabled controller that
\* works on them, when a later step fails.
CtrlLeaves == {{}, {"rings"}, {"rings", "ctrl"}}

InitFails(k, left) ==
    /\ lpc = "none" /\ Steps[k] \in InitFaults
    /\ left \in CtrlLeaves /\ (left # {} => Steps[k] = "ctrl")
    /\ lpc' = "unwind"
    /\ held' = held \cup Acquired(k - 1) \cup left
    /\ fields' = Fields(k - 1)
    /\ todo' = Unwind(k)
    /\ leaks' = leaks \cup left
                      \cup (IF Steps[k] = "result" THEN {"params"} ELSE {})
    /\ UNCHANGED stray

----------------------------------------------------------------------------
(* gpunvme_layer_loader_destroy, of a loader whose init succeeded *)

DestroyList == <<"pagemap", "result", "params", "prp2", "prp1", "pool",
                 "ioq", "ctrl", "bar1", "reg", "map", "fd">>

Destroy ==
    /\ lpc = "up" /\ lpc' = "teardown"
    /\ todo' = DestroyList
    /\ UNCHANGED <<held, fields, stray, leaks>>

----------------------------------------------------------------------------
(* Both cleanups *)

\* The pointer is tested before its resource is released, but for the queue
\* pair and the controller, and for BAR0 when init fails.
Released(r) ==
    \/ r \in fields
    \/ r \in {"ioq", "ctrl"}
    \/ lpc = "unwind" /\ r \in {"reg", "map", "fd"}

Release ==
    /\ todo # <<>>
    /\ IF Released(Head(todo))
       THEN /\ held' = held \ {Head(todo)}
            /\ stray' = (stray \/ Head(todo) \notin held)
       ELSE UNCHANGED <<held, stray>>
    /\ todo' = Tail(todo)
    /\ UNCHANGED <<lpc, fields, leaks>>

\* destroy clears the loader; a failed init only bar0 and bar0_fd.
FieldsAfter == IF lpc = "teardown" THEN {} ELSE fields \ {"reg", "map", "fd"}

Finish ==
    /\ lpc \in {"unwind", "teardown"} /\ todo = <<>>
    /\ lpc' = "none" /\ fields' = FieldsAfter
    /\ UNCHANGED <<held, todo, stray, leaks>>
=============================================================================
