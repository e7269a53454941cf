------------------------------ MODULE Monitor ------------------------------
(***************************************************************************)
(* The fatal-status monitor (src/host/monitor.c): a thread that polls       *)
(* CSTS.CFS through the controller's BAR, reports the first fatal status it *)
(* sees through a callback, and is stopped by its owner with a flag and a   *)
(* join.                                                                    *)
(***************************************************************************)
EXTENDS Naturals

VARIABLES
    cfs,         \* the controller's fatal status bit, external
    running, fatal_detected,    \* the two flags thread and owner share
    mth,         \* the thread: "none" | "check" | "read" | "report" | "sleep" | "done"
    owner,       \* what the owner has: "none", a "started" monitor, one it is "stopping"
    callbacks    \* history: callbacks since the monitor was started

monVars == <<cfs, running, fatal_detected, mth, owner, callbacks>>

MonInit == /\ cfs = FALSE /\ running = FALSE /\ fatal_detected = FALSE
           /\ mth = "none" /\ owner = "none" /\ callbacks = 0

----------------------------------------------------------------------------
(* Defects: every fatal reading is reported; the flag stays set.            *)
FirstReportAlways == TRUE
KeepsRunning == running

----------------------------------------------------------------------------
(* gpunvme_monitor_start, by an owner that has no monitor running *)

MonitorStart ==
    /\ owner = "none" /\ owner' = "started"
    /\ running' = TRUE /\ fatal_detected' = FALSE /\ callbacks' = 0
    /\ mth' = "check"
    /\ UNCHANGED cfs

\* pthread_create fails: the structure says "running" although nothing runs.
MonitorStartFails ==
    /\ owner = "none"
    /\ running' = TRUE /\ fatal_detected' = FALSE /\ callbacks' = 0
    /\ UNCHANGED <<cfs, mth, owner>>

----------------------------------------------------------------------------
(* monitor_thread_func *)

MonCheck ==
    /\ mth = "check"
    /\ mth' = IF running THEN "read" ELSE "done"
    /\ UNCHANGED <<cfs, running, fatal_detected, owner, callbacks>>

\* csts.raw = host_mmio_read32(... NVME_REG_CSTS)
MonRead ==
    /\ mth = "read"
    /\ mth' = IF cfs THEN "report" ELSE "sleep"
    /\ UNCHANGED <<cfs, running, fatal_detected, owner, callbacks>>

\* atomic_exchange(&mon->fatal_detected, 1) returned 0
FirstReport == ~fatal_detected

MonReport ==
    /\ mth = "report"
    /\ fatal_detected' = TRUE
    /\ callbacks' = IF FirstReport THEN callbacks + 1 ELSE callbacks
    /\ mth' = "sleep"
    /\ UNCHANGED <<cfs, running, owner>>

AfterSleep == "check"

MonSleep ==
    /\ mth = "sleep"
    /\ mth' = AfterSleep
    /\ UNCHANGED <<cfs, running, fatal_detected, owner, callbacks>>

MonThread == MonCheck \/ MonRead \/ MonReport \/ MonSleep

----------------------------------------------------------------------------
(* gpunvme_monitor_stop, of a monitor whose start succeeded *)

StoppedFlag == FALSE

MonitorStop ==
    /\ owner = "started" /\ owner' = "stopping"
    /\ running' = StoppedFlag
    /\ UNCHANGED <<cfs, fatal_detected, mth, callbacks>>

\* pthread_join returns when the thread function has.
Joined == mth = "done"

MonitorJoin ==
    /\ owner = "stopping" /\ Joined
    /\ owner' = "none" /\ mth' = IF mth = "done" THEN "none" ELSE mth
    /\ UNCHANGED <<cfs, running, fatal_detected, callbacks>>

----------------------------------------------------------------------------
\* The controller dies; only a reset clears it (external).
CtrlFatal == /\ ~cfs /\ cfs' = TRUE
             /\ UNCHANGED <<running, fatal_detected, mth, owner, callbacks>>

CtrlReset == cfs' = FALSE /\ UNCHANGED <<running, fatal_detected, mth, owner, callbacks>>
=============================================================================
