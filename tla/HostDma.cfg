CONSTANTS
    PerPage = 2
    VPages <- MCVPages
    Frames <- MCFrames
    Pagemaps <- MCPagemaps
    Areas <- MCAreas
    ListBase = 8
    BufPage = 7
    MaxPages = {1, 4}
    DmaFaults = {"nomem", "io", "timeout", "unprivileged"}
    BarFaults = {"open", "seek", "mmap", "register", "pointer"}
    MaxCmds = 2
SPECIFICATION Spec
INVARIANTS DataReachesArea AllocsAccounted BarReleasedOnce
CHECK_DEADLOCK FALSE
