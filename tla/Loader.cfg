CONSTANTS
    InitFaults = {"fd", "map", "reg", "ctrl", "ioq", "pool", "prp1", "prp2", "params", "result", "pagemap"}
    PerPage = 3
    CmdMax = 3
    BlocksPerPage = 2
    MaxCommands = 2
    PoolFrames <- MCPool
    VFrames = {1, 2, 3, 4}
    Window = 2
    Placements <- MCPlacements
    Bar1Faults = {"init", "window", "check"}
    Pinned <- MCPinned
    LayerBlocks = {3, 8, 13}
    VramBase = 100
SPECIFICATION Spec
INVARIANTS BuiltOnHeld ReleasedOnce PrpsDescribeChunks ResolvedIsBuffer
PROPERTIES FatalReported StopReturns
CHECK_DEADLOCK FALSE
