CONSTANTS
    SqSize = 4
    CqSize = 4
    CidMod = 8
    PipeDepth = 3
    BlocksPer = 2
    BlockSize = 2
    CountMod = 32
    MaxCommands = 4
    Requests <- MCRequests
    Buffers = {b1}
    Faults = {"timeout"}
    MaxCalls = 2
SPECIFICATION Spec
INVARIANTS OkMeansLoadedAlways
