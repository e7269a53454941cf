CONSTANTS
    SqSize = 4
    CqSize = 4
    CidMod = 8
    PipeDepth = 3
    BlocksPer = 2
    BlockSize = 2
    CountMod = 32
    MaxCommands = 5
    Requests <- MCRequestsMany
    Buffers = {b1}
    Faults = {}
    MaxCalls = 2
SPECIFICATION FairSpec
PROPERTIES LoadCompletes
