CONSTANTS
    SqSize = 3
    CqSize = 3
    CidMod = 4
    PipeDepth = 2
    BlocksPer = 2
    BlockSize = 2
    CountMod = 32
    MaxCommands = 4
    Requests <- MCRequests
    Buffers = {b1}
    Faults = {"timeout", "nvme", "cuda", "dma", "launch"}
    MaxCalls = 2
SPECIFICATION Spec
INVARIANTS TypeOK OkMeansLoaded QuietBetweenCalls CidsDistinct
PROPERTIES SubmitHasRoom ImplementsAtomicRead
