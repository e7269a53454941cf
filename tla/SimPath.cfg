CONSTANTS
    SqSize = 4
    CqSize = 4
    CidMod = 4
    NumBlocks = 6
    BlocksPerPage = 2
    LbaMod = 16
    BufSize = 4
    Requests <- MCRequests
    MaxCalls = 3
    MaxTimeouts = 2
SPECIFICATION FairSpec
INVARIANTS CopiedAsSubmitted DoneBlocksAgree WrittenIsCallers SimMemoryHeld OnlyAskedWritten
PROPERTIES IoReturns SubmittedIsExecuted
CHECK_DEADLOCK FALSE
