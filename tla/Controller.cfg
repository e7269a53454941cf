CONSTANTS
    SqSize = 2
    CqSize = 3
    CidMod = 2
    Faults = {"timeout", "nomem", "lookup", "status", "fatal"}
    ErrorCodes = {0, 1}
    MaxInits = 2
    MaxUpsets = 1
SPECIFICATION Spec
INVARIANTS AnswersAreMine IdentifiedIsReal QueuesBacked CreatedMeansCreated
CHECK_DEADLOCK FALSE
