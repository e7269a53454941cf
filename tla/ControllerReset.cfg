CONSTANTS
    SqSize = 3
    CqSize = 3
    CidMod = 3
    Faults = {}
    ErrorCodes = {}
    MaxInits = 2
    MaxUpsets = 0
SPECIFICATION Spec
PROPERTIES EnableAfterReset
CHECK_DEADLOCK FALSE
