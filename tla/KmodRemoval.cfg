CONSTANTS
    Threads = {t1, t2}
    Remover = rm
    MaxMaps = 2
    MaxDevices = 2
    Overlap = {"remove"}
    MaxPins = 2
    MaxProbes = 1
SPECIFICATION Spec
INVARIANT RemovedMeansReleasedAlways
CHECK_DEADLOCK FALSE
