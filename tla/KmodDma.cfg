CONSTANTS
    Threads = {t1, t2}
    Remover = rm
    MaxMaps = 2
    MaxDevices = 2
    Overlap = {"remove", "free"}
    MaxPins = 2
    MaxProbes = 3
SPECIFICATION Spec
SYMMETRY ThreadSymmetry
INVARIANTS ReleasedOnce HandleNamesMapping RemovedMeansReleased AllOrNothing UsersHaveDevice
CHECK_DEADLOCK FALSE
