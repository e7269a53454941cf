CONSTANTS
    PerPage = 3
    Configs <- MCConfigs
    RingCaps = {2, 3, 8}
    MinRing = 2
    Headroom = 1
    WordMod = 6
    Warmups = 2
    BlocksPerPage = 1
    BenchFaults = {"fd", "map", "reg", "ctrl", "ioq", "data", "pool", "pagemap", "cuda", "launch", "media"}
SPECIFICATION Spec
INVARIANTS SuccessMeansRead RingHasRoom SlotsDistinct QuietWhenFreed
PROPERTY BenchEnds
CHECK_DEADLOCK FALSE
