SPECIFICATION RootSpec
CONSTANTS
    Writers = {w1}
    Streams = {}
    Paths = {p, q}
    Blobs = {a, b}
    SuperblockSlots = 2
    CommitEvery = 16
    MaxChunks = 1
    MaxRootGeneration = 5
    MaxRootFaults = 1
    MaxPowerCuts = 0
    GcFiber = GcFiber
    Nobody = Nobody
SYMMETRY RootSymmetry
INVARIANTS
    RootIntact
CHECK_DEADLOCK FALSE
