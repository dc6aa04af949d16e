SPECIFICATION RootSpec
CONSTANTS
    Writers = {w1}
    Streams = {s1}
    Paths = {p, q}
    Blobs = {a, b}
    SuperblockSlots = 2
    CommitEvery = 1
    MaxChunks = 2
    MaxRootGeneration = 4
    MaxRootFaults = 0
    MaxPowerCuts = 0
    GcFiber = GcFiber
    Nobody = Nobody
SYMMETRY RootSymmetry
INVARIANTS
    NoLostUpdate
CHECK_DEADLOCK FALSE
