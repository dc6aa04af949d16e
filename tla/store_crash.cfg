SPECIFICATION StorageSpec
CONSTANTS
    Parts = {"store", "files", "index"}
    o0 = o0
    o1 = o1
    o2 = o2
    t1 = t1
    t2 = t2
    Blocks = {10, 11, 12, 13, 14}
    Pages <- MCPages
    PageOf <- MCPageOf
    Objects = {o0, o1}
    InitTree <- MCTree
    Anchored = {o0}
    SizeOf <- MCSizeOf
    Tasks = {t1, t2}
    JournalBlocks = 2
    MaxJournalEntries = 1
    Chained = {o1}
    MaxCow = 1
    MaxGeneration = 3
    MaxCrashes = 1
    MaxFaults = 0
    Writers = {w1}
    Streams = {s1}
    Paths = {p, q}
    Blobs = {a}
    SuperblockSlots = 2
    CommitEvery = 16
    MaxChunks = 1
    MaxRootGeneration = 3
    MaxRootFaults = 0
    MaxPowerCuts = 1
    GcFiber = GcFiber
    Nobody = Nobody
    Keys = {1, 2, 3, 4, 5, 6, 7}
    TreeBlocks = {1, 2, 3, 4, 5, 6, 7, 8, 9, 10, 11, 12, 13}
    MaxLeafEntries = 2
    MaxInternalKeys = 2
    MaxTreeDepth = 8
SYMMETRY MCSymmetry
VIEW StorageView
CHECK_DEADLOCK FALSE
INVARIANTS
    SelfCheckClean
    NoLeakWhileHealthy
    TreeSound
    NoLostUpdate
PROPERTIES
    ImplementsAtomicStore
