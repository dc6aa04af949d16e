SPECIFICATION StorageSpec
CONSTANTS
    Parts = {"store", "files"}
    o0 = o0
    o1 = o1
    o2 = o2
    t1 = t1
    t2 = t2
    Blocks = {10, 11, 12, 13, 14}
    Pages <- MCPages
    PageOf <- MCPageOf
    Objects = {o0, o1}
    InitTree <- MCTree
    Anchored = {o0}
    SizeOf <- MCSizeOf
    Tasks = {t1}
    JournalBlocks = 2
    MaxJournalEntries = 1
    Chained = {o1}
    MaxCow = 2
    MaxGeneration = 3
    MaxCrashes = 1
    MaxFaults = 1
    Writers = {w1}
    Streams = {s1}
    Paths = {p, q}
    Blobs = {a}
    SuperblockSlots = 2
    CommitEvery = 1
    MaxChunks = 2
    MaxRootGeneration = 3
    MaxRootFaults = 1
    MaxPowerCuts = 1
    GcFiber = GcFiber
    Nobody = Nobody
    Keys = {1}
    TreeBlocks = {1}
    MaxLeafEntries = 2
    MaxInternalKeys = 2
    MaxTreeDepth = 8
SYMMETRY RootSymmetry
VIEW FaultsView
CHECK_DEADLOCK FALSE
INVARIANTS
    StorageTypeOK
    MediaSound
    IntactUntilFailure
    StreamKeepsChunks
