SPECIFICATION SpecKeyslot
CONSTANTS
    o0 = o0
    o1 = o1
    o2 = o2
    t1 = t1
    t2 = t2
    Blocks = {10, 11, 12, 13, 14}
    Pages <- MCPages
    PageOf <- MCPageOf
    Objects = {o0, o1}
    InitTree <- MCTree
    Anchored = {o0}
    SizeOf <- MCSizeOf
    Tasks = {t1}
    JournalBlocks = 2
    MaxJournalEntries = 1
    Chained = {}
    MaxCow = 1
    MaxGeneration = 3
    MaxCrashes = 1
    MaxFaults = 0
INVARIANTS
    NoFreeButReferenced
CHECK_DEADLOCK FALSE
