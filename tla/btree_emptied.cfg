SPECIFICATION BtSpec
CONSTANTS
    Keys = {1, 2, 3, 4, 5, 6}
    TreeBlocks = {1, 2, 3, 4, 5, 6, 7, 8, 9, 10, 11, 12, 13}
    MaxLeafEntries = 2
    MaxInternalKeys = 2
    MaxTreeDepth = 8
CHECK_DEADLOCK FALSE
INVARIANT NoDanglingChild
