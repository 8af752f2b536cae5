CONSTANTS
    RowCounts = {1, 2, 5}
    FlushRows = 3
    MaxPendingRows = 4
    MaxSubmitted = 4
SPECIFICATION FairSpec
CHECK_DEADLOCK FALSE
INVARIANTS
    Accounted
    WrittenInOrder
    StopDrains
PROPERTIES
    FullQueueFlushed
    EveryPacketLeaves
