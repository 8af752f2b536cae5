CONSTANTS
    None = None
    Tags = {t1, t2, t3}
    Boots = {b1}
    Revs = {}
    Subs = {}
    Packets <- SmallPackets
    SeqWrap = 4
    TimeWrap = 6
    MaxCycles = 2
    MaxRanges = 3
    MaxTotal = 4
    Retention = 4
    Trail = 2
    Timeout = 1
    EndedMemory = 2
    HelloMemory = 1
    MaxSeq = 1
SPECIFICATION BufferSpec
PROPERTIES
    EndedGiveWayFirst
