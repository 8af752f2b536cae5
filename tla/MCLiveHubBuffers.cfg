CONSTANTS
    None = None
    Tags = {t1}
    Boots = {b1}
    Revs = {}
    Subs = {u1}
    Packets <- BatchPackets
    SeqWrap = 4
    TimeWrap = 6
    MaxCycles = 3
    MaxRanges = 4
    MaxTotal = 4
    Retention = 4
    Trail = 2
    Timeout = 1
    EndedMemory = 2
    HelloMemory = 1
    MaxSeq = 6
SPECIFICATION BufferSpec
INVARIANTS
    BufferSound
    PageContinues
PROPERTIES
    PendingSent
