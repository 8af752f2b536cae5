CONSTANTS
    None = None
    Tags = {t1}
    Boots = {b1, b2, b3}
    Revs = {r1, r2}
    Subs = {u1}
    Packets <- SinglePackets
    SeqWrap = 4
    TimeWrap = 6
    MaxCycles = 3
    MaxRanges = 3
    MaxTotal = 3
    Retention = 4
    Trail = 2
    Timeout = 1
    EndedMemory = 2
    HelloMemory = 2
    MaxSeq = 1
SPECIFICATION Spec
SYMMETRY BootSymmetry
INVARIANTS
    PageAgrees
    HelloReachesSession
PROPERTIES
    EndedForGood
