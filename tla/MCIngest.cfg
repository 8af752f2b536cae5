CONSTANTS
    None = None
    t1 = t1
    t2 = t2
    t3 = t3
    a1 = a1
    a2 = a2
    Tags = {t1, t2, t3}
    Anchors = {a1, a2}
    Keys <- MCKeys
    Length <- MCLength
    Ending <- MCEnding
    CycleOf <- MCCycleOf
    Origins <- MCOrigins
    Asks <- MCAsks
    SeqWrap = 8
    TimeWrap = 4
    MaxDt = 3
    TotalPoints = 5
    BatchCycles = 2
    MaxSessions = 2
    MaxCycles = 100
    MaxRanges = 100
    MaxTotal = 100
    Retention = 100
    Trail = 100
    EndedMemory = 8
    MaxSeq = 100
    MaxQueue = 1
    MaxFaults = 1
SPECIFICATION Spec
CHECK_DEADLOCK FALSE
INVARIANTS
    LossEstimate
    StoredAsSent
    ReplayIsTrue
    ReplayShowsLive
    ThinnedFairly
    RangesOnTrack
    SummaryAgrees
PROPERTIES
    ForgetsOldest
