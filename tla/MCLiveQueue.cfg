CONSTANTS
    BroadcastKinds = {"append", "session_start", "session_end"}
    MaxFrames = 3
    MaxLost = 2
    MaxGeneration = 2
SPECIFICATION FairSpec
INVARIANTS
    LossReported
    NoLostWakeup
PROPERTIES
    SendsCurrentSubscription
    ControlsKept
    OverflowCloses
    LossReachesPage
