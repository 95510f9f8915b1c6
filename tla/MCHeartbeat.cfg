CONSTANTS
    HB_TIME = 100
    Window = 2
    Half = 1024
    MaxTick = 2
SPECIFICATION FairHeartSpec
INVARIANTS
    OneBeatPerPeriod
    NoBeatLost
PROPERTIES
    KeepsBeating
