CONSTANTS
    Player = {ana, bob}
    SockBuf = 2
    MaxLen = 2
    MaxLog = 3
SPECIFICATION FairOutboxSpec
INVARIANTS
    OutboxTypeOK
    NothingLost
PROPERTIES
    SeesTheChronicle
    Delivered
