CONSTANTS
    Objects = 3
    PlayerId = {ana, bob}
    Addr <- MCAddr
    Fd <- MCFd
    Room <- MCRoom
    Dir <- MCDir
    exits <- MCexits
    HomeRoom <- MCHomeRoom
    Sent <- Brawl
    MaxPvs = 16
    Roll = {9}
SPECIFICATION ServerSpec
SYMMETRY Symmetry
INVARIANTS
    ServerTypeOK
    NeverKilled
    NetMatchesGame
    NoDanglingPointer
    LeavingIsGone
    RoomsAgree
    QueuesDrained
PROPERTIES
    BlowsFaceToFace
    SessionKept
    CombatSpec
    ClientSpec
