CONSTANTS
    Players = 2
    PlayerId <- MCPlayerId
    Fd <- MCFd
    Conn = {c1, c2, c3, c4}
    QMax = 2
SPECIFICATION FairHandoffSpec
INVARIANTS
    HandoffTypeOK
    Paired
    RecordIsWaiting
    TablesAgree
    NoDescriptorLeaked
    BoundCoversAll
PROPERTIES
    LoginsInOrder
    LoginIsServed
