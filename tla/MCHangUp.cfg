CONSTANTS
    Player = {ana, bob}
    SockBuf = 2
    MaxLen = 2
    MaxLog = 3
SPECIFICATION OutboxSpec
INVARIANT HangUpIsSurvived
