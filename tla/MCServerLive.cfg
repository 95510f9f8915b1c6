CONSTANTS
    Objects = 2
    PlayerId = {ana, bob}
    Addr <- MCAddr
    Fd <- MCFd
    Room <- MCRoom
    Dir <- MCDir
    exits <- MCexits
    HomeRoom <- MCHomeRoom
    Sent <- Everything
    MaxPvs = 17
    Roll = {9}
SPECIFICATION FairServerSpec
PROPERTIES
    LeaverIsFreed
    CommandIsRun
