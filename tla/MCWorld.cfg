SPECIFICATION FairWorldSpec
CONSTANTS
    RoomId = {1, 2, 3}
    ZoneId = {1}
    Home = 1
    Address <- MCAddress
    Maps <- MCMaps
    Sizes <- SmallSizes
INVARIANTS WorldTypeOK Linked ClosedIsSafe ListIsTrue
PROPERTIES WalksTheMap WayBack GetsReady
