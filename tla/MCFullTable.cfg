SPECIFICATION FairWorldSpec
CONSTANTS
    RoomId = {1, 2, 3}
    ZoneId = {1}
    Home = 1
    Address <- MCAddress
    Maps <- MCMaps
    Sizes <- FullSizes
INVARIANT Linked
