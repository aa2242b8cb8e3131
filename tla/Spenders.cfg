SPECIFICATION Spec
CONSTANTS
    servers = servers
    home = home
    programs = programs
    hacknet = hacknet
    NoBucket = NoBucket
    server1 = server1
    level = level
    Bucket <- mcBucket
    ReserveShare = 50
    Weight <- mcWeight
    ServerSizes <- mcServerSizes
    ServerCost <- mcServerCost
    Slots = 2
    Limits <- mcLimits
    HomeRamCost <- mcHomeRamCost
    HomeCoreCost <- mcHomeCoreCost
    TorCost = 1
    ProgramCost <- mcProgramCost
    HacknetUpgrade <- mcUpgrade
    firstNode = server1
    HacknetCost <- mcHacknetCost
    BatchLimit = 2
    MaxCash = 4
    Switched <- mcSwitched
    MaxEvents = 1
INVARIANTS BatchIsPaid
PROPERTIES EverythingBought
