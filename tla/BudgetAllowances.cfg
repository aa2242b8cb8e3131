SPECIFICATION Spec
CONSTANTS
    stocks = stocks
    home = home
    wseAccess = wseAccess
    NoBucket = NoBucket
    Holder <- Holders
    Disabled <- NoBuckets
    DefaultWeight <- mcWeight
    Weight4S = 80
    ReserveShare = 50
    Bucket <- Three
    Market <- Markets
    Command <- AllowCommands
    Price <- OnePrice
    InitialCash <- Starts
    CashAfterInstall <- NoInstall
    MaxCash = 21
    PortCapacity = 3
    MaxEvents = 4
INVARIANTS TypeOK ReserveHidden GoalSound RushExclusive
