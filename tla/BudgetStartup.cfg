SPECIFICATION Spec
CONSTANTS
    stocks = stocks
    home = home
    wseAccess = wseAccess
    NoBucket = NoBucket
    Holder <- Holders
    Disabled <- NoBuckets
    DefaultWeight <- mcWeight
    Weight4S = 80
    ReserveShare = 50
    Bucket <- Two
    Market <- NoMarket
    Command <- NoCommand
    Price <- OnePrice
    InitialCash <- Start11
    CashAfterInstall <- AfterInstall
    MaxCash = 11
    PortCapacity = 3
    MaxEvents = 4
PROPERTY StartupDetectsReset
