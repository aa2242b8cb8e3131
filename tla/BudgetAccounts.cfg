SPECIFICATION Spec
CONSTANTS
    stocks = stocks
    home = home
    wseAccess = wseAccess
    NoBucket = NoBucket
    Holder <- Holders
    Disabled <- OneDisabled
    DefaultWeight <- mcWeight
    Weight4S = 80
    ReserveShare = 50
    Bucket <- Two
    Market <- NoMarket
    Command <- AccessCommands
    Price <- Prices
    InitialCash <- Start11
    CashAfterInstall <- AfterInstall
    MaxCash = 11
    PortCapacity = 2
    MaxEvents = 5
INVARIANTS SavedAtAwait AccountsExact
PROPERTIES ResetsOnlyUnexplained SignalsAgree FinishedReleased
