SPECIFICATION Spec
CONSTANTS
    Targets <- MCTargets
    Batch = {b1, b2, b3, b4}
    Servers <- MCServers
    Home = "home"
    MaxRam <- MCRam
    HomeReserve = 3200
    SharePercent = 2
    HackTime = 2
    GrowTime = 8
    WeakenTime = 10
    HackThreads = 100
    GrowThreads = 125
    Stolen <- MCStolen
    GrowPower = 4
    MaxBatches = 2
    MoneyTolerance = 2
    MoneyMargin = 103
    MaxDeficit = 2000
    MaxSecurity = 2000
    StartDeficits = {800}
    StartSecurities = {100}
    MaxFaults = 1
INVARIANTS TheftsCovered HostsHaveRoom
PROPERTIES WholeBatches MoneyFlows
