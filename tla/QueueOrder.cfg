SPECIFICATION Spec
CONSTANTS
    shareWorker = shareWorker
    hackWorker = hackWorker
    shareDaemon = shareDaemon
    dashboard = dashboard
    hackDaemon = hackDaemon
    checkWork = checkWork
    checkFactions = checkFactions
    install = install
    buy = buy
    gone = gone
    StatusChecks <- orderChecks
    Process <- OrderProcesses
    ScriptRam <- ramOrder
    KillTiers <- liveTiers
    Action <- orderActions
    Request <- mixed
    MaxRam = 6
    PortCapacity = 2
    MaxEntries = 3
    MaxThreads = 1
    MaxStops = 1
INVARIANTS TypeOK OvertakesOnlyLower
PROPERTY ServesMailbox
