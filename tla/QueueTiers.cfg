SPECIFICATION Spec
CONSTANTS
    shareWorker = shareWorker
    hackWorker = hackWorker
    shareDaemon = shareDaemon
    dashboard = dashboard
    hackDaemon = hackDaemon
    checkWork = checkWork
    checkFactions = checkFactions
    install = install
    buy = buy
    gone = gone
    StatusChecks <- mcChecks
    Process <- TierProcesses
    ScriptRam <- ramTiers
    KillTiers <- mcTiers
    Action <- tierActions
    Request <- forceInstall
    MaxRam = 8
    PortCapacity = 1
    MaxEntries = 1
    MaxThreads = 2
    MaxStops = 0
PROPERTIES LowerTiersFirst FewestKills EnoughIfPossible RelaunchedIfRoom EntryDecided RotationContinues
