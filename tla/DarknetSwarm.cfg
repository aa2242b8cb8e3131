SPECIFICATION Spec
CONSTANTS
    darkweb = darkweb
    near = near
    p1 = p1
    p3 = p3
    Host = {darkweb, near}
    Darkweb = darkweb
    Neighbours <- Pair
    Password = {p1, p3}
    FingerprintOf <- TwoKinds
    Leaked = {p1}
    Blocked = {near}
    PortCapacity = 1
    MaxBacklog = 2
    Patience = 0
    SeedThrottle = 0
    MaxEvents = 2
INVARIANTS VaultSaved
PROPERTIES NewsFresh SwarmHeals
CHECK_DEADLOCK TRUE
