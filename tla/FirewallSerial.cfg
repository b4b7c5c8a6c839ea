SPECIFICATION FairSpec
CONSTANTS
    a1 = a1
    a2 = a2
    gw = gw
    m1 = m1
    t1 = t1
    t2 = t2
    NoMAC = NoMAC
    NoIP = NoIP
    Sweeper = Sweeper
    IPs = {a1, gw}
    Protected = {gw}
    MACs = {m1}
    Threads = {t1}
    SecModes = {"IDS", "IPS"}
    DeployModes = {"HOST", "NETWORK"}
    TTL = 1
    MaxTime = 2
    MaxFaults = 1
    MaxEdits = 1
    MaxMacRules = 2
INVARIANTS
    
    TableMatchesKernel
PROPERTIES
    KeepsPromise
    RestoresAccess
