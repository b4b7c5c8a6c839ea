SPECIFICATION Spec
CONSTANTS
    a1 = a1
    a2 = a2
    gw = gw
    m1 = m1
    t1 = t1
    t2 = t2
    NoMAC = NoMAC
    NoIP = NoIP
    Sweeper = Sweeper
    IPs = {a1}
    Protected = {}
    MACs = {}
    Threads = {t1, t2}
    SecModes = {"IPS"}
    DeployModes = {"HOST", "NETWORK"}
    TTL = 1
    MaxTime = 2
    MaxFaults = 1
    MaxEdits = 2
    MaxMacRules = 2
SYMMETRY MCSymmetry
INVARIANTS
    
    RuleBound
    ConfirmedIsEnforced
PROPERTIES
    NoEarlyRelease
