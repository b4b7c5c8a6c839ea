SPECIFICATION PSpec
CONSTANTS
    a1 = a1
    a2 = a2
    gw = gw
    m1 = m1
    w1 = w1
    w2 = w2
    net = net
    sur = sur
    ml = ml
    AutoUnblock = AutoUnblock
    NoMAC = NoMAC
    NoIP = NoIP
    Sweeper = Sweeper
    IPs = {a1}
    Protected = {}
    MACs = {}
    Threads = {w1, w2, AutoUnblock}
    Links <- NoLinkLayer
    PacketRules = {net}
    SuricataRules = {}
    MLRules = {}
    SecModes = {"IDS", "IPS"}
    DeployModes = {"NETWORK"}
    TTL = 3
    Window = 1
    Retain = 1
    MaxLag = 1
    MaxRequests = 1
    MaxTime = 2
    MaxFaults = 0
    MaxEdits = 1
    MaxMacRules = 2
SYMMETRY MCSymmetry

    
PROPERTIES
    AlertSpacing
