SPECIFICATION PivotSpec
CONSTANTS
    SrcIps = {a, b}
    Sessions = {s1}
    Planters = {}
    Reaper = reaper
    ContainerIds = {c1, c2}
    Subnets = {n1, n2}
    Nobody = nobody
    NoAddress = noaddress
    MaxContainers = 1
    IdleTtl = 0
    SessionLimit = 0
    MaxClock = 1
    MaxFaults = 1
    FaultKinds = {"crash", "proxy", "docker", "death", "timeout"}
    Pivots = {p1, p2}
    MaxPeerFaults = 1
    PeerFaultKinds = {"docker", "death"}
SYMMETRY PivotSymmetry
CONSTRAINT OneDisturbance
INVARIANTS
    PivotTypeOK
    WebNodeHasDatabase
    LookupFindsOrigin
    NoFrontNetworkLeft
