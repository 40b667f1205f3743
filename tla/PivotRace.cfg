SPECIFICATION PivotSpec
CONSTANTS
    SrcIps = {a, b}
    Sessions = {s1}
    Planters = {}
    Reaper = reaper
    ContainerIds = {c1, c2, c3}
    Subnets = {n1, n2}
    Nobody = nobody
    NoAddress = noaddress
    MaxContainers = 1
    IdleTtl = 1
    SessionLimit = 1
    MaxClock = 2
    MaxFaults = 0
    FaultKinds = {}
    Pivots = {p1, p2}
    MaxPeerFaults = 0
    PeerFaultKinds = {}
SYMMETRY PivotSymmetry
INVARIANTS
    ReplyCanBeBridged
