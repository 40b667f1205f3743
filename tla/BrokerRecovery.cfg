SPECIFICATION FairSpec
CONSTANTS
    SrcIps = {a, b}
    Sessions = {s1, s2}
    Planters = {}
    Reaper = reaper
    ContainerIds = {c1, c2}
    Subnets = {n1, n2}
    Nobody = nobody
    NoAddress = noaddress
    MaxContainers = 1
    IdleTtl = 0
    SessionLimit = 1
    MaxClock = 2
    MaxFaults = 1
    FaultKinds = {"crash", "death", "proxy"}
INVARIANTS
    EntryCeiling
    BridgedSessionsReachable
PROPERTIES
    IdleIsReaped
