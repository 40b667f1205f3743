SPECIFICATION Spec
CONSTANTS
    SrcIps = {a, b}
    Sessions = {s1, s2}
    Planters = {p1}
    Reaper = reaper
    ContainerIds = {c1, c2, c3}
    Subnets = {n1, n2}
    Nobody = nobody
    NoAddress = noaddress
    MaxContainers = 1
    IdleTtl = 1
    SessionLimit = 2
    MaxClock = 2
    MaxFaults = 2
    FaultKinds = {"crash", "death", "proxy", "timeout", "docker", "wedge"}
SYMMETRY Symmetry
CHECK_DEADLOCK FALSE
INVARIANTS
    TypeOK
    EnvironmentIsolation
    AddressNamesOwner
    LockGuardsSection
    ReaperSparesRecentSessions
PROPERTIES
    TrackedNeverRemoved
    ImplementsEnvironments
