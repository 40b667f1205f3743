SPECIFICATION FairSpec
CONSTANTS
    s1 = s1
    s2 = s2
    k1 = k1
    w1 = w1
    w2 = w2
    Sessions = {s1}
    Honeypot <- OneAttacker
    Tokens = {k1}
    Catalog <- MCCatalog
    Bundle <- MCBundle
    Workers = {w1, w2}
    NoToken = none
    ClassifyEvery = 1
    MinInterval = 1
    Grace = 1
    Ttl = 0
    QueueSize = 2
    MaxCommands = 2
    MaxClock = 2
    MaxFaults = 1
    FaultKinds = {"timeout"}
PROPERTIES
    CloseSettles
CHECK_DEADLOCK FALSE
