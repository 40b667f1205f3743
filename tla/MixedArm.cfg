SPECIFICATION Spec
CONSTANTS
    a = a
    e1 = e1
    e2 = e2
    p = p
    Sessions = {e1, p}
    Pivots = {p}
    Attackers = {a}
    Owner <- MCOwner
    Host <- MCHost
    JumpHost = jump
    Control = {a}
    MaxAuthTries = 1
    MaxCommands = 1
    MaxEvents = 5
    MaxClock = 0
    VisitGap = 0
    Handlers = {h1, h2}
    NoHandler = none
    MaxFaults = 0
    FaultKinds = {}
INVARIANTS
    NoMixedVisit
CHECK_DEADLOCK FALSE
