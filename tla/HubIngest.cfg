SPECIFICATION Spec
CONSTANTS
    a = a
    e1 = e1
    e2 = e2
    p = p
    Sessions = {e1, e2, p}
    Pivots = {p}
    Attackers = {a}
    Owner <- MCOwner
    Host <- MCHost
    JumpHost = jump
    Control = {a}
    MaxAuthTries = 1
    MaxCommands = 1
    MaxEvents = 6
    MaxClock = 2
    VisitGap = 0
    Handlers = {h1, h2}
    NoHandler = none
    MaxFaults = 1
    FaultKinds = {"timeout", "read", "graph", "store", "redis"}
SYMMETRY HandlerSymmetry
ACTION_CONSTRAINT EitherQuestion
INVARIANTS
    HubTypeOK
    RowKnowsOwner
    RowIsExact
    AlertsAreBounded
    IocRemembers
    GraphCoversRows
    VisitsAreReturns
CHECK_DEADLOCK FALSE
