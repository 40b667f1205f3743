SPECIFICATION FairSpec
CONSTANTS
    Sessions = {s1, s2}
    PerSession = 2
    Garbled = garbled
    NoLine = noline
    MaxFaults = 2
    FaultKinds = {"emit", "recreate", "truncate", "hub", "timeout", "disk", "crash"}
INVARIANTS
    TypeOK
    NothingLost
    DuplicatesNeedFaults
    OrderedWithoutFaults
PROPERTIES
    EveryEventArrives
