SPECIFICATION Spec
CONSTANTS
    Sessions = {s1}
    PerSession = 2
    Garbled = garbled
    NoLine = noline
    MaxFaults = 1
    FaultKinds = {"crash"}
INVARIANTS
    RestartDoesNotSkip
