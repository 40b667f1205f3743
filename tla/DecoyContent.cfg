SPECIFICATION Spec
CONSTANTS
    v1 = v1
    v2 = v2
    Values = {v1, v2}
    None = None
    Requests <- MCRequests
    Usual <- MCUsual
    Drafts <- MCDrafts
    ExportRows = 5
    LlmRetries = 2
    MaxRetries = 2
    MaxFaults = 2
    MaxDrafts = 3
SYMMETRY Symmetry
CHECK_DEADLOCK FALSE
INVARIANTS
    DecoyTypeOK
    NothingOfTheModelLeaks
    AnswerIsWhole
