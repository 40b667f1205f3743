SPECIFICATION Spec
CONSTANTS
    MaxCommandLen = 2
    MaxKeys = 5
    MaxDoubtful = 3
ACTION_CONSTRAINT OneTornRead
INVARIANTS
    RecorderTypeOK
    RecordIsFaithful
    OneRecordPerEnter
CHECK_DEADLOCK FALSE
