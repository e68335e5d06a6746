SPECIFICATION Spec
CONSTANTS
    r1 = r1
    r2 = r2
    NoRequest = NoRequest
    Requests <- OneRequest
    Timestamps <- MCTimestamps
    MaxTime = 3
    MaxStarts = 1
PROPERTIES
    AddedConfigMapStartsMigration
CHECK_DEADLOCK FALSE
