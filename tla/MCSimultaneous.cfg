SPECIFICATION Spec
CONSTANTS
    r1 = r1
    r2 = r2
    NoRequest = NoRequest
    Requests <- OneRequest
    Timestamps <- FinalTimestamps
    MaxTime = 3
    MaxStarts = 1
INVARIANTS
    NoSimultaneousMigrations
CHECK_DEADLOCK FALSE
