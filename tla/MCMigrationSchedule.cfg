\* Nothing happens after the last start of the pod ended: the bound MaxStarts.
SPECIFICATION FairSpec
CONSTANTS
    r1 = r1
    r2 = r2
    NoRequest = NoRequest
    Requests <- MCRequests
    Timestamps <- ScheduleTimestamps
    MaxTime = 2
    MaxStarts = 2
INVARIANTS
    TypeOK
    FlagNeverLeaks
    FinalNotEarly
    DeltaFinalExclusive
    FinalAtMostOnce
PROPERTIES
    DeletedNeverTakenUp
    FinalGetsItsTurn
    FlagIsReleased
    EventsAreHandled
CHECK_DEADLOCK FALSE
