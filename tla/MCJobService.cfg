SPECIFICATION FairSpec
CONSTANTS
    MaxJobs = 2
    MaxAttempts = 2
INVARIANTS
    JobServiceTypeOK
    ReturnLeavesNoJob
    EndIsToCome
PROPERTIES
    RunKeepsPromise
    RunEnds
CHECK_DEADLOCK FALSE
