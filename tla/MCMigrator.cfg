SPECIFICATION FairSpec
CONSTANTS
    d1 = d1
    d2 = d2
    b1 = b1
    b2 = b2
    Dogus <- TwoDogus
    Blueprints <- OneBlueprint
    MaxJobs = 1
    MaxMigrations = 1
INVARIANTS
    MigratorTypeOK
    SyncIsolated
    ReturnTellsFailure
    CleanupIsComplete
PROPERTIES
    MigrationsEnd
    DogusComeBack
CHECK_DEADLOCK FALSE
