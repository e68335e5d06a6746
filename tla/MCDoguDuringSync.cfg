SPECIFICATION Spec
CONSTANTS
    d1 = d1
    d2 = d2
    b1 = b1
    b2 = b2
    Dogus <- OneDogu
    Blueprints <- OneBlueprint
    MaxJobs = 1
    MaxMigrations = 1
INVARIANTS
    NoDoguRunsDuringSync
CHECK_DEADLOCK FALSE
