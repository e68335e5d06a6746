\* Nothing happens after the last job: the bound MaxJobs.
SPECIFICATION Spec
CHECK_DEADLOCK FALSE
CONSTANTS
    ldap = ldap
    cas = cas
    nginx = nginx
    daily = daily
    target = target
    source = source
    NoConfig = NoConfig
    Dogus <- MCDogus
    Cas <- cas
    SyncExcluded <- MCExcluded
    Dirs <- MCDirs
    Volumes <- MCVolumes
    ConfigDogus <- MCConfigDogus
    Nginx <- nginx
    Keys <- MCKeys
    KeyValues <- MCValues
    KeptKeys <- MCKeptKeys
    ExcludedKeys <- MCExcludedKeys
    Schedules <- MCSchedules
    SourceConfigs <- MCSourceConfigs
    TargetConfigs <- MCTargetConfigs
    FqdnKey = "fqdn"
    MaxJobs = 2
INVARIANTS
    ImportTypeOK
    OkMeansImported
    KeptKeysKept
    ConfigsAreWhole
    ExcludedKeysStay
PROPERTIES
    FqdnFollowsImport
