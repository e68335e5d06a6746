\* Nothing happens after the last migration: the bound MaxMigrations.
SPECIFICATION FairSpec
CHECK_DEADLOCK FALSE
CONSTANTS
    cas = cas
    ldap = ldap
    nginx = nginx
    postfix = postfix
    official = official
    itz = itz
    v1 = v1
    v2 = v2
    operator = operator
    Absent = Absent
    Names <- MCNames
    Nginx <- nginx
    Official <- official
    Installed <- MCInstalled
    Components <- MCComponents
    Versions <- MCVersions
    ExcludedDogus = {}
    WithBackup <- MCBackup
    MaxSize = 2
    MaxRetries = 1
    PipeSize = 1
    MaxLines = 2
    Landscapes <- MCLandscapes
    MaxMigrations = 2
INVARIANTS
    VolumeTypeOK
    NoSendOnClosed
    VolumesHaveRoom
    ValidatedIsFound
    CopiedIsInstalled
    OutputIsLogged
PROPERTIES
    ResizeComesToEnd
    SyncReturns
