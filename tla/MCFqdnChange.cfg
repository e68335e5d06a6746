SPECIFICATION Spec
CONSTANTS
    target = target
    source = source
    renamed = renamed
    None = None
    Values <- MCValues
INVARIANTS
    FqdnTypeOK
    BackupCoversChange
PROPERTIES
    ChangeIsAtomic
