SPECIFICATION FairSpec
CONSTANTS
    MaxUpload = 2
    HardCap = 1
    ChunkSize = 1
    MaxPaths = 2
    MaxBody = 4
    MaxChanges = 1
    None = None
INVARIANTS
    TypeOK
    Guarded
    BodyWhole
PROPERTY RedirectsSettle
