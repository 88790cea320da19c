SPECIFICATION FsSpec
CONSTANTS
    a = a
    b = b
    B = B
    bad = bad
    Paths <- MCPaths
    Fold <- MCFold
    BadNames = {bad}
    NClusters = 4
    CSize = 1
    Slots = 2
    MaxSize = 2
    MaxFiles = 2
    Rooms = {1, 4}
CONSTRAINT Bounds
INVARIANTS
    DiskSound
    NoClusterLost
    CacheRight
    OffsetInFile
