SPECIFICATION Spec
CONSTANTS
    Process = {p1, p2}
    Name = {"a", "b", "long"}
    LongName = {"long"}
    Ino = {1, 2, 3}
    RootIno = 1
    InitType <- MCType
    Reusable = {3}
    KmallocFails = TRUE
    Device <- MCDevice
    Options <- MCOptions
    VSNFS_PORT = 6789
    VSNFS_MAXNAMLEN = 255
    VSNFS_MAXPATHLEN = 1024
    RmmodMounted = FALSE
INVARIANTS
    TypeOK
    RefsBalanced
    HandlesAlive
    LookupDirStays
    
    DirsUnaliased
PROPERTIES
    InodeStable
