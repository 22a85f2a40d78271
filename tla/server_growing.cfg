SPECIFICATION Spec
CONSTANTS
    Name <- MCName
    Cat <- MCCat
    NoName = "?"
    Ino = {1, 2, 3, 4}
    MaxDepth = 2
    MaxGen = 0
    InitIno <- MCInitIno
    InitKind <- MCInitKind
    MountPath <- MountRootX
    EnvOps = {"create", "mkdir", "mknod", "link", "reload"}
    KmallocFails = TRUE
    Offset = {0}
    VSNFS_FHSIZE = 8
CHECK_DEADLOCK FALSE
INVARIANTS
    TypeOK
    KeysUnique
    LiveHandlesKnown
    TableSound
    HandleNamesItsFile
PROPERTIES
    KeepsPromise
