SPECIFICATION Spec
CONSTANTS
    Name <- MCName
    Cat <- MCCat
    NoName = "?"
    Ino = {1, 2}
    MaxDepth = 2
    MaxGen = 2
    InitIno <- MCInitIno
    InitKind <- MCInitKind
    MountPath <- MountLater
    EnvOps = {"create", "mkdir", "mknod", "link", "remove", "rename", "reload"}
    KmallocFails = TRUE
    Offset = {0}
    VSNFS_FHSIZE = 8
CHECK_DEADLOCK FALSE
INVARIANTS
    KeysUnique
    LiveHandlesKnown
