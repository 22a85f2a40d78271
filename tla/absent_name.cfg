SPECIFICATION Spec
CONSTANTS
    Name <- MCName
    Cat <- MCCat
    NoName = "?"
    Ino = {1, 2, 3}
    MaxDepth = 2
    MaxGen = 0
    InitIno <- MCInitIno
    InitKind <- MCInitKind
    MountPath <- MountX
    EnvOps = {}
    KmallocFails = FALSE
    Offset = {0}
    VSNFS_FHSIZE = 8
CHECK_DEADLOCK FALSE
INVARIANTS
    DaemonUp
