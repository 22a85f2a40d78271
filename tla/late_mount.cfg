SPECIFICATION SysSpec
CONSTANTS
    Name <- MCName
    Cat <- MCCat
    NoName = "?"
    Ino = {1, 2, 3}
    MaxDepth = 2
    MaxGen = 0
    InitIno <- MCInitIno
    InitKind <- MCInitKind
    MountPath <- MountRoot
    EnvOps = {}
    KmallocFails = FALSE
    Offset = {0}
    VSNFS_FHSIZE = 8
    MaxMounts = 2
    MaxCalls = 4
    MaxRetries = 0
    MaxBreaks = 0
CHECK_DEADLOCK FALSE
INVARIANTS
    UnknownHandleRefused
