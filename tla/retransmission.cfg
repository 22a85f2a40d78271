SPECIFICATION SysSpec
CONSTANTS
    Name <- MCName
    Cat <- MCCat
    NoName = "?"
    Ino = {1, 2, 3}
    MaxDepth = 2
    MaxGen = 0
    InitIno <- MCInitIno
    InitKind <- MCInitKind
    MountPath <- MountRootX
    EnvOps = {"mkdir"}
    KmallocFails = FALSE
    Offset = {0}
    VSNFS_FHSIZE = 8
    MaxMounts = 2
    MaxCalls = 3
    MaxRetries = 1
    MaxBreaks = 1
CHECK_DEADLOCK FALSE
INVARIANTS
    RpcTypeOK
    HeldHandlesKnown
    HeldHandlesRight
PROPERTIES
    CallReturns
