SPECIFICATION Spec
CONSTANTS
    Host = {"little", "big"}
    PathErrno <- MCErrno
    VfsErrno <- MCErrno
INVARIANTS
    TypeOK
    ErrorStaysError
    NoOtherErrno
    SameFromAnyHost
