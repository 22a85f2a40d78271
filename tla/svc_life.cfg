SPECIFICATION FairSpec
CONSTANTS
    Thread = {t1}
    Insmod = insmod
    StartFails = TRUE
    UnshareFails = TRUE
    Calls = {"null", "getroot", "lookup", "readdir", "read"}
    MaxLoads = 3
CHECK_DEADLOCK FALSE
INVARIANTS
    TypeOK
    CountIsUsers
    NothingLeft
    ModuleHeld
PROPERTIES
    KilledThreadsEnd
