SPECIFICATION Spec
CONSTANTS
    Thread = {t1}
    Insmod = insmod
    StartFails = TRUE
    UnshareFails = FALSE
    Calls = {"null", "getroot", "lookup", "readdir", "read"}
    MaxLoads = 1
CHECK_DEADLOCK FALSE
INVARIANTS
    LoadReturns
