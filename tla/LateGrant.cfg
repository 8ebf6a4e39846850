\* A lock that is granted after the client has given up.
SPECIFICATION Spec
CONSTANTS
    Used = {1, 2}
    LockTimeout = TRUE
    RequestTimeout = TRUE
    Cleanups = {TRUE}
    MaxPending = 2
CHECK_DEADLOCK TRUE
INVARIANTS AllOrNothing
