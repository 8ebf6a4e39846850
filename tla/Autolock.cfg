\* A server with <running> and <candidate>, slow or silent at will.
SPECIFICATION Spec
CONSTANTS
    Used = {1, 2}
    LockTimeout = TRUE
    RequestTimeout = TRUE
    Cleanups = {TRUE, FALSE}
    MaxPending = 2
CHECK_DEADLOCK TRUE
INVARIANTS TypeOK WaitsForRequest ActiveHeld AllReleased
PROPERTIES CommandEnds
