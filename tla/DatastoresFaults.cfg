\* Every call that can fail may fail, with --startup-error=stop.
SPECIFICATION Spec
CONSTANTS
    Sessions = {s1, s2}
    NoSession = none
    Base11 = {s1, s2}
    Leaves = {a}
    Vals = {v0, v1}
    Absent = v0
    Factory <- FactoryOf
    PersistIds = {p}
    NoPersist = none
    NoFile = none
    HasStartup = FALSE
    UseStartup = TRUE
    StopOnError = TRUE
    BackupNames = {f}
    MaxPlocks = 1
    Faults = {"sil", "rollback", "restore", "nv", "backup", "badmsg"}
SYMMETRY Symmetry
CHECK_DEADLOCK TRUE
INVARIANTS TypeOK LockOwners CcOwnerHoldsLocks
PROPERTIES LockProtects
