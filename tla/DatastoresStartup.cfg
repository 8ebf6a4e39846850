\* A distinct <startup>; callbacks refuse commits and fail to undo them.
SPECIFICATION Spec
CONSTANTS
    Sessions = {s1, s2}
    NoSession = none
    Base11 = {s1, s2}
    Leaves = {a}
    Vals = {v0, v1}
    Absent = v0
    Factory <- FactoryOf
    PersistIds = {p}
    NoPersist = none
    NoFile = none
    HasStartup = TRUE
    UseStartup = TRUE
    StopOnError = FALSE
    BackupNames = {}
    MaxPlocks = 1
    Faults = {"sil", "rollback"}
SYMMETRY Symmetry
CHECK_DEADLOCK TRUE
INVARIANTS CcOwnerLives
PROPERTIES ImplementsCommitService
