\* No distinct <startup>: the startup file mirrors what is confirmed.
SPECIFICATION Spec
CONSTANTS
    Sessions = {s1, s2}
    NoSession = none
    Base11 = {s1, s2}
    Leaves = {a, b}
    Vals = {v0, v1}
    Absent = v0
    Factory <- FactoryOf
    PersistIds = {p}
    NoPersist = none
    NoFile = none
    HasStartup = FALSE
    UseStartup = TRUE
    StopOnError = FALSE
    BackupNames = {}
    MaxPlocks = 1
    Faults = {"badmsg"}
SYMMETRY Symmetry
CHECK_DEADLOCK TRUE
INVARIANTS CleanCandidate MarksCoverEdits NvMirrorsConfirmed
PROPERTIES ReleaseDiscards
