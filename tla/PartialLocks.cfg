\* Two sessions that lock, edit and commit a container with a leaf.
SPECIFICATION Spec
CONSTANTS
    Sessions = {s1, s2}
    Nodes = {"c", "x"}
    Subtree <- SmallSubtree
    Leaves = {"x"}
    Values <- SmallValues
    Absent = "absent"
    Blocks = {b1, b2, b3}
    MaxSlots = 2
    MaxId = 3
    Nobody = nobody
SYMMETRY Symmetric
CHECK_DEADLOCK TRUE
INVARIANTS TypeOK ReportedLocked LocksTracked UnmarkedAgree
PROPERTIES LockedKept
