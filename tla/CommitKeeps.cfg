\* A container that is deleted and merged again keeps a leaf in <running>.
SPECIFICATION Spec
CONSTANTS
    Sessions = {s1, s2}
    Nodes = {"c", "x", "y"}
    Subtree <- SmallSubtree
    Leaves = {"x", "y"}
    Values <- SmallValues
    Absent = "absent"
    Blocks = {b1}
    MaxSlots = 2
    MaxId = 3
    Nobody = nobody
SYMMETRY Symmetric
CHECK_DEADLOCK TRUE
PROPERTIES CommitApplies
