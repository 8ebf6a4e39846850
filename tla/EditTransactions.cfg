\* A transaction on a small tree, with every callback refusing at will.
SPECIFICATION Spec
CONSTANTS
    Nodes = {"c", "w", "p", "q", "y", "z"}
    Subtree <- SmallSubtree
    Rivals <- SmallRivals
    Module <- SmallModule
    Registered = {"c", "p", "y", "z"}
    Values <- SmallValues
    Absent = "absent"
    NoPend = "none"
    Refuses = {"apply", "commit", "rollback", "reverse", "invalid"}
    MaxLoose = 0
CHECK_DEADLOCK TRUE
INVARIANTS TypeOK Settled Agrees
PROPERTIES AllOrNothing
