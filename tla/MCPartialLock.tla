--------------------------- MODULE MCPartialLock ---------------------------
(* A container c with leaves in it; the leaf x has two values.             *)
EXTENDS PartialLock, TLC

SmallSubtree ==
    [n \in Nodes |-> IF n = "c" THEN Nodes ELSE {n}]

SmallValues == [n \in Nodes |-> IF n = "x" THEN {"v1", "v2"} ELSE {"v1"}]

Symmetric == Permutations(Sessions) \cup Permutations(Blocks)
=============================================================================
