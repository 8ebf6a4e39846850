------------------------- MODULE MCEditTransaction -------------------------
(* A container c with a leaf w and a choice between a leaf p and a         *)
(* container q with a leaf y, and a leaf z beside it.  q has no callback   *)
(* of its own, so c's is called for it, and the one of y is not reached    *)
(* from c; w belongs to another module, and no callback is called for it.  *)
EXTENDS EditTransaction

SmallSubtree ==
    [n \in Nodes |-> CASE n = "c" -> Nodes \ {"z"}
                       [] n = "q" -> {"q", "y"}
                       [] OTHER   -> {n}]

SmallRivals ==
    [n \in Nodes |-> CASE n = "p" -> {"q"} [] n = "q" -> {"p"} [] OTHER -> {}]

SmallModule == [n \in Nodes |-> IF n = "w" THEN "m2" ELSE "m1"]

SmallValues == [n \in Nodes |-> IF n = "z" THEN {"v1", "v2"} ELSE {"v1"}]
=============================================================================
