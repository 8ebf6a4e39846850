----------------------------- MODULE MCDatastores -----------------------------
(* Small instances of Datastores for TLC.                                    *)
EXTENDS Datastores, TLC

(* The value a node is absent with is also its factory default here.         *)
FactoryOf == [l \in Leaves |-> Absent]

Symmetry == Permutations(Sessions)
==============================================================================
