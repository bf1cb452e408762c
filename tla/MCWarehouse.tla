---------------------------- MODULE MCWarehouse ----------------------------
(* Two orders on one stock row, and a row that does not exist yet.         *)
EXTENDS Warehouse, TLC

CONSTANTS o1, o2, s1, s2

MCSkuOf == [o \in Orders |-> s1]
MCQtyOf == (o1 :> 1) @@ (o2 :> 2)

CallSymmetry == Permutations(Calls)
=============================================================================
