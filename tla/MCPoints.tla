------------------------------ MODULE MCPoints ------------------------------
(***************************************************************************)
(* One member with one point.  The files share a row; their keys are also  *)
(* used by hand, for other points; one row has no key.                     *)
(***************************************************************************)
EXTENDS Points

CONSTANTS m1, k1, k2, b1, b2

Line(amount, key) == [member |-> m1, amount |-> amount, key |-> key]

MCFile ==
  [b \in Batches |->
     IF b = b1 THEN <<Line(1, k1), Line(-2, k2)>>
     ELSE <<Line(1, k1), Line(0, NoKey)>>]

MCAmounts == {1, 0, -2}

MCOrderPoints == {0, 1}

MCBatchKey == [b \in Batches |-> b]
=============================================================================
