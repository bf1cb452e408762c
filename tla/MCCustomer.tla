----------------------------- MODULE MCCustomer -----------------------------
(* A small instance of module Customer.                                    *)
EXTENDS Customer, TLC

Symmetry == Permutations(Workers) \union Permutations(Ids)
=============================================================================
