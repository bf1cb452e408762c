------------------------------ MODULE MCAccess ------------------------------
(* An account of either scope, one tenant, and one token at a time.        *)
EXTENDS Access, TLC

CONSTANTS p1, s1, t1, w1, w2

MCTenantOf == s1 :> t1

MCRosters == {{p1}, {s1}}

Symmetry == Permutations(Workers)
=============================================================================
