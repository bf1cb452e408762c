------------------------------ MODULE MCCatalog ------------------------------
(* Three goods under a quota of one; the first has up to two SKUs.         *)
EXTENDS Catalog, TLC

CONSTANTS g1, g2, g3

MCGoodsOf == 1 :> g1 @@ 2 :> g1

Keep == [mode |-> Absent, alias |-> Absent, price |-> Absent, points |-> Absent]

Cash == [Keep EXCEPT !.price = 1, !.points = 1]

Body(type, channel, skus) ==
  [type |-> type, dated |-> FALSE, channel |-> channel, status |-> "DRAFT", skus |-> skus]

MCRequests ==
  { Body("PHYSICAL", "BOTH", <<>>) }

OfSkus(change, added) == [type |-> Absent, dated |-> Absent, channel |-> Absent,
                          skus |-> change, added |-> added]

(* The first SKU added, then edits of it: to and from a mode with the      *)
(* check, the one back with a second SKU, and one that gets past the check.*)
MCEdits ==
  { OfSkus(<<>>, 1 :> Cash),
    OfSkus(1 :> [Keep EXCEPT !.mode = "MIXED"], <<>>),
    OfSkus(1 :> [Keep EXCEPT !.mode = "CASH"], 2 :> Cash),
    OfSkus(1 :> [Keep EXCEPT !.alias = "CASH", !.price = Null], <<>>) }

Symmetry == Permutations(Workers) \union Permutations({g2, g3})
=============================================================================
