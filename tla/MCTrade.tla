------------------------------ MODULE MCTrade ------------------------------
(***************************************************************************)
(* Small instances of module Trade.                                        *)
(***************************************************************************)
EXTENDS TradeProperties, TLC

CONSTANTS o1, o2, o3,     \* orders
          s1,             \* a stock row
          m1, m2,         \* members
          k1, k2, k3      \* idempotency keys

MCStock == [s \in Skus |-> 3]

Asks(qty, member, key, goods, delivery, cash, points) ==
  [sku |-> s1, qty |-> qty, member |-> member, key |-> key, goods |-> goods,
   delivery |-> delivery, cash |-> cash, points |-> points]

(* The requests of an instance: those of its orders.                       *)
Among(requests) == [o \in Orders |-> requests[o]]

(* Three orders that fill the stock row and compete for its lock.          *)
LockRequest == Among(
  (o1 :> Asks(1, m1, k1, "PHYSICAL", "EXPRESS", 2, 0)) @@
  (o2 :> Asks(1, m1, k2, "PHYSICAL", "EXPRESS", 1, 0)) @@
  (o3 :> Asks(2, m2, k3, "PHYSICAL", "PICKUP",  0, 0)))

(* Two tickets to collect; two pieces to send and one ticket, of a member  *)
(* who starts with one point.                                              *)
MixedRequest == Among(
  (o1 :> Asks(2, m1, k1, "TICKET",   "PICKUP",  2, 0)) @@
  (o2 :> Asks(2, m1, k2, "PHYSICAL", "EXPRESS", 1, 1)) @@
  (o3 :> Asks(1, m1, k3, "TICKET",   "PICKUP",  2, 0)))

WorkerSymmetry == Permutations(Workers)
=============================================================================
