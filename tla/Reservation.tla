---------------------------- MODULE Reservation ----------------------------
(***************************************************************************)
(* What the three-phase stock lock promises: an order takes its units out  *)
(* of the units on sale when it is placed, all of them or none, keeps them *)
(* when it is paid, and gives them back once, when it is closed unpaid or  *)
(* when its refund is approved.  There are no counters here, no log and no *)
(* transactions: `free' and the phase of each order say everything.        *)
(***************************************************************************)
EXTENDS Naturals

CONSTANTS Orders, Skus,
          SkuOf,        \* SkuOf[o]: the stock row order o is placed on
          QtyOf,        \* QtyOf[o]: the units it takes
          Supply        \* Supply[s]: units on sale at the start

VARIABLES free,         \* free[s]: units on sale
          phase         \* phase[o]: where the units of order o are

Phases == {"none", "held", "sold", "released", "returned"}

RInit ==
  /\ free = Supply
  /\ phase = [o \in Orders |-> "none"]

Take(o) ==
  /\ phase[o] = "none"
  /\ free[SkuOf[o]] >= QtyOf[o]
  /\ phase' = [phase EXCEPT ![o] = "held"]
  /\ free' = [free EXCEPT ![SkuOf[o]] = @ - QtyOf[o]]

Sell(o) ==
  /\ phase[o] = "held"
  /\ phase' = [phase EXCEPT ![o] = "sold"]
  /\ UNCHANGED free

GiveBack(o, from, to) ==
  /\ phase[o] = from
  /\ phase' = [phase EXCEPT ![o] = to]
  /\ free' = [free EXCEPT ![SkuOf[o]] = @ + QtyOf[o]]

RNext ==
  \E o \in Orders :
    \/ Take(o)
    \/ Sell(o)
    \/ GiveBack(o, "held", "released")
    \/ GiveBack(o, "sold", "returned")

RSpec == RInit /\ [][RNext]_<<free, phase>>
=============================================================================
