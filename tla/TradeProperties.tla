-------------------------- MODULE TradeProperties --------------------------
(***************************************************************************)
(* What module Trade is checked for.  The first group holds however the    *)
(* handlers interleave.  The second says of an order, of a stock row or of *)
(* a member what holds as long as the handlers of that order, of the       *)
(* orders on that row, or of that member's orders and points, do not       *)
(* overlap: the code takes no row lock and compares no version when it     *)
(* writes an order or a member, so nothing else keeps them apart (the      *)
(* third group).                                                           *)
(***************************************************************************)
EXTENDS Trade

-----------------------------------------------------------------------------
(* For any interleaving.                                                   *)

(* The identity of the stock counters, total = locked + sold + available,  *)
(* survives every order of the three-phase moves, and no move changes the  *)
(* total: the guarded UPDATEs of _move_cas are atomic.                     *)
StockIdentity ==
  \A s \in Skus : Balanced(stock[s]) /\ stock[s].total = InitialStock[s]

(* The sum of n[o] for the o in S.                                         *)
Pairs(S, n) == UNION {{o} \X (1..n[o]) : o \in S}

Total(S, n) == Cardinality(Pairs(S, n))

OnRow(s) == {o \in Orders : Sku(o) = s}

(* The counters agree with the log: each order adds quantity times the     *)
(* ORDER_LOCK, ORDER_PAY, ORDER_RELEASE and REFUND_RETURN rows it has, so  *)
(* a move is never applied without its row nor logged without being        *)
(* applied, even when two handlers race or a batch meets an order again.   *)
Moved(s, rows) == Total(OnRow(s), [o \in Orders |-> Qty(o) * rows[o]])

Locks    == [o \in Orders |-> orders[o].log.lock]
Pays     == [o \in Orders |-> orders[o].log.pay]
Releases == [o \in Orders |-> orders[o].log.release + orders[o].log.close]
Returns  == [o \in Orders |-> orders[o].log.ret]

StockLedger ==
  \A s \in Skus :
    /\ stock[s].locked = Moved(s, Locks) - Moved(s, Pays) - Moved(s, Releases)
    /\ stock[s].sold = Moved(s, Pays) - Moved(s, Returns)

(* An order is charged at most once, and with the charge its stock lock is *)
(* confirmed exactly once: of two concurrent customer_order_pay calls one  *)
(* fails on uk_out_trade_no and is rolled back whole.                      *)
ChargedOnce ==
  \A o \in Orders : /\ orders[o].payments <= 1
                    /\ orders[o].log.pay = orders[o].payments

(* Nothing is prepared, shipped, handed over, completed or refunded that   *)
(* was not paid, whatever the staff, the customer and the timeout task do  *)
(* at the same time.                                                       *)
Fulfilling == {"PAID", "PENDING_SHIP", "PENDING_PICKUP", "SHIPPED",
               "COMPLETED", "REFUNDING", "REFUNDED"}

FulfilledPaid ==
  \A o \in Orders :
    /\ orders[o].status \in Fulfilling => orders[o].payments = 1
    /\ orders[o].refunds # <<>> => orders[o].payments = 1

(* Both the payment and the receipt call grant_order_points: an order      *)
(* grants the points of the amount finally paid, once.                     *)
EarnedOnce ==
  \A o \in Orders :
    /\ orders[o].earnRows <= 1
    /\ orders[o].payments = 1 => orders[o].earned = Earned(orders[o].amount)
    /\ orders[o].payments = 0 => orders[o].earned = 0

(* Once a refund is approved no verification of a code of the order can    *)
(* begin: nothing is left unused, and one still open read the order before *)
(* the approval.  Such a one does turn the code it read, refunded by now,  *)
(* into a used one (mall.py:1121 writes the status blindly).  And exactly  *)
(* the paid orders of tickets and vouchers have a code per unit.           *)
Approved(row) == \E i \in RefundNumbers(row) : row.refunds[i].status = "APPROVED"

CodesSettled ==
  /\ \A o \in Orders :
       LET row == orders[o] IN
       /\ Approved(row) => row.codes.unused = {}
       /\ CodesOf(row) = IF row.payments = 1 /\ HasCodes(o) THEN 1..Qty(o) ELSE {}
  /\ \A w \in Workers : tx[w].op = "verify" => ~Approved(tx[w].seen)

(* The inductive invariant behind StockIdentity, ChargedOnce, FulfilledPaid*)
(* and EarnedOnce.  A row keeps its facts on its own ...                   *)
RowFacts(row) ==
  /\ row.status = "NONE" => row = NoRow
  /\ row.payments <= 1
  /\ row.log.pay = row.payments
  /\ row.status \in Fulfilling => row.payments = 1
  /\ row.refunds # <<>> => row.payments = 1
  /\ \A i \in RefundNumbers(row) : row.refunds[i].before \in Fulfilling
  /\ row.earnRows = (IF row.earned > 0 THEN 1 ELSE 0)
  /\ row.earned = (IF row.payments = 1 THEN Earned(row.amount) ELSE 0)

(* ... but a handler writes from what it saw, so every open transaction    *)
(* has to relate its snapshot to the row as it is: payments only grow, the *)
(* amount changes only with them, and what the handler checked still       *)
(* implies a payment.                                                      *)
AfterPayment == {"stocking", "pickup", "ship", "receive", "refund", "approve",
                 "reject"}

SnapshotFacts(t) ==
  LET seen == t.seen  row == orders[t.order] IN
  /\ RowFacts(seen)
  /\ seen.payments <= row.payments
  /\ seen.payments = row.payments => seen.amount = row.amount
  /\ t.op = "create" <=> row.status = "NONE"
  /\ t.op = "pay" => t.arg <= t.member.balance
  /\ t.op \in AfterPayment => row.payments = 1
  /\ t.op = "receive" => seen.payments = 1
  /\ t.op = "refund" => seen.status \in Refundable
  /\ t.op \in {"approve", "reject"} => t.arg \in RefundNumbers(seen)

BatchFacts(t) ==
  \A p \in t.todo : /\ orders[p].status # "NONE"
                    /\ t.op = "ship" => orders[p].payments = 1

IndInv ==
  /\ TypeOK
  /\ StockIdentity
  /\ \A o \in Orders : RowFacts(orders[o])
  /\ \A w \in Workers :
       /\ tx[w].op = "idle" => tx[w] = Idle
       /\ tx[w].order = NoOrder => tx[w].op \in {"idle", "timeout"}
       /\ tx[w].order # NoOrder => SnapshotFacts(tx[w])
       /\ BatchFacts(tx[w])
  /\ \A v, w \in Workers :
       v # w /\ tx[v].op = "create" => tx[w].order # tx[v].order

-----------------------------------------------------------------------------
(* For handlers that do not overlap on an order, or on a member's points.  *)

Touched(w) == {tx[w].order} \union tx[w].todo

(* No two open transactions deal with order o.                             *)
Alone(o) ==
  \A v, w \in Workers : v # w => o \notin Touched(v) \intersect Touched(w)

(* No two open transactions are going to write the points of member m.     *)
WritesPoints == {"pay", "receive", "approve"}

Queued(m) ==
  \A v, w \in Workers :
    v # w /\ tx[v].op \in WritesPoints /\ tx[w].op \in WritesPoints
      => {Member(tx[v].order), Member(tx[w].order)} # {m}

AllAlone(G) == \A o \in G : Alone(o)

Isolated == AllAlone(Orders) /\ \A m \in Members : Queued(m)

IsolatedSpec == Init /\ [][Next /\ Isolated']_vars

(* The locked counter is exactly what the orders awaiting payment hold,    *)
(* and the sold counter what the paid and not refunded orders bought: no   *)
(* order gives back, or sells, the units of another one.                   *)
UnitsIn(statuses) ==
  [o \in Orders |-> IF orders[o].status \in statuses THEN Qty(o) ELSE 0]

StockOwnedAt(s) ==
  /\ stock[s].locked = Total(OnRow(s), UnitsIn({"PENDING_PAY"}))
  /\ stock[s].sold   = Total(OnRow(s), UnitsIn(Fulfilling \ {"REFUNDED"}))

StockOwned == \A s \in Skus : StockOwnedAt(s)

(* The points balance of a member is the sum of its log, and net of the    *)
(* debt it is the start balance plus what the orders not refunded earned   *)
(* minus what was spent: no grant, deduction or take-back is lost.         *)
OfMember(m) == {o \in Orders : Member(o) = m}

Kept  == [o \in Orders |-> IF orders[o].status = "REFUNDED" THEN 0 ELSE orders[o].earned]
Spent == [o \in Orders |-> orders[o].spent]

PointsAccountedAt(m) ==
  /\ members[m].balance = members[m].logged
  /\ members[m].balance - members[m].debt
       = InitialPoints + Total(OfMember(m), Kept) - Total(OfMember(m), Spent)

PointsAccounted == \A m \in Members : PointsAccountedAt(m)

(* An order is refunded once: one refund row approved, one return of its   *)
(* units, and the order says so.                                           *)
RefundedOnceAt(o) ==
  LET approved == {i \in RefundNumbers(orders[o]) :
                     orders[o].refunds[i].status = "APPROVED"}
  IN /\ Cardinality(approved) <= 1
     /\ orders[o].log.ret = Cardinality(approved)
     /\ orders[o].status = "REFUNDED" <=> approved # {}

RefundedOnce == \A o \in Orders : RefundedOnceAt(o)

(* Closed and refunded orders stay so.                                     *)
StaysTerminal(o) ==
  orders[o].status \in {"CLOSED", "REFUNDED"} => orders'[o].status = orders[o].status

TerminalStays == [][\A o \in Orders : StaysTerminal(o)]_vars

(* A code that was used, or refunded, stays so.                            *)
KeepsCodes(o) ==
  /\ orders[o].codes.used \subseteq orders'[o].codes.used
  /\ orders[o].codes.refunded \subseteq orders'[o].codes.refunded

CodesStay == [][\A o \in Orders : KeepsCodes(o)]_vars

(* The handlers implement the abstract reservation: units are taken, sold  *)
(* and given back as module Reservation says.                              *)
PhaseOf(status) ==
  CASE status = "NONE"        -> "none"
    [] status = "PENDING_PAY" -> "held"
    [] status = "CLOSED"      -> "released"
    [] status = "REFUNDED"    -> "returned"
    [] OTHER                  -> "sold"

Abstract == INSTANCE Reservation WITH
  SkuOf  <- [o \in Orders |-> Sku(o)],
  QtyOf  <- [o \in Orders |-> Qty(o)],
  Supply <- InitialStock,
  free   <- [s \in Skus |-> stock[s].available],
  phase  <- [o \in Orders |-> PhaseOf(orders[o].status)]

ImplementsReservation == Abstract!RSpec

(* Every order left unpaid past its deadline is closed in the end, or paid *)
(* before the task gets to it.  Celery beat starts the task every minute   *)
(* and an open handler runs to its end; customers and staff are not fair.  *)
Fairness ==
  /\ \A w \in Workers :
       /\ WF_vars((Commit(w) \/ Fail(w)) /\ Isolated')
       /\ WF_vars((\E o \in Orders : TimeoutNext(w, o)) /\ Isolated')
  /\ WF_vars((\E w \in Workers, o \in Orders : TimeoutScan(w, o)) /\ Isolated')

FairSpec == IsolatedSpec /\ Fairness

OverdueSettled ==
  \A o \in Orders :
    (o \in overdue /\ orders[o].status = "PENDING_PAY")
      ~> orders[o].status # "PENDING_PAY"

-----------------------------------------------------------------------------
(* What the repository says and overlapping handlers break.                *)

(* mc_p1.py: only an order awaiting payment is closed.  An order with a    *)
(* payment never becomes CLOSED.                                           *)
StaysOpen(o) == orders[o].payments = 1 => orders'[o].status # "CLOSED"

PaidNeverClosed == [][\A o \in Orders : StaysOpen(o)]_vars
=============================================================================
