------------------------------- MODULE Trade -------------------------------
(***************************************************************************)
(* The trading core of the mall back end: every handler that creates,      *)
(* pays, closes, fulfils, refunds or verifies an order, with the stock     *)
(* counters, payment rows, refund rows, verification codes and member      *)
(* points it changes.                                                      *)
(*                                                                         *)
(* Handlers are synchronous functions in a thread pool (and one Celery     *)
(* task), each with a database session of its own, so they interleave.     *)
(* A handler is one transaction and is modelled by two steps:              *)
(*   ...Begin  opens the transaction: the SELECTs of the handler, all      *)
(*             answered from the snapshot MySQL takes at the first one     *)
(*             (REPEATABLE READ), and the checks the handler makes on it.  *)
(*             A handler that returns early changes nothing: no step.      *)
(*   ...Commit writes: the guarded UPDATEs of module Inventory, which see  *)
(*             the last committed row, and the flush of the ORM objects,   *)
(*             which writes the values computed from the snapshot without  *)
(*             looking at the row again.                                   *)
(* Fail and Crash roll an open transaction back.                           *)
(***************************************************************************)
EXTENDS Inventory, FiniteSets, Sequences

CONSTANTS
  Orders,         \* one element per request to place an order
  Members,        \* customers
  Keys,           \* Idempotency-Key values
  Workers,        \* threads and task processes, each with one session
  NoOrder,        \* "no order": not an element of Orders
  Request,        \* Request[o]: what the request o asks for
  InitialStock,   \* InitialStock[s]: units on sale in row s
  InitialPoints,  \* points each member starts with
  EarnRate,       \* POINTS_EARN_RATE: points granted per yuan paid
  ReduceRatio,    \* POINTS_REDUCE_RATIO: points that buy one yuan
  Deducts,        \* the values of pointsDeduct that customers send
  MaxRefunds,     \* bound on the refund rows of one order
  Ops             \* the handlers that run in this instance

GoodsTypes == {"PHYSICAL", "VIRTUAL", "TICKET"}
Deliveries == {"EXPRESS", "PICKUP"}

(* cash is the amount to pay and points the points asked for (0 outside    *)
(* the points mall), both for the whole quantity.  Money is counted in the *)
(* value of one point, 1/ReduceRatio yuan: a cent at the default ratio.    *)
RequestType == [sku: Skus, qty: Nat \ {0}, member: Members, key: Keys,
                goods: GoodsTypes, delivery: Deliveries,
                cash: Nat, points: Nat]

ASSUME RequestAssumption  == Request \in [Orders -> RequestType]
ASSUME StockAssumption    == InitialStock \in [Skus -> Nat]
ASSUME PointsAssumption   == /\ InitialPoints \in Nat
                             /\ EarnRate \in Nat
                             /\ ReduceRatio \in Nat \ {0}
                             /\ Deducts \subseteq Nat
ASSUME NoOrderAssumption  == NoOrder \notin Orders
ASSUME BoundAssumption    == MaxRefunds \in Nat

VARIABLES
  orders,     \* orders[o]: the rows of all tables that belong to order o
  members,    \* members[m]: the row of mb_member and the sum of its log
  overdue,    \* the orders whose pay_deadline has passed
  tx          \* tx[w]: the transaction worker w has open

vars == <<stock, orders, members, overdue, tx>>

-----------------------------------------------------------------------------
(* Types.  PENDING_PAYMENT, PENDING_STOCK, STOCKED and PENDING_RECEIVE are *)
(* tested for by the code but never written by it.                         *)

Statuses == {"NONE", "PENDING_PAY", "PAID", "PENDING_SHIP", "PENDING_PICKUP",
             "SHIPPED", "COMPLETED", "CLOSED", "REFUNDING", "REFUNDED"}

(* Rows of gd_stock_log that name the order, counted by change_type; close *)
(* counts the ORDER_RELEASE rows whose ref_id is the order's id instead of *)
(* its order_no.                                                           *)
StockLog == [{"lock", "pay", "release", "close", "ret"} -> Nat]
NoLog == [move \in {"lock", "pay", "release", "close", "ret"} |-> 0]

RefundRow == [status: {"PENDING_AUDIT", "APPROVED", "REJECTED"},
              before: Statuses]

(* The verification codes of an order, numbered 1..quantity, by status.    *)
CodeRows == [unused: SUBSET Nat, used: SUBSET Nat, refunded: SUBSET Nat]

OrderRow ==
  [status: Statuses,
   amount: Nat,           \* pay_amount
   points: Nat,           \* pay_points
   log: StockLog,         \* gd_stock_log
   payments: Nat,         \* rows of od_payment
   earnRows: Nat,         \* ORDER_EARN rows of mb_points_log
   earned: Nat,           \* their sum
   spent: Nat,            \* sum of the SPEND rows
   refunds: Seq(RefundRow),
   codes: CodeRows]

(* logged is the sum of the amounts in mb_points_log for the member.       *)
MemberRow == [balance: Nat, totalEarn: Nat, totalUsed: Nat, debt: Nat,
              logged: Int]

NoRow == [status |-> "NONE", amount |-> 0, points |-> 0,
          log |-> NoLog, payments |-> 0, earnRows |-> 0, earned |-> 0, spent |-> 0,
          refunds |-> <<>>,
          codes |-> [unused |-> {}, used |-> {}, refunded |-> {}]]

NewMember == [balance |-> InitialPoints, totalEarn |-> InitialPoints,
              totalUsed |-> 0, debt |-> 0, logged |-> InitialPoints]

OpNames == {"idle", "create", "pay", "cancel", "close", "timeout", "stocking",
            "pickup", "ship", "receive", "refund", "approve", "reject",
            "verify"}

(* order and seen: the order being handled and its rows in the snapshot;   *)
(* member: the member row in the snapshot; todo: the other orders of a     *)
(* batch; arg: points to deduct, refund number or code number.             *)
Transaction == [op: OpNames, order: Orders \union {NoOrder}, seen: OrderRow,
                member: MemberRow, todo: SUBSET Orders, arg: Nat]

Idle == [op |-> "idle", order |-> NoOrder, seen |-> NoRow,
         member |-> NewMember, todo |-> {}, arg |-> 0]

TypeOK ==
  /\ stock \in [Skus -> StockRow]
  /\ orders \in [Orders -> OrderRow]
  /\ members \in [Members -> MemberRow]
  /\ overdue \subseteq Orders
  /\ tx \in [Workers -> Transaction]

-----------------------------------------------------------------------------
(* Helpers.                                                                *)

Sku(o)    == Request[o].sku
Qty(o)    == Request[o].qty
Member(o) == Request[o].member

HasCodes(o) == Request[o].goods \in {"TICKET", "VIRTUAL"}
CodesOf(row) == row.codes.unused \union row.codes.used \union row.codes.refunded

Least(a, b) == IF a <= b THEN a ELSE b

(* The ORM flushes an attribute only if its value changed since the load:  *)
(* column value `cur' after a flush of `new', loaded as `old'.             *)
Put(cur, old, new) == IF new = old THEN cur ELSE new

(* Points granted for an amount paid, rounded down.                        *)
Earned(amount) == (amount * EarnRate) \div ReduceRatio

(* Open a transaction on order o.                                          *)
Open(w, op, o, todo, arg) ==
  /\ op \in Ops
  /\ tx[w] = Idle
  /\ tx' = [tx EXCEPT ![w] = [op |-> op, order |-> o, seen |-> orders[o],
                              member |-> members[Member(o)],
                              todo |-> todo, arg |-> arg]]
  /\ UNCHANGED <<stock, orders, members, overdue>>

Done(w) == tx' = [tx EXCEPT ![w] = Idle]

Write(o, row) == orders' = [orders EXCEPT ![o] = row]

(* The log after a move, which appends a row unless it was skipped.        *)
Logged(log, move, done) == [log EXCEPT ![move] = @ + LogRows(done)]

(* The points a transaction takes from and gives to a member: log rows are *)
(* appended, the counters are written from the snapshot m.                 *)
MovePoints(o, m, used, earned) ==
  LET row == members[Member(o)] IN
  members' = [members EXCEPT ![Member(o)] =
    [balance   |-> Put(row.balance, m.balance, m.balance - used + earned),
     totalEarn |-> Put(row.totalEarn, m.totalEarn, m.totalEarn + earned),
     totalUsed |-> Put(row.totalUsed, m.totalUsed, m.totalUsed + used),
     debt      |-> row.debt,
     logged    |-> row.logged - used + earned]]

(* A variant that pays on every call.                                      *)
GrantAgain(row, amount) == Earned(amount)

(* What grant_order_points grants: nothing if the snapshot has an          *)
(* ORDER_EARN row of the order.                                            *)
Grant(row, amount) == IF row.earnRows > 0 THEN 0 ELSE Earned(amount)

-----------------------------------------------------------------------------
(* Placing an order: create_order, points_order_create.                    *)

SameKey(o, p) == p # o /\ Request[p].key = Request[o].key
                       /\ Member(p) = Member(o)

(* No order of the member has the key yet.  A hit returns the old order.   *)
KeyFree(o) == \A p \in Orders : SameKey(o, p) => orders[p].status = "NONE"

CreateBegin(w, o) ==
  /\ orders[o].status = "NONE"
  /\ \A v \in Workers : tx[v].order # o              \* a request runs once
  /\ KeyFree(o)
  /\ stock[Sku(o)].available >= Qty(o)
  /\ members[Member(o)].balance >= Request[o].points
  /\ Open(w, "create", o, {}, 0)

CreateCommit(w) ==
  LET o == tx[w].order IN
  /\ tx[w].op = "create"
  /\ LockStock(Sku(o), Qty(o))
  /\ Write(o, [NoRow EXCEPT !.status = "PENDING_PAY",
                            !.amount = Request[o].cash,
                            !.points = Request[o].points,
                            !.log    = Logged(NoLog, "lock", FALSE)])
  /\ Done(w)
  /\ UNCHANGED <<members, overdue>>

-----------------------------------------------------------------------------
(* Paying: customer_order_pay, which calls confirm_lock,                   *)
(* grant_order_points and _gen_verify_codes.  It does not look at          *)
(* pay_deadline.                                                           *)

(* A variant without the unique key.                                       *)
ChargedAgain(o) == TRUE

(* uk_out_trade_no: one payment row per order_no.                          *)
Uncharged(o) == orders[o].payments = 0

PayBegin(w, o, want) ==
  /\ orders[o].status = "PENDING_PAY"
  /\ want <= members[Member(o)].balance
  /\ Open(w, "pay", o, {}, want)

PayCommit(w) ==
  LET o      == tx[w].order
      seen   == tx[w].seen
      row    == orders[o]
      done   == seen.log.pay > 0
      used   == Least(tx[w].arg, seen.amount)
      earned == Grant(seen, seen.amount - used)
      gen    == HasCodes(o) /\ CodesOf(seen) = {}
  IN
  /\ tx[w].op = "pay"
  /\ Uncharged(o)
  /\ ConfirmLock(done, Sku(o), Qty(o))
  /\ MovePoints(o, tx[w].member, used, earned)
  /\ Write(o, [row EXCEPT
       !.status   = "PAID",
       !.amount   = Put(row.amount, seen.amount, seen.amount - used),
       !.points   = IF used > 0 THEN Put(row.points, seen.points, used)
                                ELSE row.points,
       !.spent    = row.spent + used,
       !.earned   = row.earned + earned,
       !.earnRows = row.earnRows + (IF earned > 0 THEN 1 ELSE 0),
       !.payments = row.payments + 1,
       !.log      = Logged(row.log, "pay", done),
       !.codes    = IF gen THEN [row.codes EXCEPT !.unused = 1..Qty(o)]
                           ELSE row.codes])
  /\ Done(w)
  /\ UNCHANGED overdue

-----------------------------------------------------------------------------
(* Closing an unpaid order: customer_order_cancel, order_close and the     *)
(* timeout task.  order_close logs the release under the order's id, the   *)
(* other two under its order_no.                                           *)

(* A variant that lets a paid order be closed.                             *)
ClosablePaid(row) == row.status \in {"PENDING_PAY", "PAID"}

Closable(row) == row.status = "PENDING_PAY"

CancelBegin(w, o) ==
  /\ Closable(orders[o])
  /\ Open(w, "cancel", o, {}, 0)

CancelCommit(w) ==
  LET o == tx[w].order  done == tx[w].seen.log.release > 0 IN
  /\ tx[w].op = "cancel"
  /\ ReleaseLock(done, Sku(o), Qty(o))
  /\ Write(o, [orders[o] EXCEPT !.status = "CLOSED",
                                !.log = Logged(orders[o].log, "release", done)])
  /\ Done(w)
  /\ UNCHANGED <<members, overdue>>

CloseBegin(w, o) ==
  /\ Closable(orders[o])
  /\ Open(w, "close", o, {}, 0)

CloseCommit(w) ==
  LET o == tx[w].order  done == tx[w].seen.log.close > 0 IN
  /\ tx[w].op = "close"
  /\ ReleaseLock(done, Sku(o), Qty(o))
  /\ Write(o, [orders[o] EXCEPT !.status = "CLOSED",
                                !.log = Logged(orders[o].log, "close", done)])
  /\ Done(w)
  /\ UNCHANGED <<members, overdue>>

(* pay_deadline passes.                                                    *)
Expire(o) ==
  /\ orders[o].status = "PENDING_PAY"
  /\ overdue' = overdue \union {o}
  /\ UNCHANGED <<stock, orders, members, tx>>

(* A variant that looks for the wrong status.                              *)
PendingPayment(row) == row.status = "PENDING_PAYMENT"

(* What the scan selects besides the deadline.                             *)
Pending(row) == row.status = "PENDING_PAY"

(* close_expired_orders scans all overdue orders and handles the first of  *)
(* them in the same transaction; the query states no order.                *)
TimeoutScan(w, o) ==
  LET due == {p \in overdue : Pending(orders[p])} IN
  /\ o \in due
  /\ Open(w, "timeout", o, due \ {o}, 0)

(* It commits order by order.                                              *)
TimeoutCommit(w) ==
  LET o == tx[w].order  done == tx[w].seen.log.release > 0 IN
  /\ tx[w].op = "timeout"
  /\ o # NoOrder
  /\ ReleaseLock(done, Sku(o), Qty(o))
  /\ Write(o, [orders[o] EXCEPT !.status = "CLOSED",
                                !.log = Logged(orders[o].log, "release", done)])
  /\ IF tx[w].todo = {}
     THEN Done(w)
     ELSE tx' = [tx EXCEPT ![w] = [Idle EXCEPT !.op = "timeout",
                                               !.todo = tx[w].todo]]
  /\ UNCHANGED <<members, overdue>>

(* The next order of the batch opens a new transaction, so the log is read *)
(* afresh.  The order is not: the session is made with                     *)
(* expire_on_commit=False and `rows' keeps the scanned objects alive, so   *)
(* s.get returns the object loaded by the scan, still PENDING_PAY, and the *)
(* re-check that follows passes whatever the row says now.                 *)
TimeoutNext(w, o) ==
  /\ tx[w].op = "timeout"
  /\ tx[w].order = NoOrder
  /\ o \in tx[w].todo
  /\ tx' = [tx EXCEPT ![w] =
       [Idle EXCEPT !.op    = "timeout",
                    !.order = o,
                    !.seen  = [orders[o] EXCEPT !.status = "PENDING_PAY"],
                    !.todo  = tx[w].todo \ {o}]]
  /\ UNCHANGED <<stock, orders, members, overdue>>

-----------------------------------------------------------------------------
(* Fulfilment: order_stocking, pickup_confirm, ship_order, batch_ship,     *)
(* customer_confirm_receive.                                               *)

StockingBegin(w, o) ==
  /\ orders[o].status = "PAID"
  /\ Open(w, "stocking", o, {}, 0)

StockingCommit(w) ==
  LET o == tx[w].order IN
  /\ tx[w].op = "stocking"
  /\ Write(o, [orders[o] EXCEPT !.status =
       IF Request[o].delivery = "PICKUP" THEN "PENDING_PICKUP"
                                         ELSE "PENDING_SHIP"])
  /\ Done(w)
  /\ UNCHANGED <<stock, members, overdue>>

PickupBegin(w, o) ==
  /\ Request[o].delivery = "PICKUP"
  /\ orders[o].status = "PENDING_PICKUP"
  /\ Open(w, "pickup", o, {}, 0)

PickupCommit(w) ==
  LET o == tx[w].order IN
  /\ tx[w].op = "pickup"
  /\ Write(o, [orders[o] EXCEPT !.status = "COMPLETED"])
  /\ Done(w)
  /\ UNCHANGED <<stock, members, overdue>>

(* A variant that ships before the payment.                                *)
ShippableUnpaid(row) == row.status \in {"PENDING_PAY", "PAID", "PENDING_SHIP"}

Shippable(row) == row.status \in {"PAID", "PENDING_SHIP"}

(* One order, or the shippable ones of a batch, in one transaction.        *)
ShipBegin(w, o, batch) ==
  /\ Shippable(orders[o])
  /\ Open(w, "ship", o, {p \in batch \ {o} : Shippable(orders[p])}, 0)

ShipCommit(w) ==
  /\ tx[w].op = "ship"
  /\ orders' = [p \in Orders |->
                  IF p = tx[w].order \/ p \in tx[w].todo
                  THEN [orders[p] EXCEPT !.status = "SHIPPED"]
                  ELSE orders[p]]
  /\ Done(w)
  /\ UNCHANGED <<stock, members, overdue>>

ReceiveBegin(w, o) ==
  /\ orders[o].status = "SHIPPED"
  /\ Open(w, "receive", o, {}, 0)

ReceiveCommit(w) ==
  LET o      == tx[w].order
      seen   == tx[w].seen
      row    == orders[o]
      earned == Grant(seen, seen.amount)
  IN
  /\ tx[w].op = "receive"
  /\ MovePoints(o, tx[w].member, 0, earned)
  /\ Write(o, [row EXCEPT !.status   = "COMPLETED",
                          !.earned   = row.earned + earned,
                          !.earnRows = row.earnRows + (IF earned > 0 THEN 1 ELSE 0)])
  /\ Done(w)
  /\ UNCHANGED <<stock, overdue>>

-----------------------------------------------------------------------------
(* Refunds: customer_refund_request and refund_audit.                      *)

(* A variant that refunds a closed order.                                  *)
RefundableClosed == {"PAID", "SHIPPED", "REFUNDING", "CLOSED"}

Refundable == {"PAID", "SHIPPED", "REFUNDING"}

RefundNumbers(row) == 1..Len(row.refunds)

(* A variant without the check for duplicates.                             *)
AnyRefunds(row) == TRUE

(* No refund of the order is pending or approved.                          *)
NoLiveRefund(row) ==
  \A i \in RefundNumbers(row) : row.refunds[i].status = "REJECTED"

RefundBegin(w, o) ==
  /\ orders[o].status \in Refundable
  /\ Request[o].goods # "VIRTUAL"
  /\ NoLiveRefund(orders[o])
  /\ Open(w, "refund", o, {}, 0)

RefundCommit(w) ==
  LET o == tx[w].order  seen == tx[w].seen  row == orders[o] IN
  /\ tx[w].op = "refund"
  /\ Len(row.refunds) < MaxRefunds
  /\ Write(o, [row EXCEPT
       !.status  = Put(row.status, seen.status, "REFUNDING"),
       !.refunds = Append(row.refunds, [status |-> "PENDING_AUDIT",
                                        before |-> seen.status])])
  /\ Done(w)
  /\ UNCHANGED <<stock, members, overdue>>

AuditBegin(w, op, o, i) ==
  /\ orders[o].refunds[i].status = "PENDING_AUDIT"
  /\ Open(w, op, o, {}, i)

(* Variants that forget the codes, or void the used ones too.              *)
KeepCodes(codes) == codes

VoidUsedCodes(codes) ==
  [unused |-> {}, used |-> {},
   refunded |-> codes.refunded \union codes.unused \union codes.used]

(* The UPDATE of the codes has status='UNUSED' in its WHERE clause.        *)
VoidCodes(codes) ==
  [unused |-> {}, used |-> codes.used,
   refunded |-> codes.refunded \union codes.unused]

(* The points the order earned are taken back as far as the balance        *)
(* reaches, the rest becomes a debt.                                       *)
TakenBack(m, earned) == Least(m.balance, earned)

(* A variant that forgets the debt.                                        *)
Forgiven(m, earned) == 0

NewDebt(m, earned) == earned - TakenBack(m, earned)

TakeBack(o, m, earned) ==
  LET row == members[Member(o)]  taken == TakenBack(m, earned) IN
  members' = [members EXCEPT ![Member(o)] =
    [balance   |-> Put(row.balance, m.balance, m.balance - taken),
     totalEarn |-> row.totalEarn,
     totalUsed |-> row.totalUsed,
     debt      |-> Put(row.debt, m.debt, m.debt + NewDebt(m, earned)),
     logged    |-> row.logged - taken]]

Audited(refunds, i, verdict) ==
  [refunds EXCEPT ![i] = [status |-> verdict, before |-> @.before]]

ApproveCommit(w) ==
  LET o     == tx[w].order
      seen  == tx[w].seen
      row   == orders[o]
      done  == seen.log.ret > 0
  IN
  /\ tx[w].op = "approve"
  /\ RefundReturn(done, Sku(o), Qty(o))
  /\ TakeBack(o, tx[w].member, seen.earned)
  /\ Write(o, [row EXCEPT
       !.status  = Put(row.status, seen.status, "REFUNDED"),
       !.refunds = Audited(row.refunds, tx[w].arg, "APPROVED"),
       !.log     = Logged(row.log, "ret", done),
       !.codes   = VoidCodes(row.codes)])
  /\ Done(w)
  /\ UNCHANGED overdue

RejectCommit(w) ==
  LET o == tx[w].order  seen == tx[w].seen  row == orders[o]  i == tx[w].arg IN
  /\ tx[w].op = "reject"
  /\ Write(o, [row EXCEPT
       !.status  = IF seen.status = "REFUNDING"
                   THEN Put(row.status, seen.status, seen.refunds[i].before)
                   ELSE row.status,
       !.refunds = Audited(row.refunds, i, "REJECTED")])
  /\ Done(w)
  /\ UNCHANGED <<stock, members, overdue>>

-----------------------------------------------------------------------------
(* Verification of one code in a shop: verify.                             *)

VerifyBegin(w, o, i) ==
  /\ i \in orders[o].codes.unused
  /\ Open(w, "verify", o, {}, i)

VerifyCommit(w) ==
  LET o == tx[w].order  codes == orders[o].codes  i == tx[w].arg IN
  /\ tx[w].op = "verify"
  /\ Write(o, [orders[o] EXCEPT !.codes =
       [unused   |-> codes.unused \ {i},
        used     |-> codes.used \union {i},
        refunded |-> codes.refunded \ {i}]])
  /\ Done(w)
  /\ UNCHANGED <<stock, members, overdue>>

-----------------------------------------------------------------------------
(* Rolled back transactions.                                               *)

(* The commit of w's transaction cannot succeed: a guarded UPDATE matches  *)
(* no row, or a unique key is violated.                                    *)
Blocked(w) ==
  LET o   == tx[w].order
      op  == tx[w].op
      log == tx[w].seen.log
  IN
  \/ op = "create" /\ stock[Sku(o)].available < Qty(o)
  \/ op = "pay" /\ ~Uncharged(o)
  \/ op = "pay" /\ log.pay = 0 /\ stock[Sku(o)].locked < Qty(o)
  \/ op \in {"cancel", "timeout"} /\ o # NoOrder
       /\ log.release = 0 /\ stock[Sku(o)].locked < Qty(o)
  \/ op = "close" /\ log.close = 0 /\ stock[Sku(o)].locked < Qty(o)
  \/ op = "approve" /\ log.ret = 0 /\ stock[Sku(o)].sold < Qty(o)
  \/ op = "refund" /\ Len(orders[o].refunds) >= MaxRefunds   \* the bound

(* The error is raised: everything is rolled back.  In the timeout task it *)
(* leaves the loop, so the rest of the batch is not handled.               *)
Fail(w) ==
  /\ Blocked(w)
  /\ Done(w)
  /\ UNCHANGED <<stock, orders, members, overdue>>

(* The connection or the process is lost.                                  *)
Crash(w) ==
  /\ "crash" \in Ops
  /\ tx[w] # Idle
  /\ Done(w)
  /\ UNCHANGED <<stock, orders, members, overdue>>

-----------------------------------------------------------------------------
Init ==
  /\ stock = [s \in Skus |-> FreshRow(InitialStock[s])]
  /\ orders = [o \in Orders |-> NoRow]
  /\ members = [m \in Members |-> NewMember]
  /\ overdue = {}
  /\ tx = [w \in Workers |-> Idle]

Begin(w, o) ==
  \/ CreateBegin(w, o)
  \/ \E want \in Deducts : PayBegin(w, o, want)
  \/ CancelBegin(w, o)
  \/ CloseBegin(w, o)
  \/ TimeoutScan(w, o)
  \/ StockingBegin(w, o)
  \/ PickupBegin(w, o)
  \/ \E batch \in SUBSET Orders : ShipBegin(w, o, batch)
  \/ ReceiveBegin(w, o)
  \/ RefundBegin(w, o)
  \/ \E i \in RefundNumbers(orders[o]), op \in {"approve", "reject"} :
       AuditBegin(w, op, o, i)
  \/ \E i \in orders[o].codes.unused : VerifyBegin(w, o, i)

Commit(w) ==
  \/ CreateCommit(w) \/ PayCommit(w) \/ CancelCommit(w) \/ CloseCommit(w)
  \/ TimeoutCommit(w) \/ StockingCommit(w) \/ PickupCommit(w) \/ ShipCommit(w)
  \/ ReceiveCommit(w) \/ RefundCommit(w) \/ ApproveCommit(w) \/ RejectCommit(w)
  \/ VerifyCommit(w)

Next ==
  \/ \E o \in Orders : Expire(o)
  \/ \E w \in Workers : Commit(w) \/ Fail(w) \/ Crash(w)
  \/ \E w \in Workers, o \in Orders : Begin(w, o) \/ TimeoutNext(w, o)

Spec == Init /\ [][Next]_vars
=============================================================================
