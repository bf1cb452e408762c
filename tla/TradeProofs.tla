---------------------------- MODULE TradeProofs ----------------------------
(***************************************************************************)
(* Proofs about module Trade for every number of orders, members and       *)
(* workers. For every interleaving of the handlers: its type invariant and *)
(* the safety properties that need no isolation (IndInv), the stock ledger *)
(* (LedgerInv) and the verification codes (CodesInv). For requests that do *)
(* not overlap on a key: one order per key (KeyInv). For an order, a stock *)
(* row or a member whose handlers do not overlap, whatever the others do:  *)
(* the refinement of Reservation and what settled orders keep (ApartInv),  *)
(* whose units the counters count (OwnedInv) and the points of the members *)
(* (AccountInv).                                                           *)
(***************************************************************************)
EXTENDS TradeProperties, SequenceTheorems, FiniteSetTheorems, TLAPS

-----------------------------------------------------------------------------
(* Values.                                                                 *)

(* The points granted for an amount are a natural number.                  *)
LEMMA EarnedNat == ASSUME NEW amount \in Nat PROVE Earned(amount) \in Nat
<1>1. amount * EarnRate \in Nat
  BY PointsAssumption
<1>2. ASSUME NEW n \in Nat PROVE n \div ReduceRatio \in Nat
  BY PointsAssumption
<1> QED BY <1>1, <1>2 DEF Earned

(* What a request asks for has the right type.                             *)
LEMMA RequestTypes ==
  ASSUME NEW o \in Orders
  PROVE  /\ Sku(o) \in Skus /\ Qty(o) \in Nat \ {0} /\ Member(o) \in Members
         /\ Request[o].cash \in Nat /\ Request[o].points \in Nat
BY RequestAssumption DEF RequestType, Sku, Qty, Member

(* A refund row may be replaced in the sequence of refunds.                *)
LEMMA RefundUpdate ==
  ASSUME NEW s \in Seq(RefundRow), NEW i, NEW r \in RefundRow
  PROVE  /\ [s EXCEPT ![i] = r] \in Seq(RefundRow)
         /\ Len([s EXCEPT ![i] = r]) = Len(s)
         /\ \A j \in 1..Len(s) :
              [s EXCEPT ![i] = r][j] = IF j = i THEN r ELSE s[j]
<1>1. CASE i \in 1..Len(s)
  BY <1>1, ExceptSeq
<1>2. CASE i \notin 1..Len(s)
  <2>1. s \in [1..Len(s) -> RefundRow]
    BY LenProperties
  <2>2. [s EXCEPT ![i] = r] = s
    BY <1>2, <2>1
  <2> QED BY <1>2, <2>2
<1> QED BY <1>1, <1>2

(* Nothing but the stock matters to StockIdentity.                         *)
LEMMA StockKept ==
  ASSUME stock \in [Skus -> StockRow], StockIdentity, UNCHANGED stock
  PROVE  stock' \in [Skus -> StockRow] /\ StockIdentity'
BY DEF StockIdentity, Balanced

(* The counters of a stock row stay balanced and of their type.            *)
LEMMA MovesBalanced ==
  ASSUME stock \in [Skus -> StockRow], StockIdentity,
         NEW s \in Skus, NEW q \in Nat, NEW done \in BOOLEAN,
         \/ LockStock(s, q)
         \/ ConfirmLock(done, s, q)
         \/ ReleaseLock(done, s, q)
         \/ RefundReturn(done, s, q)
  PROVE  stock' \in [Skus -> StockRow] /\ StockIdentity'
<1>1. \A t \in Skus : /\ stock[t] \in StockRow
                      /\ Balanced(stock[t])
                      /\ stock[t].total = InitialStock[t]
  BY DEF StockIdentity
<1>2. ASSUME NEW l \in Int, NEW d \in Int, NEW a \in Int, Move(s, l, d, a),
             stock[s].locked + l \in Nat, stock[s].sold + d \in Nat,
             stock[s].available + a \in Nat, l + d + a = 0
      PROVE  stock' \in [Skus -> StockRow] /\ StockIdentity'
  <2> DEFINE row == [total |-> stock[s].total, locked |-> stock[s].locked + l,
                     sold |-> stock[s].sold + d,
                     available |-> stock[s].available + a]
  <2>1. row \in StockRow /\ Balanced(row) /\ row.total = InitialStock[s]
    BY <1>1, <1>2 DEF StockRow, Balanced
  <2>2. stock' = [stock EXCEPT ![s] = row]
    BY <1>2 DEF Move
  <2> QED BY <1>1, <2>1, <2>2 DEF StockIdentity
<1>3. stock[s].locked \in Nat /\ stock[s].sold \in Nat /\ stock[s].available \in Nat
  BY <1>1 DEF StockRow
<1>4. CASE LockStock(s, q)
  BY <1>2, <1>3, <1>4 DEF LockStock
<1>5. CASE ConfirmLock(done, s, q)
  <2>1. CASE UNCHANGED stock
    BY <2>1, StockKept
  <2>2. CASE stock[s].locked >= q /\ Move(s, -q, q, 0)
    <3>1. stock[s].locked + (-q) \in Nat
      BY <1>3, <2>2
    <3> QED BY <1>2, <1>3, <2>2, <3>1
  <2> QED BY <1>5, <2>1, <2>2 DEF ConfirmLock
<1>6. CASE ReleaseLock(done, s, q)
  <2>1. CASE UNCHANGED stock
    BY <2>1, StockKept
  <2>2. CASE stock[s].locked >= q /\ Move(s, -q, 0, q)
    <3>1. stock[s].locked + (-q) \in Nat
      BY <1>3, <2>2
    <3> QED BY <1>2, <1>3, <2>2, <3>1
  <2> QED BY <1>6, <2>1, <2>2 DEF ReleaseLock
<1>7. CASE RefundReturn(done, s, q)
  <2>1. CASE UNCHANGED stock
    BY <2>1, StockKept
  <2>2. CASE stock[s].sold >= q /\ Move(s, 0, -q, q)
    <3>1. stock[s].sold + (-q) \in Nat
      BY <1>3, <2>2
    <3> QED BY <1>2, <1>3, <2>2, <3>1
  <2> QED BY <1>7, <2>1, <2>2 DEF RefundReturn
<1> QED BY <1>4, <1>5, <1>6, <1>7

(* The empty row has the type of a row and its facts.                      *)
LEMMA RowTypes == NoRow \in OrderRow /\ RowFacts(NoRow)
<1>1. <<>> \in Seq(RefundRow) /\ Len(<<>>) = 0
  OBVIOUS
<1> QED BY <1>1 DEF NoRow, NoLog, OrderRow, StockLog, CodeRows, Statuses, RowFacts,
                    Fulfilling, RefundNumbers

(* A session without a transaction has the type of one.                    *)
LEMMA IdleType == Idle \in Transaction
BY RowTypes, PointsAssumption
   DEF Idle, Transaction, OpNames, NewMember, MemberRow

-----------------------------------------------------------------------------
(* What a step of one handler does to the invariant.                       *)

(* A transaction ends, having written the row r of its order or nothing    *)
(* else: the other transactions' snapshots still relate to their rows.     *)
LEMMA CommitStep ==
  ASSUME IndInv,
         NEW w \in Workers, NEW o \in Orders, tx[w].order = o,
         NEW t \in Transaction, tx' = [tx EXCEPT ![w] = t],
         t.order = NoOrder, t.op \in {"idle", "timeout"}, t.op = "idle" => t = Idle,
         t.todo \subseteq tx[w].todo, 
         NEW r \in OrderRow, Write(o, r),
         stock' \in [Skus -> StockRow], StockIdentity',
         members' \in [Members -> MemberRow], UNCHANGED overdue,
         RowFacts(r), r.status # "NONE", r.payments >= orders[o].payments,
         r.payments = orders[o].payments =>
           \/ r.amount = orders[o].amount
           \/ \A v \in Workers : v # w => tx[v].order # o,
         \/ orders[o].status # "NONE"
         \/ \A v \in Workers : v # w => tx[v].order # o
  PROVE  IndInv'
<1>0. TypeOK /\ orders' \in [Orders -> OrderRow] /\ tx' \in [Workers -> Transaction]
  BY DEF IndInv, TypeOK, Write
<1>1. TypeOK'
  BY <1>0 DEF TypeOK
<1>2. \A p \in Orders : orders'[p] = IF p = o THEN r ELSE orders[p]
  BY <1>0 DEF TypeOK, Write
<1>3. \A p \in Orders : RowFacts(orders'[p])
  BY <1>2 DEF IndInv
<1>4. \A v \in Workers : tx'[v] = IF v = w THEN t ELSE tx[v]
  BY <1>0 DEF TypeOK
<1>5. \A p \in Orders : /\ orders[p].status # "NONE" => orders'[p].status # "NONE"
                        /\ orders'[p].payments >= orders[p].payments
                        /\ orders[p].payments \in {0, 1}
                        /\ orders'[p].payments \in {0, 1}
  <2>1. \A p \in Orders : /\ orders[p].payments \in Nat /\ orders'[p].payments \in Nat
                          /\ orders[p].payments <= 1 /\ orders'[p].payments <= 1
    BY <1>0, <1>3 DEF IndInv, TypeOK, OrderRow, RowFacts
  <2> QED BY <1>2, <2>1
<1>6. ASSUME NEW v \in Workers
      PROVE  /\ tx'[v].op = "idle" => tx'[v] = Idle
             /\ tx'[v].order = NoOrder => tx'[v].op \in {"idle", "timeout"}
             /\ tx'[v].order # NoOrder => SnapshotFacts(tx[v])'
             /\ BatchFacts(tx[v])'
  <2>1. CASE v = w
    <3>1. \A p \in tx[w].todo : p \in Orders /\ orders[p].status # "NONE"
      BY <1>0 DEF IndInv, BatchFacts, TypeOK, Transaction
    <3> QED BY <1>4, <1>5, <2>1, <3>1 DEF BatchFacts
  <2>2. CASE v # w
    <3>1. tx'[v] = tx[v]
      BY <1>4, <2>2
    <3>2. BatchFacts(tx[v])'
      BY <1>5, <3>1 DEF IndInv, BatchFacts, TypeOK, Transaction
    <3>3. ASSUME tx[v].order # NoOrder PROVE SnapshotFacts(tx[v])'
      <4> DEFINE p == tx[v].order
      <4>1. p \in Orders /\ SnapshotFacts(tx[v]) /\ tx[v].seen.payments \in Nat
        BY <1>0, <3>3 DEF IndInv, TypeOK, Transaction, OrderRow
      <4>2. orders'[p].status = "NONE" <=> orders[p].status = "NONE"
        BY <1>2, <1>5, <2>2, <4>1
      <4>3. tx[v].seen.payments = orders'[p].payments
              => tx[v].seen.amount = orders'[p].amount
        BY <1>2, <1>5, <2>2, <4>1 DEF SnapshotFacts
      <4>4. tx[v].seen.payments <= orders'[p].payments
        BY <1>5, <4>1 DEF SnapshotFacts
      <4>5. orders[p].payments = 1 => orders'[p].payments = 1
        BY <1>5, <4>1
      <4> QED BY <3>1, <4>1, <4>2, <4>3, <4>4, <4>5 DEF SnapshotFacts
    <3> QED BY <3>1, <3>2, <3>3 DEF IndInv
  <2> QED BY <2>1, <2>2
<1>7. ASSUME NEW u \in Workers, NEW v \in Workers, u # v, tx'[u].op = "create"
      PROVE  tx'[v].order # tx'[u].order
  BY <1>4, <1>7 DEF IndInv
<1> QED BY <1>1, <1>3, <1>6, <1>7 DEF IndInv

(* A transaction is opened, or the next order of a batch taken up: nothing *)
(* but tx[w] changes, and the new snapshot fits the row.                   *)
LEMMA OpenStep ==
  ASSUME IndInv, NEW w \in Workers, NEW t \in Transaction,
         tx' = [tx EXCEPT ![w] = t],
         UNCHANGED <<stock, orders, members>>, overdue' \subseteq Orders,
         t.op = "idle" => t = Idle,
         t.order = NoOrder => t.op \in {"idle", "timeout"},
         t.order # NoOrder => SnapshotFacts(t), BatchFacts(t),
         t.op = "create" => \A v \in Workers : v # w => tx[v].order # t.order
  PROVE  IndInv'
<1>1. TypeOK' /\ StockIdentity'
  BY StockKept DEF IndInv, TypeOK
<1>2. \A v \in Workers : tx'[v] = IF v = w THEN t ELSE tx[v]
  BY DEF IndInv, TypeOK
<1>3. \A o \in Orders : RowFacts(orders'[o])
  BY DEF IndInv
<1>4. ASSUME NEW v \in Workers
      PROVE  /\ tx'[v].op = "idle" => tx'[v] = Idle
             /\ tx'[v].order = NoOrder => tx'[v].op \in {"idle", "timeout"}
             /\ tx'[v].order # NoOrder => SnapshotFacts(tx[v])'
             /\ BatchFacts(tx[v])'
  <2>1. CASE v = w
    BY <1>2, <2>1 DEF SnapshotFacts, BatchFacts
  <2>2. CASE v # w
    BY <1>2, <2>2 DEF IndInv, SnapshotFacts, BatchFacts
  <2> QED BY <2>1, <2>2
<1>5. ASSUME NEW u \in Workers, NEW v \in Workers, u # v, tx'[u].op = "create"
      PROVE  tx'[v].order # tx'[u].order
  <2>1. CASE u = w
    BY <1>2, <1>5, <2>1
  <2>2. CASE v = w
    <3>1. tx'[u] = tx[u] /\ tx'[v] = t /\ tx[u].order # NoOrder
      BY <1>2, <1>5, <2>2 DEF IndInv
    <3>2. SnapshotFacts(tx[u])
      BY <3>1 DEF IndInv
    <3>3. ASSUME t.order = tx[u].order PROVE FALSE
      BY <1>5, <2>2, <3>1, <3>2, <3>3 DEF SnapshotFacts
    <3> QED BY <3>1, <3>3
  <2>3. CASE u # w /\ v # w
    BY <1>2, <1>5, <2>3 DEF IndInv
  <2> QED BY <2>1, <2>2, <2>3
<1> QED BY <1>1, <1>3, <1>4, <1>5 DEF IndInv

(* A transaction is rolled back, or an order expires.                      *)
LEMMA NothingWritten ==
  ASSUME IndInv, UNCHANGED <<stock, orders, members>>, overdue' \subseteq Orders,
         UNCHANGED tx \/ \E w \in Workers : Done(w)
  PROVE  IndInv'
<1>1. CASE UNCHANGED tx
  BY <1>1 DEF IndInv, TypeOK, StockIdentity, Balanced, SnapshotFacts, BatchFacts
<1>2. ASSUME NEW w \in Workers, Done(w) PROVE IndInv'
  <2>1. /\ Idle \in Transaction /\ Idle.op = "idle" /\ Idle.order = NoOrder
        /\ BatchFacts(Idle)
    BY IdleType DEF Idle, BatchFacts
  <2> QED BY <1>2, <2>1, OpenStep DEF Done
<1> QED BY <1>1, <1>2

-----------------------------------------------------------------------------
(* The steps that read.                                                    *)

(* A handler that found what it checks opens its transaction.              *)
LEMMA BeginStep ==
  ASSUME IndInv, NEW w \in Workers, NEW o \in Orders, NEW op \in OpNames \ {"idle"},
         NEW todo \in SUBSET Orders, NEW arg \in Nat, Open(w, op, o, todo, arg),
         op = "create" <=> orders[o].status = "NONE",
         op = "create" => \A v \in Workers : tx[v].order # o,
         op = "pay" => arg <= members[Member(o)].balance,
         op \in AfterPayment => orders[o].payments = 1,
         op = "refund" => orders[o].status \in Refundable,
         op \in {"approve", "reject"} => arg \in RefundNumbers(orders[o]),
         \A p \in todo : /\ orders[p].status # "NONE"
                         /\ op = "ship" => orders[p].payments = 1
  PROVE  IndInv'
<1> DEFINE t == [op |-> op, order |-> o, seen |-> orders[o],
                 member |-> members[Member(o)], todo |-> todo, arg |-> arg]
<1>1. t \in Transaction
  BY RequestTypes DEF IndInv, TypeOK, Transaction
<1>2. RowFacts(orders[o]) /\ orders[o].payments \in Nat
  BY DEF IndInv, TypeOK, OrderRow
<1>3. SnapshotFacts(t)
  BY <1>2 DEF SnapshotFacts, AfterPayment
<1>4. BatchFacts(t)
  BY DEF BatchFacts
<1>5. /\ tx' = [tx EXCEPT ![w] = t]
      /\ UNCHANGED <<stock, orders, members>> /\ overdue' \subseteq Orders
  BY DEF Open, IndInv, TypeOK
<1>6. t.order # NoOrder /\ t.op # "idle"
  BY NoOrderAssumption
<1> HIDE DEF t
<1>7. t.op = "create" => \A v \in Workers : v # w => tx[v].order # t.order
  BY DEF t
<1> QED BY <1>1, <1>3, <1>4, <1>5, <1>6, <1>7, OpenStep

(* Every handler's reading step keeps the invariant.                       *)
LEMMA BeginKeeps ==
  ASSUME IndInv, NEW w \in Workers, NEW o \in Orders, Begin(w, o)
  PROVE  IndInv'
<1> USE DEF AfterPayment
<1>0. /\ RowFacts(orders[o]) /\ orders[o] \in OrderRow
      /\ \A p \in Orders : RowFacts(orders[p])
      /\ {} \in SUBSET Orders /\ 0 \in Nat /\ overdue \subseteq Orders
  BY DEF IndInv, TypeOK
<1>1. CASE CreateBegin(w, o)
  BY <1>0, <1>1, BeginStep DEF CreateBegin, OpNames
<1>2. ASSUME NEW want \in Deducts, PayBegin(w, o, want) PROVE IndInv'
  <2>1. want \in Nat
    BY PointsAssumption
  <2> QED BY <1>0, <1>2, <2>1, BeginStep DEF PayBegin, OpNames
<1>3. CASE CancelBegin(w, o)
  BY <1>0, <1>3, BeginStep DEF CancelBegin, Closable, OpNames
<1>4. CASE CloseBegin(w, o)
  BY <1>0, <1>4, BeginStep DEF CloseBegin, Closable, OpNames
<1>5. CASE TimeoutScan(w, o)
  <2> DEFINE due == {p \in overdue : Pending(orders[p])}
  <2>1. /\ due \ {o} \in SUBSET Orders
        /\ \A p \in due \ {o} : orders[p].status # "NONE"
        /\ orders[o].status # "NONE"
        /\ Open(w, "timeout", o, due \ {o}, 0)
    BY <1>0, <1>5 DEF TimeoutScan, Pending
  <2> HIDE DEF due
  <2> QED BY <1>0, <2>1, BeginStep DEF OpNames
<1>6. CASE StockingBegin(w, o)
  BY <1>0, <1>6, BeginStep DEF StockingBegin, OpNames, RowFacts, Fulfilling
<1>7. CASE PickupBegin(w, o)
  BY <1>0, <1>7, BeginStep DEF PickupBegin, OpNames, RowFacts, Fulfilling
<1>8. ASSUME NEW batch \in SUBSET Orders, ShipBegin(w, o, batch) PROVE IndInv'
  <2> DEFINE rest == {p \in batch \ {o} : Shippable(orders[p])}
  <2>1. /\ rest \in SUBSET Orders
        /\ \A p \in rest : orders[p].status # "NONE" /\ orders[p].payments = 1
        /\ orders[o].status # "NONE" /\ orders[o].payments = 1
        /\ Open(w, "ship", o, rest, 0)
    BY <1>0, <1>8 DEF ShipBegin, Shippable, RowFacts, Fulfilling
  <2> HIDE DEF rest
  <2> QED BY <1>0, <2>1, BeginStep DEF OpNames
<1>9. CASE ReceiveBegin(w, o)
  BY <1>0, <1>9, BeginStep DEF ReceiveBegin, OpNames, RowFacts, Fulfilling
<1>10. CASE RefundBegin(w, o)
  <2>1. /\ orders[o].status \in Refundable /\ orders[o].status # "NONE"
        /\ orders[o].payments = 1 /\ Open(w, "refund", o, {}, 0)
    BY <1>0, <1>10 DEF RefundBegin, Refundable, RowFacts, Fulfilling
  <2> QED BY <1>0, <2>1, BeginStep DEF OpNames
<1>11. ASSUME NEW i \in RefundNumbers(orders[o]), NEW op \in {"approve", "reject"},
              AuditBegin(w, op, o, i)
       PROVE  IndInv'
  <2>1. orders[o].refunds \in Seq(RefundRow)
    BY <1>0 DEF OrderRow
  <2>2. orders[o].refunds # <<>> /\ i \in Nat
    BY <2>1, LenProperties, EmptySeq DEF RefundNumbers
  <2>3. orders[o].payments = 1 /\ orders[o].status # "NONE"
    BY <1>0, <2>2 DEF RowFacts, NoRow
  <2> QED BY <1>0, <1>11, <2>2, <2>3, BeginStep DEF AuditBegin, OpNames
<1>12. ASSUME NEW i \in orders[o].codes.unused, VerifyBegin(w, o, i) PROVE IndInv'
  <2>1. i \in Nat /\ orders[o].status # "NONE"
    BY <1>0 DEF OrderRow, CodeRows, RowFacts, NoRow
  <2> QED BY <1>0, <1>12, <2>1, BeginStep DEF VerifyBegin, OpNames
<1> QED BY <1>1, <1>2, <1>3, <1>4, <1>5, <1>6, <1>7, <1>8, <1>9, <1>10, <1>11,
           <1>12 DEF Begin

(* So does the next order of the task's batch.                             *)
LEMMA TimeoutNextKeeps ==
  ASSUME IndInv, NEW w \in Workers, NEW o \in Orders, TimeoutNext(w, o)
  PROVE  IndInv'
<1> DEFINE seen == [orders[o] EXCEPT !.status = "PENDING_PAY"]
           t == [Idle EXCEPT !.op = "timeout", !.order = o, !.seen = seen,
                             !.todo = tx[w].todo \ {o}]
<1>1. orders[o] \in OrderRow /\ RowFacts(orders[o]) /\ BatchFacts(tx[w])
      /\ tx[w] \in Transaction /\ o \in tx[w].todo
  BY DEF IndInv, TypeOK, TimeoutNext
<1>2. seen \in OrderRow
  BY <1>1 DEF OrderRow, Statuses
<1>3. t \in Transaction
  BY <1>1, <1>2, IdleType DEF Transaction, OpNames
<1>4. orders[o].status # "NONE"
  BY <1>1 DEF BatchFacts
<1>5. /\ seen.status = "PENDING_PAY" /\ seen.payments = orders[o].payments
      /\ seen.log = orders[o].log /\ seen.refunds = orders[o].refunds
      /\ seen.earnRows = orders[o].earnRows /\ seen.earned = orders[o].earned
      /\ seen.amount = orders[o].amount /\ orders[o].payments \in Nat
  BY <1>1 DEF OrderRow
<1>6. t.op = "timeout" /\ t.order = o /\ t.seen = seen /\ t.todo = tx[w].todo \ {o}
  BY DEF Idle
<1> HIDE DEF seen, t
<1>7. RowFacts(seen)
  BY <1>1, <1>5 DEF RowFacts, Fulfilling, RefundNumbers
<1>8. SnapshotFacts(t) /\ BatchFacts(t)
  BY <1>1, <1>4, <1>5, <1>6, <1>7 DEF SnapshotFacts, BatchFacts, AfterPayment
<1>9. /\ tx' = [tx EXCEPT ![w] = t]
      /\ UNCHANGED <<stock, orders, members>> /\ overdue' \subseteq Orders
  BY DEF TimeoutNext, IndInv, TypeOK, t, seen
<1> QED BY <1>3, <1>6, <1>8, <1>9, OpenStep, NoOrderAssumption

-----------------------------------------------------------------------------
(* The steps that write.                                                   *)

(* What is known of an open transaction and the row of its order.          *)
LEMMA OpenFacts ==
  ASSUME IndInv, NEW w \in Workers,
         tx[w].op \notin {"idle", "timeout"} \/ tx[w].order # NoOrder
  PROVE  /\ tx[w] \in Transaction /\ tx[w].order \in Orders
         /\ tx[w].seen \in OrderRow /\ tx[w].member \in MemberRow /\ tx[w].arg \in Nat
         /\ orders[tx[w].order] \in OrderRow /\ RowFacts(orders[tx[w].order])
         /\ members[Member(tx[w].order)] \in MemberRow
         /\ SnapshotFacts(tx[w])
         /\ Sku(tx[w].order) \in Skus /\ Qty(tx[w].order) \in Nat
         /\ stock \in [Skus -> StockRow] /\ StockIdentity
         /\ members \in [Members -> MemberRow] /\ Member(tx[w].order) \in Members
BY RequestTypes DEF IndInv, TypeOK, Transaction

(* CommitStep for a transaction that leaves nothing open behind it.        *)
LEMMA DoneStep ==
  ASSUME IndInv, NEW w \in Workers, NEW o \in Orders, tx[w].order = o, Done(w),
         NEW r \in OrderRow, Write(o, r),
         stock' \in [Skus -> StockRow], StockIdentity',
         members' \in [Members -> MemberRow], UNCHANGED overdue,
         RowFacts(r), r.status # "NONE", r.payments >= orders[o].payments,
         r.payments = orders[o].payments => r.amount = orders[o].amount,
         orders[o].status # "NONE"
  PROVE  IndInv'
<1>1. /\ Idle \in Transaction /\ Idle.order = NoOrder /\ Idle.op = "idle"
      /\ Idle.todo \subseteq tx[w].todo
  BY IdleType DEF Idle
<1> QED BY <1>1, CommitStep DEF Done

(* Appending to the log keeps its type.                                    *)
LEMMA LoggedType ==
  ASSUME NEW log \in StockLog, NEW done \in BOOLEAN,
         NEW move \in {"lock", "pay", "release", "close", "ret"}
  PROVE  /\ Logged(log, move, done) \in StockLog
         /\ Logged(log, move, done).pay
              = IF move = "pay" THEN log.pay + LogRows(done) ELSE log.pay
         /\ LogRows(done) \in {0, 1}
<1>1. LogRows(done) \in {0, 1}
  BY DEF LogRows
<1> QED BY <1>1 DEF Logged, StockLog

(* An order row that was paid keeps its facts while nothing but its status,*)
(* refunds and codes changes.                                              *)
LEMMA PaidRow ==
  ASSUME NEW row, RowFacts(row), row.payments = 1,
         NEW r, r.status # "NONE", r.payments = row.payments,
         r.log.pay = row.log.pay, r.earnRows = row.earnRows,
         r.earned = row.earned, r.amount = row.amount,
         \A i \in RefundNumbers(r) : r.refunds[i].before \in Fulfilling
  PROVE  RowFacts(r)
<1>1. r.payments = 1 /\ row.log.pay = 1
  BY DEF RowFacts
<1>2. r.earned = Earned(r.amount) /\ r.earnRows = IF r.earned > 0 THEN 1 ELSE 0
  BY DEF RowFacts
<1> QED BY <1>1, <1>2 DEF RowFacts

(* An order row as create_order inserts it has its facts.                  *)
LEMMA FreshRowFacts ==
  ASSUME NEW r, r.status = "PENDING_PAY", r.payments = 0, r.log.pay = 0,
         r.earnRows = 0, r.earned = 0, r.refunds = <<>>
  PROVE  RowFacts(r)
<1>1. RefundNumbers(r) = {}
  BY EmptySeq DEF RefundNumbers
<1>2. r.status \notin Fulfilling /\ r.status # "NONE"
  BY DEF Fulfilling
<1>3. r.payments # 1 /\ r.payments <= 1
  OBVIOUS
<1>4. r.log.pay = r.payments /\ r.earnRows = (IF r.earned > 0 THEN 1 ELSE 0)
  OBVIOUS
<1> QED BY <1>1, <1>2, <1>3, <1>4 DEF RowFacts

(* Placing an order keeps the invariant.                                   *)
LEMMA CreateKeeps ==
  ASSUME IndInv, NEW w \in Workers, CreateCommit(w)
  PROVE  IndInv'
<1> DEFINE o == tx[w].order
           r == [NoRow EXCEPT !.status = "PENDING_PAY", !.amount = Request[o].cash,
                              !.points = Request[o].points,
                              !.log = Logged(NoLog, "lock", FALSE)]
<1>0. tx[w].op = "create" /\ LockStock(Sku(o), Qty(o)) /\ Write(o, r) /\ Done(w)
      /\ UNCHANGED <<members, overdue>>
  BY DEF CreateCommit
<1>1. /\ o \in Orders /\ orders[o].status = "NONE" /\ orders[o] = NoRow
      /\ \A v \in Workers : v # w => tx[v].order # o
  BY <1>0, OpenFacts DEF SnapshotFacts, RowFacts, IndInv
<1>2. stock' \in [Skus -> StockRow] /\ StockIdentity' /\ members' \in [Members -> MemberRow]
  BY <1>0, <1>1, OpenFacts, MovesBalanced
<1>3. NoLog \in StockLog /\ NoLog.pay = 0
  BY DEF NoLog, StockLog
<1>4. Logged(NoLog, "lock", FALSE) \in StockLog /\ Logged(NoLog, "lock", FALSE).pay = 0
  BY <1>3, LoggedType
<1>5. r \in OrderRow
  BY <1>1, <1>4, RowTypes, RequestTypes DEF OrderRow, Statuses
<1>6. /\ r.status = "PENDING_PAY" /\ r.payments = 0 /\ NoRow.payments = 0
      /\ r.log = Logged(NoLog, "lock", FALSE) /\ r.earnRows = 0 /\ r.earned = 0
  BY DEF NoRow
<1>6a. r.refunds = <<>>
  BY DEF NoRow
<1> HIDE DEF r
<1>7. RowFacts(r)
  <2>1. r.log.pay = 0
    BY <1>4, <1>6
  <2> QED BY <1>6, <1>6a, <2>1, FreshRowFacts
<1>8. /\ Idle \in Transaction /\ Idle.order = NoOrder /\ Idle.op = "idle"
      /\ Idle.todo \subseteq tx[w].todo /\ tx' = [tx EXCEPT ![w] = Idle]
  BY <1>0, IdleType DEF Idle, Done
<1>9. /\ Write(o, r) /\ UNCHANGED overdue /\ r.payments >= orders[o].payments
      /\ r.status # "NONE"
  BY <1>0, <1>1, <1>6
<1> HIDE DEF o
<1>10. tx[w].order = o
  BY DEF o
<1> QED BY <1>1, <1>2, <1>5, <1>6, <1>7, <1>8, <1>9, <1>10, CommitStep

(* A close releases the lock and writes the status and the log only,       *)
(* however many orders are left in the batch.                              *)
LEMMA ClosingKeeps ==
  ASSUME IndInv, NEW w \in Workers, tx[w].order # NoOrder,
         tx[w].op \in {"cancel", "close", "timeout"},
         NEW done \in BOOLEAN, NEW move \in {"release", "close"},
         ReleaseLock(done, Sku(tx[w].order), Qty(tx[w].order)),
         Write(tx[w].order,
               [orders[tx[w].order] EXCEPT
                  !.status = "CLOSED",
                  !.log = Logged(orders[tx[w].order].log, move, done)]),
         UNCHANGED <<members, overdue>>,
         NEW t \in Transaction, tx' = [tx EXCEPT ![w] = t],
         t.order = NoOrder, t.op \in {"idle", "timeout"}, t.op = "idle" => t = Idle,
         t.todo \subseteq tx[w].todo
  PROVE  IndInv'
<1> DEFINE o == tx[w].order
           row == orders[o]
           log == Logged(row.log, move, done)
           r == [row EXCEPT !.status = "CLOSED", !.log = log]
<1>1. /\ o \in Orders /\ row \in OrderRow /\ RowFacts(row) /\ row.status # "NONE"
      /\ Sku(o) \in Skus /\ Qty(o) \in Nat
      /\ stock \in [Skus -> StockRow] /\ StockIdentity
      /\ members' \in [Members -> MemberRow]
  BY OpenFacts DEF SnapshotFacts
<1>2. stock' \in [Skus -> StockRow] /\ StockIdentity'
  BY <1>1, MovesBalanced
<1>3. Write(o, r)
  OBVIOUS
<1>4. log \in StockLog /\ log.pay = row.log.pay
  <2>1. row.log \in StockLog
    BY <1>1 DEF OrderRow
  <2>2. ASSUME NEW l \in StockLog
        PROVE  Logged(l, move, done) \in StockLog /\ Logged(l, move, done).pay = l.pay
    BY LoggedType
  <2> HIDE DEF row
  <2> QED BY <2>1, <2>2
<1> HIDE DEF log, row
<1>5. r \in OrderRow
  BY <1>1, <1>4 DEF OrderRow, Statuses
<1>6. /\ r.status = "CLOSED" /\ r.log = log /\ r.payments = row.payments
      /\ r.amount = row.amount /\ r.refunds = row.refunds
      /\ r.earnRows = row.earnRows /\ r.earned = row.earned /\ row.payments \in Nat
  BY <1>1 DEF OrderRow
<1> HIDE DEF r
<1>7. RowFacts(r)
  BY <1>1, <1>4, <1>6 DEF RowFacts, Fulfilling, RefundNumbers
<1>8. /\ r.status # "NONE" /\ r.payments >= orders[o].payments
      /\ r.amount = orders[o].amount /\ orders[o].status # "NONE"
      /\ tx[w].order = o /\ UNCHANGED overdue
  BY <1>1, <1>6 DEF row
<1> HIDE DEF o
<1> QED BY <1>1, <1>2, <1>3, <1>5, <1>7, <1>8, CommitStep

(* Cancelling an order keeps the invariant.                                *)
LEMMA CancelKeeps ==
  ASSUME IndInv, NEW w \in Workers, CancelCommit(w)
  PROVE  IndInv'
<1>1. /\ tx[w].op = "cancel" /\ tx[w].order # NoOrder
      /\ (tx[w].seen.log.release > 0) \in BOOLEAN
  BY OpenFacts, NoOrderAssumption DEF CancelCommit, OrderRow, StockLog
<1>2. /\ Idle \in Transaction /\ Idle.order = NoOrder /\ Idle.op = "idle"
      /\ Idle.todo \subseteq tx[w].todo
  BY IdleType DEF Idle
<1> QED BY <1>1, <1>2, ClosingKeeps DEF CancelCommit, Done

(* So does the store's closing it.                                         *)
LEMMA CloseKeeps ==
  ASSUME IndInv, NEW w \in Workers, CloseCommit(w)
  PROVE  IndInv'
<1>1. /\ tx[w].op = "close" /\ tx[w].order # NoOrder
      /\ (tx[w].seen.log.close > 0) \in BOOLEAN
  BY OpenFacts, NoOrderAssumption DEF CloseCommit, OrderRow, StockLog
<1>2. /\ Idle \in Transaction /\ Idle.order = NoOrder /\ Idle.op = "idle"
      /\ Idle.todo \subseteq tx[w].todo
  BY IdleType DEF Idle
<1> QED BY <1>1, <1>2, ClosingKeeps DEF CloseCommit, Done

(* So does the timeout task, which goes on with its batch.                 *)
LEMMA TimeoutKeeps ==
  ASSUME IndInv, NEW w \in Workers, TimeoutCommit(w)
  PROVE  IndInv'
<1> DEFINE t == IF tx[w].todo = {} THEN Idle
                ELSE [Idle EXCEPT !.op = "timeout", !.todo = tx[w].todo]
<1>1. /\ tx[w].op = "timeout" /\ tx[w].order # NoOrder
      /\ (tx[w].seen.log.release > 0) \in BOOLEAN /\ tx[w].todo \in SUBSET Orders
  <2>1. tx[w].op = "timeout" /\ tx[w].order # NoOrder
    BY DEF TimeoutCommit
  <2>2. (tx[w].seen.log.release > 0) \in BOOLEAN
    OBVIOUS
  <2>3. tx[w].todo \in SUBSET Orders
    BY <2>1, OpenFacts DEF Transaction
  <2> QED BY <2>1, <2>2, <2>3
<1>2. /\ t \in Transaction /\ t.order = NoOrder /\ t.op \in {"idle", "timeout"}
      /\ t.op = "idle" => t = Idle
      /\ t.todo \subseteq tx[w].todo
  <2>1. Idle.op = "idle" /\ Idle.order = NoOrder /\ Idle.todo = {}
    BY DEF Idle
  <2>2. CASE tx[w].todo = {}
    BY <2>1, <2>2, IdleType
  <2>3. CASE tx[w].todo # {}
    <3> DEFINE u == [Idle EXCEPT !.op = "timeout", !.todo = tx[w].todo]
    <3>1. u \in Transaction /\ u.op = "timeout" /\ u.order = NoOrder /\ u.todo = tx[w].todo
      BY <1>1, IdleType DEF Transaction, OpNames, Idle
    <3> QED BY <2>3, <3>1
  <2> QED BY <2>2, <2>3
<1>3. tx' = [tx EXCEPT ![w] = t]
  BY DEF TimeoutCommit, Done
<1> HIDE DEF t
<1> QED BY <1>1, <1>2, <1>3, ClosingKeeps DEF TimeoutCommit

(* What the row facts say of a row without a payment.                      *)
LEMMA UnpaidRow ==
  ASSUME NEW row \in OrderRow, RowFacts(row), row.payments = 0
  PROVE  /\ row.log.pay = 0 /\ row.earned = 0 /\ row.earnRows = 0
         /\ row.refunds = <<>>
<1>1. row.payments # 1
  OBVIOUS
<1>2. row.earned = 0 /\ row.log.pay = 0 /\ row.refunds = <<>>
  BY <1>1 DEF RowFacts
<1>3. row.earnRows = 0
  BY <1>2 DEF RowFacts
<1> QED BY <1>2, <1>3

(* Paying keeps the invariant.  The unique key makes it the first payment, *)
(* so the snapshot's row is unpaid too: its move is not skipped, nothing   *)
(* was granted before, and its amount is the row's.                        *)
LEMMA PayKeeps ==
  ASSUME IndInv, NEW w \in Workers, PayCommit(w)
  PROVE  IndInv'
<1> DEFINE o      == tx[w].order
           seen   == tx[w].seen
           row    == orders[o]
           done   == seen.log.pay > 0
           used   == Least(tx[w].arg, seen.amount)
           earned == Grant(seen, seen.amount - used)
           gen    == HasCodes(o) /\ CodesOf(seen) = {}
           amount == Put(row.amount, seen.amount, seen.amount - used)
           points == IF used > 0 THEN Put(row.points, seen.points, used) ELSE row.points
           earns  == row.earnRows + (IF earned > 0 THEN 1 ELSE 0)
           log    == Logged(row.log, "pay", done)
           codes  == IF gen THEN [row.codes EXCEPT !.unused = 1..Qty(o)] ELSE row.codes
           r == [row EXCEPT !.status = "PAID", !.amount = amount, !.points = points,
                            !.spent = row.spent + used, !.earned = row.earned + earned,
                            !.earnRows = earns, !.payments = row.payments + 1,
                            !.log = log, !.codes = codes]
           m   == tx[w].member
           mem == members[Member(o)]
           n == [balance   |-> Put(mem.balance, m.balance, m.balance - used + earned),
                 totalEarn |-> Put(mem.totalEarn, m.totalEarn, m.totalEarn + earned),
                 totalUsed |-> Put(mem.totalUsed, m.totalUsed, m.totalUsed + used),
                 debt      |-> mem.debt,
                 logged    |-> mem.logged - used + earned]
<1>0. /\ tx[w].op = "pay" /\ row.payments = 0
      /\ ConfirmLock(done, Sku(o), Qty(o)) /\ Done(w) /\ UNCHANGED overdue
      /\ Write(o, r) /\ members' = [members EXCEPT ![Member(o)] = n]
  BY DEF PayCommit, Uncharged, MovePoints
<1>1. /\ o \in Orders /\ row \in OrderRow /\ RowFacts(row) /\ row.status # "NONE"
      /\ seen \in OrderRow /\ RowFacts(seen) /\ m \in MemberRow /\ mem \in MemberRow
      /\ Sku(o) \in Skus /\ Qty(o) \in Nat /\ tx[w].arg \in Nat
      /\ members \in [Members -> MemberRow] /\ Member(o) \in Members
      /\ seen.payments <= row.payments
      /\ seen.payments = row.payments => seen.amount = row.amount
      /\ tx[w].arg <= m.balance
      /\ stock \in [Skus -> StockRow] /\ StockIdentity
  BY <1>0, OpenFacts DEF SnapshotFacts
<1>1a. row.payments = 0
  BY <1>0
<1>1b. row \in OrderRow /\ RowFacts(row) /\ seen \in OrderRow /\ RowFacts(seen)
  BY <1>1
<1>2a. /\ row.log.pay = 0 /\ row.earned = 0 /\ row.earnRows = 0
       /\ row.refunds = <<>>
  <2> HIDE DEF row
  <2> QED BY <1>1a, <1>1b, UnpaidRow
<1>2. /\ row.log \in StockLog /\ row.log.pay = 0 /\ row.earned = 0 /\ row.earnRows = 0
      /\ row.amount \in Nat /\ row.points \in Nat /\ row.spent \in Nat
      /\ row.codes \in CodeRows /\ row.refunds \in Seq(RefundRow)
  BY <1>1b, <1>2a DEF OrderRow
<1>3. /\ seen.payments = 0 /\ seen.amount = row.amount /\ seen.earnRows = 0
      /\ seen.log.pay = 0
  <2>1. seen.payments \in Nat
    BY <1>1b DEF OrderRow
  <2>2. /\ seen.payments <= row.payments
        /\ seen.payments = row.payments => seen.amount = row.amount
    BY <1>1
  <2> HIDE DEF seen, row
  <2>3. seen.payments = 0
    BY <1>1a, <2>1, <2>2
  <2> QED BY <1>1a, <1>1b, <2>2, <2>3, UnpaidRow
<1>4. ~done /\ done \in BOOLEAN
  BY <1>3
<1>5. stock' \in [Skus -> StockRow] /\ StockIdentity'
  BY <1>0, <1>1, <1>4, MovesBalanced
<1>6. /\ used \in Nat /\ used <= m.balance /\ row.amount - used \in Nat
      /\ seen.amount - used = row.amount - used
  <2>1. m.balance \in Nat
    BY <1>1 DEF MemberRow
  <2> QED BY <1>1, <1>2, <1>3, <2>1 DEF Least
<1>7. amount = row.amount - used
  <2>1. CASE used = 0
    BY <1>2, <1>3, <2>1 DEF Put
  <2>2. CASE used # 0
    BY <1>2, <1>3, <1>6, <2>2 DEF Put
  <2> QED BY <2>1, <2>2
<1>8. earned = Earned(amount) /\ earned \in Nat
  BY <1>3, <1>6, <1>7, EarnedNat DEF Grant
<1>9. log \in StockLog /\ log.pay = 1
  <2>1. LogRows(done) = 1
    BY <1>4 DEF LogRows
  <2>2. /\ row.log \in StockLog /\ row.log.pay = 0 /\ done \in BOOLEAN
        /\ "pay" \in {"lock", "pay", "release", "close", "ret"}
    BY <1>2, <1>4
  <2>3. ASSUME NEW l \in StockLog, NEW d \in BOOLEAN
        PROVE  /\ Logged(l, "pay", d) \in StockLog
               /\ Logged(l, "pay", d).pay = l.pay + LogRows(d)
    BY LoggedType
  <2>4. row.log.pay + LogRows(done) = 1
    BY <2>1, <2>2
  <2> HIDE DEF done, row
  <2> QED BY <2>2, <2>3, <2>4
<1>10. points \in Nat /\ earns \in Nat /\ earns = IF earned > 0 THEN 1 ELSE 0
  BY <1>1, <1>2, <1>6, <1>8 DEF Put
<1>11. codes \in CodeRows
  BY <1>1, <1>2 DEF CodeRows
<1>12. n \in MemberRow
  <2>1. /\ mem.balance \in Nat /\ mem.totalEarn \in Nat /\ mem.totalUsed \in Nat
        /\ mem.debt \in Nat /\ mem.logged \in Int
        /\ m.balance \in Nat /\ m.totalEarn \in Nat /\ m.totalUsed \in Nat
    BY <1>1 DEF MemberRow
  <2>2. m.balance - used + earned \in Nat /\ m.totalEarn + earned \in Nat
        /\ m.totalUsed + used \in Nat /\ mem.logged - used + earned \in Int
    BY <1>6, <1>8, <2>1
  <2> HIDE DEF used, earned
  <2> QED BY <2>1, <2>2 DEF MemberRow, Put
<1>13. members' \in [Members -> MemberRow]
  BY <1>0, <1>1, <1>12
<1>14. row.amount - used \in Nat /\ row.spent + used \in Nat /\ row.earned + earned \in Nat
       /\ row.earned + earned = earned /\ row.payments + 1 = 1
  <2>1. /\ row.amount - used \in Nat /\ used \in Nat /\ row.spent \in Nat
        /\ row.earned = 0 /\ earned \in Nat
    BY <1>2, <1>6, <1>8
  <2> HIDE DEF row, used, earned
  <2> QED BY <1>1a, <2>1
<1> HIDE DEF amount, points, earns, log, codes, used, earned, n, m, mem, seen
<1>15. r \in OrderRow
  <2> DEFINE r1 == [row EXCEPT !.status = "PAID", !.amount = amount,
                               !.points = points, !.spent = row.spent + used]
             r2 == [r1 EXCEPT !.earned = row.earned + earned, !.earnRows = earns,
                              !.payments = row.payments + 1]
  <2>1. r = [r2 EXCEPT !.log = log, !.codes = codes]
    OBVIOUS
  <2>2. /\ amount \in Nat /\ points \in Nat /\ row.spent + used \in Nat
        /\ row.earned + earned \in Nat /\ earns \in Nat /\ row.payments + 1 \in Nat
        /\ log \in StockLog /\ codes \in CodeRows /\ row \in OrderRow
    BY <1>1, <1>7, <1>9, <1>10, <1>11, <1>14
  <2> HIDE DEF row
  <2>3. r1 \in OrderRow
    BY <2>2 DEF OrderRow, Statuses
  <2> HIDE DEF r1
  <2>4. r2 \in OrderRow
    BY <2>2, <2>3 DEF OrderRow
  <2> HIDE DEF r2, r
  <2> QED BY <2>1, <2>2, <2>4 DEF OrderRow
<1>16. /\ r.status = "PAID" /\ r.amount = amount /\ r.log = log /\ r.earnRows = earns
       /\ r.refunds = row.refunds
  BY <1>1 DEF OrderRow
<1>17. r.earned = earned /\ r.payments = 1
  BY <1>1, <1>14 DEF OrderRow
<1> HIDE DEF r
<1>18. RowFacts(r)
  <2>1. RefundNumbers(r) = {}
    BY <1>2a, <1>16, EmptySeq DEF RefundNumbers
  <2>2. r.status # "NONE" /\ r.log.pay = r.payments /\ r.payments <= 1
    BY <1>9, <1>16, <1>17
  <2>3. r.earnRows = (IF r.earned > 0 THEN 1 ELSE 0) /\ r.earned = Earned(r.amount)
    BY <1>8, <1>10, <1>16, <1>17
  <2> QED BY <1>17, <2>1, <2>2, <2>3 DEF RowFacts
<1>19. /\ r.status # "NONE" /\ r.payments >= row.payments /\ r.payments # row.payments
  BY <1>0, <1>16, <1>17
<1> HIDE DEF done
<1>20. tx[w].order = o /\ orders[o] = row
  OBVIOUS
<1> HIDE DEF o, row
<1> QED BY <1>0, <1>1, <1>5, <1>13, <1>15, <1>18, <1>19, <1>20, DoneStep
(* A handler that follows a payment leaves the money of the order alone.   *)
LEMMA FulfilKeeps ==
  ASSUME IndInv, NEW w \in Workers, tx[w].op \in AfterPayment, Done(w),
         NEW r \in OrderRow, Write(tx[w].order, r),
         stock' \in [Skus -> StockRow], StockIdentity',
         members' \in [Members -> MemberRow], UNCHANGED overdue,
         r.status # "NONE",
         r.payments = orders[tx[w].order].payments,
         r.log.pay  = orders[tx[w].order].log.pay,
         r.earnRows = orders[tx[w].order].earnRows,
         r.earned   = orders[tx[w].order].earned,
         r.amount   = orders[tx[w].order].amount,
         \A i \in RefundNumbers(r) : r.refunds[i].before \in Fulfilling
  PROVE  IndInv'
<1> DEFINE o == tx[w].order
<1>1. /\ o \in Orders /\ RowFacts(orders[o]) /\ orders[o].payments = 1
      /\ orders[o].status # "NONE"
  BY OpenFacts DEF SnapshotFacts, AfterPayment
<1>2. RowFacts(r)
  BY <1>1, PaidRow
<1>3. /\ r.payments >= orders[o].payments /\ r.amount = orders[o].amount
      /\ tx[w].order = o /\ Write(o, r)
  BY <1>1
<1> HIDE DEF o
<1> QED BY <1>1, <1>2, <1>3, DoneStep

(* One that writes a status and nothing else keeps the invariant.          *)
LEMMA StatusKeeps ==
  ASSUME IndInv, NEW w \in Workers, tx[w].op \in AfterPayment, Done(w),
         NEW status \in Fulfilling,
         Write(tx[w].order, [orders[tx[w].order] EXCEPT !.status = status]),
         UNCHANGED <<stock, members, overdue>>
  PROVE  IndInv'
<1> DEFINE row == orders[tx[w].order]
           r == [row EXCEPT !.status = status]
<1>1. row \in OrderRow /\ RowFacts(row) /\ row.payments = 1
  BY OpenFacts DEF SnapshotFacts, AfterPayment
<1>2. /\ stock' \in [Skus -> StockRow] /\ StockIdentity'
      /\ members' \in [Members -> MemberRow]
  BY OpenFacts, StockKept DEF AfterPayment
<1>3. Write(tx[w].order, r)
  OBVIOUS
<1> HIDE DEF row
<1>4. status \in Statuses /\ status # "NONE"
  BY DEF Fulfilling, Statuses
<1>5. /\ r \in OrderRow /\ r.status = status
      /\ r.payments = row.payments /\ r.log = row.log /\ r.amount = row.amount
      /\ r.earnRows = row.earnRows /\ r.earned = row.earned
      /\ r.refunds = row.refunds
  BY <1>1, <1>4 DEF OrderRow
<1>6. \A i \in RefundNumbers(r) : r.refunds[i].before \in Fulfilling
  BY <1>1, <1>5 DEF RowFacts, RefundNumbers
<1> HIDE DEF r
<1>7. row = orders[tx[w].order]
  BY DEF row
<1> QED BY <1>2, <1>3, <1>4, <1>5, <1>6, <1>7, FulfilKeeps

(* Preparing a paid order keeps the invariant.                             *)
LEMMA StockingKeeps ==
  ASSUME IndInv, NEW w \in Workers, StockingCommit(w)
  PROVE  IndInv'
BY StatusKeeps DEF StockingCommit, AfterPayment, Fulfilling

(* So does handing it over.                                                *)
LEMMA PickupKeeps ==
  ASSUME IndInv, NEW w \in Workers, PickupCommit(w)
  PROVE  IndInv'
BY StatusKeeps DEF PickupCommit, AfterPayment, Fulfilling

(* And the receipt, which grants nothing: the payment did, if anything.    *)
LEMMA ReceiveKeeps ==
  ASSUME IndInv, NEW w \in Workers, ReceiveCommit(w)
  PROVE  IndInv'
<1> DEFINE o      == tx[w].order
           seen   == tx[w].seen
           row    == orders[o]
           earned == Grant(seen, seen.amount)
           m      == tx[w].member
           mem    == members[Member(o)]
<1>1. /\ tx[w].op = "receive" /\ seen \in OrderRow /\ RowFacts(seen)
      /\ seen.payments = 1 /\ row \in OrderRow
      /\ m \in MemberRow /\ mem \in MemberRow
      /\ members \in [Members -> MemberRow] /\ Member(o) \in Members
  BY OpenFacts DEF ReceiveCommit, SnapshotFacts
<1>2. earned = 0
  <2>1. /\ seen.earned = Earned(seen.amount) /\ seen.amount \in Nat
        /\ seen.earnRows = IF seen.earned > 0 THEN 1 ELSE 0
    BY <1>1 DEF RowFacts, OrderRow
  <2>2. Earned(seen.amount) \in Nat
    BY <2>1, EarnedNat
  <2> HIDE DEF seen
  <2>3. CASE seen.earnRows > 0
    BY <2>3 DEF Grant
  <2>4. CASE ~(seen.earnRows > 0)
    BY <2>1, <2>2, <2>4 DEF Grant
  <2> QED BY <2>3, <2>4
<1>3. members' \in [Members -> MemberRow]
  <2> DEFINE n == [balance   |-> Put(mem.balance, m.balance, m.balance - 0 + earned),
                   totalEarn |-> Put(mem.totalEarn, m.totalEarn, m.totalEarn + earned),
                   totalUsed |-> Put(mem.totalUsed, m.totalUsed, m.totalUsed + 0),
                   debt      |-> mem.debt,
                   logged    |-> mem.logged - 0 + earned]
  <2>1. members' = [members EXCEPT ![Member(o)] = n]
    BY DEF ReceiveCommit, MovePoints
  <2>2. /\ mem.balance \in Nat /\ mem.totalEarn \in Nat /\ mem.totalUsed \in Nat
        /\ mem.debt \in Nat /\ mem.logged \in Int
        /\ m.balance \in Nat /\ m.totalEarn \in Nat /\ m.totalUsed \in Nat
    BY <1>1 DEF MemberRow
  <2>3. /\ m.balance - 0 + earned \in Nat /\ m.totalEarn + earned \in Nat
        /\ m.totalUsed + 0 \in Nat /\ mem.logged - 0 + earned \in Int
    BY <1>2, <2>2
  <2> HIDE DEF earned, m, mem
  <2>4. n \in MemberRow
    BY <2>2, <2>3 DEF MemberRow, Put
  <2> QED BY <1>1, <2>1, <2>4
<1>4. Write(o, [row EXCEPT !.status = "COMPLETED"])
  <2>1. row.earned + earned = row.earned
        /\ row.earnRows + (IF earned > 0 THEN 1 ELSE 0) = row.earnRows
    BY <1>1, <1>2 DEF OrderRow
  <2>2. Write(o, [row EXCEPT !.status = "COMPLETED", !.earned = row.earned,
                             !.earnRows = row.earnRows])
    BY <2>1 DEF ReceiveCommit
  <2>3. [row EXCEPT !.status = "COMPLETED", !.earned = row.earned,
                    !.earnRows = row.earnRows] = [row EXCEPT !.status = "COMPLETED"]
    BY <1>1 DEF OrderRow
  <2> QED BY <2>2, <2>3
<1> DEFINE r == [row EXCEPT !.status = "COMPLETED"]
<1> HIDE DEF row
<1>5. /\ r \in OrderRow /\ r.status # "NONE"
      /\ r.payments = row.payments /\ r.log = row.log /\ r.amount = row.amount
      /\ r.earnRows = row.earnRows /\ r.earned = row.earned
      /\ r.refunds = row.refunds
  BY <1>1 DEF OrderRow, Statuses
<1>6. RowFacts(row)
  BY <1>1, OpenFacts DEF row
<1>7. \A i \in RefundNumbers(r) : r.refunds[i].before \in Fulfilling
  BY <1>5, <1>6 DEF RowFacts, RefundNumbers
<1>8. /\ stock' \in [Skus -> StockRow] /\ StockIdentity' /\ Done(w) /\ UNCHANGED overdue
  BY OpenFacts, StockKept, <1>1 DEF ReceiveCommit
<1>9. Write(tx[w].order, r) /\ row = orders[tx[w].order] /\ tx[w].op \in AfterPayment
  BY <1>1, <1>4 DEF row, AfterPayment
<1> HIDE DEF r
<1> QED BY <1>3, <1>5, <1>7, <1>8, <1>9, FulfilKeeps
(* Shipping writes the status of the order and of its batch, all paid.     *)
LEMMA ShipKeeps ==
  ASSUME IndInv, NEW w \in Workers, ShipCommit(w)
  PROVE  IndInv'
<1> DEFINE S == {p \in Orders : p = tx[w].order \/ p \in tx[w].todo}
<1>1. \A p \in S : orders[p].status # "NONE" /\ orders[p].payments = 1
  BY OpenFacts DEF ShipCommit, IndInv, BatchFacts, SnapshotFacts, AfterPayment
<1>2. \A p \in Orders : orders'[p] = IF p \in S THEN [orders[p] EXCEPT !.status = "SHIPPED"]
                                                ELSE orders[p]
  BY DEF ShipCommit
<1>3. /\ UNCHANGED <<stock, members, overdue>> /\ tx' = [tx EXCEPT ![w] = Idle]
      /\ orders' = [p \in Orders |-> orders'[p]]
  BY DEF ShipCommit, Done
<1> HIDE DEF S
<1>4. \A p \in Orders :
        /\ orders'[p] \in OrderRow
        /\ orders'[p].payments = orders[p].payments
        /\ orders'[p].amount = orders[p].amount
        /\ orders'[p].log = orders[p].log
        /\ orders'[p].refunds = orders[p].refunds
        /\ orders'[p].earned = orders[p].earned
        /\ orders'[p].earnRows = orders[p].earnRows
        /\ p \in S => orders'[p].status = "SHIPPED"
  <2> SUFFICES ASSUME NEW p \in Orders
               PROVE  /\ orders'[p] \in OrderRow
                      /\ orders'[p].payments = orders[p].payments
                      /\ orders'[p].amount = orders[p].amount
                      /\ orders'[p].log = orders[p].log
                      /\ orders'[p].refunds = orders[p].refunds
                      /\ orders'[p].earned = orders[p].earned
                      /\ orders'[p].earnRows = orders[p].earnRows
                      /\ p \in S => orders'[p].status = "SHIPPED"
    OBVIOUS
  <2>1. orders[p] \in OrderRow
    BY DEF IndInv, TypeOK
  <2>2. CASE p \in S
    BY <1>2, <2>1, <2>2 DEF OrderRow, Statuses
  <2>3. CASE p \notin S
    BY <1>2, <2>1, <2>3
  <2> QED BY <2>2, <2>3
<1>5. \A p \in Orders : RowFacts(orders'[p])
  <2> SUFFICES ASSUME NEW p \in Orders PROVE RowFacts(orders'[p])
    OBVIOUS
  <2>1. RowFacts(orders[p])
    BY DEF IndInv
  <2>2. CASE p \in S
    <3> DEFINE row == orders[p]
               r == orders'[p]
    <3>1. /\ row.payments = 1 /\ r.status # "NONE" /\ r.payments = row.payments
          /\ r.log.pay = row.log.pay /\ r.earnRows = row.earnRows
          /\ r.earned = row.earned /\ r.amount = row.amount
          /\ RefundNumbers(r) = RefundNumbers(row) /\ r.refunds = row.refunds
      BY <1>1, <1>4, <2>2 DEF RefundNumbers
    <3>2. \A i \in RefundNumbers(r) : r.refunds[i].before \in Fulfilling
      BY <2>1, <3>1 DEF RowFacts
    <3> HIDE DEF row, r
    <3>3. RowFacts(row)
      BY <2>1 DEF row
    <3>4. RowFacts(r)
      BY <3>1, <3>2, <3>3, PaidRow
    <3> QED BY <3>4 DEF r
  <2>3. CASE p \notin S
    BY <1>2, <2>1, <2>3
  <2> QED BY <2>2, <2>3
<1>6. TypeOK' /\ StockIdentity'
  BY <1>3, <1>4, IdleType, StockKept DEF IndInv, TypeOK
<1>7. \A v \in Workers : tx'[v] = IF v = w THEN Idle ELSE tx[v]
  BY <1>3 DEF IndInv, TypeOK
<1>8. \A p \in Orders : orders'[p].status = "NONE" <=> orders[p].status = "NONE"
  BY <1>1, <1>2, <1>4
<1>9. Idle.op = "idle" /\ Idle.order = NoOrder /\ Idle.todo = {}
  BY DEF Idle
<1>10. ASSUME NEW v \in Workers
       PROVE  /\ tx'[v].op = "idle" => tx'[v] = Idle
              /\ tx'[v].order = NoOrder => tx'[v].op \in {"idle", "timeout"}
              /\ tx'[v].order # NoOrder => SnapshotFacts(tx[v])'
              /\ BatchFacts(tx[v])'
  <2>1. CASE v = w
    BY <1>7, <1>9, <2>1 DEF BatchFacts
  <2>2. CASE v # w
    <3>1. tx'[v] = tx[v] /\ tx[v] \in Transaction
      BY <1>7, <2>2 DEF IndInv, TypeOK
    <3>2. BatchFacts(tx[v])'
      BY <1>4, <1>8, <3>1 DEF IndInv, BatchFacts, Transaction
    <3>3. ASSUME tx[v].order # NoOrder PROVE SnapshotFacts(tx[v])'
      <4>1. tx[v].order \in Orders /\ SnapshotFacts(tx[v])
        BY <3>1, <3>3 DEF IndInv, Transaction
      <4> QED BY <1>4, <1>8, <3>1, <4>1 DEF SnapshotFacts
    <3> QED BY <3>1, <3>2, <3>3 DEF IndInv
  <2> QED BY <2>1, <2>2
<1>11. ASSUME NEW u \in Workers, NEW v \in Workers, u # v, tx'[u].op = "create"
       PROVE  tx'[v].order # tx'[u].order
  <2>1. u # w /\ tx'[u] = tx[u]
    BY <1>7, <1>9, <1>11
  <2>2. CASE v = w
    <3>1. tx[u].order # NoOrder /\ tx'[v].order = NoOrder
      BY <1>7, <1>9, <1>11, <2>1, <2>2 DEF IndInv
    <3> QED BY <2>1, <3>1
  <2>3. CASE v # w
    BY <1>7, <1>11, <2>1, <2>3 DEF IndInv
  <2> QED BY <2>2, <2>3
<1> QED BY <1>5, <1>6, <1>10, <1>11 DEF IndInv

(* Requesting a refund keeps the invariant.                                *)
LEMMA RefundKeeps ==
  ASSUME IndInv, NEW w \in Workers, RefundCommit(w)
  PROVE  IndInv'
<1> DEFINE o    == tx[w].order
           seen == tx[w].seen
           row  == orders[o]
           new  == [status |-> "PENDING_AUDIT", before |-> seen.status]
           status  == Put(row.status, seen.status, "REFUNDING")
           refunds == Append(row.refunds, new)
           r == [row EXCEPT !.status = status, !.refunds = refunds]
<1>1. /\ tx[w].op = "refund" /\ seen.status \in Refundable
      /\ row \in OrderRow /\ RowFacts(row) /\ row.status # "NONE"
      /\ Write(tx[w].order, r) /\ Done(w) /\ UNCHANGED <<stock, members, overdue>>
  BY OpenFacts DEF RefundCommit, SnapshotFacts
<1>2. seen.status \in Fulfilling /\ seen.status \in Statuses
  BY <1>1 DEF Refundable, Fulfilling, Statuses
<1>3. new \in RefundRow
  BY <1>2 DEF RefundRow
<1>4. status \in Statuses /\ status # "NONE"
  BY <1>1 DEF Put, Statuses, OrderRow
<1>5. row.refunds \in Seq(RefundRow)
  BY <1>1 DEF OrderRow
<1> HIDE DEF row, new
<1>6. /\ refunds \in Seq(RefundRow) /\ Len(refunds) = Len(row.refunds) + 1
      /\ \A i \in 1..Len(row.refunds) : refunds[i] = row.refunds[i]
      /\ refunds[Len(row.refunds) + 1] = new
  BY <1>3, <1>5, AppendProperties
<1>7. \A i \in 1..Len(refunds) : refunds[i].before \in Fulfilling
  <2>1. \A i \in 1..Len(row.refunds) : row.refunds[i].before \in Fulfilling
    BY <1>1 DEF RowFacts, RefundNumbers
  <2>2. new.before \in Fulfilling
    BY <1>2 DEF new
  <2>3. Len(row.refunds) \in Nat
    BY <1>5, LenProperties
  <2> HIDE DEF refunds
  <2> QED BY <1>6, <2>1, <2>2, <2>3
<1> HIDE DEF status, refunds
<1>8. /\ r \in OrderRow /\ r.status # "NONE" /\ r.refunds = refunds
      /\ r.payments = row.payments /\ r.log = row.log /\ r.amount = row.amount
      /\ r.earnRows = row.earnRows /\ r.earned = row.earned
  BY <1>1, <1>4, <1>6 DEF OrderRow
<1>9. \A i \in RefundNumbers(r) : r.refunds[i].before \in Fulfilling
  BY <1>7, <1>8 DEF RefundNumbers
<1>10. /\ stock' \in [Skus -> StockRow] /\ StockIdentity'
       /\ members' \in [Members -> MemberRow] /\ tx[w].op \in AfterPayment
       /\ row = orders[tx[w].order] /\ UNCHANGED overdue
  BY <1>1, OpenFacts, StockKept DEF AfterPayment, row
<1> HIDE DEF r
<1> QED BY <1>1, <1>8, <1>9, <1>10, FulfilKeeps
(* A verdict replaces a refund row and keeps the status it was requested in.*)
LEMMA AuditedType ==
  ASSUME NEW s \in Seq(RefundRow), NEW i,
         NEW verdict \in {"PENDING_AUDIT", "APPROVED", "REJECTED"}
  PROVE  /\ Audited(s, i, verdict) \in Seq(RefundRow)
         /\ Len(Audited(s, i, verdict)) = Len(s)
         /\ \A j \in 1..Len(s) : Audited(s, i, verdict)[j].before = s[j].before
<1> DEFINE new == [status |-> verdict, before |-> s[i].before]
<1>1. s \in [1..Len(s) -> RefundRow] /\ Len(s) \in Nat
  BY LenProperties
<1>2. CASE i \in 1..Len(s)
  <2>1. new \in RefundRow /\ new.before = s[i].before
    BY <1>1, <1>2 DEF RefundRow
  <2>2. Audited(s, i, verdict) = [s EXCEPT ![i] = new]
    BY <1>1, <1>2 DEF Audited
  <2> HIDE DEF new
  <2> QED BY <2>1, <2>2, RefundUpdate
<1>3. CASE i \notin 1..Len(s)
  <2>1. Audited(s, i, verdict) = s
    BY <1>1, <1>3 DEF Audited
  <2> QED BY <2>1
<1> QED BY <1>2, <1>3

(* Approving a refund keeps the invariant.                                 *)
LEMMA ApproveKeeps ==
  ASSUME IndInv, NEW w \in Workers, ApproveCommit(w)
  PROVE  IndInv'
<1> DEFINE o    == tx[w].order
           seen == tx[w].seen
           row  == orders[o]
           done == seen.log.ret > 0
           status  == Put(row.status, seen.status, "REFUNDED")
           refunds == Audited(row.refunds, tx[w].arg, "APPROVED")
           log     == Logged(row.log, "ret", done)
           codes   == VoidCodes(row.codes)
           r == [row EXCEPT !.status = status, !.refunds = refunds,
                            !.log = log, !.codes = codes]
           m     == tx[w].member
           mem   == members[Member(o)]
           taken == TakenBack(m, seen.earned)
           debt  == NewDebt(m, seen.earned)
           n == [balance   |-> Put(mem.balance, m.balance, m.balance - taken),
                 totalEarn |-> mem.totalEarn, totalUsed |-> mem.totalUsed,
                 debt      |-> Put(mem.debt, m.debt, m.debt + debt),
                 logged    |-> mem.logged - taken]
<1>1. /\ tx[w].op = "approve" /\ Write(tx[w].order, r) /\ Done(w) /\ UNCHANGED overdue
      /\ RefundReturn(done, Sku(o), Qty(o))
      /\ members' = [members EXCEPT ![Member(o)] = n]
  BY DEF ApproveCommit, TakeBack
<1>2. /\ row \in OrderRow /\ RowFacts(row) /\ row.status # "NONE"
      /\ seen \in OrderRow /\ m \in MemberRow /\ mem \in MemberRow
      /\ members \in [Members -> MemberRow] /\ Member(o) \in Members
      /\ Sku(o) \in Skus /\ Qty(o) \in Nat
      /\ stock \in [Skus -> StockRow] /\ StockIdentity
  BY <1>1, OpenFacts DEF SnapshotFacts
<1>3. done \in BOOLEAN
  BY <1>2 DEF OrderRow, StockLog
<1>4. stock' \in [Skus -> StockRow] /\ StockIdentity'
  <2> HIDE DEF done
  <2> QED BY <1>1, <1>2, <1>3, MovesBalanced
<1>5. n \in MemberRow
  <2>1. /\ mem.balance \in Nat /\ mem.totalEarn \in Nat /\ mem.totalUsed \in Nat
        /\ mem.debt \in Nat /\ mem.logged \in Int
        /\ m.balance \in Nat /\ m.debt \in Nat /\ seen.earned \in Nat
    BY <1>2 DEF MemberRow, OrderRow
  <2>2. /\ m.balance - taken \in Nat /\ m.debt + debt \in Nat
        /\ mem.logged - taken \in Int
    BY <2>1 DEF TakenBack, NewDebt, Least
  <2> HIDE DEF taken, debt, m, mem
  <2> QED BY <2>1, <2>2 DEF MemberRow, Put
<1>6. members' \in [Members -> MemberRow]
  BY <1>1, <1>2, <1>5
<1>7. status \in Statuses /\ status # "NONE"
  BY <1>2 DEF Put, Statuses, OrderRow
<1>8. row.refunds \in Seq(RefundRow) /\ row.log \in StockLog /\ row.codes \in CodeRows
  BY <1>2 DEF OrderRow
<1> HIDE DEF row, done
<1>9. /\ refunds \in Seq(RefundRow) /\ Len(refunds) = Len(row.refunds)
      /\ \A i \in 1..Len(row.refunds) : refunds[i].before = row.refunds[i].before
  BY <1>8, AuditedType
<1>10. log \in StockLog /\ log.pay = row.log.pay
  <2>1. ASSUME NEW l \in StockLog, NEW d \in BOOLEAN
        PROVE  Logged(l, "ret", d) \in StockLog /\ Logged(l, "ret", d).pay = l.pay
    BY LoggedType
  <2> QED BY <1>3, <1>8, <2>1
<1>11. codes \in CodeRows
  BY <1>8 DEF VoidCodes, CodeRows
<1> HIDE DEF status, refunds, log, codes, n
<1>12. /\ r \in OrderRow /\ r.status # "NONE" /\ r.refunds = refunds
       /\ r.payments = row.payments /\ r.log = log /\ r.amount = row.amount
       /\ r.earnRows = row.earnRows /\ r.earned = row.earned
  BY <1>2, <1>7, <1>9, <1>10, <1>11 DEF OrderRow
<1>13. \A i \in RefundNumbers(r) : r.refunds[i].before \in Fulfilling
  <2>1. \A i \in 1..Len(row.refunds) : row.refunds[i].before \in Fulfilling
    BY <1>2 DEF RowFacts, RefundNumbers
  <2> QED BY <1>9, <1>12, <2>1 DEF RefundNumbers
<1>14. tx[w].op \in AfterPayment /\ row = orders[tx[w].order]
  BY <1>1 DEF AfterPayment, row
<1> HIDE DEF r
<1> QED BY <1>1, <1>4, <1>6, <1>10, <1>12, <1>13, <1>14, FulfilKeeps

(* Rejecting one keeps it, as the status it restores followed a payment.   *)
LEMMA RejectKeeps ==
  ASSUME IndInv, NEW w \in Workers, RejectCommit(w)
  PROVE  IndInv'
<1> DEFINE o    == tx[w].order
           seen == tx[w].seen
           row  == orders[o]
           i    == tx[w].arg
           before  == seen.refunds[i].before
           status  == IF seen.status = "REFUNDING"
                      THEN Put(row.status, seen.status, before) ELSE row.status
           refunds == Audited(row.refunds, i, "REJECTED")
           r == [row EXCEPT !.status = status, !.refunds = refunds]
<1>1. /\ tx[w].op = "reject" /\ Write(tx[w].order, r) /\ Done(w)
      /\ UNCHANGED <<stock, members, overdue>>
  BY DEF RejectCommit
<1>2. /\ row \in OrderRow /\ RowFacts(row) /\ row.status # "NONE"
      /\ RowFacts(seen) /\ i \in RefundNumbers(seen)
  BY <1>1, OpenFacts DEF SnapshotFacts
<1>3. before \in Fulfilling
  BY <1>2 DEF RowFacts
<1>4. status \in Statuses /\ status # "NONE"
  BY <1>2, <1>3 DEF Put, Statuses, OrderRow, Fulfilling
<1>5. row.refunds \in Seq(RefundRow)
  BY <1>2 DEF OrderRow
<1> HIDE DEF row, i
<1>6. /\ refunds \in Seq(RefundRow) /\ Len(refunds) = Len(row.refunds)
      /\ \A j \in 1..Len(row.refunds) : refunds[j].before = row.refunds[j].before
  BY <1>5, AuditedType
<1> HIDE DEF status, refunds
<1>7. /\ r \in OrderRow /\ r.status # "NONE" /\ r.refunds = refunds
      /\ r.payments = row.payments /\ r.log = row.log /\ r.amount = row.amount
      /\ r.earnRows = row.earnRows /\ r.earned = row.earned
  BY <1>2, <1>4, <1>6 DEF OrderRow
<1>8. \A j \in RefundNumbers(r) : r.refunds[j].before \in Fulfilling
  <2>1. \A j \in 1..Len(row.refunds) : row.refunds[j].before \in Fulfilling
    BY <1>2 DEF RowFacts, RefundNumbers
  <2> QED BY <1>6, <1>7, <2>1 DEF RefundNumbers
<1>9. /\ stock' \in [Skus -> StockRow] /\ StockIdentity'
      /\ members' \in [Members -> MemberRow] /\ tx[w].op \in AfterPayment
      /\ row = orders[tx[w].order] /\ UNCHANGED overdue
  BY <1>1, OpenFacts, StockKept DEF AfterPayment, row
<1> HIDE DEF r
<1> QED BY <1>1, <1>7, <1>8, <1>9, FulfilKeeps

(* Using a code keeps the invariant.                                       *)
LEMMA VerifyKeeps ==
  ASSUME IndInv, NEW w \in Workers, VerifyCommit(w)
  PROVE  IndInv'
<1> DEFINE o   == tx[w].order
           row == orders[o]
           i   == tx[w].arg
           codes == [unused   |-> row.codes.unused \ {i},
                     used     |-> row.codes.used \union {i},
                     refunded |-> row.codes.refunded \ {i}]
           r == [row EXCEPT !.codes = codes]
<1>1. /\ tx[w].op = "verify" /\ Write(o, r) /\ Done(w)
      /\ UNCHANGED <<stock, members, overdue>>
  BY DEF VerifyCommit
<1>2. /\ o \in Orders /\ row \in OrderRow /\ RowFacts(row) /\ row.status # "NONE"
      /\ i \in Nat
  BY <1>1, OpenFacts DEF SnapshotFacts
<1>3. codes \in CodeRows
  BY <1>2 DEF OrderRow, CodeRows
<1> HIDE DEF row, codes
<1>4. /\ r \in OrderRow /\ r.status = row.status /\ r.refunds = row.refunds
      /\ r.payments = row.payments /\ r.log = row.log /\ r.amount = row.amount
      /\ r.earnRows = row.earnRows /\ r.earned = row.earned /\ row.payments \in Nat
  BY <1>2, <1>3 DEF OrderRow
<1> HIDE DEF r
<1>5. RowFacts(r)
  BY <1>2, <1>4 DEF RowFacts, RefundNumbers
<1>6. /\ stock' \in [Skus -> StockRow] /\ StockIdentity'
      /\ members' \in [Members -> MemberRow] /\ UNCHANGED overdue
  BY <1>1, OpenFacts, StockKept
<1>7. /\ orders[o].status # "NONE" /\ r.status # "NONE"
      /\ r.payments >= orders[o].payments /\ r.amount = orders[o].amount
  BY <1>2, <1>4 DEF row
<1>8. tx[w].order = o
  OBVIOUS
<1> HIDE DEF o
<1> QED BY <1>1, <1>2, <1>4, <1>5, <1>6, <1>7, <1>8, DoneStep

-----------------------------------------------------------------------------
(* The specification.                                                      *)

(* No orders, fresh stock and idle sessions satisfy the invariant.         *)
LEMMA InitKeeps == Init => IndInv
<1> SUFFICES ASSUME Init PROVE IndInv
  OBVIOUS
<1> USE DEF Init
<1>1. TypeOK
  BY RowTypes, IdleType, StockAssumption, PointsAssumption
     DEF TypeOK, FreshRow, StockRow, NewMember, MemberRow
<1>2. StockIdentity
  <2>1. ASSUME NEW n \in Nat
        PROVE  Balanced(FreshRow(n)) /\ FreshRow(n).total = n
    BY DEF Balanced, FreshRow
  <2>2. \A s \in Skus : InitialStock[s] \in Nat /\ stock[s] = FreshRow(InitialStock[s])
    BY StockAssumption
  <2> QED BY <2>1, <2>2 DEF StockIdentity
<1>3. \A o \in Orders : RowFacts(orders[o])
  BY RowTypes
<1>4. /\ Idle.op = "idle" /\ Idle.order = NoOrder /\ Idle.todo = {}
      /\ \A w \in Workers : tx[w] = Idle
  BY DEF Idle
<1> QED BY <1>1, <1>2, <1>3, <1>4 DEF IndInv, BatchFacts

(* Every step of the specification keeps it.                               *)
LEMMA NextKeeps == IndInv /\ [Next]_vars => IndInv'
<1> SUFFICES ASSUME IndInv, [Next]_vars PROVE IndInv'
  OBVIOUS
<1>0. overdue \subseteq Orders
  BY DEF IndInv, TypeOK
<1>1. CASE UNCHANGED vars
  BY <1>0, <1>1, NothingWritten DEF vars
<1>2. ASSUME NEW o \in Orders, Expire(o) PROVE IndInv'
  BY <1>0, <1>2, NothingWritten DEF Expire
<1>3. ASSUME NEW w \in Workers, Commit(w) PROVE IndInv'
  BY <1>3, CreateKeeps, PayKeeps, CancelKeeps, CloseKeeps, TimeoutKeeps,
     StockingKeeps, PickupKeeps, ShipKeeps, ReceiveKeeps, RefundKeeps,
     ApproveKeeps, RejectKeeps, VerifyKeeps DEF Commit
<1>4. ASSUME NEW w \in Workers, Fail(w) PROVE IndInv'
  BY <1>0, <1>4, NothingWritten DEF Fail
<1>5. ASSUME NEW w \in Workers, Crash(w) PROVE IndInv'
  BY <1>0, <1>5, NothingWritten DEF Crash
<1>6. ASSUME NEW w \in Workers, NEW o \in Orders, Begin(w, o) PROVE IndInv'
  BY <1>6, BeginKeeps
<1>7. ASSUME NEW w \in Workers, NEW o \in Orders, TimeoutNext(w, o) PROVE IndInv'
  BY <1>7, TimeoutNextKeeps
<1> QED BY <1>1, <1>2, <1>3, <1>4, <1>5, <1>6, <1>7 DEF Next

(* The inductive invariant holds in every state of every behaviour.        *)
THEOREM IndInvHolds == Spec => []IndInv
<1>1. Init => IndInv
  BY InitKeeps
<1>2. IndInv /\ [Next]_vars => IndInv'
  BY NextKeeps
<1> QED BY <1>1, <1>2, PTL DEF Spec

(* The variables keep their types: in particular no handler ever drives a  *)
(* stock counter, a member's balance or a debt below zero.                 *)
THEOREM TypeCorrect == Spec => []TypeOK
<1>1. IndInv => TypeOK
  BY DEF IndInv
<1> QED BY <1>1, IndInvHolds, PTL

(* The stock identity holds, with the total the row was created with,      *)
(* however many handlers race on a SKU.                                    *)
THEOREM StockIdentityHolds == Spec => []StockIdentity
<1>1. IndInv => StockIdentity
  BY DEF IndInv
<1> QED BY <1>1, IndInvHolds, PTL

(* No order is charged twice, nor its lock confirmed twice or without a    *)
(* charge.                                                                 *)
THEOREM ChargedOnceHolds == Spec => []ChargedOnce
<1>1. IndInv => ChargedOnce
  BY DEF IndInv, RowFacts, ChargedOnce
<1> QED BY <1>1, IndInvHolds, PTL

(* Nothing that was not paid is prepared, shipped, completed or refunded.  *)
THEOREM FulfilledPaidHolds == Spec => []FulfilledPaid
<1>1. IndInv => FulfilledPaid
  BY DEF IndInv, RowFacts, FulfilledPaid
<1> QED BY <1>1, IndInvHolds, PTL

(* An order grants the points of the amount finally paid, once, although   *)
(* both its payment and its receipt call grant_order_points.               *)
THEOREM EarnedOnceHolds == Spec => []EarnedOnce
<1>1. ASSUME IndInv, NEW o \in Orders
      PROVE  /\ orders[o].earnRows <= 1
             /\ orders[o].payments = 1 => orders[o].earned = Earned(orders[o].amount)
             /\ orders[o].payments = 0 => orders[o].earned = 0
  <2>1. RowFacts(orders[o])
    BY <1>1 DEF IndInv
  <2> DEFINE row == orders[o]
  <2>2. row.earnRows = 0 \/ row.earnRows = 1
    BY <2>1 DEF RowFacts
  <2> QED BY <2>1, <2>2 DEF RowFacts
<1>2. IndInv => EarnedOnce
  BY <1>1 DEF EarnedOnce
<1> QED BY <1>2, IndInvHolds, PTL

-----------------------------------------------------------------------------
(* Sums over the orders.                                                   *)

(* The n units of one order.                                               *)
LEMMA Units ==
  ASSUME NEW x, NEW n \in Nat
  PROVE  IsFiniteSet({x} \X (1..n)) /\ Cardinality({x} \X (1..n)) = n
<1>1. IsFiniteSet(1..n) /\ Cardinality(1..n) = IF 1 > n THEN 0 ELSE n - 1 + 1
  BY FS_Interval
<1>2. Cardinality(1..n) = n
  BY <1>1
<1>3. IsFiniteSet({x}) /\ Cardinality({x}) = 1
  BY FS_Singleton
<1>4. /\ IsFiniteSet({x} \X (1..n))
      /\ Cardinality({x} \X (1..n)) = Cardinality({x}) * Cardinality(1..n)
  BY <1>1, <1>3, FS_Product
<1>5. Cardinality({x} \X (1..n)) = 1 * n
  BY <1>2, <1>3, <1>4
<1> QED BY <1>4, <1>5

(* A sum is taken of the values over the set, wherever they come from.     *)
LEMMA PairsSame ==
  ASSUME NEW S, NEW n, NEW m, \A y \in S : m[y] = n[y]
  PROVE  Pairs(S, m) = Pairs(S, n)
<1>1. \A y \in S : {y} \X (1..m[y]) = {y} \X (1..n[y])
  OBVIOUS
<1>2. {{y} \X (1..m[y]) : y \in S} = {{y} \X (1..n[y]) : y \in S}
  BY <1>1
<1> QED BY <1>2 DEF Pairs

(* One value apart from the rest of the sum.                               *)
LEMMA TotalSplit ==
  ASSUME NEW S, NEW x \in S, NEW n, n[x] \in Nat, IsFiniteSet(Pairs(S \ {x}, n))
  PROVE  /\ IsFiniteSet(Pairs(S, n))
         /\ Total(S \ {x}, n) \in Nat
         /\ Total(S, n) = Total(S \ {x}, n) + n[x]
<1> DEFINE P == Pairs(S \ {x}, n)
           U == {x} \X (1..n[x])
<1>1. IsFiniteSet(U) /\ Cardinality(U) = n[x]
  BY Units
<1>2. Pairs(S, n) = P \union U
  BY Zenon DEF Pairs
<1>3. P \intersect U = {}
  BY DEF Pairs
<1> HIDE DEF P, U
<1>4. IsFiniteSet(P)
  BY DEF P
<1>5. /\ IsFiniteSet(P \union U)
      /\ Cardinality(P \union U) = Cardinality(P) + Cardinality(U) - Cardinality(P \intersect U)
  BY <1>1, <1>4, FS_Union
<1>6. Cardinality(P \intersect U) = 0 /\ Cardinality(P) \in Nat
  BY <1>3, <1>4, FS_EmptySet, FS_CardinalityType
<1>7. Cardinality(P \union U) = Cardinality(P) + n[x]
  BY <1>1, <1>5, <1>6
<1> QED BY <1>2, <1>5, <1>6, <1>7 DEF Total, P

(* One value of a sum changes.                                             *)
LEMMA TotalChange ==
  ASSUME NEW S, NEW x \in S, NEW n, NEW m, n[x] \in Nat, m[x] \in Nat,
         \A y \in S \ {x} : m[y] = n[y], IsFiniteSet(Pairs(S, n))
  PROVE  /\ IsFiniteSet(Pairs(S, m))
         /\ Total(S, n) \in Nat
         /\ Total(S, m) = Total(S, n) - n[x] + m[x]
<1>1. Pairs(S \ {x}, n) \subseteq Pairs(S, n)
  BY DEF Pairs
<1>2. IsFiniteSet(Pairs(S \ {x}, n))
  BY <1>1, FS_Subset
<1>3. Pairs(S \ {x}, m) = Pairs(S \ {x}, n)
  BY PairsSame
<1>4. IsFiniteSet(Pairs(S \ {x}, m)) /\ Total(S \ {x}, m) = Total(S \ {x}, n)
  BY <1>2, <1>3 DEF Total
<1>5. Total(S \ {x}, n) \in Nat /\ Total(S, n) = Total(S \ {x}, n) + n[x]
  BY <1>2, TotalSplit
<1>6. IsFiniteSet(Pairs(S, m)) /\ Total(S, m) = Total(S \ {x}, m) + m[x]
  BY <1>4, TotalSplit
<1>7. Total(S, n) \in Nat
  BY <1>5
<1> QED BY <1>4, <1>5, <1>6, <1>7

(* A sum of zeroes.                                                        *)
LEMMA TotalNone ==
  ASSUME NEW S, NEW n, \A y \in S : n[y] = 0
  PROVE  IsFiniteSet(Pairs(S, n)) /\ Total(S, n) = 0
<1>1. \A y \in S : 1..n[y] = {}
  OBVIOUS
<1>2. Pairs(S, n) = {}
  BY <1>1 DEF Pairs
<1> QED BY <1>2, FS_EmptySet DEF Total
-----------------------------------------------------------------------------
(* The stock ledger.                                                       *)

(* What a commit adds to the counters of its order's row of stock ...      *)
Shifts(o, locked, sold, available) ==
  \A s \in Skus :
    LET add(n) == IF s = Sku(o) THEN n ELSE 0 IN
    /\ stock'[s].locked = stock[s].locked + add(locked)
    /\ stock'[s].sold = stock[s].sold + add(sold)
    /\ stock'[s].available = stock[s].available + add(available)

(* ... and to its log go together.                                         *)
Entry(o, old, new) ==
  \/ new = old /\ Shifts(o, 0, 0, 0)
  \/ new = [old EXCEPT !.lock = @ + 1] /\ Shifts(o, Qty(o), 0, -Qty(o))
  \/ new = [old EXCEPT !.pay = @ + 1] /\ Shifts(o, -Qty(o), Qty(o), 0)
  \/ new = [old EXCEPT !.release = @ + 1] /\ Shifts(o, -Qty(o), 0, Qty(o))
  \/ new = [old EXCEPT !.close = @ + 1] /\ Shifts(o, -Qty(o), 0, Qty(o))
  \/ new = [old EXCEPT !.ret = @ + 1] /\ Shifts(o, 0, -Qty(o), Qty(o))

(* The counters after each of the four moves.                              *)
LEMMA MoveShifts ==
  ASSUME stock \in [Skus -> StockRow], NEW o \in Orders
  PROVE  /\ UNCHANGED stock => Shifts(o, 0, 0, 0)
         /\ LockStock(Sku(o), Qty(o))
              => stock[Sku(o)].available >= Qty(o) /\ Shifts(o, Qty(o), 0, -Qty(o))
         /\ ConfirmLock(FALSE, Sku(o), Qty(o)) => Shifts(o, -Qty(o), Qty(o), 0)
         /\ ReleaseLock(FALSE, Sku(o), Qty(o)) => Shifts(o, -Qty(o), 0, Qty(o))
         /\ RefundReturn(FALSE, Sku(o), Qty(o)) => Shifts(o, 0, -Qty(o), Qty(o))
<1>1. /\ \A s \in Skus : /\ stock[s] \in StockRow /\ stock[s].locked \in Nat
                         /\ stock[s].sold \in Nat /\ stock[s].available \in Nat
      /\ Sku(o) \in Skus /\ Qty(o) \in Nat
  BY RequestTypes DEF StockRow
<1>2. ASSUME NEW l \in Int, NEW d \in Int, NEW a \in Int, Move(Sku(o), l, d, a)
      PROVE  Shifts(o, l, d, a)
  <2> SUFFICES ASSUME NEW s \in Skus
               PROVE  /\ stock'[s].locked = stock[s].locked + (IF s = Sku(o) THEN l ELSE 0)
                      /\ stock'[s].sold = stock[s].sold + (IF s = Sku(o) THEN d ELSE 0)
                      /\ stock'[s].available
                           = stock[s].available + (IF s = Sku(o) THEN a ELSE 0)
    BY DEF Shifts
  <2>1. CASE s = Sku(o)
    <3>1. stock'[s] = [total |-> stock[s].total, locked |-> stock[s].locked + l,
                       sold |-> stock[s].sold + d, available |-> stock[s].available + a]
      BY <1>2, <2>1 DEF Move
    <3> QED BY <2>1, <3>1
  <2>2. CASE s # Sku(o)
    <3>1. stock'[s] = stock[s]
      BY <1>2, <2>2 DEF Move
    <3> QED BY <1>1, <2>2, <3>1
  <2> QED BY <2>1, <2>2
<1>3. UNCHANGED stock => Shifts(o, 0, 0, 0)
  BY <1>1 DEF Shifts
<1>4. /\ Qty(o) \in Int /\ -Qty(o) \in Int /\ 0 \in Int
  BY <1>1
<1>5. LockStock(Sku(o), Qty(o))
        => stock[Sku(o)].available >= Qty(o) /\ Shifts(o, Qty(o), 0, -Qty(o))
  BY <1>2, <1>4 DEF LockStock
<1>6. ConfirmLock(FALSE, Sku(o), Qty(o)) => Shifts(o, -Qty(o), Qty(o), 0)
  BY <1>2, <1>4 DEF ConfirmLock
<1>7. ReleaseLock(FALSE, Sku(o), Qty(o)) => Shifts(o, -Qty(o), 0, Qty(o))
  BY <1>2, <1>4 DEF ReleaseLock
<1>8. RefundReturn(FALSE, Sku(o), Qty(o)) => Shifts(o, 0, -Qty(o), Qty(o))
  BY <1>2, <1>4 DEF RefundReturn
<1> QED BY <1>3, <1>5, <1>6, <1>7, <1>8

(* A move that was skipped appends no row, one that was made appends one.  *)
LEMMA LoggedMove ==
  ASSUME NEW log \in StockLog, NEW move \in {"lock", "pay", "release", "close", "ret"}
  PROVE  /\ Logged(log, move, TRUE) = log
         /\ Logged(log, move, FALSE) = [log EXCEPT ![move] = @ + 1]
BY DEF Logged, LogRows, StockLog

(* A move and its row.                                                     *)
LEMMA MoveLogged ==
  ASSUME stock \in [Skus -> StockRow], NEW o \in Orders, NEW log \in StockLog,
         NEW done \in BOOLEAN
  PROVE  /\ ConfirmLock(done, Sku(o), Qty(o)) => Entry(o, log, Logged(log, "pay", done))
         /\ ReleaseLock(done, Sku(o), Qty(o))
              => /\ Entry(o, log, Logged(log, "release", done))
                 /\ Entry(o, log, Logged(log, "close", done))
         /\ RefundReturn(done, Sku(o), Qty(o)) => Entry(o, log, Logged(log, "ret", done))
<1>1. CASE done = TRUE
  <2>1. /\ ConfirmLock(TRUE, Sku(o), Qty(o)) => UNCHANGED stock
        /\ ReleaseLock(TRUE, Sku(o), Qty(o)) => UNCHANGED stock
        /\ RefundReturn(TRUE, Sku(o), Qty(o)) => UNCHANGED stock
    BY DEF ConfirmLock, ReleaseLock, RefundReturn
  <2> QED BY <1>1, <2>1, MoveShifts, LoggedMove DEF Entry
<1>2. CASE done = FALSE
  BY <1>2, MoveShifts, LoggedMove DEF Entry
<1> QED BY <1>1, <1>2

(* Every commit of one order appends to its log what it moves.             *)
LEMMA Enters ==
  ASSUME IndInv, NEW w \in Workers, Commit(w), tx[w].op # "ship"
  PROVE  /\ tx[w].order \in Orders
         /\ \E new : /\ Write(tx[w].order, new)
                     /\ new.log \in StockLog
                     /\ Entry(tx[w].order, orders[tx[w].order].log, new.log)
<1> DEFINE o   == tx[w].order
           row == orders[o]
<1>1. tx[w].op \notin {"idle", "timeout"} \/ tx[w].order # NoOrder
  BY DEF Commit, CreateCommit, PayCommit, CancelCommit, CloseCommit, TimeoutCommit,
         StockingCommit, PickupCommit, ShipCommit, ReceiveCommit, RefundCommit,
         ApproveCommit, RejectCommit, VerifyCommit
<1>2. /\ o \in Orders /\ row \in OrderRow /\ row.log \in StockLog
      /\ tx[w].seen \in OrderRow /\ SnapshotFacts(tx[w]) /\ RowFacts(row)
      /\ stock \in [Skus -> StockRow]
  BY <1>1, OpenFacts DEF OrderRow
<1> SUFFICES \E r : Write(o, r) /\ r.log \in StockLog /\ Entry(o, row.log, r.log)
  BY <1>2
<1>3. ASSUME NEW new, Write(o, new), new.log = row.log, UNCHANGED stock
      PROVE  \E r : Write(o, r) /\ r.log \in StockLog /\ Entry(o, row.log, r.log)
  BY <1>2, <1>3, MoveShifts DEF Entry
<1>4. CASE CreateCommit(w)
  <2> DEFINE new == [NoRow EXCEPT !.status = "PENDING_PAY", !.amount = Request[o].cash,
                                  !.points = Request[o].points,
                                  !.log = Logged(NoLog, "lock", FALSE)]
  <2>1. tx[w].op = "create" /\ LockStock(Sku(o), Qty(o)) /\ Write(o, new)
    BY <1>4 DEF CreateCommit
  <2>2. row.log = NoLog /\ NoLog \in StockLog
    BY <1>2, <2>1 DEF SnapshotFacts, RowFacts, NoRow
  <2>3. new.log = Logged(NoLog, "lock", FALSE)
    BY DEF NoRow
  <2>4. /\ Logged(NoLog, "lock", FALSE) = [NoLog EXCEPT !.lock = @ + 1]
        /\ Logged(NoLog, "lock", FALSE) \in StockLog
    BY <2>2, LoggedMove, LoggedType
  <2>5. Shifts(o, Qty(o), 0, -Qty(o))
    BY <1>2, <2>1, MoveShifts
  <2> HIDE DEF new
  <2>6. new.log \in StockLog /\ Entry(o, row.log, new.log)
    BY <2>2, <2>3, <2>4, <2>5 DEF Entry
  <2> QED BY <2>1, <2>6
<1>5. CASE PayCommit(w)
  <2> DEFINE seen   == tx[w].seen
             done   == seen.log.pay > 0
             used   == Least(tx[w].arg, seen.amount)
             earned == Grant(seen, seen.amount - used)
             amount == Put(row.amount, seen.amount, seen.amount - used)
             points == IF used > 0 THEN Put(row.points, seen.points, used) ELSE row.points
             spent  == row.spent + used
             sum    == row.earned + earned
             rows   == row.earnRows + (IF earned > 0 THEN 1 ELSE 0)
             codes  == IF HasCodes(o) /\ CodesOf(seen) = {}
                       THEN [row.codes EXCEPT !.unused = 1..Qty(o)] ELSE row.codes
             log    == Logged(row.log, "pay", done)
             new == [row EXCEPT !.status = "PAID", !.amount = amount, !.points = points,
                                !.spent = spent, !.earned = sum, !.earnRows = rows,
                                !.payments = row.payments + 1, !.log = log, !.codes = codes]
  <2>1. ConfirmLock(done, Sku(o), Qty(o)) /\ Write(o, new)
    BY <1>5 DEF PayCommit
  <2> HIDE DEF used, earned, amount, points, spent, sum, rows, codes
  <2>2. done \in BOOLEAN
    OBVIOUS
  <2>3. Entry(o, row.log, log) /\ log \in StockLog
    BY <1>2, <2>1, <2>2, MoveLogged, LoggedType
  <2> HIDE DEF log, done
  <2>4. new.log = log
    BY <1>2 DEF OrderRow
  <2> HIDE DEF new
  <2> QED BY <2>1, <2>3, <2>4
<1>6. ASSUME NEW move \in {"release", "close"}, NEW done \in BOOLEAN,
             ReleaseLock(done, Sku(o), Qty(o)),
             Write(o, [row EXCEPT !.status = "CLOSED", !.log = Logged(row.log, move, done)])
      PROVE  \E r : Write(o, r) /\ r.log \in StockLog /\ Entry(o, row.log, r.log)
  <2> DEFINE log == Logged(row.log, move, done)
             new == [row EXCEPT !.status = "CLOSED", !.log = log]
  <2>1. Entry(o, row.log, log) /\ log \in StockLog
    BY <1>2, <1>6, MoveLogged, LoggedType
  <2>2. Write(o, new)
    BY <1>6
  <2> HIDE DEF log
  <2>3. new.log = log
    BY <1>2 DEF OrderRow
  <2> HIDE DEF new
  <2> QED BY <2>1, <2>2, <2>3
<1>7. CASE CancelCommit(w)
  <2>1. (tx[w].seen.log.release > 0) \in BOOLEAN
    OBVIOUS
  <2> QED BY <1>6, <1>7, <2>1 DEF CancelCommit
<1>8. CASE CloseCommit(w)
  <2>1. (tx[w].seen.log.close > 0) \in BOOLEAN
    OBVIOUS
  <2> QED BY <1>6, <1>8, <2>1 DEF CloseCommit
<1>9. CASE TimeoutCommit(w)
  <2>1. (tx[w].seen.log.release > 0) \in BOOLEAN
    OBVIOUS
  <2> QED BY <1>6, <1>9, <2>1 DEF TimeoutCommit
<1>10. ASSUME NEW status, Write(o, [row EXCEPT !.status = status]), UNCHANGED stock
       PROVE  \E r : Write(o, r) /\ r.log \in StockLog /\ Entry(o, row.log, r.log)
  <2> DEFINE new == [row EXCEPT !.status = status]
  <2>1. new.log = row.log
    BY <1>2 DEF OrderRow
  <2>2. Write(o, new)
    BY <1>10
  <2> HIDE DEF new
  <2> QED BY <1>3, <1>10, <2>1, <2>2
<1>11. CASE StockingCommit(w)
  BY <1>10, <1>11 DEF StockingCommit
<1>12. CASE PickupCommit(w)
  BY <1>10, <1>12 DEF PickupCommit
<1>13. CASE ReceiveCommit(w)
  <2> DEFINE earned == Grant(tx[w].seen, tx[w].seen.amount)
             sum    == row.earned + earned
             rows   == row.earnRows + (IF earned > 0 THEN 1 ELSE 0)
             new    == [row EXCEPT !.status = "COMPLETED", !.earned = sum, !.earnRows = rows]
  <2>1. Write(o, new) /\ UNCHANGED stock
    BY <1>13 DEF ReceiveCommit
  <2> HIDE DEF earned, sum, rows
  <2>2. new.log = row.log
    BY <1>2 DEF OrderRow
  <2> HIDE DEF new
  <2> QED BY <1>3, <2>1, <2>2
<1>14. ASSUME NEW status, NEW refunds, UNCHANGED stock,
              Write(o, [row EXCEPT !.status = status, !.refunds = refunds])
       PROVE  \E r : Write(o, r) /\ r.log \in StockLog /\ Entry(o, row.log, r.log)
  <2> DEFINE new == [row EXCEPT !.status = status, !.refunds = refunds]
  <2>1. new.log = row.log
    BY <1>2 DEF OrderRow
  <2>2. Write(o, new)
    BY <1>14
  <2> HIDE DEF new
  <2> QED BY <1>3, <1>14, <2>1, <2>2
<1>15. CASE RefundCommit(w)
  BY <1>14, <1>15 DEF RefundCommit
<1>16. CASE ApproveCommit(w)
  <2> DEFINE done    == tx[w].seen.log.ret > 0
             status  == Put(row.status, tx[w].seen.status, "REFUNDED")
             refunds == Audited(row.refunds, tx[w].arg, "APPROVED")
             log     == Logged(row.log, "ret", done)
             codes   == VoidCodes(row.codes)
             new     == [row EXCEPT !.status = status, !.refunds = refunds,
                                    !.log = log, !.codes = codes]
  <2>1. RefundReturn(done, Sku(o), Qty(o)) /\ Write(o, new)
    BY <1>16 DEF ApproveCommit
  <2> HIDE DEF status, refunds, codes
  <2>2. done \in BOOLEAN
    OBVIOUS
  <2>3. Entry(o, row.log, log) /\ log \in StockLog
    BY <1>2, <2>1, <2>2, MoveLogged, LoggedType
  <2> HIDE DEF log, done
  <2>4. new.log = log
    BY <1>2 DEF OrderRow
  <2> HIDE DEF new
  <2> QED BY <2>1, <2>3, <2>4
<1>17. CASE RejectCommit(w)
  BY <1>14, <1>17 DEF RejectCommit
<1>18. CASE VerifyCommit(w)
  <2> DEFINE codes == [unused   |-> row.codes.unused \ {tx[w].arg},
                       used     |-> row.codes.used \union {tx[w].arg},
                       refunded |-> row.codes.refunded \ {tx[w].arg}]
             new == [row EXCEPT !.codes = codes]
  <2>1. Write(o, new) /\ UNCHANGED stock
    BY <1>18 DEF VerifyCommit
  <2> HIDE DEF codes
  <2>2. new.log = row.log
    BY <1>2 DEF OrderRow
  <2> HIDE DEF new
  <2> QED BY <1>3, <2>1, <2>2
<1>19. ~ShipCommit(w)
  BY DEF ShipCommit
<1> QED BY <1>4, <1>5, <1>7, <1>8, <1>9, <1>11, <1>12, <1>13, <1>15, <1>16, <1>17,
           <1>18, <1>19 DEF Commit

Counted(s, rows) == IsFiniteSet(Pairs(OnRow(s), [o \in Orders |-> Qty(o) * rows[o]]))

LedgerInv ==
  /\ IndInv
  /\ \A s \in Skus : /\ Counted(s, Locks) /\ Counted(s, Pays)
                     /\ Counted(s, Releases) /\ Counted(s, Returns)
  /\ StockLedger

(* One order has a row more, or as many as before.                         *)
LEMMA MovedChange ==
  ASSUME NEW o \in Orders, NEW s \in Skus,
         NEW n \in [Orders -> Nat], NEW m \in [Orders -> Nat], NEW k \in {0, 1},
         \A p \in Orders : m[p] = IF p = o THEN n[p] + k ELSE n[p],
         Counted(s, n)
  PROVE  /\ Counted(s, m)
         /\ Moved(s, n) \in Nat
         /\ Moved(s, m) = Moved(s, n) + (IF s = Sku(o) /\ k = 1 THEN Qty(o) ELSE 0)
<1> DEFINE S  == OnRow(s)
           un == [p \in Orders |-> Qty(p) * n[p]]
           um == [p \in Orders |-> Qty(p) * m[p]]
<1>1. /\ IsFiniteSet(Pairs(S, un)) /\ Moved(s, n) = Total(S, un)
      /\ Moved(s, m) = Total(S, um) /\ Counted(s, m) = IsFiniteSet(Pairs(S, um))
  BY DEF Counted, Moved
<1>2. \A p \in S : p \in Orders
  BY DEF OnRow
<1>3. \A p \in S \ {o} : um[p] = un[p]
  BY <1>2
<1>4. /\ Qty(o) \in Nat /\ n[o] \in Nat /\ m[o] = n[o] + k
      /\ un[o] = Qty(o) * n[o] /\ um[o] = Qty(o) * m[o]
  BY RequestTypes
<1>5. Qty(o) * (n[o] + 1) = Qty(o) * n[o] + Qty(o) /\ Qty(o) * n[o] \in Nat
  BY <1>4
<1>6. un[o] \in Nat /\ um[o] \in Nat /\ um[o] = un[o] + (IF k = 1 THEN Qty(o) ELSE 0)
  <2>1. CASE k = 0
    BY <1>4, <1>5, <2>1
  <2>2. CASE k = 1
    BY <1>4, <1>5, <2>2
  <2> QED BY <2>1, <2>2
<1> HIDE DEF un, um
<1>7. CASE s = Sku(o)
  <2>1. o \in S
    BY <1>7 DEF OnRow
  <2> HIDE DEF S
  <2>2. /\ IsFiniteSet(Pairs(S, um)) /\ Total(S, un) \in Nat
        /\ Total(S, um) = Total(S, un) - un[o] + um[o]
    BY <1>1, <1>3, <1>6, <2>1, TotalChange
  <2> QED BY <1>1, <1>4, <1>6, <1>7, <2>2
<1>8. CASE s # Sku(o)
  <2>1. o \notin S
    BY <1>8 DEF OnRow
  <2> HIDE DEF S
  <2>2. Pairs(S, um) = Pairs(S, un)
    BY <1>3, <2>1, PairsSame
  <2>3. Total(S, un) \in Nat
    BY <1>1, FS_CardinalityType DEF Total
  <2>4. Total(S, um) = Total(S, un)
    BY <2>2 DEF Total
  <2> QED BY <1>1, <1>8, <2>2, <2>3, <2>4
<1> QED BY <1>7, <1>8

(* A move and its row keep the ledger.                                     *)
LEMMA EntryKeeps ==
  ASSUME LedgerInv, IndInv', NEW o \in Orders, NEW new, Write(o, new),
         new.log \in StockLog, Entry(o, orders[o].log, new.log)
  PROVE  LedgerInv'
<1> DEFINE old == orders[o].log
           log == new.log
           units(k) == IF k = 1 THEN Qty(o) ELSE 0
<1>1. /\ orders \in [Orders -> OrderRow] /\ \A p \in Orders : orders[p].log \in StockLog
      /\ old \in StockLog
  BY DEF LedgerInv, IndInv, TypeOK, OrderRow
<1>2. \A p \in Orders : orders'[p] = IF p = o THEN new ELSE orders[p]
  BY <1>1 DEF Write
<1>3. \A p \in Orders : /\ orders'[p].log = IF p = o THEN log ELSE orders[p].log
                        /\ orders'[p].log \in StockLog
  BY <1>1, <1>2
<1> HIDE DEF log
<1>4. /\ Locks \in [Orders -> Nat] /\ Locks' \in [Orders -> Nat]
      /\ Pays \in [Orders -> Nat] /\ Pays' \in [Orders -> Nat]
      /\ Releases \in [Orders -> Nat] /\ Releases' \in [Orders -> Nat]
      /\ Returns \in [Orders -> Nat] /\ Returns' \in [Orders -> Nat]
  BY <1>1, <1>3 DEF Locks, Pays, Releases, Returns, StockLog
<1>5. ASSUME NEW kl \in {0, 1}, NEW kp \in {0, 1}, NEW kr \in {0, 1}, NEW kt \in {0, 1},
             log.lock = old.lock + kl, log.pay = old.pay + kp,
             log.release + log.close = old.release + old.close + kr,
             log.ret = old.ret + kt,
             NEW l, NEW d, NEW a, Shifts(o, l, d, a),
             l = units(kl) - units(kp) - units(kr), d = units(kp) - units(kt)
      PROVE  LedgerInv'
  <2> SUFFICES ASSUME NEW s \in Skus
               PROVE  /\ (Counted(s, Locks) /\ Counted(s, Pays)
                            /\ Counted(s, Releases) /\ Counted(s, Returns))'
                      /\ (stock[s].locked
                            = Moved(s, Locks) - Moved(s, Pays) - Moved(s, Releases))'
                      /\ (stock[s].sold = Moved(s, Pays) - Moved(s, Returns))'
    BY DEF LedgerInv, StockLedger
  <2> DEFINE add(n) == IF s = Sku(o) THEN n ELSE 0
  <2>1. /\ Counted(s, Locks) /\ Counted(s, Pays)
        /\ Counted(s, Releases) /\ Counted(s, Returns)
        /\ stock[s].locked = Moved(s, Locks) - Moved(s, Pays) - Moved(s, Releases)
        /\ stock[s].sold = Moved(s, Pays) - Moved(s, Returns)
    BY DEF LedgerInv, StockLedger
  <2>2. ASSUME NEW n \in [Orders -> Nat], NEW m \in [Orders -> Nat], NEW k \in {0, 1},
               \A p \in Orders : m[p] = IF p = o THEN n[p] + k ELSE n[p], Counted(s, n)
        PROVE  /\ Counted(s, m) /\ Moved(s, n) \in Nat
               /\ Moved(s, m) = Moved(s, n) + add(units(k))
    <3>1. /\ Counted(s, m) /\ Moved(s, n) \in Nat
          /\ Moved(s, m) = Moved(s, n) + (IF s = Sku(o) /\ k = 1 THEN Qty(o) ELSE 0)
      BY <2>2, MovedChange
    <3>2. add(units(k)) = IF s = Sku(o) /\ k = 1 THEN Qty(o) ELSE 0
      OBVIOUS
    <3> QED BY <3>1, <3>2
  <2>3. /\ Counted(s, Locks') /\ Moved(s, Locks) \in Nat
        /\ Moved(s, Locks') = Moved(s, Locks) + add(units(kl))
    <3>1. \A p \in Orders : Locks'[p] = IF p = o THEN Locks[p] + kl ELSE Locks[p]
      BY <1>3, <1>5 DEF Locks
    <3>2. Locks \in [Orders -> Nat] /\ Locks' \in [Orders -> Nat] /\ Counted(s, Locks)
      BY <1>4, <2>1
    <3> HIDE DEF add, units
    <3> QED BY <2>2, <3>1, <3>2
  <2>4. /\ Counted(s, Pays') /\ Moved(s, Pays) \in Nat
        /\ Moved(s, Pays') = Moved(s, Pays) + add(units(kp))
    <3>1. \A p \in Orders : Pays'[p] = IF p = o THEN Pays[p] + kp ELSE Pays[p]
      BY <1>3, <1>5 DEF Pays
    <3>2. Pays \in [Orders -> Nat] /\ Pays' \in [Orders -> Nat] /\ Counted(s, Pays)
      BY <1>4, <2>1
    <3> HIDE DEF add, units
    <3> QED BY <2>2, <3>1, <3>2
  <2>5. /\ Counted(s, Releases') /\ Moved(s, Releases) \in Nat
        /\ Moved(s, Releases') = Moved(s, Releases) + add(units(kr))
    <3>1. \A p \in Orders : Releases'[p] = IF p = o THEN Releases[p] + kr ELSE Releases[p]
      BY <1>3, <1>5 DEF Releases
    <3>2. Releases \in [Orders -> Nat] /\ Releases' \in [Orders -> Nat] /\ Counted(s, Releases)
      BY <1>4, <2>1
    <3> HIDE DEF add, units
    <3> QED BY <2>2, <3>1, <3>2
  <2>6. /\ Counted(s, Returns') /\ Moved(s, Returns) \in Nat
        /\ Moved(s, Returns') = Moved(s, Returns) + add(units(kt))
    <3>1. \A p \in Orders : Returns'[p] = IF p = o THEN Returns[p] + kt ELSE Returns[p]
      BY <1>3, <1>5 DEF Returns
    <3>2. Returns \in [Orders -> Nat] /\ Returns' \in [Orders -> Nat] /\ Counted(s, Returns)
      BY <1>4, <2>1
    <3> HIDE DEF add, units
    <3> QED BY <2>2, <3>1, <3>2
  <2>7. (Counted(s, Locks) /\ Counted(s, Pays) /\ Counted(s, Releases) /\ Counted(s, Returns))'
    BY <2>3, <2>4, <2>5, <2>6 DEF Counted
  <2>8. /\ stock'[s].locked = stock[s].locked + add(l)
        /\ stock'[s].sold = stock[s].sold + add(d)
    BY <1>5 DEF Shifts
  <2>9. Qty(o) \in Nat
    BY RequestTypes
  <2>10. /\ add(l) = add(units(kl)) - add(units(kp)) - add(units(kr))
         /\ add(d) = add(units(kp)) - add(units(kt))
    BY <1>5, <2>9
  <2>11. add(units(kl)) \in Nat /\ add(units(kp)) \in Nat
         /\ add(units(kr)) \in Nat /\ add(units(kt)) \in Nat
    BY <2>9
  <2> HIDE DEF add, units
  <2>12. /\ stock'[s].locked = Moved(s, Locks') - Moved(s, Pays') - Moved(s, Releases')
         /\ stock'[s].sold = Moved(s, Pays') - Moved(s, Returns')
    BY <2>1, <2>3, <2>4, <2>5, <2>6, <2>8, <2>10, <2>11
  <2>13. /\ (stock[s].locked = Moved(s, Locks) - Moved(s, Pays) - Moved(s, Releases))'
         /\ (stock[s].sold = Moved(s, Pays) - Moved(s, Returns))'
    BY <2>12 DEF Moved
  <2> QED BY <2>7, <2>13
<1>6. /\ old.lock \in Nat /\ old.pay \in Nat /\ old.release \in Nat /\ old.close \in Nat
      /\ old.ret \in Nat /\ Qty(o) \in Nat
  BY <1>1, RequestTypes DEF StockLog
<1>7. CASE log = old /\ Shifts(o, 0, 0, 0)
  <2>1. 0 = units(0) - units(0) - units(0) /\ 0 = units(0) - units(0)
    OBVIOUS
  <2> HIDE DEF units, old
  <2> QED BY <1>5, <1>6, <1>7, <2>1
<1>8. CASE log = [old EXCEPT !.lock = @ + 1] /\ Shifts(o, Qty(o), 0, -Qty(o))
  <2>1. Qty(o) = units(1) - units(0) - units(0) /\ 0 = units(0) - units(0)
    BY <1>6
  <2>2. /\ log.lock = old.lock + 1 /\ log.pay = old.pay /\ log.release = old.release
        /\ log.close = old.close /\ log.ret = old.ret
    BY <1>1, <1>8 DEF StockLog
  <2> HIDE DEF units, old
  <2> QED BY <1>5, <1>6, <1>8, <2>1, <2>2
<1>9. CASE log = [old EXCEPT !.pay = @ + 1] /\ Shifts(o, -Qty(o), Qty(o), 0)
  <2>1. -Qty(o) = units(0) - units(1) - units(0) /\ Qty(o) = units(1) - units(0)
    BY <1>6
  <2>2. /\ log.lock = old.lock /\ log.pay = old.pay + 1 /\ log.release = old.release
        /\ log.close = old.close /\ log.ret = old.ret
    BY <1>1, <1>9 DEF StockLog
  <2> HIDE DEF units, old
  <2> QED BY <1>5, <1>6, <1>9, <2>1, <2>2
<1>10. CASE /\ \/ log = [old EXCEPT !.release = @ + 1]
               \/ log = [old EXCEPT !.close = @ + 1]
            /\ Shifts(o, -Qty(o), 0, Qty(o))
  <2>1. -Qty(o) = units(0) - units(0) - units(1) /\ 0 = units(0) - units(0)
    BY <1>6
  <2>2. /\ log.lock = old.lock /\ log.pay = old.pay /\ log.ret = old.ret
        /\ \/ log.release = old.release + 1 /\ log.close = old.close
           \/ log.release = old.release /\ log.close = old.close + 1
    BY <1>1, <1>10 DEF StockLog
  <2>3. log.release + log.close = old.release + old.close + 1
    BY <1>6, <2>2
  <2> HIDE DEF units, old
  <2> QED BY <1>5, <1>6, <1>10, <2>1, <2>2, <2>3
<1>11. CASE log = [old EXCEPT !.ret = @ + 1] /\ Shifts(o, 0, -Qty(o), Qty(o))
  <2>1. 0 = units(0) - units(0) - units(0) /\ -Qty(o) = units(0) - units(1)
    BY <1>6
  <2>2. /\ log.lock = old.lock /\ log.pay = old.pay /\ log.release = old.release
        /\ log.close = old.close /\ log.ret = old.ret + 1
    BY <1>1, <1>11 DEF StockLog
  <2> HIDE DEF units, old
  <2> QED BY <1>5, <1>6, <1>11, <2>1, <2>2
<1> QED BY <1>7, <1>8, <1>9, <1>10, <1>11 DEF Entry, log

(* As long as stock and log rows stay, so does the ledger.                 *)
LEMMA LedgerStays ==
  ASSUME LedgerInv, IndInv', UNCHANGED stock,
         \A p \in Orders : orders'[p].log = orders[p].log
  PROVE  LedgerInv'
<1>1. /\ Locks' = Locks /\ Pays' = Pays /\ Releases' = Releases /\ Returns' = Returns
  BY DEF Locks, Pays, Releases, Returns
<1>2. ASSUME NEW s \in Skus
      PROVE  /\ (Counted(s, Locks) /\ Counted(s, Pays)
                   /\ Counted(s, Releases) /\ Counted(s, Returns))'
             /\ (stock[s].locked = Moved(s, Locks) - Moved(s, Pays) - Moved(s, Releases))'
             /\ (stock[s].sold = Moved(s, Pays) - Moved(s, Returns))'
  <2>1. /\ Counted(s, Locks) /\ Counted(s, Pays)
        /\ Counted(s, Releases) /\ Counted(s, Returns)
        /\ stock[s].locked = Moved(s, Locks) - Moved(s, Pays) - Moved(s, Releases)
        /\ stock[s].sold = Moved(s, Pays) - Moved(s, Returns)
    BY DEF LedgerInv, StockLedger
  <2> QED BY <1>1, <2>1 DEF Counted, Moved
<1> QED BY <1>2 DEF LedgerInv, StockLedger

(* Nothing but a commit writes the stock, an order or a member.            *)
LEMMA CommitsWrite ==
  ASSUME [Next]_vars
  PROVE  UNCHANGED <<stock, orders, members>> \/ \E w \in Workers : Commit(w)
<1>1. UNCHANGED vars => UNCHANGED <<stock, orders, members>>
  BY DEF vars
<1>2. ASSUME NEW o \in Orders, Expire(o) PROVE UNCHANGED <<stock, orders, members>>
  BY <1>2 DEF Expire
<1>3. ASSUME NEW w \in Workers, Fail(w) \/ Crash(w) PROVE UNCHANGED <<stock, orders, members>>
  BY <1>3 DEF Fail, Crash
<1>4. ASSUME NEW w \in Workers, NEW o \in Orders, Begin(w, o) \/ TimeoutNext(w, o)
      PROVE  UNCHANGED <<stock, orders, members>>
  BY <1>4 DEF Begin, TimeoutNext, CreateBegin, PayBegin, CancelBegin, CloseBegin,
              TimeoutScan, StockingBegin, PickupBegin, ShipBegin, ReceiveBegin,
              RefundBegin, AuditBegin, VerifyBegin, Open
<1> QED BY <1>1, <1>2, <1>3, <1>4 DEF Next

(* A batch is shipped by no handler but ship_order and batch_ship.         *)
LEMMA ShipsOnly ==
  ASSUME NEW w \in Workers, Commit(w), tx[w].op = "ship"
  PROVE  ShipCommit(w)
BY DEF Commit, CreateCommit, PayCommit, CancelCommit, CloseCommit, TimeoutCommit,
       StockingCommit, PickupCommit, ReceiveCommit, RefundCommit, ApproveCommit,
       RejectCommit, VerifyCommit

LEMMA LedgerKept == LedgerInv /\ [Next]_vars => LedgerInv'
<1> SUFFICES ASSUME LedgerInv, [Next]_vars PROVE LedgerInv'
  OBVIOUS
<1>1. IndInv /\ IndInv'
  BY NextKeeps DEF LedgerInv
<1>2. CASE UNCHANGED <<stock, orders>>
  BY <1>1, <1>2, LedgerStays
<1>3. ASSUME NEW w \in Workers, Commit(w), tx[w].op # "ship" PROVE LedgerInv'
  <2> DEFINE o == tx[w].order
  <2>1. PICK new : /\ Write(o, new) /\ new.log \in StockLog
                   /\ Entry(o, orders[o].log, new.log)
    BY <1>1, <1>3, Enters
  <2>2. o \in Orders
    BY <1>1, <1>3, Enters
  <2> HIDE DEF o
  <2> QED BY <1>1, <2>1, <2>2, EntryKeeps
<1>4. ASSUME NEW w \in Workers, Commit(w), tx[w].op = "ship" PROVE LedgerInv'
  <2>1. ShipCommit(w) /\ \A p \in Orders : orders[p] \in OrderRow
    BY <1>1, <1>4, ShipsOnly DEF IndInv, TypeOK
  <2>2. UNCHANGED stock
    BY <2>1 DEF ShipCommit
  <2>3. \A p \in Orders : orders'[p].log = orders[p].log
    BY <2>1 DEF ShipCommit, OrderRow
  <2> QED BY <1>1, <2>2, <2>3, LedgerStays
<1> QED BY <1>2, <1>3, <1>4, CommitsWrite

LEMMA LedgerInit == Init => LedgerInv
<1> SUFFICES ASSUME Init PROVE LedgerInv
  OBVIOUS
<1>1. \A p \in Orders : Locks[p] = 0 /\ Pays[p] = 0 /\ Releases[p] = 0 /\ Returns[p] = 0
  BY DEF Init, NoRow, NoLog, Locks, Pays, Releases, Returns
<1>2. ASSUME NEW s \in Skus, NEW n, \A p \in Orders : n[p] = 0
      PROVE  Counted(s, n) /\ Moved(s, n) = 0
  <2> DEFINE un == [o \in Orders |-> Qty(o) * n[o]]
  <2>1. \A p \in OnRow(s) : un[p] = 0
    BY <1>2, RequestTypes DEF OnRow
  <2> HIDE DEF un
  <2>2. IsFiniteSet(Pairs(OnRow(s), un)) /\ Total(OnRow(s), un) = 0
    BY <2>1, TotalNone
  <2> QED BY <2>2 DEF Counted, Moved, un
<1>3. \A s \in Skus : stock[s].locked = 0 /\ stock[s].sold = 0
  BY DEF Init, FreshRow
<1>4. ASSUME NEW s \in Skus
      PROVE  /\ Counted(s, Locks) /\ Moved(s, Locks) = 0
             /\ Counted(s, Pays) /\ Moved(s, Pays) = 0
             /\ Counted(s, Releases) /\ Moved(s, Releases) = 0
             /\ Counted(s, Returns) /\ Moved(s, Returns) = 0
  <2>1. Counted(s, Locks) /\ Moved(s, Locks) = 0
    <3>1. \A p \in Orders : Locks[p] = 0
      BY <1>1
    <3> QED BY <1>2, <3>1
  <2>2. Counted(s, Pays) /\ Moved(s, Pays) = 0
    <3>1. \A p \in Orders : Pays[p] = 0
      BY <1>1
    <3> QED BY <1>2, <3>1
  <2>3. Counted(s, Releases) /\ Moved(s, Releases) = 0
    <3>1. \A p \in Orders : Releases[p] = 0
      BY <1>1
    <3> QED BY <1>2, <3>1
  <2>4. Counted(s, Returns) /\ Moved(s, Returns) = 0
    <3>1. \A p \in Orders : Returns[p] = 0
      BY <1>1
    <3> QED BY <1>2, <3>1
  <2> QED BY <2>1, <2>2, <2>3, <2>4
<1>5. StockLedger
  <2> SUFFICES ASSUME NEW s \in Skus
               PROVE  /\ stock[s].locked
                           = Moved(s, Locks) - Moved(s, Pays) - Moved(s, Releases)
                      /\ stock[s].sold = Moved(s, Pays) - Moved(s, Returns)
    BY DEF StockLedger
  <2>1. /\ Moved(s, Locks) = 0 /\ Moved(s, Pays) = 0
        /\ Moved(s, Releases) = 0 /\ Moved(s, Returns) = 0
    BY <1>4
  <2> QED BY <1>3, <2>1
<1> QED BY <1>4, <1>5, InitKeeps DEF LedgerInv

(* The counters of a row of stock are what the log says was moved, however *)
(* the handlers interleave.                                                *)
THEOREM StockLedgerHolds == Spec => []StockLedger
<1>1. LedgerInv => StockLedger
  BY DEF LedgerInv
<1> QED BY <1>1, LedgerInit, LedgerKept, PTL DEF Spec

(* The units that the orders on a row have paid for and no refund has given*)
(* back.                                                                   *)
Bought(s) == Moved(s, [o \in Orders |-> orders[o].payments]) - Moved(s, Returns)

(* However the handlers interleave, no row of stock is oversold: what the  *)
(* orders on it have paid for, less what came back, is never more than the *)
(* units that it started with.                                             *)
THEOREM NeverOversold == Spec => [](\A s \in Skus : Bought(s) <= InitialStock[s])
<1>1. LedgerInv => \A s \in Skus : Bought(s) <= InitialStock[s]
  <2> SUFFICES ASSUME LedgerInv, NEW s \in Skus PROVE Bought(s) <= InitialStock[s]
    OBVIOUS
  <2>1. \A o \in Orders : orders[o].log.pay = orders[o].payments
    BY DEF LedgerInv, IndInv, RowFacts
  <2>2. Pays = [o \in Orders |-> orders[o].payments]
    BY <2>1 DEF Pays
  <2>3. stock[s].sold = Bought(s)
    BY <2>2 DEF LedgerInv, StockLedger, Bought
  <2>4. /\ stock[s] \in StockRow /\ Balanced(stock[s]) /\ stock[s].total = InitialStock[s]
    BY DEF LedgerInv, IndInv, TypeOK, StockIdentity
  <2>5. stock[s].sold <= stock[s].total
    BY <2>4 DEF StockRow, Balanced
  <2> QED BY <2>3, <2>4, <2>5
<1> QED BY <1>1, LedgerInit, LedgerKept, PTL DEF Spec

-----------------------------------------------------------------------------
(* The verification codes.                                                 *)
CodesDue(o, row) ==
  CodesOf(row) = IF row.payments = 1 /\ HasCodes(o) THEN 1..Qty(o) ELSE {}

CodeFacts(o, row) ==
  /\ Approved(row) => row.codes.unused = {}
  /\ CodesDue(o, row)

(* A code that a handler saw is one of the order, whatever happened since, *)
(* and a verification began before the approval of a refund.               *)
CodesInv ==
  /\ IndInv
  /\ \A o \in Orders : CodeFacts(o, orders[o])
  /\ \A w \in Workers :
       tx[w].order # NoOrder
         => /\ CodesDue(tx[w].order, tx[w].seen)
            /\ tx[w].op = "verify" => /\ tx[w].arg \in CodesOf(tx[w].seen)
                                     /\ ~Approved(tx[w].seen)

(* What is known of the codes of the order of an open transaction.         *)
LEMMA CodesOpen ==
  ASSUME CodesInv, NEW w \in Workers,
         tx[w].op \notin {"idle", "timeout"} \/ tx[w].order # NoOrder
  PROVE  /\ tx[w].order \in Orders /\ orders[tx[w].order] \in OrderRow
         /\ orders[tx[w].order].codes \in CodeRows
         /\ CodeFacts(tx[w].order, orders[tx[w].order])
         /\ CodesDue(tx[w].order, tx[w].seen)
         /\ tx[w].op = "verify" => tx[w].arg \in CodesOf(tx[w].seen)
         /\ SnapshotFacts(tx[w]) /\ RowFacts(orders[tx[w].order])
         /\ tx[w].seen \in OrderRow
<1>1. IndInv /\ tx[w].order \in Orders /\ tx[w].order # NoOrder
  BY OpenFacts, NoOrderAssumption DEF CodesInv
<1>2. /\ orders[tx[w].order] \in OrderRow /\ SnapshotFacts(tx[w])
      /\ RowFacts(orders[tx[w].order]) /\ tx[w].seen \in OrderRow
  BY <1>1, OpenFacts, NoOrderAssumption
<1> QED BY <1>1, <1>2 DEF CodesInv, OrderRow

(* A handler that leaves the codes alone and approves nothing.             *)
LEMMA CodesKept ==
  ASSUME NEW o, NEW row, NEW new, CodeFacts(o, row), new.codes = row.codes,
         new.payments = row.payments, Approved(new) => Approved(row)
  PROVE  CodeFacts(o, new)
BY DEF CodeFacts, CodesDue, CodesOf

(* One lemma per handler that writes codes, payments or refunds.           *)
LEMMA CreateCodes ==
  ASSUME CodesInv, NEW w \in Workers, CreateCommit(w)
  PROVE  \E new : Write(tx[w].order, new) /\ CodeFacts(tx[w].order, new)
<1> DEFINE log == Logged(NoLog, "lock", FALSE)
           new == [NoRow EXCEPT !.status = "PENDING_PAY",
                                !.amount = Request[tx[w].order].cash,
                                !.points = Request[tx[w].order].points, !.log = log]
<1>1. Write(tx[w].order, new)
  BY DEF CreateCommit
<1> HIDE DEF log
<1>2. /\ new.codes = [unused |-> {}, used |-> {}, refunded |-> {}]
      /\ new.payments = 0
  BY DEF NoRow
<1>3. new.refunds = <<>>
  BY DEF NoRow
<1> HIDE DEF new
<1>4. RefundNumbers(new) = {}
  BY <1>3, EmptySeq DEF RefundNumbers
<1>5. CodeFacts(tx[w].order, new)
  BY <1>2, <1>4 DEF CodeFacts, CodesDue, CodesOf, Approved
<1> QED BY <1>1, <1>5

LEMMA PayCodes ==
  ASSUME CodesInv, NEW w \in Workers, PayCommit(w)
  PROVE  \E new : Write(tx[w].order, new) /\ CodeFacts(tx[w].order, new)
<1> DEFINE o      == tx[w].order
           seen   == tx[w].seen
           row    == orders[o]
           done   == seen.log.pay > 0
           used   == Least(tx[w].arg, seen.amount)
           earned == Grant(seen, seen.amount - used)
           amount == Put(row.amount, seen.amount, seen.amount - used)
           points == IF used > 0 THEN Put(row.points, seen.points, used) ELSE row.points
           spent  == row.spent + used
           sum    == row.earned + earned
           rows   == row.earnRows + (IF earned > 0 THEN 1 ELSE 0)
           codes  == IF HasCodes(o) /\ CodesOf(seen) = {}
                     THEN [row.codes EXCEPT !.unused = 1..Qty(o)] ELSE row.codes
           log    == Logged(row.log, "pay", done)
           new == [row EXCEPT !.status = "PAID", !.amount = amount, !.points = points,
                              !.spent = spent, !.earned = sum, !.earnRows = rows,
                              !.payments = row.payments + 1, !.log = log, !.codes = codes]
<1>1. Write(o, new) /\ tx[w].op = "pay" /\ row.payments = 0
  BY DEF PayCommit, Uncharged
<1>2. /\ row \in OrderRow /\ row.codes \in CodeRows /\ CodeFacts(o, row)
      /\ CodesDue(o, seen) /\ seen.payments <= row.payments /\ RowFacts(row)
      /\ seen.payments \in Nat
  BY <1>1, CodesOpen DEF SnapshotFacts, OrderRow
<1>3. CodesOf(seen) = {} /\ CodesOf(row) = {}
  BY <1>1, <1>2 DEF CodeFacts, CodesDue
<1>4. row.refunds = <<>>
  <2> HIDE DEF row
  <2> QED BY <1>1, <1>2, UnpaidRow
<1> HIDE DEF done, used, earned, amount, points, spent, sum, rows, log
<1>5. codes.unused \union codes.used \union codes.refunded
        = IF HasCodes(o) THEN 1..Qty(o) ELSE {}
  BY <1>2, <1>3 DEF CodesOf, CodeRows
<1> HIDE DEF codes
<1>6. new.codes = codes /\ new.payments = row.payments + 1 /\ new.refunds = row.refunds
  BY <1>2 DEF OrderRow
<1> HIDE DEF new, row, seen
<1>7. RefundNumbers(new) = {} /\ new.payments = 1
  BY <1>1, <1>4, <1>6, EmptySeq DEF RefundNumbers
<1>8. CodeFacts(o, new)
  BY <1>5, <1>6, <1>7 DEF CodeFacts, CodesDue, CodesOf, Approved
<1> QED BY <1>1, <1>8

LEMMA RefundCodes ==
  ASSUME CodesInv, NEW w \in Workers, RefundCommit(w)
  PROVE  \E new : Write(tx[w].order, new) /\ CodeFacts(tx[w].order, new)
<1> DEFINE o       == tx[w].order
           row     == orders[o]
           entry   == [status |-> "PENDING_AUDIT", before |-> tx[w].seen.status]
           status  == Put(row.status, tx[w].seen.status, "REFUNDING")
           refunds == Append(row.refunds, entry)
           new     == [row EXCEPT !.status = status, !.refunds = refunds]
<1>1. Write(o, new) /\ tx[w].op = "refund"
  BY DEF RefundCommit
<1>2. /\ row \in OrderRow /\ CodeFacts(o, row) /\ row.refunds \in Seq(RefundRow)
      /\ tx[w].seen \in OrderRow
  BY <1>1, CodesOpen DEF OrderRow
<1>3. entry \in RefundRow /\ entry.status = "PENDING_AUDIT"
  BY <1>2 DEF RefundRow, OrderRow
<1> HIDE DEF row, entry, status
<1>4. /\ Len(row.refunds) \in Nat /\ Len(refunds) = Len(row.refunds) + 1
      /\ \A i \in 1..Len(row.refunds) : refunds[i] = row.refunds[i]
      /\ refunds[Len(row.refunds) + 1] = entry
  BY <1>2, <1>3, AppendProperties, LenProperties
<1> HIDE DEF refunds
<1>5. /\ new.refunds = refunds /\ new.codes = row.codes /\ new.payments = row.payments
  BY <1>2 DEF OrderRow
<1> HIDE DEF new
<1>6. Approved(new) => Approved(row)
  <2> SUFFICES ASSUME NEW i \in 1..Len(refunds), refunds[i].status = "APPROVED"
               PROVE  Approved(row)
    BY <1>5 DEF Approved, RefundNumbers
  <2>1. i \in 1..Len(row.refunds)
    BY <1>3, <1>4
  <2> QED BY <1>4, <2>1 DEF Approved, RefundNumbers
<1>7. CodeFacts(o, new)
  BY <1>2, <1>5, <1>6, CodesKept
<1> QED BY <1>1, <1>7

LEMMA ApproveCodes ==
  ASSUME CodesInv, NEW w \in Workers, ApproveCommit(w)
  PROVE  \E new : Write(tx[w].order, new) /\ CodeFacts(tx[w].order, new)
<1> DEFINE o       == tx[w].order
           row     == orders[o]
           status  == Put(row.status, tx[w].seen.status, "REFUNDED")
           refunds == Audited(row.refunds, tx[w].arg, "APPROVED")
           log     == Logged(row.log, "ret", tx[w].seen.log.ret > 0)
           codes   == VoidCodes(row.codes)
           new     == [row EXCEPT !.status = status, !.refunds = refunds,
                                  !.log = log, !.codes = codes]
<1>1. Write(o, new) /\ tx[w].op = "approve"
  BY DEF ApproveCommit
<1>2. row \in OrderRow /\ CodeFacts(o, row)
  BY <1>1, CodesOpen
<1>3. /\ codes.unused = {}
      /\ codes.unused \union codes.used \union codes.refunded = CodesOf(row)
  BY DEF VoidCodes, CodesOf
<1> HIDE DEF row, status, refunds, log, codes
<1>4. new.codes = codes /\ new.payments = row.payments
  BY <1>2 DEF OrderRow
<1> HIDE DEF new
<1>5. CodesOf(new) = CodesOf(row) /\ new.codes.unused = {}
  BY <1>3, <1>4 DEF CodesOf
<1>6. CodeFacts(o, new)
  BY <1>2, <1>4, <1>5 DEF CodeFacts, CodesDue
<1> QED BY <1>1, <1>6

LEMMA RejectCodes ==
  ASSUME CodesInv, NEW w \in Workers, RejectCommit(w)
  PROVE  \E new : Write(tx[w].order, new) /\ CodeFacts(tx[w].order, new)
<1> DEFINE o       == tx[w].order
           seen    == tx[w].seen
           row     == orders[o]
           i       == tx[w].arg
           status  == IF seen.status = "REFUNDING"
                      THEN Put(row.status, seen.status, seen.refunds[i].before)
                      ELSE row.status
           refunds == Audited(row.refunds, i, "REJECTED")
           new     == [row EXCEPT !.status = status, !.refunds = refunds]
<1>1. Write(o, new) /\ tx[w].op = "reject"
  BY DEF RejectCommit
<1>2. row \in OrderRow /\ CodeFacts(o, row) /\ row.refunds \in Seq(RefundRow)
  BY <1>1, CodesOpen DEF OrderRow
<1> HIDE DEF row, status
<1>3. row.refunds \in [1..Len(row.refunds) -> RefundRow] /\ Len(refunds) = Len(row.refunds)
  BY <1>2, LenProperties, AuditedType
<1>4. \A j \in 1..Len(row.refunds) :
        refunds[j].status = IF j = i THEN "REJECTED" ELSE row.refunds[j].status
  BY <1>3 DEF Audited
<1> HIDE DEF refunds
<1>5. /\ new.refunds = refunds /\ new.codes = row.codes /\ new.payments = row.payments
  BY <1>2 DEF OrderRow
<1> HIDE DEF new
<1>6. Approved(new) => Approved(row)
  BY <1>3, <1>4, <1>5 DEF Approved, RefundNumbers
<1>7. CodeFacts(o, new)
  BY <1>2, <1>5, <1>6, CodesKept
<1> QED BY <1>1, <1>7

LEMMA VerifyCodes ==
  ASSUME CodesInv, NEW w \in Workers, VerifyCommit(w)
  PROVE  \E new : Write(tx[w].order, new) /\ CodeFacts(tx[w].order, new)
<1> DEFINE o     == tx[w].order
           row   == orders[o]
           i     == tx[w].arg
           codes == [unused   |-> row.codes.unused \ {i},
                     used     |-> row.codes.used \union {i},
                     refunded |-> row.codes.refunded \ {i}]
           new   == [row EXCEPT !.codes = codes]
<1>1. Write(o, new) /\ tx[w].op = "verify"
  BY DEF VerifyCommit
<1>2. /\ row \in OrderRow /\ CodeFacts(o, row) /\ CodesDue(o, tx[w].seen)
      /\ i \in CodesOf(tx[w].seen) /\ tx[w].seen.payments <= row.payments
      /\ row.payments <= 1 /\ row.payments \in Nat
  BY <1>1, CodesOpen DEF SnapshotFacts, RowFacts, OrderRow
<1>3. i \in CodesOf(row)
  BY <1>2 DEF CodeFacts, CodesDue
<1>4. /\ codes.unused \union codes.used \union codes.refunded = CodesOf(row)
      /\ row.codes.unused = {} => codes.unused = {}
  BY <1>3 DEF CodesOf
<1> HIDE DEF row, codes
<1>5. new.codes = codes /\ new.payments = row.payments /\ new.refunds = row.refunds
  BY <1>2 DEF OrderRow
<1> HIDE DEF new
<1>6. CodesOf(new) = CodesOf(row) /\ (Approved(new) <=> Approved(row))
  BY <1>4, <1>5 DEF CodesOf, Approved, RefundNumbers
<1>7. CodeFacts(o, new)
  BY <1>2, <1>4, <1>5, <1>6 DEF CodeFacts, CodesDue
<1> QED BY <1>1, <1>7

(* The handlers that move the order on or close it.                        *)
LEMMA OtherCodes ==
  ASSUME CodesInv, NEW w \in Workers,
         \/ CancelCommit(w) \/ CloseCommit(w) \/ TimeoutCommit(w)
         \/ StockingCommit(w) \/ PickupCommit(w) \/ ReceiveCommit(w)
  PROVE  \E new : Write(tx[w].order, new) /\ CodeFacts(tx[w].order, new)
<1> DEFINE o   == tx[w].order
           row == orders[o]
<1>1. /\ row \in OrderRow /\ CodeFacts(o, row)
  BY CodesOpen DEF CancelCommit, CloseCommit, TimeoutCommit, StockingCommit,
                   PickupCommit, ReceiveCommit
<1>2. ASSUME NEW new, Write(o, new), new.codes = row.codes,
             new.payments = row.payments, new.refunds = row.refunds
      PROVE  \E r : Write(o, r) /\ CodeFacts(o, r)
  <2>1. Approved(new) => Approved(row)
    BY <1>2 DEF Approved, RefundNumbers
  <2> QED BY <1>1, <1>2, <2>1, CodesKept
<1>3. ASSUME NEW status, NEW log, Write(o, [row EXCEPT !.status = status, !.log = log])
      PROVE  \E r : Write(o, r) /\ CodeFacts(o, r)
  <2> DEFINE new == [row EXCEPT !.status = status, !.log = log]
  <2>1. /\ new.codes = row.codes /\ new.payments = row.payments
        /\ new.refunds = row.refunds
    BY <1>1 DEF OrderRow
  <2>2. Write(o, new)
    BY <1>3
  <2> HIDE DEF new
  <2> QED BY <1>2, <2>1, <2>2
<1>4. ASSUME NEW status, Write(o, [row EXCEPT !.status = status])
      PROVE  \E r : Write(o, r) /\ CodeFacts(o, r)
  <2> DEFINE new == [row EXCEPT !.status = status]
  <2>1. /\ new.codes = row.codes /\ new.payments = row.payments
        /\ new.refunds = row.refunds
    BY <1>1 DEF OrderRow
  <2>2. Write(o, new)
    BY <1>4
  <2> HIDE DEF new
  <2> QED BY <1>2, <2>1, <2>2
<1>5. CASE CancelCommit(w)
  BY <1>3, <1>5 DEF CancelCommit
<1>6. CASE CloseCommit(w)
  BY <1>3, <1>6 DEF CloseCommit
<1>7. CASE TimeoutCommit(w)
  BY <1>3, <1>7 DEF TimeoutCommit
<1>8. CASE StockingCommit(w)
  BY <1>4, <1>8 DEF StockingCommit
<1>9. CASE PickupCommit(w)
  BY <1>4, <1>9 DEF PickupCommit
<1>10. CASE ReceiveCommit(w)
  <2> DEFINE earned == Grant(tx[w].seen, tx[w].seen.amount)
             sum    == row.earned + earned
             rows   == row.earnRows + (IF earned > 0 THEN 1 ELSE 0)
             new    == [row EXCEPT !.status = "COMPLETED", !.earned = sum, !.earnRows = rows]
  <2>1. Write(o, new)
    BY <1>10 DEF ReceiveCommit
  <2> HIDE DEF earned, sum, rows
  <2>2. /\ new.codes = row.codes /\ new.payments = row.payments
        /\ new.refunds = row.refunds
    BY <1>1 DEF OrderRow
  <2> HIDE DEF new
  <2> QED BY <1>2, <2>1, <2>2
<1> QED BY <1>5, <1>6, <1>7, <1>8, <1>9, <1>10

(* Every commit keeps the facts of the codes.                              *)
LEMMA CodesWritten ==
  ASSUME CodesInv, NEW w \in Workers, Commit(w), NEW p \in Orders
  PROVE  CodeFacts(p, orders'[p])
<1>1. orders \in [Orders -> OrderRow] /\ CodeFacts(p, orders[p]) /\ orders[p] \in OrderRow
  BY DEF CodesInv, IndInv, TypeOK
<1>2. CASE tx[w].op = "ship"
  <2>1. ShipCommit(w)
    BY <1>2, ShipsOnly
  <2>2. /\ orders'[p].codes = orders[p].codes /\ orders'[p].payments = orders[p].payments
        /\ orders'[p].refunds = orders[p].refunds
    BY <1>1, <2>1 DEF ShipCommit, OrderRow
  <2>3. Approved(orders'[p]) => Approved(orders[p])
    BY <2>2 DEF Approved, RefundNumbers
  <2> QED BY <1>1, <2>2, <2>3, CodesKept
<1>3. CASE tx[w].op # "ship"
  <2>1. \E new : Write(tx[w].order, new) /\ CodeFacts(tx[w].order, new)
    BY <1>3, CreateCodes, PayCodes, RefundCodes, ApproveCodes, RejectCodes, VerifyCodes,
       OtherCodes DEF Commit, ShipCommit
  <2>2. PICK new : Write(tx[w].order, new) /\ CodeFacts(tx[w].order, new)
    BY <2>1
  <2>3. orders'[p] = IF p = tx[w].order THEN new ELSE orders[p]
    BY <1>1, <2>2 DEF Write
  <2> QED BY <1>1, <2>2, <2>3
<1> QED BY <1>2, <1>3

(* What a step leaves open: nothing new, or a transaction that has just    *)
(* read the row of its order.                                              *)
Reads(t, o) ==
  /\ t.order = o /\ t.seen.codes = orders[o].codes /\ t.seen.payments = orders[o].payments
  /\ t.seen.refunds = orders[o].refunds
  /\ t.op = "verify" => t.arg \in orders[o].codes.unused
  /\ t.op \in WritesPoints => t.member = members[Member(o)]
  /\ t.op = "create" => KeyFree(o)

LEMMA StepOpens ==
  ASSUME IndInv, [Next]_vars
  PROVE  \/ UNCHANGED tx
         \/ \E w \in Workers : \E t :
              /\ tx' = [tx EXCEPT ![w] = t]
              /\ \/ t.order = NoOrder /\ t.op \notin WritesPoints
                 \/ UNCHANGED <<orders, members>> /\ \E o \in Orders : Reads(t, o)
<1> DEFINE Goal == \/ UNCHANGED tx
                   \/ \E w \in Workers : \E t :
                        /\ tx' = [tx EXCEPT ![w] = t]
                        /\ \/ t.order = NoOrder /\ t.op \notin WritesPoints
                           \/ UNCHANGED <<orders, members>> /\ \E o \in Orders : Reads(t, o)
<1>1. UNCHANGED vars => Goal
  BY DEF vars
<1>2. ASSUME NEW o \in Orders, Expire(o) PROVE Goal
  BY <1>2 DEF Expire
<1>3. ASSUME NEW w \in Workers, Done(w) PROVE Goal
  <2>1. Idle.order = NoOrder /\ Idle.op \notin WritesPoints
    BY DEF Idle, WritesPoints
  <2> QED BY <1>3, <2>1 DEF Done
<1>4. ASSUME NEW w \in Workers, Commit(w) PROVE Goal
  <2>1. CASE Done(w)
    BY <1>3, <2>1
  <2>2. CASE ~Done(w)
    <3> DEFINE t == [Idle EXCEPT !.op = "timeout", !.todo = tx[w].todo]
    <3>1. tx' = [tx EXCEPT ![w] = t]
      BY <1>4, <2>2 DEF Commit, CreateCommit, PayCommit, CancelCommit, CloseCommit,
                TimeoutCommit, StockingCommit, PickupCommit, ShipCommit, ReceiveCommit,
                RefundCommit, ApproveCommit, RejectCommit, VerifyCommit
    <3>2. t.order = NoOrder /\ t.op \notin WritesPoints
      BY DEF Idle, WritesPoints
    <3> HIDE DEF t
    <3> QED BY <3>1, <3>2
  <2> QED BY <2>1, <2>2
<1>5. ASSUME NEW w \in Workers, Fail(w) \/ Crash(w) PROVE Goal
  BY <1>3, <1>5 DEF Fail, Crash
<1>6. ASSUME NEW w \in Workers, NEW o \in Orders, NEW op, NEW todo, NEW arg,
             Open(w, op, o, todo, arg), op = "verify" => arg \in orders[o].codes.unused,
             op = "create" => KeyFree(o)
      PROVE  Goal
  <2> DEFINE t == [op |-> op, order |-> o, seen |-> orders[o],
                   member |-> members[Member(o)], todo |-> todo, arg |-> arg]
  <2>1. tx' = [tx EXCEPT ![w] = t] /\ UNCHANGED <<orders, members>>
    BY <1>6 DEF Open
  <2>2. Reads(t, o)
    BY <1>6 DEF Reads
  <2> HIDE DEF t
  <2> QED BY <2>1, <2>2
<1>7. ASSUME NEW w \in Workers, NEW o \in Orders, Begin(w, o) PROVE Goal
  BY <1>6, <1>7 DEF Begin, CreateBegin, PayBegin, CancelBegin, CloseBegin,
              TimeoutScan, StockingBegin, PickupBegin, ShipBegin, ReceiveBegin,
              RefundBegin, AuditBegin, VerifyBegin
<1>8. ASSUME NEW w \in Workers, NEW o \in Orders, TimeoutNext(w, o) PROVE Goal
  <2> DEFINE seen == [orders[o] EXCEPT !.status = "PENDING_PAY"]
             t == [Idle EXCEPT !.op = "timeout", !.order = o, !.seen = seen,
                               !.todo = tx[w].todo \ {o}]
  <2>1. tx' = [tx EXCEPT ![w] = t] /\ UNCHANGED <<orders, members>>
    BY <1>8 DEF TimeoutNext
  <2>2. orders[o] \in OrderRow
    BY DEF IndInv, TypeOK
  <2>3. /\ seen.codes = orders[o].codes /\ seen.payments = orders[o].payments
        /\ seen.refunds = orders[o].refunds
    BY <2>2 DEF OrderRow
  <2> HIDE DEF seen
  <2>4. t.order = o /\ t.seen = seen /\ t.op = "timeout"
    BY DEF Idle
  <2> HIDE DEF t
  <2>5. Reads(t, o)
    BY <2>3, <2>4 DEF Reads, WritesPoints
  <2> QED BY <2>1, <2>5
<1> HIDE DEF Goal
<1>9. Goal
  BY <1>1, <1>2, <1>4, <1>5, <1>7, <1>8 DEF Next
<1> QED BY <1>9 DEF Goal

LEMMA CodesInvKept == CodesInv /\ [Next]_vars => CodesInv'
<1> SUFFICES ASSUME CodesInv, [Next]_vars PROVE CodesInv'
  OBVIOUS
<1>1. IndInv /\ IndInv'
  BY NextKeeps DEF CodesInv
<1>2. \A p \in Orders : CodeFacts(p, orders'[p])
  <2>1. CASE UNCHANGED orders
    BY <2>1 DEF CodesInv
  <2>2. ASSUME NEW w \in Workers, Commit(w) PROVE \A p \in Orders : CodeFacts(p, orders'[p])
    BY <2>2, CodesWritten
  <2> QED BY <2>1, <2>2, CommitsWrite
<1>3. ASSUME NEW v \in Workers, tx'[v].order # NoOrder
      PROVE  /\ CodesDue(tx'[v].order, tx'[v].seen)
             /\ tx'[v].op = "verify" => /\ tx'[v].arg \in CodesOf(tx'[v].seen)
                                       /\ ~Approved(tx'[v].seen)
  <2>1. CASE tx'[v] = tx[v]
    BY <1>3, <2>1 DEF CodesInv
  <2>2. CASE tx'[v] # tx[v]
    <3>1. PICK w \in Workers : \E t :
             /\ tx' = [tx EXCEPT ![w] = t]
             /\ \/ t.order = NoOrder /\ t.op \notin WritesPoints
                \/ UNCHANGED members /\ \E o \in Orders : Reads(t, o)
      BY <1>1, <2>2, StepOpens
    <3>2. PICK t : /\ tx' = [tx EXCEPT ![w] = t]
                   /\ t.order = NoOrder \/ \E o \in Orders : Reads(t, o)
      BY <3>1
    <3>3. tx'[v] = t
      BY <1>1, <2>2, <3>2 DEF IndInv, TypeOK
    <3>4. PICK o \in Orders : Reads(t, o)
      BY <1>3, <3>2, <3>3
    <3>5. CodesDue(o, orders[o]) /\ CodesDue(o, t.seen)
      BY <3>4 DEF CodesInv, CodeFacts, Reads, CodesDue, CodesOf
    <3>6. ASSUME t.op = "verify" PROVE t.arg \in CodesOf(t.seen) /\ ~Approved(t.seen)
      <4>1. t.arg \in orders[o].codes.unused /\ ~Approved(orders[o])
        BY <3>4, <3>6 DEF Reads, CodesInv, CodeFacts
      <4> QED BY <3>4, <4>1 DEF Reads, CodesOf, Approved, RefundNumbers
    <3> QED BY <3>3, <3>4, <3>5, <3>6 DEF Reads
  <2> QED BY <2>1, <2>2
<1> QED BY <1>1, <1>2, <1>3 DEF CodesInv

LEMMA CodesInit == Init => CodesInv
<1> SUFFICES ASSUME Init PROVE CodesInv
  OBVIOUS
<1>1. NoRow.codes = [unused |-> {}, used |-> {}, refunded |-> {}] /\ NoRow.payments = 0
  BY DEF NoRow
<1>2. RefundNumbers(NoRow) = {}
  <2>1. NoRow.refunds = <<>>
    BY DEF NoRow
  <2> QED BY <2>1, EmptySeq DEF RefundNumbers
<1>3. \A o \in Orders : CodeFacts(o, NoRow)
  BY <1>1, <1>2 DEF CodeFacts, CodesDue, CodesOf, Approved
<1>4. Idle.order = NoOrder
  BY DEF Idle
<1> QED BY <1>3, <1>4, InitKeeps DEF Init, CodesInv

(* Once a refund is approved no code of the order is left to use and every *)
(* verification still open began before the approval, however the handlers *)
(* overlap; the paid orders of tickets and vouchers have a code per unit.  *)
THEOREM CodesSettledHolds == Spec => []CodesSettled
<1>1. ASSUME CodesInv, NEW w \in Workers, tx[w].op = "verify" PROVE ~Approved(tx[w].seen)
  <2>1. tx[w].order # NoOrder
    BY <1>1 DEF CodesInv, IndInv
  <2> QED BY <1>1, <2>1 DEF CodesInv
<1>2. CodesInv => CodesSettled
  BY <1>1 DEF CodesInv, CodeFacts, CodesDue, CodesSettled
<1> QED BY <1>2, CodesInit, CodesInvKept, PTL DEF Spec

-----------------------------------------------------------------------------
(* Idempotency keys.  The requests of a member with a key ...              *)
Bearing(m, k) == {o \in Orders : Member(o) = m /\ Request[o].key = k}

Placing(w, G) == tx[w].op = "create" /\ tx[w].order \in G

(* ... of which no two are between the look-up of the key and the commit.  *)
OneByOne(G) == \A v, w \in Workers : v # w => ~(Placing(v, G) /\ Placing(w, G))

PlacedOnce(G) ==
  \A o, p \in G : o # p => orders[o].status = "NONE" \/ orders[p].status = "NONE"

(* What the look-up found still holds when the order is inserted.          *)
KeyInv(m, k) ==
  LET G == Bearing(m, k) IN
  /\ IndInv /\ PlacedOnce(G)
  /\ \A w \in Workers : Placing(w, G) =>
       \A p \in G : p # tx[w].order => orders[p].status = "NONE"

(* Only create_order and points_order_create make an order.                *)
LEMMA OnlyCreates ==
  ASSUME IndInv, NEW w \in Workers, Commit(w), NEW p \in Orders,
         orders[p].status = "NONE", orders'[p].status # "NONE"
  PROVE  tx[w].op = "create" /\ tx[w].order = p
<1>1. CASE tx[w].op = "ship"
  <2>1. ShipCommit(w)
    BY <1>1, ShipsOnly
  <2>2. p = tx[w].order \/ p \in tx[w].todo
    BY <2>1 DEF ShipCommit
  <2>3. tx[w].op # "create" /\ \A q \in tx[w].todo : orders[q].status # "NONE"
    BY <1>1 DEF IndInv, BatchFacts
  <2>4. p = tx[w].order => p # NoOrder
    BY NoOrderAssumption
  <2>5. p = tx[w].order => SnapshotFacts(tx[w])
    BY <2>4 DEF IndInv
  <2> QED BY <2>2, <2>3, <2>5 DEF SnapshotFacts
<1>2. CASE tx[w].op # "ship"
  <2>1. PICK new : Write(tx[w].order, new)
    BY <1>2, Enters
  <2>2. tx[w].order = p
    BY <2>1 DEF Write, IndInv, TypeOK
  <2>3. SnapshotFacts(tx[w])
    BY <2>2, NoOrderAssumption DEF IndInv
  <2> QED BY <2>2, <2>3 DEF SnapshotFacts
<1> QED BY <1>1, <1>2

LEMMA KeyKept ==
  ASSUME NEW m, NEW k
  PROVE  KeyInv(m, k) /\ OneByOne(Bearing(m, k)) /\ [Next]_vars => KeyInv(m, k)'
<1> SUFFICES ASSUME KeyInv(m, k), OneByOne(Bearing(m, k)), [Next]_vars PROVE KeyInv(m, k)'
  OBVIOUS
<1> DEFINE G == Bearing(m, k)
<1>1. IndInv /\ IndInv' /\ tx \in [Workers -> Transaction] /\ G \subseteq Orders
  BY NextKeeps DEF KeyInv, IndInv, TypeOK, Bearing
<1>2. /\ PlacedOnce(G)
      /\ \A w \in Workers : Placing(w, G) =>
           \A p \in G : p # tx[w].order => orders[p].status = "NONE"
  BY DEF KeyInv
<1>3. \A o, p \in G : o # p => SameKey(o, p)
  BY DEF Bearing, SameKey
<1>4. G' = G
  BY DEF Bearing, Member
<1> HIDE DEF G
<1>5. ASSUME NEW p \in G, orders[p].status = "NONE", orders'[p].status # "NONE"
      PROVE  \E w \in Workers : Commit(w) /\ Placing(w, G) /\ tx[w].order = p
  <2>1. PICK w \in Workers : Commit(w)
    BY <1>5, CommitsWrite
  <2> QED BY <1>1, <1>5, <2>1, OnlyCreates DEF Placing
<1>6. PlacedOnce(G)'
  <2> SUFFICES ASSUME NEW o \in G, NEW p \in G, o # p,
                      orders'[o].status # "NONE", orders'[p].status # "NONE"
               PROVE  FALSE
    BY <1>4 DEF PlacedOnce
  <2>1. \A q \in G, r \in G : q # r /\ orders[q].status = "NONE" /\ orders'[q].status # "NONE"
                             => orders[r].status = "NONE"
    BY <1>2, <1>5 DEF Placing
  <2>2. orders[o].status = "NONE" /\ orders[p].status = "NONE"
    BY <1>2, <2>1 DEF PlacedOnce
  <2>3. PICK v \in Workers : Commit(v) /\ tx[v].order = o
    BY <1>5, <2>2
  <2>4. PICK w \in Workers : Commit(w) /\ Placing(w, G) /\ tx[w].order = p
    BY <1>5, <2>2
  <2>5. orders'[o] = orders[o]
    <3>1. PICK new : Write(tx[w].order, new)
      BY <1>1, <2>4, Enters DEF Placing
    <3> QED BY <1>1, <2>4, <3>1 DEF Write, IndInv, TypeOK
  <2> QED BY <2>2, <2>5
<1>7. ASSUME NEW w \in Workers, Placing(w, G)', NEW p \in G, p # tx'[w].order
      PROVE  orders'[p].status = "NONE"
  <2>1. CASE tx'[w] = tx[w]
    <3>1. Placing(w, G) /\ orders[p].status = "NONE"
      BY <1>2, <1>4, <1>7, <2>1 DEF Placing
    <3>2. \A v \in Workers : v # w => ~Placing(v, G)
      BY <3>1 DEF OneByOne, G
    <3> QED BY <1>5, <1>7, <2>1, <3>1, <3>2
  <2>2. CASE tx'[w] # tx[w]
    <3>1. PICK v \in Workers : \E t :
             /\ tx' = [tx EXCEPT ![v] = t]
             /\ \/ t.order = NoOrder /\ t.op \notin WritesPoints
                \/ UNCHANGED <<orders, members>> /\ \E o \in Orders : Reads(t, o)
      BY <1>1, <2>2, StepOpens
    <3>2. PICK t : /\ tx' = [tx EXCEPT ![v] = t]
                   /\ \/ t.order = NoOrder
                      \/ UNCHANGED orders /\ \E o \in Orders : Reads(t, o)
      BY <3>1
    <3>3. tx'[w] = t
      BY <1>1, <2>2, <3>2
    <3>4. t.op = "create" /\ t.order \in G
      BY <1>4, <1>7, <3>3 DEF Placing
    <3>5. t.order # NoOrder
      BY <1>1, <3>4, NoOrderAssumption
    <3>6. UNCHANGED orders /\ KeyFree(t.order)
      BY <3>2, <3>4, <3>5 DEF Reads
    <3> QED BY <1>1, <1>3, <1>7, <3>3, <3>4, <3>6 DEF KeyFree
  <2> QED BY <2>1, <2>2
<1> QED BY <1>1, <1>4, <1>6, <1>7 DEF KeyInv, G

(* The look-up of create_order does make a repeated request harmless, but  *)
(* only as long as no two requests of the member with the key overlap: no  *)
(* unique key stands behind it.  Then at most one of them ever becomes an  *)
(* order, whatever else runs.                                              *)
THEOREM KeyPlacesOne ==
  ASSUME NEW m \in Members, NEW k \in Keys
  PROVE  Spec /\ []OneByOne(Bearing(m, k)) => []PlacedOnce(Bearing(m, k))
<1>1. Init => KeyInv(m, k)
  <2> SUFFICES ASSUME Init PROVE KeyInv(m, k)
    OBVIOUS
  <2>1. /\ \A o \in Orders : orders[o].status = "NONE"
        /\ \A w \in Workers : tx[w].op = "idle"
    BY DEF Init, NoRow, Idle
  <2> QED BY <2>1, InitKeeps DEF KeyInv, PlacedOnce, Placing, Bearing
<1>2. KeyInv(m, k) /\ OneByOne(Bearing(m, k)) /\ [Next]_vars => KeyInv(m, k)'
  BY KeyKept
<1>3. KeyInv(m, k) => PlacedOnce(Bearing(m, k))
  BY DEF KeyInv
<1> QED BY <1>1, <1>2, <1>3, PTL DEF Spec

-----------------------------------------------------------------------------
(* Orders whose handlers do not overlap.  What the refunds, the log and    *)
(* the codes of such an order say agrees with its status ...               *)
Unpaid == {"NONE", "PENDING_PAY", "CLOSED"}

RefundFacts(row) ==
  /\ \A i \in RefundNumbers(row) : row.refunds[i].before \in {"PAID", "SHIPPED"}
  /\ row.status = "REFUNDING"
       <=> \E i \in RefundNumbers(row) : row.refunds[i].status = "PENDING_AUDIT"
  /\ row.status = "REFUNDED"
       <=> \E i \in RefundNumbers(row) : row.refunds[i].status = "APPROVED"
  /\ \A i, j \in RefundNumbers(row) :
       row.refunds[i].status # "REJECTED" /\ row.refunds[j].status # "REJECTED"
         => i = j

ApartFacts(row) ==
  /\ row.status \in Unpaid => row.payments = 0
  /\ row.status # "CLOSED" => row.log.release = 0 /\ row.log.close = 0
  /\ row.log.ret = (IF row.status = "REFUNDED" THEN 1 ELSE 0)
  /\ row.codes.unused \intersect row.codes.refunded = {}
  /\ RefundFacts(row)

(* ... and what a handler saw and checked still holds when it writes.      *)
Checked(t, row) ==
  /\ t.seen.status = row.status /\ t.seen.log = row.log
  /\ t.seen.refunds = row.refunds /\ t.seen.codes = row.codes
  /\ t.seen.earned = row.earned
  /\ t.op \in {"pay", "cancel", "close", "timeout"} => row.status = "PENDING_PAY"
  /\ t.op = "stocking" => row.status = "PAID"
  /\ t.op = "pickup" => row.status = "PENDING_PICKUP"
  /\ t.op = "ship" => Shippable(row)
  /\ t.op = "receive" => row.status = "SHIPPED"
  /\ t.op = "refund" => row.status \in Refundable /\ NoLiveRefund(row)
  /\ t.op \in {"approve", "reject"} => /\ t.arg \in RefundNumbers(row)
                                       /\ row.refunds[t.arg].status = "PENDING_AUDIT"
  /\ t.op = "verify" => t.arg \in row.codes.unused

Waiting(t, row) ==
  /\ t.op = "timeout" => row.status = "PENDING_PAY"
  /\ t.op = "ship" => Shippable(row)

(* The invariant for a set G of such orders, whatever becomes of the rest. *)
ApartInv(G) ==
  /\ IndInv
  /\ AllAlone(G)
  /\ \A o \in G : ApartFacts(orders[o])
  /\ \A w \in Workers :
       /\ tx[w].order \in G => Checked(tx[w], orders[tx[w].order])
       /\ tx[w].order \notin tx[w].todo
       /\ \A p \in tx[w].todo \intersect G : Waiting(tx[w], orders[p])

-----------------------------------------------------------------------------
(* What a handler's writes come to for its order and its row of stock.     *)
Books(o, old, new) ==
  \/ old = new /\ Shifts(o, 0, 0, 0)
  \/ /\ old = "none" /\ new = "held"
     /\ stock[Sku(o)].available >= Qty(o) /\ Shifts(o, Qty(o), 0, -Qty(o))
  \/ old = "held" /\ new = "sold" /\ Shifts(o, -Qty(o), Qty(o), 0)
  \/ old = "held" /\ new = "released" /\ Shifts(o, -Qty(o), 0, Qty(o))
  \/ old = "sold" /\ new = "returned" /\ Shifts(o, 0, -Qty(o), Qty(o))

(* Neither a terminal status, nor a payment, nor a code used or refunded is*)
(* taken back.                                                             *)
Settled(row, new) ==
  /\ row.payments = 1 => new.status # "CLOSED"
  /\ row.status \in {"CLOSED", "REFUNDED"} => new.status = row.status
  /\ row.codes.used \subseteq new.codes.used
  /\ row.codes.refunded \subseteq new.codes.refunded

Follows(o, row, new) ==
  /\ ApartFacts(new)
  /\ Settled(row, new)
  /\ Books(o, PhaseOf(row.status), PhaseOf(new.status))

LEMMA Phases ==
  /\ PhaseOf("NONE") = "none" /\ PhaseOf("PENDING_PAY") = "held"
  /\ PhaseOf("CLOSED") = "released" /\ PhaseOf("REFUNDED") = "returned"
  /\ \A status \in Fulfilling \ {"REFUNDED"} : PhaseOf(status) = "sold"
BY DEF PhaseOf, Fulfilling

-----------------------------------------------------------------------------
(* What is known of a transaction on an order when it writes.              *)
LEMMA ApartOpen ==
  ASSUME NEW G \in SUBSET Orders, ApartInv(G), NEW w \in Workers, tx[w].order \in G
  PROVE  /\ tx[w].order \in Orders /\ Checked(tx[w], orders[tx[w].order])
         /\ orders[tx[w].order] \in OrderRow /\ orders[tx[w].order].codes \in CodeRows
         /\ orders[tx[w].order].log \in StockLog
         /\ RowFacts(orders[tx[w].order]) /\ ApartFacts(orders[tx[w].order])
         /\ stock \in [Skus -> StockRow] /\ orders \in [Orders -> OrderRow]
         /\ SnapshotFacts(tx[w])
<1>1. IndInv /\ tx[w].order \in Orders /\ tx[w].order # NoOrder
  BY OpenFacts, NoOrderAssumption DEF ApartInv
<1>2. /\ orders[tx[w].order] \in OrderRow /\ RowFacts(orders[tx[w].order])
      /\ stock \in [Skus -> StockRow] /\ orders \in [Orders -> OrderRow]
      /\ SnapshotFacts(tx[w])
  BY <1>1 DEF IndInv, TypeOK
<1> QED BY <1>1, <1>2 DEF ApartInv, OrderRow

(* Refunds, and with them the returned units and the codes, are as before  *)
(* when the status moves among those without a live refund.                *)
LEMMA StatusMoves ==
  ASSUME NEW row, NEW new, ApartFacts(row),
         row.status \notin {"REFUNDING", "REFUNDED", "CLOSED"},
         new.status \notin {"REFUNDING", "REFUNDED"},
         new.refunds = row.refunds, new.log.ret = row.log.ret,
         new.status # "CLOSED" => /\ new.log.release = row.log.release
                                  /\ new.log.close = row.log.close,
         new.codes.unused \intersect new.codes.refunded = {},
         new.status \in Unpaid => new.payments = 0
  PROVE  ApartFacts(new)
BY DEF ApartFacts, RefundFacts, RefundNumbers

-----------------------------------------------------------------------------
(* One lemma per handler that writes one order.                            *)
LEMMA CreateFollows ==
  ASSUME NEW G \in SUBSET Orders, ApartInv(G),
         NEW w \in Workers, tx[w].order \in G, CreateCommit(w)
  PROVE  \E new : /\ Write(tx[w].order, new)
                  /\ Follows(tx[w].order, orders[tx[w].order], new)
<1> DEFINE o == tx[w].order
           log == Logged(NoLog, "lock", FALSE)
           new == [NoRow EXCEPT !.status = "PENDING_PAY", !.amount = Request[o].cash,
                                !.points = Request[o].points, !.log = log]
<1>1. /\ tx[w].op = "create" /\ LockStock(Sku(o), Qty(o)) /\ Write(o, new)
  BY DEF CreateCommit
<1>2. /\ o \in Orders /\ stock \in [Skus -> StockRow] /\ orders[o] = NoRow
  BY <1>1, ApartOpen DEF SnapshotFacts, RowFacts
<1>3. log.release = 0 /\ log.close = 0 /\ log.ret = 0
  BY DEF Logged, NoLog
<1> HIDE DEF log
<1>4. /\ new.status = "PENDING_PAY" /\ new.log = log /\ new.codes = NoRow.codes
      /\ NoRow.status = "NONE" /\ NoRow.payments = 0 /\ new.payments = 0
      /\ NoRow.codes = [unused |-> {}, used |-> {}, refunded |-> {}]
  BY DEF NoRow
<1>5. new.refunds = <<>>
  BY DEF NoRow
<1> HIDE DEF new
<1>6. RefundNumbers(new) = {}
  BY <1>5, EmptySeq DEF RefundNumbers
<1>7. ApartFacts(new)
  BY <1>3, <1>4, <1>6 DEF ApartFacts, RefundFacts, Unpaid
<1>8. Books(o, PhaseOf(orders[o].status), PhaseOf(new.status))
  BY <1>1, <1>2, <1>4, MoveShifts, Phases DEF Books
<1> QED BY <1>1, <1>2, <1>4, <1>7, <1>8 DEF Follows, Settled

LEMMA PayFollows ==
  ASSUME NEW G \in SUBSET Orders, ApartInv(G),
         NEW w \in Workers, tx[w].order \in G, PayCommit(w)
  PROVE  \E new : /\ Write(tx[w].order, new)
                  /\ Follows(tx[w].order, orders[tx[w].order], new)
<1> DEFINE o    == tx[w].order
           seen == tx[w].seen
           row  == orders[o]
           done == seen.log.pay > 0
           codes == IF HasCodes(o) /\ CodesOf(seen) = {}
                    THEN [row.codes EXCEPT !.unused = 1..Qty(o)] ELSE row.codes
           log == Logged(row.log, "pay", done)
<1> DEFINE used   == Least(tx[w].arg, seen.amount)
           earned == Grant(seen, seen.amount - used)
           amount == Put(row.amount, seen.amount, seen.amount - used)
           points == IF used > 0 THEN Put(row.points, seen.points, used) ELSE row.points
           spent  == row.spent + used
           sum    == row.earned + earned
           rows   == row.earnRows + (IF earned > 0 THEN 1 ELSE 0)
           new == [row EXCEPT !.status = "PAID", !.amount = amount, !.points = points,
                              !.spent = spent, !.earned = sum, !.earnRows = rows,
                              !.payments = row.payments + 1, !.log = log, !.codes = codes]
<1>1. Write(o, new)
  BY DEF PayCommit
<1> HIDE DEF used, earned, amount, points, spent, sum, rows
<1>2. tx[w].op = "pay" /\ row.payments = 0 /\ ConfirmLock(done, Sku(o), Qty(o))
  BY DEF PayCommit, Uncharged
<1>3. /\ o \in Orders /\ row.status = "PENDING_PAY" /\ row \in OrderRow
      /\ row.codes \in CodeRows /\ row.log \in StockLog
      /\ ApartFacts(row) /\ RowFacts(row) /\ seen.log = row.log /\ seen.codes = row.codes
      /\ stock \in [Skus -> StockRow]
  BY <1>2, ApartOpen DEF Checked
<1>4. done = FALSE
  BY <1>2, <1>3 DEF RowFacts
<1>5. /\ codes.unused \intersect codes.refunded = {}
      /\ codes.used = row.codes.used /\ codes.refunded = row.codes.refunded
  <2>1. row.codes.unused \intersect row.codes.refunded = {}
    BY <1>3 DEF ApartFacts
  <2> QED BY <1>3, <2>1 DEF CodesOf, CodeRows
<1>6. log.release = row.log.release /\ log.close = row.log.close /\ log.ret = row.log.ret
  BY <1>3 DEF Logged, StockLog
<1> HIDE DEF codes, log
<1>7. /\ new.status = "PAID" /\ new.log = log /\ new.codes = codes
      /\ new.refunds = row.refunds
  BY <1>3 DEF OrderRow
<1> HIDE DEF new, row
<1>8. ApartFacts(new)
  BY <1>3, <1>5, <1>6, <1>7, StatusMoves DEF Unpaid
<1>9. Shifts(o, -Qty(o), Qty(o), 0)
  BY <1>2, <1>3, <1>4, MoveShifts
<1>10. Books(o, PhaseOf(row.status), PhaseOf(new.status))
  BY <1>3, <1>7, <1>9, Phases DEF Books, Fulfilling
<1>11. Settled(row, new)
  BY <1>3, <1>5, <1>7 DEF Settled
<1> QED BY <1>1, <1>8, <1>10, <1>11 DEF Follows, new, row

(* The three ways of closing.                                              *)
Closes(w, move) ==
  Write(tx[w].order,
        [orders[tx[w].order] EXCEPT
           !.status = "CLOSED",
           !.log = Logged(orders[tx[w].order].log, move, tx[w].seen.log[move] > 0)])

LEMMA ClosingFollows ==
  ASSUME NEW G \in SUBSET Orders, ApartInv(G),
         NEW w \in Workers, tx[w].order \in G, NEW move \in {"release", "close"},
         tx[w].op \in {"cancel", "close", "timeout"}, tx[w].order # NoOrder,
         ReleaseLock(tx[w].seen.log[move] > 0, Sku(tx[w].order), Qty(tx[w].order)),
         Closes(w, move)
  PROVE  \E new : /\ Write(tx[w].order, new)
                  /\ Follows(tx[w].order, orders[tx[w].order], new)
<1> DEFINE o    == tx[w].order
           row  == orders[o]
           done == tx[w].seen.log[move] > 0
           log == Logged(row.log, move, done)
           new == [row EXCEPT !.status = "CLOSED", !.log = log]
<1>1. /\ o \in Orders /\ row.status = "PENDING_PAY" /\ row \in OrderRow
      /\ row.log \in StockLog /\ ApartFacts(row) /\ tx[w].seen.log = row.log
      /\ stock \in [Skus -> StockRow]
  BY ApartOpen DEF Checked
<1>2. done = FALSE
  BY <1>1 DEF ApartFacts
<1>3. log.ret = row.log.ret
  BY <1>1 DEF Logged, StockLog
<1>4. ReleaseLock(done, Sku(o), Qty(o)) /\ Write(o, new)
  BY DEF Closes
<1> HIDE DEF log, done
<1>5. /\ new.status = "CLOSED" /\ new.log = log /\ new.codes = row.codes
      /\ new.refunds = row.refunds /\ new.payments = 0 /\ row.payments = 0
  BY <1>1 DEF OrderRow, ApartFacts, Unpaid
<1> HIDE DEF new, row
<1>6. ApartFacts(new)
  <2>1. new.codes.unused \intersect new.codes.refunded = {}
    BY <1>1, <1>5 DEF ApartFacts
  <2> QED BY <1>1, <1>3, <1>5, <2>1, StatusMoves
<1>7. Shifts(o, -Qty(o), 0, Qty(o))
  BY <1>1, <1>2, <1>4, MoveShifts
<1>8. Books(o, PhaseOf(row.status), PhaseOf(new.status))
  BY <1>1, <1>5, <1>7, Phases DEF Books
<1>9. Settled(row, new)
  BY <1>1, <1>5 DEF Settled
<1> QED BY <1>4, <1>6, <1>8, <1>9 DEF Follows, row

(* Fulfilment: the status moves among those of a paid order.               *)
LEMMA FulfilFollows ==
  ASSUME stock \in [Skus -> StockRow], NEW o \in Orders, NEW row \in OrderRow,
         ApartFacts(row),
         NEW new,
         row.status \in {"PAID", "PENDING_SHIP", "PENDING_PICKUP", "SHIPPED"},
         new.status \in {"PENDING_SHIP", "PENDING_PICKUP", "SHIPPED", "COMPLETED"},
         new.log = row.log, new.refunds = row.refunds, new.codes = row.codes,
         UNCHANGED stock
  PROVE  Follows(o, row, new)
<1>1. new.codes.unused \intersect new.codes.refunded = {}
  BY DEF ApartFacts
<1>2. ApartFacts(new)
  BY <1>1, StatusMoves DEF Unpaid
<1>3. Shifts(o, 0, 0, 0)
  BY MoveShifts
<1>4. Books(o, PhaseOf(row.status), PhaseOf(new.status))
  BY <1>3, Phases DEF Books, Fulfilling
<1>5. Settled(row, new)
  BY DEF Settled
<1> QED BY <1>2, <1>4, <1>5 DEF Follows

LEMMA StockingFollows ==
  ASSUME NEW G \in SUBSET Orders, ApartInv(G), NEW w \in Workers, tx[w].order \in G,
         StockingCommit(w) \/ PickupCommit(w)
  PROVE  \E new : /\ Write(tx[w].order, new)
                  /\ Follows(tx[w].order, orders[tx[w].order], new)
<1> DEFINE o == tx[w].order
           row == orders[o]
<1>1. tx[w].op \in {"stocking", "pickup"} /\ UNCHANGED stock
  BY DEF StockingCommit, PickupCommit
<1>2. /\ o \in Orders /\ row \in OrderRow /\ ApartFacts(row) /\ Checked(tx[w], row)
      /\ stock \in [Skus -> StockRow]
  BY <1>1, ApartOpen
<1>3. row.status \in {"PAID", "PENDING_SHIP", "PENDING_PICKUP", "SHIPPED"}
  BY <1>1, <1>2 DEF Checked
<1>4. PICK status \in {"PENDING_SHIP", "PENDING_PICKUP", "COMPLETED"} :
        Write(o, [row EXCEPT !.status = status])
  <2>1. CASE StockingCommit(w)
    <3> DEFINE status == IF Request[o].delivery = "PICKUP" THEN "PENDING_PICKUP"
                                                           ELSE "PENDING_SHIP"
    <3>1. Write(o, [row EXCEPT !.status = status])
      BY <2>1 DEF StockingCommit
    <3>2. status \in {"PENDING_SHIP", "PENDING_PICKUP", "COMPLETED"}
      OBVIOUS
    <3> HIDE DEF status
    <3> QED BY <3>1, <3>2
  <2>2. CASE PickupCommit(w)
    BY <2>2 DEF PickupCommit
  <2> QED BY <2>1, <2>2, <1>1
<1> DEFINE new == [row EXCEPT !.status = status]
<1>5. /\ new.status = status /\ new.log = row.log /\ new.refunds = row.refunds
      /\ new.codes = row.codes
  BY <1>2 DEF OrderRow
<1> HIDE DEF new, row, o
<1>6. Follows(o, row, new)
  BY <1>1, <1>2, <1>3, <1>5, FulfilFollows
<1> QED BY <1>4, <1>6 DEF new, row, o

LEMMA ReceiveFollows ==
  ASSUME NEW G \in SUBSET Orders, ApartInv(G),
         NEW w \in Workers, tx[w].order \in G, ReceiveCommit(w)
  PROVE  \E new : /\ Write(tx[w].order, new)
                  /\ Follows(tx[w].order, orders[tx[w].order], new)
<1> DEFINE o    == tx[w].order
           seen == tx[w].seen
           row  == orders[o]
           earned == Grant(seen, seen.amount)
           sum    == row.earned + earned
           rows   == row.earnRows + (IF earned > 0 THEN 1 ELSE 0)
           new == [row EXCEPT !.status = "COMPLETED", !.earned = sum, !.earnRows = rows]
<1>1. tx[w].op = "receive" /\ UNCHANGED stock /\ Write(o, new)
  BY DEF ReceiveCommit
<1>2. /\ o \in Orders /\ row \in OrderRow /\ ApartFacts(row) /\ row.status = "SHIPPED"
      /\ stock \in [Skus -> StockRow]
  BY <1>1, ApartOpen DEF Checked
<1> HIDE DEF earned, sum, rows
<1>3. /\ new.status = "COMPLETED" /\ new.log = row.log /\ new.refunds = row.refunds
      /\ new.codes = row.codes
  BY <1>2 DEF OrderRow
<1> HIDE DEF new, row
<1>4. Follows(o, row, new)
  BY <1>1, <1>2, <1>3, FulfilFollows
<1> QED BY <1>1, <1>4 DEF new, row

LEMMA VerifyFollows ==
  ASSUME NEW G \in SUBSET Orders, ApartInv(G),
         NEW w \in Workers, tx[w].order \in G, VerifyCommit(w)
  PROVE  \E new : /\ Write(tx[w].order, new)
                  /\ Follows(tx[w].order, orders[tx[w].order], new)
<1> DEFINE o    == tx[w].order
           row  == orders[o]
           i    == tx[w].arg
           codes == [unused   |-> row.codes.unused \ {i},
                     used     |-> row.codes.used \union {i},
                     refunded |-> row.codes.refunded \ {i}]
           new == [row EXCEPT !.codes = codes]
<1>1. tx[w].op = "verify" /\ UNCHANGED stock /\ Write(o, new)
  BY DEF VerifyCommit
<1>2. /\ o \in Orders /\ row \in OrderRow /\ ApartFacts(row) /\ i \in row.codes.unused
      /\ stock \in [Skus -> StockRow]
  BY <1>1, ApartOpen DEF Checked
<1>3. /\ codes.unused \intersect codes.refunded = {}
      /\ row.codes.used \subseteq codes.used /\ row.codes.refunded \subseteq codes.refunded
  BY <1>2 DEF ApartFacts
<1> HIDE DEF codes
<1>4. /\ new.status = row.status /\ new.log = row.log /\ new.refunds = row.refunds
      /\ new.codes = codes /\ new.payments = row.payments
  BY <1>2 DEF OrderRow
<1> HIDE DEF new, row
<1>5. ApartFacts(new) /\ Settled(row, new)
  BY <1>2, <1>3, <1>4 DEF ApartFacts, RefundFacts, RefundNumbers, Settled, Unpaid
<1>6. Books(o, PhaseOf(row.status), PhaseOf(new.status))
  BY <1>1, <1>2, <1>4, MoveShifts DEF Books
<1> QED BY <1>1, <1>5, <1>6 DEF Follows, new, row

LEMMA RefundFollows ==
  ASSUME NEW G \in SUBSET Orders, ApartInv(G),
         NEW w \in Workers, tx[w].order \in G, RefundCommit(w)
  PROVE  \E new : /\ Write(tx[w].order, new)
                  /\ Follows(tx[w].order, orders[tx[w].order], new)
<1> DEFINE o    == tx[w].order
           seen == tx[w].seen
           row  == orders[o]
           entry == [status |-> "PENDING_AUDIT", before |-> seen.status]
           status == Put(row.status, seen.status, "REFUNDING")
           refunds == Append(row.refunds, entry)
           new == [row EXCEPT !.status = status, !.refunds = refunds]
<1>1. tx[w].op = "refund" /\ UNCHANGED stock /\ Write(o, new)
  BY DEF RefundCommit
<1>2. /\ o \in Orders /\ row \in OrderRow /\ ApartFacts(row) /\ seen.status = row.status
      /\ row.status \in Refundable /\ NoLiveRefund(row) /\ stock \in [Skus -> StockRow]
  BY <1>1, ApartOpen DEF Checked
<1>3. row.status \in {"PAID", "SHIPPED"}
  BY <1>2 DEF Refundable, NoLiveRefund, ApartFacts, RefundFacts
<1>4. row.refunds \in Seq(RefundRow)
  BY <1>2 DEF OrderRow
<1>5. status = "REFUNDING" /\ entry \in RefundRow
  BY <1>2, <1>3 DEF Put, RefundRow, Statuses
<1>6. entry.status = "PENDING_AUDIT" /\ entry.before = row.status
  BY <1>2
<1> HIDE DEF status, entry, row
<1>7. /\ Len(row.refunds) \in Nat /\ Len(refunds) = Len(row.refunds) + 1
      /\ \A i \in 1..Len(row.refunds) : refunds[i] = row.refunds[i]
      /\ refunds[Len(row.refunds) + 1] = entry
  BY <1>4, <1>5, AppendProperties, LenProperties
<1> HIDE DEF refunds
<1>8. /\ new.status = "REFUNDING" /\ new.refunds = refunds /\ new.log = row.log
      /\ new.codes = row.codes
  BY <1>2, <1>5 DEF OrderRow
<1> HIDE DEF new
<1>9. RefundFacts(new)
  <2> DEFINE last == Len(row.refunds) + 1
  <2>1. /\ \A i \in 1..Len(row.refunds) : /\ refunds[i] = row.refunds[i]
                                          /\ row.refunds[i].status = "REJECTED"
                                          /\ row.refunds[i].before \in {"PAID", "SHIPPED"}
    BY <1>2, <1>7 DEF NoLiveRefund, ApartFacts, RefundFacts, RefundNumbers
  <2>2. /\ refunds[last].status = "PENDING_AUDIT"
        /\ refunds[last].before \in {"PAID", "SHIPPED"}
    BY <1>3, <1>6, <1>7
  <2>3. \A i : i \in 1..Len(refunds) <=> i \in 1..Len(row.refunds) \/ i = last
    BY <1>7
  <2>4. last \in 1..Len(refunds)
    BY <2>3
  <2> HIDE DEF last
  <2>5. \A i \in RefundNumbers(new) : i \in 1..Len(row.refunds) \/ i = last
    BY <1>8, <2>3 DEF RefundNumbers
  <2>6. last \in RefundNumbers(new)
    BY <1>8, <2>4 DEF RefundNumbers
  <2> QED BY <1>8, <2>1, <2>2, <2>5, <2>6 DEF RefundFacts
<1>10. ApartFacts(new)
  BY <1>2, <1>3, <1>8, <1>9 DEF ApartFacts, Unpaid
<1>11. Shifts(o, 0, 0, 0)
  BY <1>1, <1>2, MoveShifts
<1>12. Books(o, PhaseOf(row.status), PhaseOf(new.status))
  BY <1>3, <1>8, <1>11, Phases DEF Books, Fulfilling
<1>13. Settled(row, new)
  BY <1>3, <1>8 DEF Settled
<1> QED BY <1>1, <1>10, <1>12, <1>13 DEF Follows, new, row

(* The one live refund of an order gets its verdict.                       *)
LEMMA AuditedFacts ==
  ASSUME NEW row \in OrderRow, RefundFacts(row), NEW i \in RefundNumbers(row),
         row.refunds[i].status = "PENDING_AUDIT",
         NEW verdict \in {"APPROVED", "REJECTED"},
         NEW new, new.refunds = Audited(row.refunds, i, verdict),
         new.status = IF verdict = "APPROVED" THEN "REFUNDED" ELSE row.refunds[i].before
  PROVE  RefundFacts(new) /\ row.status = "REFUNDING"
<1>1. row.refunds \in Seq(RefundRow) /\ row.refunds \in [1..Len(row.refunds) -> RefundRow]
  BY LenProperties DEF OrderRow
<1>2. new.refunds \in Seq(RefundRow) /\ Len(new.refunds) = Len(row.refunds)
  BY <1>1, AuditedType
<1>3. RefundNumbers(new) = RefundNumbers(row)
  BY <1>2 DEF RefundNumbers
<1>4. \A j \in RefundNumbers(row) :
        /\ new.refunds[j].before = row.refunds[j].before
        /\ new.refunds[j].status = IF j = i THEN verdict ELSE row.refunds[j].status
  BY <1>1 DEF Audited, RefundNumbers
<1>5. row.status = "REFUNDING"
  BY DEF RefundFacts
<1>6. \A j \in RefundNumbers(row) : j # i => row.refunds[j].status = "REJECTED"
  BY DEF RefundFacts
<1>7. row.refunds[i].before \in {"PAID", "SHIPPED"}
  BY DEF RefundFacts
<1>8. \A j \in RefundNumbers(new) : new.refunds[j].before \in {"PAID", "SHIPPED"}
  BY <1>3, <1>4 DEF RefundFacts
<1>9. \A j \in RefundNumbers(new) :
        new.refunds[j].status = IF j = i THEN verdict ELSE "REJECTED"
  BY <1>3, <1>4, <1>6
<1>10. i \in RefundNumbers(new)
  BY <1>3
<1> QED BY <1>5, <1>7, <1>8, <1>9, <1>10 DEF RefundFacts

(* An order whose refund is being audited is still being refunded.         *)
LEMMA PendingRefund ==
  ASSUME NEW row, ApartFacts(row), NEW i \in RefundNumbers(row),
         row.refunds[i].status = "PENDING_AUDIT"
  PROVE  row.status = "REFUNDING" /\ row.refunds[i].before \in {"PAID", "SHIPPED"}
<1>1. RefundFacts(row)
  BY DEF ApartFacts
<1>2. row.status = "REFUNDING"
        <=> \E j \in RefundNumbers(row) : row.refunds[j].status = "PENDING_AUDIT"
  BY <1>1 DEF RefundFacts
<1>3. row.refunds[i].before \in {"PAID", "SHIPPED"}
  BY <1>1 DEF RefundFacts
<1> QED BY <1>2, <1>3

LEMMA AuditOpen ==
  ASSUME NEW t, t.op \in {"approve", "reject"}, NEW row, Checked(t, row), ApartFacts(row)
  PROVE  /\ t.seen.status = row.status /\ t.seen.log = row.log /\ t.seen.refunds = row.refunds
         /\ t.arg \in RefundNumbers(row) /\ row.refunds[t.arg].status = "PENDING_AUDIT"
         /\ row.status = "REFUNDING" /\ row.refunds[t.arg].before \in {"PAID", "SHIPPED"}
<1>1. t.arg \in RefundNumbers(row) /\ row.refunds[t.arg].status = "PENDING_AUDIT"
  BY DEF Checked
<1>2. t.seen.status = row.status /\ t.seen.log = row.log /\ t.seen.refunds = row.refunds
  BY DEF Checked
<1> QED BY <1>1, <1>2, PendingRefund

LEMMA ApproveFollows ==
  ASSUME NEW G \in SUBSET Orders, ApartInv(G),
         NEW w \in Workers, tx[w].order \in G, ApproveCommit(w)
  PROVE  \E new : /\ Write(tx[w].order, new)
                  /\ Follows(tx[w].order, orders[tx[w].order], new)
<1> DEFINE o    == tx[w].order
           seen == tx[w].seen
           row  == orders[o]
           done == seen.log.ret > 0
           status  == Put(row.status, seen.status, "REFUNDED")
           refunds == Audited(row.refunds, tx[w].arg, "APPROVED")
           log     == Logged(row.log, "ret", done)
           codes   == VoidCodes(row.codes)
           new == [row EXCEPT !.status = status, !.refunds = refunds,
                              !.log = log, !.codes = codes]
<1>1. tx[w].op = "approve" /\ RefundReturn(done, Sku(o), Qty(o)) /\ Write(o, new)
  BY DEF ApproveCommit
<1>2. /\ o \in Orders /\ row \in OrderRow /\ row.log \in StockLog /\ ApartFacts(row)
      /\ Checked(tx[w], row) /\ stock \in [Skus -> StockRow]
  BY ApartOpen
<1>3. /\ seen.status = row.status /\ seen.log = row.log /\ row.status = "REFUNDING"
      /\ tx[w].arg \in RefundNumbers(row)
      /\ row.refunds[tx[w].arg].status = "PENDING_AUDIT"
  BY <1>1, <1>2, AuditOpen
<1>4. status = "REFUNDED" /\ done = FALSE
  BY <1>2, <1>3 DEF Put, ApartFacts
<1>5. log.ret = 1 /\ log.release = row.log.release /\ log.close = row.log.close
  <2>1. row.log.ret = 0
    BY <1>2, <1>3 DEF ApartFacts
  <2> QED BY <1>2, <1>4, <2>1 DEF Logged, StockLog, LogRows
<1>6. /\ codes.unused = {} /\ codes.used = row.codes.used
      /\ row.codes.refunded \subseteq codes.refunded
  BY DEF VoidCodes
<1> HIDE DEF status, log, codes, refunds
<1>7. /\ new.status = "REFUNDED" /\ new.refunds = refunds /\ new.log = log
      /\ new.codes = codes
  BY <1>2, <1>4 DEF OrderRow
<1> HIDE DEF new, row, done
<1>8. RefundFacts(new)
  BY <1>2, <1>3, <1>7, AuditedFacts DEF ApartFacts, refunds
<1>9. ApartFacts(new)
  BY <1>2, <1>3, <1>5, <1>6, <1>7, <1>8 DEF ApartFacts, Unpaid
<1>10. Shifts(o, 0, -Qty(o), Qty(o))
  BY <1>1, <1>2, <1>4, MoveShifts
<1>11. Books(o, PhaseOf(row.status), PhaseOf(new.status))
  BY <1>3, <1>7, <1>10, Phases DEF Books, Fulfilling
<1>12. Settled(row, new)
  BY <1>3, <1>6, <1>7 DEF Settled
<1> QED BY <1>1, <1>9, <1>11, <1>12 DEF Follows, new, row

LEMMA RejectFollows ==
  ASSUME NEW G \in SUBSET Orders, ApartInv(G),
         NEW w \in Workers, tx[w].order \in G, RejectCommit(w)
  PROVE  \E new : /\ Write(tx[w].order, new)
                  /\ Follows(tx[w].order, orders[tx[w].order], new)
<1> DEFINE o    == tx[w].order
           seen == tx[w].seen
           row  == orders[o]
           i    == tx[w].arg
           status  == IF seen.status = "REFUNDING"
                      THEN Put(row.status, seen.status, seen.refunds[i].before)
                      ELSE row.status
           refunds == Audited(row.refunds, i, "REJECTED")
           new == [row EXCEPT !.status = status, !.refunds = refunds]
<1>1. tx[w].op = "reject" /\ UNCHANGED stock /\ Write(o, new)
  BY DEF RejectCommit
<1>2. /\ o \in Orders /\ row \in OrderRow /\ ApartFacts(row)
      /\ Checked(tx[w], row) /\ stock \in [Skus -> StockRow]
  BY ApartOpen
<1>3. /\ seen.status = row.status /\ seen.refunds = row.refunds /\ row.status = "REFUNDING"
      /\ i \in RefundNumbers(row) /\ row.refunds[i].status = "PENDING_AUDIT"
      /\ row.refunds[i].before \in {"PAID", "SHIPPED"}
  BY <1>1, <1>2, AuditOpen
<1>4. status = row.refunds[i].before
  BY <1>2, <1>3 DEF Put
<1> HIDE DEF status, refunds, i
<1>5. /\ new.status = status /\ new.refunds = refunds /\ new.log = row.log
      /\ new.codes = row.codes
  BY <1>2 DEF OrderRow
<1> HIDE DEF new, row
<1>6. RefundFacts(new)
  BY <1>2, <1>3, <1>4, <1>5, AuditedFacts DEF ApartFacts, refunds
<1>7. ApartFacts(new)
  BY <1>2, <1>3, <1>4, <1>5, <1>6 DEF ApartFacts, Unpaid
<1>8. Shifts(o, 0, 0, 0)
  BY <1>1, <1>2, MoveShifts
<1>9. Books(o, PhaseOf(row.status), PhaseOf(new.status))
  BY <1>3, <1>4, <1>5, <1>8, Phases DEF Books, Fulfilling
<1>10. Settled(row, new)
  BY <1>3, <1>4, <1>5 DEF Settled
<1> QED BY <1>1, <1>7, <1>9, <1>10 DEF Follows, new, row, i

-----------------------------------------------------------------------------
(* Any step that writes.                                                   *)

(* Every commit but that of a batch to ship writes one order.              *)
LEMMA OneFollows ==
  ASSUME NEW G \in SUBSET Orders, ApartInv(G),
         NEW w \in Workers, tx[w].order \in G, Commit(w), tx[w].op # "ship"
  PROVE  \E new : /\ Write(tx[w].order, new)
                  /\ Follows(tx[w].order, orders[tx[w].order], new)
<1> DEFINE Goal == \E new : /\ Write(tx[w].order, new)
                            /\ Follows(tx[w].order, orders[tx[w].order], new)
<1> SUFFICES Goal
  OBVIOUS
<1> HIDE DEF Goal
<1>1. CASE CreateCommit(w)
  BY <1>1, CreateFollows DEF Goal
<1>2. CASE PayCommit(w)
  BY <1>2, PayFollows DEF Goal
<1>3. tx[w].order # NoOrder
  BY NoOrderAssumption
<1>4. ASSUME NEW move \in {"release", "close"},
             tx[w].op \in {"cancel", "close", "timeout"},
             ReleaseLock(tx[w].seen.log[move] > 0, Sku(tx[w].order), Qty(tx[w].order)),
             Closes(w, move)
      PROVE  Goal
  BY <1>3, <1>4, ClosingFollows DEF Goal
<1>5. CASE CancelCommit(w)
  <2>1. /\ tx[w].op = "cancel"
        /\ ReleaseLock(tx[w].seen.log["release"] > 0, Sku(tx[w].order), Qty(tx[w].order))
        /\ Closes(w, "release")
    BY <1>5 DEF CancelCommit, Closes
  <2> QED BY <1>4, <2>1
<1>6. CASE CloseCommit(w)
  <2>1. /\ tx[w].op = "close"
        /\ ReleaseLock(tx[w].seen.log["close"] > 0, Sku(tx[w].order), Qty(tx[w].order))
        /\ Closes(w, "close")
    BY <1>6 DEF CloseCommit, Closes
  <2> QED BY <1>4, <2>1
<1>7. CASE TimeoutCommit(w)
  <2>1. /\ tx[w].op = "timeout"
        /\ ReleaseLock(tx[w].seen.log["release"] > 0, Sku(tx[w].order), Qty(tx[w].order))
        /\ Closes(w, "release")
    BY <1>7 DEF TimeoutCommit, Closes
  <2> QED BY <1>4, <2>1
<1>8. CASE StockingCommit(w) \/ PickupCommit(w)
  BY <1>8, StockingFollows DEF Goal
<1>9. CASE ReceiveCommit(w)
  BY <1>9, ReceiveFollows DEF Goal
<1>10. CASE RefundCommit(w)
  BY <1>10, RefundFollows DEF Goal
<1>11. CASE ApproveCommit(w)
  BY <1>11, ApproveFollows DEF Goal
<1>12. CASE RejectCommit(w)
  BY <1>12, RejectFollows DEF Goal
<1>13. CASE VerifyCommit(w)
  BY <1>13, VerifyFollows DEF Goal
<1>14. ~ShipCommit(w)
  BY DEF ShipCommit
<1> QED BY <1>1, <1>2, <1>5, <1>6, <1>7, <1>8, <1>9, <1>10, <1>11, <1>12, <1>13, <1>14
        DEF Commit

(* A batch to ship only moves paid orders on.                              *)
LEMMA ShipFollows ==
  ASSUME NEW G \in SUBSET Orders, ApartInv(G),
         NEW w \in Workers, ShipCommit(w), NEW p \in G
  PROVE  /\ p \notin Touched(w) => orders'[p] = orders[p]
         /\ Follows(p, orders[p], orders'[p])
         /\ PhaseOf(orders'[p].status) = PhaseOf(orders[p].status)
<1>1. tx[w].op = "ship" /\ UNCHANGED stock
  BY DEF ShipCommit
<1>2. /\ p \in Orders /\ orders[p] \in OrderRow /\ orders[p].codes \in CodeRows
      /\ ApartFacts(orders[p])
      /\ p = tx[w].order => Checked(tx[w], orders[p])
      /\ p \in tx[w].todo => Waiting(tx[w], orders[p])
      /\ stock \in [Skus -> StockRow]
  BY <1>1 DEF ApartInv, IndInv, TypeOK, OrderRow
<1>3. CASE p \in Touched(w)
  <2> DEFINE new == [orders[p] EXCEPT !.status = "SHIPPED"]
  <2>1. Shippable(orders[p])
    BY <1>1, <1>2, <1>3 DEF Touched, Checked, Waiting
  <2>2. orders'[p] = new
    BY <1>3 DEF ShipCommit, Touched
  <2>3. /\ new.status = "SHIPPED" /\ new.log = orders[p].log
        /\ new.refunds = orders[p].refunds /\ new.codes = orders[p].codes
    BY <1>2 DEF OrderRow
  <2>4. orders[p].status \in {"PAID", "PENDING_SHIP"}
    BY <2>1 DEF Shippable
  <2> HIDE DEF new
  <2>5. Follows(p, orders[p], new)
    BY <1>1, <1>2, <2>3, <2>4, FulfilFollows
  <2>6. PhaseOf(new.status) = PhaseOf(orders[p].status)
    BY <2>3, <2>4, Phases DEF Fulfilling
  <2> QED BY <1>3, <2>2, <2>5, <2>6
<1>4. CASE p \notin Touched(w)
  <2>1. orders'[p] = orders[p]
    BY <1>4 DEF ShipCommit, Touched
  <2>2. Shifts(p, 0, 0, 0)
    BY <1>1, <1>2, MoveShifts
  <2> QED BY <1>2, <2>1, <2>2 DEF Follows, Settled, Books, ApartFacts, Unpaid
<1> QED BY <1>3, <1>4

(* The orders a commit does not touch are as they were, and no order of G  *)
(* loses its facts.                                                        *)
LEMMA CommitRows ==
  ASSUME NEW G \in SUBSET Orders, ApartInv(G), NEW w \in Workers, Commit(w),
         NEW p \in Orders
  PROVE  /\ p \notin Touched(w) => orders'[p] = orders[p]
         /\ tx[w].op # "ship" /\ p # tx[w].order => orders'[p] = orders[p]
         /\ p \in G => ApartFacts(orders'[p]) /\ Settled(orders[p], orders'[p])
<1>1. /\ IndInv /\ orders \in [Orders -> OrderRow]
      /\ p \in G => ApartFacts(orders[p])
  BY DEF ApartInv, IndInv, TypeOK
<1>2. CASE tx[w].op = "ship"
  <2>1. ShipCommit(w)
    BY <1>2, ShipsOnly
  <2>2. p \notin Touched(w) => orders'[p] = orders[p]
    BY <2>1 DEF ShipCommit, Touched
  <2>3. p \in G => ApartFacts(orders'[p]) /\ Settled(orders[p], orders'[p])
    BY <2>1, ShipFollows DEF Follows
  <2> QED BY <1>2, <2>2, <2>3
<1>3. CASE tx[w].op # "ship"
  <2>1. p # tx[w].order => orders'[p] = orders[p]
    BY <1>1, <1>3, Enters DEF Write
  <2>2. p \in G => Settled(orders[p], orders[p])
    BY <1>1 DEF Settled, ApartFacts, Unpaid
  <2>3. ASSUME tx[w].order \in G, p = tx[w].order
        PROVE  ApartFacts(orders'[p]) /\ Settled(orders[p], orders'[p])
    <3>1. PICK new : /\ Write(tx[w].order, new)
                     /\ Follows(tx[w].order, orders[tx[w].order], new)
      BY <1>3, <2>3, OneFollows
    <3>2. orders'[p] = new
      BY <1>1, <2>3, <3>1 DEF Write
    <3> QED BY <2>3, <3>1, <3>2 DEF Follows
  <2> QED BY <1>1, <1>3, <2>1, <2>2, <2>3 DEF Touched
<1> QED BY <1>2, <1>3

-----------------------------------------------------------------------------
(* The invariant holds.  A step of one worker leaves alone the orders of G *)
(* that others have in hand.                                               *)
LEMMA ApartStep ==
  ASSUME NEW G \in SUBSET Orders, ApartInv(G), IndInv', AllAlone(G)',
         NEW w \in Workers, NEW t, tx' = [tx EXCEPT ![w] = t],
         \A p \in G : /\ ApartFacts(orders'[p])
                      /\ p \notin Touched(w) => orders'[p] = orders[p],
         t.order \in G => Checked(t, orders'[t.order]),
         t.order \notin t.todo, \A p \in t.todo \intersect G : Waiting(t, orders'[p])
  PROVE  ApartInv(G)'
<1>1. tx \in [Workers -> Transaction]
  BY DEF ApartInv, IndInv, TypeOK
<1>2. \A v \in Workers : tx'[v] = IF v = w THEN t ELSE tx[v]
  BY <1>1
<1>3. ASSUME NEW v \in Workers
      PROVE  /\ tx'[v].order \in G => Checked(tx'[v], orders'[tx'[v].order])
             /\ tx'[v].order \notin tx'[v].todo
             /\ \A p \in tx'[v].todo \intersect G : Waiting(tx'[v], orders'[p])
  <2>1. CASE v = w
    BY <1>2, <2>1
  <2>2. CASE v # w
    <3>1. tx'[v] = tx[v]
      BY <1>2, <2>2
    <3>2. \A p \in G : p \in Touched(v) => orders'[p] = orders[p]
      BY <2>2 DEF ApartInv, AllAlone, Alone
    <3>3. /\ tx[v].order \in G => Checked(tx[v], orders[tx[v].order])
          /\ tx[v].order \notin tx[v].todo
          /\ \A p \in tx[v].todo \intersect G : Waiting(tx[v], orders[p])
      BY DEF ApartInv
    <3>4. tx[v].order \in G => orders'[tx[v].order] = orders[tx[v].order]
      BY <3>2 DEF Touched
    <3>5. \A p \in tx[v].todo \intersect G : orders'[p] = orders[p]
      BY <3>2 DEF Touched
    <3> QED BY <3>1, <3>3, <3>4, <3>5
  <2> QED BY <2>1, <2>2
<1> QED BY <1>3 DEF ApartInv

(* A handler opens a transaction on what it has checked.                   *)
LEMMA ApartOpens ==
  ASSUME NEW G \in SUBSET Orders, ApartInv(G), IndInv', AllAlone(G)',
         NEW w \in Workers, NEW o \in Orders,
         NEW op, NEW todo, NEW arg, Open(w, op, o, todo, arg),
         Checked([op |-> op, order |-> o, seen |-> orders[o],
                  member |-> members[Member(o)], todo |-> todo, arg |-> arg], orders[o]),
         o \notin todo,
         \A p \in todo : /\ op = "timeout" => orders[p].status = "PENDING_PAY"
                         /\ op = "ship" => Shippable(orders[p])
  PROVE  ApartInv(G)'
<1> DEFINE t == [op |-> op, order |-> o, seen |-> orders[o],
                 member |-> members[Member(o)], todo |-> todo, arg |-> arg]
<1>1. tx' = [tx EXCEPT ![w] = t] /\ orders' = orders
  BY DEF Open
<1>2. /\ Checked(t, orders'[o]) /\ t.order = o /\ t.order \notin t.todo
      /\ \A p \in t.todo : Waiting(t, orders'[p])
  BY <1>1 DEF Waiting
<1> HIDE DEF t
<1>3. \A p \in G : ApartFacts(orders'[p]) /\ orders'[p] = orders[p]
  BY <1>1 DEF ApartInv
<1> QED BY <1>1, <1>2, <1>3, ApartStep

LEMMA ApartBegins ==
  ASSUME NEW G \in SUBSET Orders, ApartInv(G), IndInv', AllAlone(G)',
         NEW w \in Workers, NEW o \in Orders, Begin(w, o)
  PROVE  ApartInv(G)'
<1>1. CASE CreateBegin(w, o)
  BY <1>1, ApartOpens DEF CreateBegin, Checked
<1>2. ASSUME NEW want \in Deducts, PayBegin(w, o, want) PROVE ApartInv(G)'
  BY <1>2, ApartOpens DEF PayBegin, Checked
<1>3. CASE CancelBegin(w, o)
  BY <1>3, ApartOpens DEF CancelBegin, Closable, Checked
<1>4. CASE CloseBegin(w, o)
  BY <1>4, ApartOpens DEF CloseBegin, Closable, Checked
<1>5. CASE TimeoutScan(w, o)
  <2> DEFINE due == {p \in overdue : Pending(orders[p])}
  <2>1. /\ Open(w, "timeout", o, due \ {o}, 0) /\ orders[o].status = "PENDING_PAY"
        /\ \A p \in due \ {o} : orders[p].status = "PENDING_PAY"
    BY <1>5 DEF TimeoutScan, Pending
  <2> HIDE DEF due
  <2> QED BY <2>1, ApartOpens DEF Checked
<1>6. CASE StockingBegin(w, o)
  BY <1>6, ApartOpens DEF StockingBegin, Checked
<1>7. CASE PickupBegin(w, o)
  BY <1>7, ApartOpens DEF PickupBegin, Checked
<1>8. ASSUME NEW batch \in SUBSET Orders, ShipBegin(w, o, batch) PROVE ApartInv(G)'
  <2> DEFINE rest == {p \in batch \ {o} : Shippable(orders[p])}
  <2>1. /\ Open(w, "ship", o, rest, 0) /\ Shippable(orders[o]) /\ o \notin rest
        /\ \A p \in rest : Shippable(orders[p])
    BY <1>8 DEF ShipBegin
  <2> HIDE DEF rest
  <2> QED BY <2>1, ApartOpens DEF Checked
<1>9. CASE ReceiveBegin(w, o)
  BY <1>9, ApartOpens DEF ReceiveBegin, Checked
<1>10. CASE RefundBegin(w, o)
  BY <1>10, ApartOpens DEF RefundBegin, Checked
<1>11. ASSUME NEW i \in RefundNumbers(orders[o]), NEW op \in {"approve", "reject"},
              AuditBegin(w, op, o, i)
       PROVE  ApartInv(G)'
  BY <1>11, ApartOpens DEF AuditBegin, Checked
<1>12. ASSUME NEW i \in orders[o].codes.unused, VerifyBegin(w, o, i) PROVE ApartInv(G)'
  BY <1>12, ApartOpens DEF VerifyBegin, Checked
<1> QED BY <1>1, <1>2, <1>3, <1>4, <1>5, <1>6, <1>7, <1>8, <1>9, <1>10, <1>11,
           <1>12 DEF Begin

(* The task takes up the next order of its batch: nobody has touched it    *)
(* since the scan, so the stale object is true.                            *)
LEMMA ApartNext ==
  ASSUME NEW G \in SUBSET Orders, ApartInv(G), IndInv', AllAlone(G)',
         NEW w \in Workers, NEW o \in Orders, TimeoutNext(w, o)
  PROVE  ApartInv(G)'
<1> DEFINE seen == [orders[o] EXCEPT !.status = "PENDING_PAY"]
           t == [Idle EXCEPT !.op = "timeout", !.order = o, !.seen = seen,
                             !.todo = tx[w].todo \ {o}]
<1>1. /\ orders[o] \in OrderRow /\ tx[w].op = "timeout" /\ o \in tx[w].todo
      /\ \A p \in tx[w].todo \intersect G : orders[p].status = "PENDING_PAY"
  BY DEF ApartInv, IndInv, TypeOK, TimeoutNext, Waiting
<1>2. /\ o \in G => seen.status = orders[o].status
      /\ seen.log = orders[o].log /\ seen.refunds = orders[o].refunds
      /\ seen.codes = orders[o].codes /\ seen.earned = orders[o].earned
  BY <1>1 DEF OrderRow
<1>3. /\ t.op = "timeout" /\ t.order = o /\ t.seen = seen /\ t.todo = tx[w].todo \ {o}
  BY DEF Idle
<1>4. tx' = [tx EXCEPT ![w] = t] /\ orders' = orders
  BY DEF TimeoutNext
<1> HIDE DEF seen, t
<1>5. /\ o \in G => Checked(t, orders'[o])
      /\ \A p \in t.todo \intersect G : Waiting(t, orders'[p])
  BY <1>1, <1>2, <1>3, <1>4 DEF Checked, Waiting
<1>6. \A p \in G : ApartFacts(orders'[p]) /\ orders'[p] = orders[p]
  BY <1>4 DEF ApartInv
<1> QED BY <1>3, <1>4, <1>5, <1>6, ApartStep

LEMMA ApartDone ==
  ASSUME NEW G \in SUBSET Orders, ApartInv(G), IndInv', AllAlone(G)',
         NEW w \in Workers, Done(w),
         \A p \in G : /\ ApartFacts(orders'[p])
                      /\ p \notin Touched(w) => orders'[p] = orders[p]
  PROVE  ApartInv(G)'
<1>1. Idle.order \notin G /\ Idle.todo = {}
  BY NoOrderAssumption DEF Idle
<1> QED BY <1>1, ApartStep DEF Done

LEMMA ApartCommits ==
  ASSUME NEW G \in SUBSET Orders, ApartInv(G), IndInv', AllAlone(G)',
         NEW w \in Workers, Commit(w)
  PROVE  ApartInv(G)'
<1>1. \A p \in G : /\ ApartFacts(orders'[p])
                   /\ p \notin Touched(w) => orders'[p] = orders[p]
                   /\ tx[w].op # "ship" /\ p # tx[w].order => orders'[p] = orders[p]
  BY CommitRows
<1>2. CASE Done(w)
  BY <1>1, <1>2, ApartDone
<1>3. CASE ~Done(w)
  <2> DEFINE t == [Idle EXCEPT !.op = "timeout", !.todo = tx[w].todo]
  <2>1. tx[w].op = "timeout" /\ tx' = [tx EXCEPT ![w] = t]
    BY <1>3 DEF Commit, CreateCommit, PayCommit, CancelCommit, CloseCommit,
                TimeoutCommit, StockingCommit, PickupCommit, ShipCommit, ReceiveCommit,
                RefundCommit, ApproveCommit, RejectCommit, VerifyCommit
  <2>2. t.op = "timeout" /\ t.order = NoOrder /\ t.todo = tx[w].todo
    BY DEF Idle
  <2>3. /\ tx[w].todo \subseteq Orders /\ tx[w].order \notin tx[w].todo
        /\ \A p \in tx[w].todo \intersect G : Waiting(tx[w], orders[p])
    BY DEF ApartInv, IndInv, TypeOK, Transaction
  <2> HIDE DEF t
  <2>4. /\ t.order \notin t.todo /\ t.order \notin G
        /\ \A p \in t.todo \intersect G : Waiting(t, orders'[p])
    BY <1>1, <2>1, <2>2, <2>3, NoOrderAssumption DEF Waiting
  <2> QED BY <1>1, <2>1, <2>2, <2>4, ApartStep
<1> QED BY <1>2, <1>3

LEMMA ApartInit ==
  ASSUME NEW G \in SUBSET Orders, Init
  PROVE  ApartInv(G)
<1>1. IndInv
  BY InitKeeps
<1>2. /\ Idle.op = "idle" /\ Idle.order = NoOrder /\ Idle.todo = {}
      /\ \A w \in Workers : tx[w] = Idle
  BY DEF Init, Idle
<1>3. AllAlone(G)
  BY <1>2, NoOrderAssumption DEF AllAlone, Alone, Touched
<1>4. RefundNumbers(NoRow) = {}
  <2>1. NoRow.refunds = <<>>
    BY DEF NoRow
  <2> QED BY <2>1, EmptySeq DEF RefundNumbers
<1>5. ApartFacts(NoRow)
  BY <1>4 DEF NoRow, NoLog, ApartFacts, RefundFacts
<1>6. \A o \in G : ApartFacts(orders[o])
  BY <1>5 DEF Init
<1> QED BY <1>1, <1>2, <1>3, <1>6, NoOrderAssumption DEF ApartInv

LEMMA ApartKept ==
  ASSUME NEW G \in SUBSET Orders, ApartInv(G), [Next]_vars, AllAlone(G)'
  PROVE  ApartInv(G)'
<1>1. IndInv'
  BY NextKeeps DEF ApartInv
<1>2. CASE UNCHANGED <<orders, tx>>
  BY <1>1, <1>2 DEF ApartInv
<1>3. ASSUME NEW w \in Workers, Commit(w) PROVE ApartInv(G)'
  BY <1>1, <1>3, ApartCommits
<1>4. ASSUME NEW w \in Workers, Fail(w) \/ Crash(w) PROVE ApartInv(G)'
  <2>1. Done(w) /\ orders' = orders
    BY <1>4 DEF Fail, Crash
  <2>2. \A p \in G : ApartFacts(orders'[p])
    BY <2>1 DEF ApartInv
  <2> QED BY <1>1, <2>1, <2>2, ApartDone
<1>5. ASSUME NEW w \in Workers, NEW o \in Orders, Begin(w, o) PROVE ApartInv(G)'
  BY <1>1, <1>5, ApartBegins
<1>6. ASSUME NEW w \in Workers, NEW o \in Orders, TimeoutNext(w, o) PROVE ApartInv(G)'
  BY <1>1, <1>6, ApartNext
<1> QED BY <1>2, <1>3, <1>4, <1>5, <1>6 DEF Next, Expire, vars

-----------------------------------------------------------------------------
(* One order.                                                              *)

(* A step takes back nothing that is settled.                              *)
LEMMA SettledStep ==
  ASSUME NEW G \in SUBSET Orders, ApartInv(G), [Next]_vars, NEW p \in G
  PROVE  StaysTerminal(p) /\ KeepsCodes(p) /\ StaysOpen(p)
<1>1. Settled(orders[p], orders'[p])
  <2>1. UNCHANGED orders => Settled(orders[p], orders'[p])
    BY DEF Settled, ApartInv, ApartFacts, Unpaid
  <2>2. ASSUME NEW w \in Workers, Commit(w) PROVE Settled(orders[p], orders'[p])
    BY <2>2, CommitRows
  <2> QED BY <2>1, <2>2, CommitsWrite
<1> QED BY <1>1 DEF Settled, StaysTerminal, KeepsCodes, StaysOpen

LEMMA RefundsCount ==
  ASSUME NEW o \in Orders, ApartFacts(orders[o])
  PROVE  RefundedOnceAt(o)
<1> DEFINE approved == {i \in RefundNumbers(orders[o]) :
                          orders[o].refunds[i].status = "APPROVED"}
<1>1. orders[o].status = "REFUNDED" <=> approved # {}
  BY DEF ApartFacts, RefundFacts
<1>2. \A i, j \in approved : i = j
  BY DEF ApartFacts, RefundFacts
<1>3. orders[o].log.ret = IF approved = {} THEN 0 ELSE 1
  BY <1>1 DEF ApartFacts
<1> HIDE DEF approved
<1>4. Cardinality(approved) = IF approved = {} THEN 0 ELSE 1
  <2>1. CASE approved = {}
    BY <2>1, FS_EmptySet
  <2>2. CASE approved # {}
    <3>1. PICK i : approved = {i}
      BY <1>2, <2>2
    <3> QED BY <2>2, <3>1, FS_Singleton
  <2> QED BY <2>1, <2>2
<1>5. Cardinality(approved) <= 1
  BY <1>4
<1> QED BY <1>1, <1>3, <1>4, <1>5 DEF RefundedOnceAt, approved

LEMMA OrderApart ==
  ASSUME NEW o \in Orders
  PROVE  /\ Init => ApartInv({o})
         /\ ApartInv({o}) /\ [Next]_vars /\ Alone(o)' => ApartInv({o})'
<1>1. Alone(o)' => AllAlone({o})'
  BY DEF AllAlone
<1> QED BY <1>1, ApartInit, ApartKept

(* As long as no two open transactions deal with an order, and whatever    *)
(* happens to the others, it is refunded once: refund rows, returned units *)
(* and status agree.                                                       *)
THEOREM OrderRefundedOnce ==
  ASSUME NEW o \in Orders
  PROVE  Spec /\ []Alone(o) => []RefundedOnceAt(o)
<1>1. Init => ApartInv({o})
  BY OrderApart
<1>2. ApartInv({o}) /\ [Next]_vars /\ Alone(o)' => ApartInv({o})'
  BY OrderApart
<1>3. ApartInv({o}) => RefundedOnceAt(o)
  BY RefundsCount DEF ApartInv
<1> QED BY <1>1, <1>2, <1>3, PTL DEF Spec

(* Such an order never leaves CLOSED or REFUNDED, none of its codes comes  *)
(* back, and it is not closed once it is paid.                             *)
THEOREM OrderSettled ==
  ASSUME NEW o \in Orders
  PROVE  Spec /\ []Alone(o)
           => [][StaysTerminal(o) /\ KeepsCodes(o) /\ StaysOpen(o)]_vars
<1>1. Init => ApartInv({o})
  BY OrderApart
<1>2. ApartInv({o}) /\ [Next]_vars /\ Alone(o)' => ApartInv({o})'
  BY OrderApart
<1>3. ApartInv({o}) /\ [Next]_vars
        => [StaysTerminal(o) /\ KeepsCodes(o) /\ StaysOpen(o)]_vars
  BY SettledStep
<1> QED BY <1>1, <1>2, <1>3, PTL DEF Spec

(* The same of all orders, when no two handlers overlap.                   *)
LEMMA IsolatedApart ==
  ASSUME NEW G \in SUBSET Orders
  PROVE  /\ Init => Isolated
         /\ Isolated /\ [Next /\ Isolated']_vars => [Next]_vars /\ Isolated'
         /\ Isolated => AllAlone(G)
<1>1. Init => Isolated
  <2>1. Idle.op = "idle" /\ Idle.order = NoOrder /\ Idle.todo = {}
    BY DEF Idle
  <2> QED BY <2>1, NoOrderAssumption
          DEF Init, Isolated, AllAlone, Alone, Queued, Touched, WritesPoints
<1>2. Isolated /\ UNCHANGED vars => Isolated'
  BY DEF vars, Isolated, AllAlone, Alone, Queued, Touched
<1>3. Isolated => AllAlone(G)
  BY DEF Isolated, AllAlone
<1> QED BY <1>1, <1>2, <1>3

LEMMA IsolatedHolds == IsolatedSpec => []Isolated
<1>1. Init => Isolated
  BY IsolatedApart
<1>2. Isolated /\ [Next /\ Isolated']_vars => Isolated'
  BY IsolatedApart
<1> QED BY <1>1, <1>2, PTL DEF IsolatedSpec

LEMMA AllApart ==
  /\ Init => ApartInv(Orders)
  /\ ApartInv(Orders) /\ Isolated /\ [Next /\ Isolated']_vars => ApartInv(Orders)'
<1>1. Isolated /\ [Next /\ Isolated']_vars => [Next]_vars /\ AllAlone(Orders)'
  BY IsolatedApart DEF Isolated
<1> QED BY <1>1, ApartInit, ApartKept

LEMMA ApartHolds == IsolatedSpec => []ApartInv(Orders)
<1>1. Init => ApartInv(Orders)
  BY AllApart
<1>2. ApartInv(Orders) /\ Isolated /\ [Next /\ Isolated']_vars => ApartInv(Orders)'
  BY AllApart
<1> QED BY <1>1, <1>2, IsolatedHolds, PTL DEF IsolatedSpec

(* Closed and refunded orders stay so.                                     *)
THEOREM TerminalStaysHolds == IsolatedSpec => TerminalStays
<1>1. ApartInv(Orders) /\ [Next /\ Isolated']_vars
        => [\A o \in Orders : StaysTerminal(o)]_vars
  BY SettledStep
<1> QED BY <1>1, ApartHolds, PTL DEF IsolatedSpec, TerminalStays

(* A code that was used, or refunded, stays so.                            *)
THEOREM CodesStayHolds == IsolatedSpec => CodesStay
<1>1. ApartInv(Orders) /\ [Next /\ Isolated']_vars
        => [\A o \in Orders : KeepsCodes(o)]_vars
  BY SettledStep
<1> QED BY <1>1, ApartHolds, PTL DEF IsolatedSpec, CodesStay

(* What overlapping handlers break, as run find_paid_closed shows, holds of*)
(* handlers that do not: an order with a payment is never closed.          *)
THEOREM PaidNeverClosedApart == IsolatedSpec => PaidNeverClosed
<1>1. ApartInv(Orders) /\ [Next /\ Isolated']_vars
        => [\A o \in Orders : StaysOpen(o)]_vars
  BY SettledStep
<1> QED BY <1>1, ApartHolds, PTL DEF IsolatedSpec, PaidNeverClosed

(* An order is refunded once: one refund row approved, one return of its   *)
(* units, and the order says so.                                           *)
THEOREM RefundedOnceHolds == IsolatedSpec => []RefundedOnce
<1>1. ApartInv(Orders) => RefundedOnce
  BY RefundsCount DEF ApartInv, RefundedOnce
<1> QED BY <1>1, ApartHolds, PTL

-----------------------------------------------------------------------------
(* The refinement of Reservation, for any set T of stock rows and the      *)
(* orders placed on them.                                                  *)
OnRows(T) == {o \in Orders : Sku(o) \in T}

FreeOn(T)  == [s \in T |-> stock[s].available]
PhaseOn(T) == [o \in OnRows(T) |-> PhaseOf(orders[o].status)]

Over(T) == INSTANCE Reservation WITH
  Orders <- OnRows(T),
  Skus   <- T,
  SkuOf  <- [o \in OnRows(T) |-> Sku(o)],
  QtyOf  <- [o \in OnRows(T) |-> Qty(o)],
  Supply <- [s \in T |-> InitialStock[s]],
  free   <- FreeOn(T),
  phase  <- PhaseOn(T)

(* What a commit does to an order and the units on sale is a step of the   *)
(* abstract reservation.                                                   *)
LEMMA BooksStep ==
  ASSUME NEW T \in SUBSET Skus, stock \in [Skus -> StockRow],
         orders \in [Orders -> OrderRow], NEW o \in OnRows(T), NEW new, Write(o, new),
         Books(o, PhaseOf(orders[o].status), PhaseOf(new.status))
  PROVE  Over(T)!RNext \/ UNCHANGED <<FreeOn(T), PhaseOn(T)>>
<1> DEFINE old == PhaseOf(orders[o].status)
           now == PhaseOf(new.status)
           free == FreeOn(T)
           phase == PhaseOn(T)
<1>0. o \in Orders /\ Sku(o) \in T
  BY DEF OnRows
<1>1. phase' = [phase EXCEPT ![o] = now] /\ phase[o] = old
  <2>1. \A p \in Orders : orders'[p] = IF p = o THEN new ELSE orders[p]
    BY <1>0 DEF Write
  <2>2. \A p \in OnRows(T) : PhaseOf(orders'[p].status)
                               = IF p = o THEN now ELSE PhaseOf(orders[p].status)
    BY <2>1 DEF OnRows
  <2> HIDE DEF now
  <2>3. phase' = [p \in OnRows(T) |-> PhaseOf(orders'[p].status)]
    BY DEF PhaseOn, OnRows
  <2> QED BY <2>2, <2>3 DEF PhaseOn
<1>2. /\ Sku(o) \in T /\ Qty(o) \in Nat /\ free[Sku(o)] = stock[Sku(o)].available
      /\ \A s \in T : free[s] = stock[s].available /\ free[s] \in Nat
  <2>1. \A s \in T : stock[s].available \in Nat
    BY DEF StockRow
  <2> QED BY <1>0, <2>1, RequestTypes DEF FreeOn
<1>3. ASSUME NEW l, NEW d, NEW n \in Int, Shifts(o, l, d, n)
      PROVE  free' = [free EXCEPT ![Sku(o)] = @ + n]
  <2>1. \A s \in T : stock'[s].available = IF s = Sku(o) THEN free[s] + n ELSE free[s]
    BY <1>2, <1>3 DEF Shifts
  <2>2. free' = [s \in T |-> stock'[s].available]
    BY DEF FreeOn
  <2> QED BY <1>2, <2>1, <2>2 DEF FreeOn
<1>4. [p \in OnRows(T) |-> Sku(p)][o] = Sku(o) /\ [p \in OnRows(T) |-> Qty(p)][o] = Qty(o)
  OBVIOUS
<1>5. ASSUME NEW l, NEW d, Shifts(o, l, d, 0) PROVE UNCHANGED free
  <2>1. \A s \in T : stock'[s].available = stock[s].available
    <3>1. \A s \in T : stock[s].available \in Nat
      BY <1>2
    <3> QED BY <1>5, <3>1 DEF Shifts
  <2> QED BY <2>1 DEF FreeOn
<1>6. now = old => UNCHANGED phase
  BY <1>1 DEF PhaseOn
<1>7. Qty(o) \in Int /\ -Qty(o) \in Int
  BY <1>2
<1> HIDE DEF old, now
<1>8. CASE old = now /\ Shifts(o, 0, 0, 0)
  BY <1>5, <1>6, <1>8
<1>9. CASE /\ old = "none" /\ now = "held"
           /\ stock[Sku(o)].available >= Qty(o) /\ Shifts(o, Qty(o), 0, -Qty(o))
  <2>1. free' = [free EXCEPT ![Sku(o)] = @ - Qty(o)]
    BY <1>2, <1>3, <1>7, <1>9
  <2>2. Over(T)!Take(o)
    BY <1>1, <1>2, <1>4, <1>9, <2>1 DEF Over!Take
  <2> QED BY <2>2 DEF Over!RNext
<1>10. CASE old = "held" /\ now = "sold" /\ Shifts(o, -Qty(o), Qty(o), 0)
  <2>1. Over(T)!Sell(o)
    BY <1>1, <1>5, <1>10 DEF Over!Sell
  <2> QED BY <2>1 DEF Over!RNext
<1>11. ASSUME NEW from, NEW to, old = from, now = to,
              NEW l, NEW d, Shifts(o, l, d, Qty(o))
       PROVE  Over(T)!GiveBack(o, from, to)
  <2>1. free' = [free EXCEPT ![Sku(o)] = @ + Qty(o)]
    BY <1>3, <1>7, <1>11
  <2> QED BY <1>1, <1>4, <1>11, <2>1 DEF Over!GiveBack
<1>12. CASE old = "held" /\ now = "released" /\ Shifts(o, -Qty(o), 0, Qty(o))
  <2>1. Over(T)!GiveBack(o, "held", "released")
    BY <1>11, <1>12
  <2> QED BY <2>1 DEF Over!RNext
<1>13. CASE old = "sold" /\ now = "returned" /\ Shifts(o, 0, -Qty(o), Qty(o))
  <2>1. Over(T)!GiveBack(o, "sold", "returned")
    BY <1>11, <1>13
  <2> QED BY <2>1 DEF Over!RNext
<1> QED BY <1>8, <1>9, <1>10, <1>12, <1>13 DEF Books, old, now

(* A commit of an order on another row moves no unit of s and no order on  *)
(* it.                                                                     *)
LEMMA Elsewhere ==
  ASSUME IndInv, NEW w \in Workers, Commit(w), tx[w].op # "ship",
         NEW s \in Skus, Sku(tx[w].order) # s
  PROVE  /\ stock'[s].locked = stock[s].locked /\ stock'[s].sold = stock[s].sold
         /\ stock'[s].available = stock[s].available
         /\ \A p \in OnRow(s) : orders'[p] = orders[p]
<1>1. PICK new : /\ Write(tx[w].order, new)
                 /\ Entry(tx[w].order, orders[tx[w].order].log, new.log)
  BY Enters
<1>2. stock[s].locked \in Nat /\ stock[s].sold \in Nat /\ stock[s].available \in Nat
  BY DEF IndInv, TypeOK, StockRow
<1>3. \A p \in OnRow(s) : orders'[p] = orders[p]
  BY <1>1 DEF Write, OnRow, IndInv, TypeOK
<1>4. PICK l, d, a : Shifts(tx[w].order, l, d, a)
  BY <1>1 DEF Entry
<1> QED BY <1>2, <1>3, <1>4 DEF Shifts

LEMMA ReservationInit ==
  ASSUME NEW T \in SUBSET Skus, Init
  PROVE  Over(T)!RInit
<1>1. \A s \in T : stock[s].available = InitialStock[s]
  BY DEF Init, FreshRow
<1>2. \A o \in OnRows(T) : PhaseOf(orders[o].status) = "none"
  BY Phases DEF Init, NoRow, OnRows
<1> QED BY <1>1, <1>2 DEF Over!RInit, FreeOn, PhaseOn

LEMMA ReservationStep ==
  ASSUME NEW T \in SUBSET Skus, ApartInv(OnRows(T)), [Next]_vars
  PROVE  Over(T)!RNext \/ UNCHANGED <<FreeOn(T), PhaseOn(T)>>
<1>1. /\ IndInv /\ OnRows(T) \in SUBSET Orders
      /\ stock \in [Skus -> StockRow] /\ orders \in [Orders -> OrderRow]
  BY DEF ApartInv, IndInv, TypeOK, OnRows
<1>2. ASSUME \A s \in T : stock'[s].available = stock[s].available,
             \A p \in OnRows(T) : PhaseOf(orders'[p].status) = PhaseOf(orders[p].status)
      PROVE  UNCHANGED <<FreeOn(T), PhaseOn(T)>>
  BY <1>2 DEF FreeOn, PhaseOn, OnRows
<1>3. CASE UNCHANGED <<stock, orders>>
  BY <1>2, <1>3
<1>4. ASSUME NEW w \in Workers, Commit(w), tx[w].op # "ship", tx[w].order \in OnRows(T)
      PROVE  Over(T)!RNext \/ UNCHANGED <<FreeOn(T), PhaseOn(T)>>
  <2>1. PICK new : /\ Write(tx[w].order, new)
                   /\ Follows(tx[w].order, orders[tx[w].order], new)
    BY <1>1, <1>4, OneFollows
  <2> QED BY <1>1, <1>4, <2>1, BooksStep DEF Follows
<1>5. ASSUME NEW w \in Workers, Commit(w), tx[w].op # "ship", tx[w].order \notin OnRows(T)
      PROVE  UNCHANGED <<FreeOn(T), PhaseOn(T)>>
  <2>1. Sku(tx[w].order) \notin T
    BY <1>1, <1>5, Enters DEF OnRows
  <2>2. \A s \in T : /\ stock'[s].available = stock[s].available
                     /\ \A p \in OnRow(s) : orders'[p] = orders[p]
    BY <1>1, <1>5, <2>1, Elsewhere
  <2>3. \A p \in OnRows(T) : orders'[p] = orders[p]
    BY <2>2 DEF OnRows, OnRow
  <2> QED BY <1>2, <2>2, <2>3
<1>6. ASSUME NEW w \in Workers, Commit(w), tx[w].op = "ship"
      PROVE  UNCHANGED <<FreeOn(T), PhaseOn(T)>>
  <2>1. ShipCommit(w)
    BY <1>6, ShipsOnly
  <2>2. \A p \in OnRows(T) : PhaseOf(orders'[p].status) = PhaseOf(orders[p].status)
    BY <1>1, <2>1, ShipFollows
  <2>3. UNCHANGED stock
    BY <2>1 DEF ShipCommit
  <2> QED BY <1>2, <2>2, <2>3
<1> QED BY <1>3, <1>4, <1>5, <1>6, CommitsWrite

(* As long as no two open transactions deal with an order on the rows T,   *)
(* and whatever happens on the other rows, the handlers implement the      *)
(* abstract reservation of T: units are taken whole, kept when paid and    *)
(* given back once.                                                        *)
THEOREM RowsReserved ==
  ASSUME NEW T \in SUBSET Skus
  PROVE  Spec /\ []AllAlone(OnRows(T)) => Over(T)!RSpec
<1>1. Init => Over(T)!RInit
  BY ReservationInit
<1>2. Init => ApartInv(OnRows(T))
  BY ApartInit DEF OnRows
<1>3. ApartInv(OnRows(T)) /\ [Next]_vars /\ AllAlone(OnRows(T))' => ApartInv(OnRows(T))'
  <2>1. OnRows(T) \in SUBSET Orders
    BY DEF OnRows
  <2> QED BY <2>1, ApartKept
<1>4. ApartInv(OnRows(T)) /\ [Next]_vars => [Over(T)!RNext]_<<FreeOn(T), PhaseOn(T)>>
  BY ReservationStep
<1> QED BY <1>1, <1>2, <1>3, <1>4, PTL DEF Spec, Over!RSpec

(* Over all rows it is the reservation the runs check.                     *)
Free  == [s \in Skus |-> stock[s].available]
Phase == [o \in Orders |-> PhaseOf(orders[o].status)]

LEMMA OverAll ==
  /\ Over(Skus)!RInit => Abstract!RInit
  /\ Over(Skus)!RNext => Abstract!RNext
  /\ FreeOn(Skus) = Free /\ PhaseOn(Skus) = Phase
  /\ OnRows(Skus) = Orders
<1>1. OnRows(Skus) = Orders
  BY RequestTypes DEF OnRows
<1>2. FreeOn(Skus) = Free /\ PhaseOn(Skus) = Phase
  BY <1>1 DEF FreeOn, PhaseOn, Free, Phase
<1>3. InitialStock = [s \in Skus |-> InitialStock[s]]
  BY StockAssumption
<1>4. FreeOn(Skus)' = Free' /\ PhaseOn(Skus)' = Phase'
  BY <1>1 DEF FreeOn, PhaseOn, Free, Phase, OnRows
<1>5. Over(Skus)!RInit => Abstract!RInit
  BY <1>1, <1>2, <1>3 DEF Over!RInit, Abstract!RInit, Free, Phase
<1>6. Over(Skus)!RNext => Abstract!RNext
  BY <1>1, <1>2, <1>4 DEF Over!RNext, Abstract!RNext, Over!Take, Abstract!Take,
     Over!Sell, Abstract!Sell, Over!GiveBack, Abstract!GiveBack, Free, Phase
<1> QED BY <1>1, <1>2, <1>5, <1>6

(* Handlers that do not overlap implement the abstract reservation.        *)
THEOREM ReservationImplemented == IsolatedSpec => ImplementsReservation
<1>1. Init => Abstract!RInit
  BY ReservationInit, OverAll
<1>2. ApartInv(Orders) /\ [Next /\ Isolated']_vars => [Abstract!RNext]_<<Free, Phase>>
  <2>1. ASSUME ApartInv(OnRows(Skus)), [Next]_vars
        PROVE  Over(Skus)!RNext \/ UNCHANGED <<FreeOn(Skus), PhaseOn(Skus)>>
    BY <2>1, ReservationStep
  <2>2. UNCHANGED <<FreeOn(Skus), PhaseOn(Skus)>> => UNCHANGED <<Free, Phase>>
    BY OverAll DEF FreeOn, PhaseOn, Free, Phase, OnRows
  <2> QED BY <2>1, <2>2, OverAll
<1> QED BY <1>1, <1>2, ApartHolds, PTL
        DEF IsolatedSpec, ImplementsReservation, Abstract!RSpec, Free, Phase

-----------------------------------------------------------------------------
(* Whose units the counters count.                                         *)
UnitsAt(phase) ==
  [o \in Orders |-> IF PhaseOf(orders[o].status) = phase THEN Qty(o) ELSE 0]

Owned(s) ==
  /\ \A phase \in {"held", "sold"} : IsFiniteSet(Pairs(OnRow(s), UnitsAt(phase)))
  /\ stock[s].locked = Total(OnRow(s), UnitsAt("held"))
  /\ stock[s].sold = Total(OnRow(s), UnitsAt("sold"))

(* The invariant of one row of stock, whose orders are handled one handler *)
(* at a time.                                                              *)
OwnedInv(s) == ApartInv(OnRow(s)) /\ Owned(s)

LEMMA UnitsAtStatus ==
  ASSUME TypeOK
  PROVE  /\ UnitsAt("held") = UnitsIn({"PENDING_PAY"})
         /\ UnitsAt("sold") = UnitsIn(Fulfilling \ {"REFUNDED"})
<1>1. \A status \in Statuses :
        /\ PhaseOf(status) = "held" <=> status \in {"PENDING_PAY"}
        /\ PhaseOf(status) = "sold" <=> status \in Fulfilling \ {"REFUNDED"}
  BY DEF PhaseOf, Statuses, Fulfilling
<1>2. \A o \in Orders : orders[o].status \in Statuses
  BY DEF TypeOK, OrderRow
<1> QED BY <1>1, <1>2 DEF UnitsAt, UnitsIn

(* An order goes from one phase to another.                                *)
LEMMA UnitsMove ==
  ASSUME orders \in [Orders -> OrderRow], NEW o \in Orders, NEW new, Write(o, new),
         NEW s \in Skus, NEW phase, IsFiniteSet(Pairs(OnRow(s), UnitsAt(phase)))
  PROVE  LET units(p) == IF s = Sku(o) /\ p = phase THEN Qty(o) ELSE 0 IN
         /\ IsFiniteSet(Pairs(OnRow(s), UnitsAt(phase)'))
         /\ Total(OnRow(s), UnitsAt(phase)) \in Nat
         /\ Total(OnRow(s), UnitsAt(phase)')
              = Total(OnRow(s), UnitsAt(phase)) - units(PhaseOf(orders[o].status))
                                                + units(PhaseOf(new.status))
<1> DEFINE S   == OnRow(s)
           n   == UnitsAt(phase)
           m   == UnitsAt(phase)'
           old == PhaseOf(orders[o].status)
           now == PhaseOf(new.status)
           units(p) == IF s = Sku(o) /\ p = phase THEN Qty(o) ELSE 0
<1>1. \A p \in Orders : orders'[p] = IF p = o THEN new ELSE orders[p]
  BY DEF Write
<1>2. Qty(o) \in Nat
  BY RequestTypes
<1>3. /\ n[o] = IF old = phase THEN Qty(o) ELSE 0
      /\ m[o] = IF now = phase THEN Qty(o) ELSE 0
      /\ \A p \in Orders \ {o} : m[p] = n[p]
  BY <1>1 DEF UnitsAt
<1> HIDE DEF n, m, old, now
<1>4. n[o] \in Nat /\ m[o] \in Nat
  BY <1>2, <1>3
<1>5. IsFiniteSet(Pairs(S, n))
  BY DEF n
<1>6. CASE s = Sku(o)
  <2>1. o \in S /\ \A p \in S \ {o} : m[p] = n[p]
    BY <1>3, <1>6 DEF OnRow
  <2> HIDE DEF S
  <2>2. /\ IsFiniteSet(Pairs(S, m)) /\ Total(S, n) \in Nat
        /\ Total(S, m) = Total(S, n) - n[o] + m[o]
    BY <1>4, <1>5, <2>1, TotalChange
  <2>3. Total(S, m) = Total(S, n) - units(old) + units(now)
    BY <1>2, <1>3, <1>6, <2>2
  <2> QED BY <2>2, <2>3 DEF S, n, m, old, now
<1>7. CASE s # Sku(o)
  <2>1. \A p \in S : m[p] = n[p]
    BY <1>3, <1>7 DEF OnRow
  <2> HIDE DEF S
  <2>2. Pairs(S, m) = Pairs(S, n)
    BY <2>1, PairsSame
  <2>3. Total(S, n) \in Nat
    BY <1>5, FS_CardinalityType DEF Total
  <2>4. Total(S, m) = Total(S, n) - units(old) + units(now)
    BY <1>7, <2>2, <2>3 DEF Total
  <2> QED BY <1>5, <2>2, <2>3, <2>4 DEF S, n, m, old, now
<1> QED BY <1>6, <1>7

(* A commit of one order moves its units between the counters.             *)
LEMMA OwnedMove ==
  ASSUME IndInv, NEW s \in Skus, Owned(s), NEW o \in OnRow(s), NEW new, Write(o, new),
         Books(o, PhaseOf(orders[o].status), PhaseOf(new.status))
  PROVE  Owned(s)'
<1> DEFINE old == PhaseOf(orders[o].status)
           now == PhaseOf(new.status)
<1>0. o \in Orders /\ Sku(o) = s
  BY DEF OnRow
<1> DEFINE units(p, phase) == IF s = Sku(o) /\ p = phase THEN Qty(o) ELSE 0
           held == Total(OnRow(s), UnitsAt("held"))
           sold == Total(OnRow(s), UnitsAt("sold"))
<1>1. orders \in [Orders -> OrderRow] /\ Qty(o) \in Nat
  BY <1>0, RequestTypes DEF IndInv, TypeOK
<1>2. /\ IsFiniteSet(Pairs(OnRow(s), UnitsAt("held")))
      /\ IsFiniteSet(Pairs(OnRow(s), UnitsAt("sold")))
      /\ stock[s].locked = held /\ stock[s].sold = sold
  BY DEF Owned
<1>3. /\ IsFiniteSet(Pairs(OnRow(s), UnitsAt("held")')) /\ held \in Nat
      /\ Total(OnRow(s), UnitsAt("held")') = held - units(old, "held") + units(now, "held")
  BY <1>0, <1>1, <1>2, UnitsMove
<1>4. /\ IsFiniteSet(Pairs(OnRow(s), UnitsAt("sold")')) /\ sold \in Nat
      /\ Total(OnRow(s), UnitsAt("sold")') = sold - units(old, "sold") + units(now, "sold")
  BY <1>0, <1>1, <1>2, UnitsMove
<1> HIDE DEF held, sold, old, now
<1>5. ASSUME NEW l \in Int, NEW d \in Int, NEW a, Shifts(o, l, d, a)
      PROVE  /\ stock'[s].locked = held + (IF s = Sku(o) THEN l ELSE 0)
             /\ stock'[s].sold = sold + (IF s = Sku(o) THEN d ELSE 0)
  BY <1>2, <1>5 DEF Shifts
<1>6. /\ stock'[s].locked = held - units(old, "held") + units(now, "held")
      /\ stock'[s].sold = sold - units(old, "sold") + units(now, "sold")
  <2>0. Qty(o) \in Int /\ -Qty(o) \in Int /\ 0 \in Int
    BY <1>1
  <2>1. CASE old = now /\ Shifts(o, 0, 0, 0)
    <3>1. stock'[s].locked = held + 0 /\ stock'[s].sold = sold + 0
      BY <1>5, <2>0, <2>1
    <3> QED BY <1>1, <1>3, <1>4, <2>1, <3>1
  <2>2. CASE old = "none" /\ now = "held" /\ Shifts(o, Qty(o), 0, -Qty(o))
    <3>1. /\ stock'[s].locked = held + (IF s = Sku(o) THEN Qty(o) ELSE 0)
          /\ stock'[s].sold = sold + (IF s = Sku(o) THEN 0 ELSE 0)
      BY <1>5, <2>0, <2>2
    <3> QED BY <1>1, <1>3, <1>4, <2>2, <3>1
  <2>3. CASE old = "held" /\ now = "sold" /\ Shifts(o, -Qty(o), Qty(o), 0)
    <3>1. /\ stock'[s].locked = held + (IF s = Sku(o) THEN -Qty(o) ELSE 0)
          /\ stock'[s].sold = sold + (IF s = Sku(o) THEN Qty(o) ELSE 0)
      BY <1>5, <2>0, <2>3
    <3> QED BY <1>1, <1>3, <1>4, <2>3, <3>1
  <2>4. CASE old = "held" /\ now = "released" /\ Shifts(o, -Qty(o), 0, Qty(o))
    <3>1. /\ stock'[s].locked = held + (IF s = Sku(o) THEN -Qty(o) ELSE 0)
          /\ stock'[s].sold = sold + (IF s = Sku(o) THEN 0 ELSE 0)
      BY <1>5, <2>0, <2>4
    <3> QED BY <1>1, <1>3, <1>4, <2>4, <3>1
  <2>5. CASE old = "sold" /\ now = "returned" /\ Shifts(o, 0, -Qty(o), Qty(o))
    <3>1. /\ stock'[s].locked = held + (IF s = Sku(o) THEN 0 ELSE 0)
          /\ stock'[s].sold = sold + (IF s = Sku(o) THEN -Qty(o) ELSE 0)
      BY <1>5, <2>0, <2>5
    <3> QED BY <1>1, <1>3, <1>4, <2>5, <3>1
  <2> QED BY <2>1, <2>2, <2>3, <2>4, <2>5 DEF Books, old, now
<1> QED BY <1>3, <1>4, <1>6 DEF Owned, OnRow, Pairs, Total

(* The orders on the row, its two counters and the phases stay.            *)
LEMMA OwnedStays ==
  ASSUME NEW s \in Skus, Owned(s),
         stock'[s].locked = stock[s].locked, stock'[s].sold = stock[s].sold,
         \A p \in OnRow(s) : PhaseOf(orders'[p].status) = PhaseOf(orders[p].status)
  PROVE  Owned(s)'
<1>1. ASSUME NEW phase
      PROVE  Pairs(OnRow(s), UnitsAt(phase)') = Pairs(OnRow(s), UnitsAt(phase))
  <2>1. \A p \in OnRow(s) : UnitsAt(phase)'[p] = UnitsAt(phase)[p]
    BY DEF UnitsAt, OnRow
  <2> QED BY <2>1, PairsSame
<1>2. /\ \A phase \in {"held", "sold"} : IsFiniteSet(Pairs(OnRow(s), UnitsAt(phase)'))
      /\ stock'[s].locked = Total(OnRow(s), UnitsAt("held")')
      /\ stock'[s].sold = Total(OnRow(s), UnitsAt("sold")')
  BY <1>1 DEF Owned, Total
<1> QED BY <1>2 DEF Owned, OnRow, Pairs, Total

LEMMA OwnedKept ==
  ASSUME NEW s \in Skus, OwnedInv(s), [Next]_vars, AllAlone(OnRow(s))'
  PROVE  OwnedInv(s)'
<1>1. /\ ApartInv(OnRow(s)) /\ Owned(s) /\ IndInv
      /\ OnRow(s) \in SUBSET Orders
  BY DEF OwnedInv, ApartInv, OnRow
<1>2. ApartInv(OnRow(s))'
  BY <1>1, ApartKept
<1>3. UNCHANGED <<stock, orders>> => Owned(s)'
  BY <1>1, OwnedStays
<1>4. ASSUME NEW w \in Workers, Commit(w), tx[w].op # "ship", tx[w].order \in OnRow(s)
      PROVE  Owned(s)'
  <2>1. PICK new : /\ Write(tx[w].order, new)
                   /\ Follows(tx[w].order, orders[tx[w].order], new)
    BY <1>1, <1>4, OneFollows
  <2> QED BY <1>1, <1>4, <2>1, OwnedMove DEF Follows
<1>5. ASSUME NEW w \in Workers, Commit(w), tx[w].op # "ship", tx[w].order \notin OnRow(s)
      PROVE  Owned(s)'
  <2>1. Sku(tx[w].order) # s
    BY <1>1, <1>5, Enters DEF OnRow
  <2> QED BY <1>1, <1>5, <2>1, Elsewhere, OwnedStays
<1>6. ASSUME NEW w \in Workers, Commit(w), tx[w].op = "ship" PROVE Owned(s)'
  <2>1. ShipCommit(w)
    BY <1>6, ShipsOnly
  <2>2. \A p \in OnRow(s) : PhaseOf(orders'[p].status) = PhaseOf(orders[p].status)
    BY <1>1, <2>1, ShipFollows
  <2>3. UNCHANGED stock
    BY <2>1 DEF ShipCommit
  <2> QED BY <1>1, <2>2, <2>3, OwnedStays
<1> QED BY <1>1, <1>2, <1>3, <1>4, <1>5, <1>6, CommitsWrite DEF OwnedInv

LEMMA OwnedInit ==
  ASSUME NEW s \in Skus, Init
  PROVE  OwnedInv(s)
<1>1. \A o \in Orders : PhaseOf(orders[o].status) = "none"
  BY Phases DEF Init, NoRow
<1>2. \A o \in OnRow(s) : UnitsAt("held")[o] = 0 /\ UnitsAt("sold")[o] = 0
  BY <1>1 DEF UnitsAt, OnRow
<1>3. stock[s].locked = 0 /\ stock[s].sold = 0
  BY DEF Init, FreshRow
<1>4. ASSUME NEW n, \A o \in OnRow(s) : n[o] = 0
      PROVE  IsFiniteSet(Pairs(OnRow(s), n)) /\ Total(OnRow(s), n) = 0
  BY <1>4, TotalNone
<1>5. Owned(s)
  BY <1>2, <1>3, <1>4 DEF Owned
<1> QED BY <1>5, ApartInit DEF OwnedInv, OnRow

LEMMA OwnedTrue ==
  ASSUME NEW s \in Skus, OwnedInv(s)
  PROVE  StockOwnedAt(s)
<1>1. /\ UnitsAt("held") = UnitsIn({"PENDING_PAY"})
      /\ UnitsAt("sold") = UnitsIn(Fulfilling \ {"REFUNDED"})
  BY UnitsAtStatus DEF OwnedInv, ApartInv, IndInv
<1>2. /\ stock[s].locked = Total(OnRow(s), UnitsAt("held"))
      /\ stock[s].sold = Total(OnRow(s), UnitsAt("sold"))
  BY DEF OwnedInv, Owned
<1> QED BY <1>1, <1>2 DEF StockOwnedAt

(* As long as no two open transactions deal with an order on a row, and    *)
(* whatever happens on the other rows, the row's locked units are those of *)
(* its orders awaiting payment, and the sold ones those of its orders paid *)
(* and not refunded.                                                       *)
THEOREM RowOwned ==
  ASSUME NEW s \in Skus
  PROVE  Spec /\ []AllAlone(OnRow(s)) => []StockOwnedAt(s)
<1>1. Init => OwnedInv(s)
  BY OwnedInit
<1>2. OwnedInv(s) /\ [Next]_vars /\ AllAlone(OnRow(s))' => OwnedInv(s)'
  BY OwnedKept
<1>3. OwnedInv(s) => StockOwnedAt(s)
  BY OwnedTrue
<1> QED BY <1>1, <1>2, <1>3, PTL DEF Spec

(* So as long as no two open transactions deal with an order on a row, the *)
(* orders on it that await payment and those that are paid and not refunded*)
(* are together for no more units than it started with.                    *)
THEOREM RowNeverOversold ==
  ASSUME NEW s \in Skus
  PROVE  Spec /\ []AllAlone(OnRow(s))
           => [](Total(OnRow(s), UnitsIn({"PENDING_PAY"}))
                   + Total(OnRow(s), UnitsIn(Fulfilling \ {"REFUNDED"})) <= InitialStock[s])
<1> DEFINE Fits == Total(OnRow(s), UnitsIn({"PENDING_PAY"}))
                     + Total(OnRow(s), UnitsIn(Fulfilling \ {"REFUNDED"})) <= InitialStock[s]
<1>1. Init => OwnedInv(s)
  BY OwnedInit
<1>2. OwnedInv(s) /\ [Next]_vars /\ AllAlone(OnRow(s))' => OwnedInv(s)'
  BY OwnedKept
<1>3. OwnedInv(s) => Fits
  <2> SUFFICES ASSUME OwnedInv(s) PROVE Fits
    OBVIOUS
  <2>1. /\ stock[s] \in StockRow /\ Balanced(stock[s]) /\ stock[s].total = InitialStock[s]
    BY DEF OwnedInv, ApartInv, IndInv, TypeOK, StockIdentity
  <2>2. stock[s].locked + stock[s].sold <= stock[s].total
    BY <2>1 DEF StockRow, Balanced
  <2> QED BY <2>1, <2>2, OwnedTrue DEF StockOwnedAt
<1> QED BY <1>1, <1>2, <1>3, PTL DEF Spec

(* The same of all rows, when no two handlers overlap.                     *)
THEOREM StockOwnedHolds == IsolatedSpec => []StockOwned
<1> DEFINE AllOwned == \A s \in Skus : OwnedInv(s)
<1>1. Init => AllOwned
  BY OwnedInit
<1>2. AllOwned /\ Isolated /\ [Next /\ Isolated']_vars => AllOwned'
  <2>1. ASSUME Isolated, [Next /\ Isolated']_vars, NEW s \in Skus
        PROVE  [Next]_vars /\ AllAlone(OnRow(s))'
    BY <2>1, IsolatedApart DEF Isolated, AllAlone, OnRow
  <2> QED BY <2>1, OwnedKept
<1>3. AllOwned => StockOwned
  BY OwnedTrue DEF StockOwned
<1> QED BY <1>1, <1>2, <1>3, IsolatedHolds, PTL DEF IsolatedSpec

-----------------------------------------------------------------------------
(* The points of the members.                                              *)
KeptOf(row) == IF row.status = "REFUNDED" THEN 0 ELSE row.earned

(* A handler that writes a member's points still has its row as it is, if  *)
(* no other one writes them, ...                                           *)
Snapshots(m) ==
  \A w \in Workers :
    tx[w].op \in WritesPoints /\ Member(tx[w].order) = m => tx[w].member = members[m]

(* ... and the sums are true.                                              *)
Sums(m) ==
  /\ IsFiniteSet(Pairs(OfMember(m), Kept)) /\ IsFiniteSet(Pairs(OfMember(m), Spent))
  /\ PointsAccountedAt(m)

AccountInv(m) ==
  /\ ApartInv(OfMember(m))
  /\ Queued(m)
  /\ Snapshots(m)
  /\ Sums(m)

(* A commit changes what the member of its order has, net of the debt, by  *)
(* n, and the log with the balance ...                                     *)
Credits(o, n) ==
  \A m \in Members :
    /\ members[m].balance = members[m].logged => members'[m].balance = members'[m].logged
    /\ members'[m].balance - members'[m].debt
         = members[m].balance - members[m].debt + (IF m = Member(o) THEN n ELSE 0)

(* ... and what the order earned and spent by as much.                     *)
Account(o, row, new) ==
  Credits(o, KeptOf(new) - KeptOf(row) - (new.spent - row.spent))

LEMMA CreditsNone ==
  ASSUME members \in [Members -> MemberRow], NEW o, UNCHANGED members
  PROVE  Credits(o, 0)
<1>1. \A m \in Members : members[m].balance \in Nat /\ members[m].debt \in Nat
  BY DEF MemberRow
<1> QED BY <1>1 DEF Credits

(* Points moved, or taken back, by a handler that has the member's row.    *)
LEMMA MovePointsCredits ==
  ASSUME members \in [Members -> MemberRow], NEW o \in Orders,
         NEW used \in Nat, NEW earned \in Nat,
         MovePoints(o, members[Member(o)], used, earned)
  PROVE  Credits(o, earned - used)
<1> DEFINE row == members[Member(o)]
           balance == Put(row.balance, row.balance, row.balance - used + earned)
           totalEarn == Put(row.totalEarn, row.totalEarn, row.totalEarn + earned)
           totalUsed == Put(row.totalUsed, row.totalUsed, row.totalUsed + used)
           logged == row.logged - used + earned
           new == [balance |-> balance, totalEarn |-> totalEarn, totalUsed |-> totalUsed,
                   debt |-> row.debt, logged |-> logged]
<1>1. members' = [members EXCEPT ![Member(o)] = new]
  BY DEF MovePoints
<1>2. /\ row.balance \in Nat /\ row.debt \in Nat /\ row.logged \in Int
      /\ Member(o) \in Members
  BY RequestTypes DEF MemberRow
<1>3. balance = row.balance - used + earned
  BY <1>2 DEF Put
<1>4. new.balance = balance /\ new.debt = row.debt /\ new.logged = logged
  OBVIOUS
<1> HIDE DEF balance, totalEarn, totalUsed, new
<1>5. ASSUME NEW m \in Members
      PROVE  /\ members[m].balance = members[m].logged
                  => members'[m].balance = members'[m].logged
             /\ members'[m].balance - members'[m].debt
                  = members[m].balance - members[m].debt
                      + (IF m = Member(o) THEN earned - used ELSE 0)
  <2>1. CASE m = Member(o)
    <3>1. members'[m] = new
      BY <1>1, <2>1
    <3> QED BY <1>2, <1>3, <1>4, <2>1, <3>1
  <2>2. CASE m # Member(o)
    <3>1. members'[m] = members[m] /\ members[m].balance \in Nat /\ members[m].debt \in Nat
      BY <1>1, <2>2 DEF MemberRow
    <3> QED BY <2>2, <3>1
  <2> QED BY <2>1, <2>2
<1> QED BY <1>5 DEF Credits

LEMMA TakeBackCredits ==
  ASSUME members \in [Members -> MemberRow], NEW o \in Orders, NEW earned \in Nat,
         TakeBack(o, members[Member(o)], earned)
  PROVE  Credits(o, -earned)
<1> DEFINE row == members[Member(o)]
           taken == TakenBack(row, earned)
           balance == Put(row.balance, row.balance, row.balance - taken)
           debt == Put(row.debt, row.debt, row.debt + NewDebt(row, earned))
           logged == row.logged - taken
           new == [balance |-> balance, totalEarn |-> row.totalEarn,
                   totalUsed |-> row.totalUsed, debt |-> debt, logged |-> logged]
<1>1. members' = [members EXCEPT ![Member(o)] = new]
  BY DEF TakeBack
<1>2. /\ row.balance \in Nat /\ row.debt \in Nat /\ row.logged \in Int
      /\ Member(o) \in Members
  BY RequestTypes DEF MemberRow
<1>3. taken \in Nat
  BY <1>2 DEF TakenBack, Least
<1>4. debt = row.debt + earned - taken
  <2>1. NewDebt(row, earned) = earned - taken
    BY DEF NewDebt
  <2> HIDE DEF taken
  <2> QED BY <1>2, <1>3, <2>1 DEF Put
<1> HIDE DEF taken
<1>5. balance = row.balance - taken
  BY <1>2, <1>3 DEF Put
<1>6. new.balance = balance /\ new.debt = debt /\ new.logged = logged
  OBVIOUS
<1> HIDE DEF balance, debt, new
<1>7. ASSUME NEW m \in Members
      PROVE  /\ members[m].balance = members[m].logged
                  => members'[m].balance = members'[m].logged
             /\ members'[m].balance - members'[m].debt
                  = members[m].balance - members[m].debt
                      + (IF m = Member(o) THEN -earned ELSE 0)
  <2>1. CASE m = Member(o)
    <3>1. members'[m] = new
      BY <1>1, <2>1
    <3> QED BY <1>2, <1>3, <1>4, <1>5, <1>6, <2>1, <3>1
  <2>2. CASE m # Member(o)
    <3>1. members'[m] = members[m] /\ members[m].balance \in Nat /\ members[m].debt \in Nat
      BY <1>1, <2>2 DEF MemberRow
    <3> QED BY <2>2, <3>1
  <2> QED BY <2>1, <2>2
<1> QED BY <1>7 DEF Credits

(* What is known of a handler of one of m's orders.                        *)
LEMMA AccountOpen ==
  ASSUME NEW m \in Members, AccountInv(m), NEW w \in Workers, tx[w].order \in OfMember(m)
  PROVE  /\ tx[w].order \in Orders /\ orders[tx[w].order] \in OrderRow
         /\ Checked(tx[w], orders[tx[w].order]) /\ SnapshotFacts(tx[w])
         /\ RowFacts(orders[tx[w].order]) /\ ApartFacts(orders[tx[w].order])
         /\ orders[tx[w].order].earned \in Nat /\ orders[tx[w].order].spent \in Nat
         /\ tx[w].seen \in OrderRow /\ tx[w].seen.amount \in Nat /\ tx[w].arg \in Nat
         /\ tx[w].op \in WritesPoints => tx[w].member = members[Member(tx[w].order)]
         /\ members \in [Members -> MemberRow]
<1>1. ApartInv(OfMember(m)) /\ OfMember(m) \in SUBSET Orders /\ IndInv
  BY DEF AccountInv, ApartInv, OfMember
<1>2. /\ tx[w].order \in Orders /\ orders[tx[w].order] \in OrderRow
      /\ Checked(tx[w], orders[tx[w].order]) /\ SnapshotFacts(tx[w])
      /\ RowFacts(orders[tx[w].order]) /\ ApartFacts(orders[tx[w].order])
  BY <1>1, ApartOpen
<1>3. /\ tx[w].seen \in OrderRow /\ tx[w].arg \in Nat
      /\ members \in [Members -> MemberRow]
  BY <1>1, <1>2, NoOrderAssumption, OpenFacts
<1>4. Member(tx[w].order) = m
  BY DEF OfMember
<1> QED BY <1>2, <1>3, <1>4 DEF AccountInv, Snapshots, OrderRow

(* One lemma per handler that writes points.                               *)
LEMMA PayAccounts ==
  ASSUME NEW m \in Members, AccountInv(m),
         NEW w \in Workers, tx[w].order \in OfMember(m), PayCommit(w)
  PROVE  \E new : /\ Write(tx[w].order, new)
                  /\ Account(tx[w].order, orders[tx[w].order], new)
<1> DEFINE o      == tx[w].order
           seen   == tx[w].seen
           row    == orders[o]
           done   == seen.log.pay > 0
           used   == Least(tx[w].arg, seen.amount)
           earned == Grant(seen, seen.amount - used)
           amount == Put(row.amount, seen.amount, seen.amount - used)
           points == IF used > 0 THEN Put(row.points, seen.points, used) ELSE row.points
           spent  == row.spent + used
           sum    == row.earned + earned
           rows   == row.earnRows + (IF earned > 0 THEN 1 ELSE 0)
           codes  == IF HasCodes(o) /\ CodesOf(seen) = {}
                     THEN [row.codes EXCEPT !.unused = 1..Qty(o)] ELSE row.codes
           log    == Logged(row.log, "pay", done)
           new == [row EXCEPT !.status = "PAID", !.amount = amount, !.points = points,
                              !.spent = spent, !.earned = sum, !.earnRows = rows,
                              !.payments = row.payments + 1, !.log = log, !.codes = codes]
<1>1. Write(o, new) /\ tx[w].op = "pay" /\ MovePoints(o, tx[w].member, used, earned)
  BY DEF PayCommit
<1>2. /\ o \in Orders /\ row \in OrderRow /\ row.status = "PENDING_PAY"
      /\ row.earned \in Nat /\ row.spent \in Nat /\ seen.amount \in Nat /\ tx[w].arg \in Nat
      /\ tx[w].member = members[Member(o)] /\ members \in [Members -> MemberRow]
  BY <1>1, AccountOpen DEF Checked, WritesPoints
<1>3. used \in Nat /\ seen.amount - used \in Nat
  BY <1>2 DEF Least
<1>4. earned \in Nat
  <2>1. Earned(seen.amount - used) \in Nat
    BY <1>3, EarnedNat
  <2> QED BY <2>1 DEF Grant
<1> HIDE DEF done, used, earned, amount, points, rows, codes, log
<1>5. Credits(o, earned - used)
  BY <1>1, <1>2, <1>3, <1>4, MovePointsCredits
<1> HIDE DEF spent, sum
<1>6. new.status = "PAID" /\ new.earned = sum /\ new.spent = spent
  BY <1>2 DEF OrderRow
<1> HIDE DEF new, row
<1>7. KeptOf(new) - KeptOf(row) - (new.spent - row.spent) = earned - used
  BY <1>2, <1>3, <1>4, <1>6 DEF KeptOf, sum, spent
<1>8. Account(o, row, new)
  BY <1>5, <1>7 DEF Account
<1> QED BY <1>1, <1>8 DEF row

LEMMA ReceiveAccounts ==
  ASSUME NEW m \in Members, AccountInv(m),
         NEW w \in Workers, tx[w].order \in OfMember(m), ReceiveCommit(w)
  PROVE  \E new : /\ Write(tx[w].order, new)
                  /\ Account(tx[w].order, orders[tx[w].order], new)
<1> DEFINE o    == tx[w].order
           seen == tx[w].seen
           row  == orders[o]
           earned == Grant(seen, seen.amount)
           sum    == row.earned + earned
           rows   == row.earnRows + (IF earned > 0 THEN 1 ELSE 0)
           new == [row EXCEPT !.status = "COMPLETED", !.earned = sum, !.earnRows = rows]
<1>1. Write(o, new) /\ tx[w].op = "receive" /\ MovePoints(o, tx[w].member, 0, earned)
  BY DEF ReceiveCommit
<1>2. /\ o \in Orders /\ row \in OrderRow /\ row.status = "SHIPPED"
      /\ row.earned \in Nat /\ row.spent \in Nat /\ seen.amount \in Nat
      /\ tx[w].member = members[Member(o)] /\ members \in [Members -> MemberRow]
  BY <1>1, AccountOpen DEF Checked, WritesPoints
<1>3. earned \in Nat
  BY <1>2, EarnedNat DEF Grant
<1> HIDE DEF earned, rows
<1>4. Credits(o, earned - 0)
  BY <1>1, <1>2, <1>3, MovePointsCredits
<1> HIDE DEF sum
<1>5. new.status = "COMPLETED" /\ new.earned = sum /\ new.spent = row.spent
  BY <1>2 DEF OrderRow
<1> HIDE DEF new, row
<1>6. KeptOf(new) - KeptOf(row) - (new.spent - row.spent) = earned - 0
  BY <1>2, <1>3, <1>5 DEF KeptOf, sum
<1>7. Account(o, row, new)
  BY <1>4, <1>6 DEF Account
<1> QED BY <1>1, <1>7 DEF row

LEMMA ApproveAccounts ==
  ASSUME NEW m \in Members, AccountInv(m),
         NEW w \in Workers, tx[w].order \in OfMember(m), ApproveCommit(w)
  PROVE  \E new : /\ Write(tx[w].order, new)
                  /\ Account(tx[w].order, orders[tx[w].order], new)
<1> DEFINE o    == tx[w].order
           seen == tx[w].seen
           row  == orders[o]
           done == seen.log.ret > 0
           status  == Put(row.status, seen.status, "REFUNDED")
           refunds == Audited(row.refunds, tx[w].arg, "APPROVED")
           log     == Logged(row.log, "ret", done)
           codes   == VoidCodes(row.codes)
           new == [row EXCEPT !.status = status, !.refunds = refunds,
                              !.log = log, !.codes = codes]
<1>1. Write(o, new) /\ tx[w].op = "approve" /\ TakeBack(o, tx[w].member, seen.earned)
  BY DEF ApproveCommit
<1>2. /\ o \in Orders /\ row \in OrderRow /\ seen.status = row.status
      /\ row.earned \in Nat /\ row.spent \in Nat /\ seen.earned = row.earned
      /\ tx[w].arg \in RefundNumbers(row)
      /\ row.refunds[tx[w].arg].status = "PENDING_AUDIT" /\ RefundFacts(row)
      /\ tx[w].member = members[Member(o)] /\ members \in [Members -> MemberRow]
  BY <1>1, AccountOpen DEF Checked, WritesPoints, ApartFacts
<1>3. row.status = "REFUNDING"
  BY <1>2 DEF RefundFacts
<1>4. status = "REFUNDED"
  BY <1>2, <1>3 DEF Put
<1>5. Credits(o, -row.earned)
  BY <1>1, <1>2, TakeBackCredits
<1> HIDE DEF status, refunds, log, codes
<1>6. new.status = status /\ new.earned = row.earned /\ new.spent = row.spent
  BY <1>2 DEF OrderRow
<1> HIDE DEF new, row
<1>7. KeptOf(new) - KeptOf(row) - (new.spent - row.spent) = -row.earned
  BY <1>2, <1>3, <1>4, <1>6 DEF KeptOf
<1>8. Account(o, row, new)
  BY <1>5, <1>7 DEF Account
<1> QED BY <1>1, <1>8 DEF row

(* The other handlers leave the members alone, and of the order what it    *)
(* earned and spent and whether it is refunded.                            *)
LEMMA OtherAccounts ==
  ASSUME NEW m \in Members, AccountInv(m),
         NEW w \in Workers, tx[w].order \in OfMember(m),
         Commit(w), tx[w].op \notin WritesPoints \union {"ship"}
  PROVE  \E new : /\ Write(tx[w].order, new)
                  /\ Account(tx[w].order, orders[tx[w].order], new)
<1> DEFINE o   == tx[w].order
           row == orders[o]
           Goal == \E new : Write(o, new) /\ Account(o, row, new)
<1> SUFFICES Goal
  OBVIOUS
<1>2. /\ o \in Orders /\ row \in OrderRow /\ Checked(tx[w], row) /\ SnapshotFacts(tx[w])
      /\ RowFacts(row) /\ RefundFacts(row) /\ row.earned \in Nat /\ row.spent \in Nat
      /\ members \in [Members -> MemberRow]
  BY AccountOpen DEF ApartFacts
<1>3. ASSUME NEW new, Write(o, new), UNCHANGED members, new.earned = row.earned,
             new.spent = row.spent,
             row.status = "REFUNDED" <=> new.status = "REFUNDED"
      PROVE  Goal
  <2>1. Credits(o, 0)
    BY <1>2, <1>3, CreditsNone
  <2>2. KeptOf(new) - KeptOf(row) - (new.spent - row.spent) = 0
    BY <1>2, <1>3 DEF KeptOf
  <2>3. Account(o, row, new)
    BY <2>1, <2>2 DEF Account
  <2> QED BY <1>3, <2>3
<1>4. ASSUME NEW status, NEW log, UNCHANGED members,
             Write(o, [row EXCEPT !.status = status, !.log = log]),
             row.status = "REFUNDED" <=> status = "REFUNDED"
      PROVE  Goal
  <2> DEFINE new == [row EXCEPT !.status = status, !.log = log]
  <2>1. new.earned = row.earned /\ new.spent = row.spent /\ new.status = status
    BY <1>2 DEF OrderRow
  <2>2. Write(o, new)
    BY <1>4
  <2> HIDE DEF new, Goal
  <2> QED BY <1>3, <1>4, <2>1, <2>2
<1>5. ASSUME NEW status, UNCHANGED members, Write(o, [row EXCEPT !.status = status]),
             row.status = "REFUNDED" <=> status = "REFUNDED"
      PROVE  Goal
  <2> DEFINE new == [row EXCEPT !.status = status]
  <2>1. new.earned = row.earned /\ new.spent = row.spent /\ new.status = status
    BY <1>2 DEF OrderRow
  <2>2. Write(o, new)
    BY <1>5
  <2> HIDE DEF new, Goal
  <2> QED BY <1>3, <1>5, <2>1, <2>2
<1>6. ASSUME NEW status, NEW refunds, UNCHANGED members,
             Write(o, [row EXCEPT !.status = status, !.refunds = refunds]),
             row.status = "REFUNDED" <=> status = "REFUNDED"
      PROVE  Goal
  <2> DEFINE new == [row EXCEPT !.status = status, !.refunds = refunds]
  <2>1. new.earned = row.earned /\ new.spent = row.spent /\ new.status = status
    BY <1>2 DEF OrderRow
  <2>2. Write(o, new)
    BY <1>6
  <2> HIDE DEF new, Goal
  <2> QED BY <1>3, <1>6, <2>1, <2>2
<1>7. ASSUME NEW codes, UNCHANGED members, Write(o, [row EXCEPT !.codes = codes])
      PROVE  Goal
  <2> DEFINE new == [row EXCEPT !.codes = codes]
  <2>1. new.earned = row.earned /\ new.spent = row.spent /\ new.status = row.status
    BY <1>2 DEF OrderRow
  <2>2. Write(o, new)
    BY <1>7
  <2> HIDE DEF new, Goal
  <2> QED BY <1>3, <1>7, <2>1, <2>2
<1>8. CASE CreateCommit(w)
  <2> DEFINE log == Logged(NoLog, "lock", FALSE)
             new == [NoRow EXCEPT !.status = "PENDING_PAY", !.amount = Request[o].cash,
                                  !.points = Request[o].points, !.log = log]
  <2>1. Write(o, new) /\ UNCHANGED members /\ tx[w].op = "create"
    BY <1>8 DEF CreateCommit
  <2>2. row = NoRow
    BY <1>2, <2>1 DEF SnapshotFacts, RowFacts
  <2> HIDE DEF log
  <2>3. /\ new.earned = NoRow.earned /\ new.spent = NoRow.spent
        /\ new.status = "PENDING_PAY" /\ NoRow.status = "NONE"
    BY DEF NoRow
  <2> HIDE DEF new, Goal
  <2> QED BY <1>3, <2>1, <2>2, <2>3
<1> HIDE DEF Goal
<1>9. CASE CancelCommit(w) \/ CloseCommit(w) \/ TimeoutCommit(w)
  <2>1. /\ UNCHANGED members /\ tx[w].op \in {"cancel", "close", "timeout"}
        /\ \E log : Write(o, [row EXCEPT !.status = "CLOSED", !.log = log])
    BY <1>9 DEF CancelCommit, CloseCommit, TimeoutCommit
  <2>2. row.status = "PENDING_PAY"
    BY <1>2, <2>1 DEF Checked
  <2>3. PICK log : Write(o, [row EXCEPT !.status = "CLOSED", !.log = log])
    BY <2>1
  <2>4. row.status = "REFUNDED" <=> "CLOSED" = "REFUNDED"
    BY <2>2
  <2> QED BY <1>4, <2>1, <2>3, <2>4
<1>10. CASE StockingCommit(w)
  <2> DEFINE status == IF Request[o].delivery = "PICKUP" THEN "PENDING_PICKUP"
                                                         ELSE "PENDING_SHIP"
  <2>1. /\ UNCHANGED members /\ tx[w].op = "stocking"
        /\ Write(o, [row EXCEPT !.status = status])
    BY <1>10 DEF StockingCommit
  <2>2. row.status = "PAID" /\ status # "REFUNDED"
    BY <1>2, <2>1 DEF Checked
  <2> HIDE DEF status
  <2> QED BY <1>5, <2>1, <2>2
<1>11. CASE PickupCommit(w)
  <2>1. /\ UNCHANGED members /\ tx[w].op = "pickup"
        /\ Write(o, [row EXCEPT !.status = "COMPLETED"])
    BY <1>11 DEF PickupCommit
  <2>2. row.status = "PENDING_PICKUP"
    BY <1>2, <2>1 DEF Checked
  <2> QED BY <1>5, <2>1, <2>2
<1>12. CASE RefundCommit(w)
  <2> DEFINE status == Put(row.status, tx[w].seen.status, "REFUNDING")
             refunds == Append(row.refunds, [status |-> "PENDING_AUDIT",
                                             before |-> tx[w].seen.status])
  <2>1. /\ UNCHANGED members /\ tx[w].op = "refund"
        /\ Write(o, [row EXCEPT !.status = status, !.refunds = refunds])
    BY <1>12 DEF RefundCommit
  <2>2. row.status # "REFUNDED" /\ status # "REFUNDED"
    BY <1>2, <2>1 DEF Checked, Refundable, Put
  <2> HIDE DEF status, refunds
  <2> QED BY <1>6, <2>1, <2>2
<1>13. CASE RejectCommit(w)
  <2> DEFINE seen   == tx[w].seen
             i      == tx[w].arg
             status == IF seen.status = "REFUNDING"
                       THEN Put(row.status, seen.status, seen.refunds[i].before)
                       ELSE row.status
             refunds == Audited(row.refunds, i, "REJECTED")
  <2>1. /\ UNCHANGED members /\ tx[w].op = "reject"
        /\ Write(o, [row EXCEPT !.status = status, !.refunds = refunds])
    BY <1>13 DEF RejectCommit
  <2>2. /\ i \in RefundNumbers(row) /\ row.refunds[i].status = "PENDING_AUDIT"
        /\ seen.status = row.status /\ seen.refunds = row.refunds
    BY <1>2, <2>1 DEF Checked
  <2>3. row.status = "REFUNDING" /\ row.refunds[i].before \in {"PAID", "SHIPPED"}
    BY <1>2, <2>2 DEF RefundFacts
  <2>4. status # "REFUNDED"
    BY <2>2, <2>3 DEF Put
  <2> HIDE DEF status, refunds
  <2> QED BY <1>6, <2>1, <2>3, <2>4
<1>14. CASE VerifyCommit(w)
  <2>1. /\ UNCHANGED members
        /\ \E codes : Write(o, [row EXCEPT !.codes = codes])
    BY <1>14 DEF VerifyCommit
  <2> QED BY <1>7, <2>1
<1>15. ~PayCommit(w) /\ ~ShipCommit(w) /\ ~ReceiveCommit(w) /\ ~ApproveCommit(w)
  BY DEF PayCommit, ShipCommit, ReceiveCommit, ApproveCommit, WritesPoints
<1> QED BY <1>8, <1>9, <1>10, <1>11, <1>12, <1>13, <1>14, <1>15 DEF Commit

(* A commit writes no member but that of its order, and only some do.      *)
LEMMA CommitMembers ==
  ASSUME NEW w \in Workers, Commit(w)
  PROVE  /\ tx[w].op \notin WritesPoints => UNCHANGED members
         /\ \A m \in Members : m # Member(tx[w].order) => members'[m] = members[m]
<1>1. ASSUME NEW used, NEW earned, MovePoints(tx[w].order, tx[w].member, used, earned)
      PROVE  \A m \in Members : m # Member(tx[w].order) => members'[m] = members[m]
  BY <1>1 DEF MovePoints
<1>2. ASSUME NEW earned, TakeBack(tx[w].order, tx[w].member, earned)
      PROVE  \A m \in Members : m # Member(tx[w].order) => members'[m] = members[m]
  BY <1>2 DEF TakeBack
<1>3. CASE PayCommit(w)
  BY <1>1, <1>3 DEF PayCommit, WritesPoints
<1>4. CASE ReceiveCommit(w)
  BY <1>1, <1>4 DEF ReceiveCommit, WritesPoints
<1>5. CASE ApproveCommit(w)
  BY <1>2, <1>5 DEF ApproveCommit, WritesPoints
<1>6. CASE ~PayCommit(w) /\ ~ReceiveCommit(w) /\ ~ApproveCommit(w)
  BY <1>6 DEF Commit, CreateCommit, CancelCommit, CloseCommit, TimeoutCommit,
              StockingCommit, PickupCommit, ShipCommit, RefundCommit, RejectCommit,
              VerifyCommit
<1> QED BY <1>3, <1>4, <1>5, <1>6

(* Handlers that write the points of m take turns, so none of them is left *)
(* with a stale row.                                                       *)
LEMMA SnapshotsTrue ==
  ASSUME NEW m \in Members, IndInv, Queued(m), Snapshots(m), [Next]_vars
  PROVE  Snapshots(m)'
<1> SUFFICES ASSUME NEW v \in Workers, tx'[v].op \in WritesPoints,
                    Member(tx'[v].order) = m
             PROVE  tx'[v].member = members'[m]
  BY DEF Snapshots, Member
<1>1. tx \in [Workers -> Transaction]
  BY DEF IndInv, TypeOK
<1>2. CASE tx'[v] # tx[v]
  <2>1. PICK w \in Workers : \E t :
           /\ tx' = [tx EXCEPT ![w] = t]
           /\ \/ t.order = NoOrder /\ t.op \notin WritesPoints
              \/ UNCHANGED members /\ \E o \in Orders : Reads(t, o)
    BY <1>1, <1>2, StepOpens
  <2>2. PICK t : /\ tx' = [tx EXCEPT ![w] = t]
                 /\ \/ t.order = NoOrder /\ t.op \notin WritesPoints
                    \/ UNCHANGED members /\ \E o \in Orders : Reads(t, o)
    BY <2>1
  <2>3. tx'[v] = t
    BY <1>1, <1>2, <2>2
  <2> QED BY <2>2, <2>3 DEF Reads
<1>3. CASE tx'[v] = tx[v]
  <2>1. /\ tx[v].member = members[m] /\ tx[v].op \in WritesPoints
        /\ Member(tx[v].order) = m
    BY <1>3 DEF Snapshots
  <2>2. CASE members'[m] = members[m]
    BY <1>3, <2>1, <2>2
  <2>3. ASSUME NEW w \in Workers, Commit(w), members'[m] # members[m] PROVE FALSE
    <3>1. tx[w].op \in WritesPoints /\ Member(tx[w].order) = m
      BY <2>3, CommitMembers
    <3>2. w = v
      BY <2>1, <3>1 DEF Queued
    <3>3. tx'[w] = Idle
      <4>1. PayCommit(w) \/ ReceiveCommit(w) \/ ApproveCommit(w)
        BY <2>3 DEF Commit, CreateCommit, CancelCommit, CloseCommit, TimeoutCommit,
            StockingCommit, PickupCommit, ShipCommit, RefundCommit, RejectCommit,
            VerifyCommit
      <4> QED BY <1>1, <4>1 DEF PayCommit, ReceiveCommit, ApproveCommit, Done
    <3> QED BY <3>2, <3>3 DEF Idle, WritesPoints
  <2> QED BY <2>2, <2>3, CommitsWrite
<1> QED BY <1>2, <1>3

(* The sums follow the balances.                                           *)
LEMMA AccountMove ==
  ASSUME IndInv, IndInv', NEW m \in Members, Sums(m), NEW o \in OfMember(m),
         NEW new, Write(o, new), Account(o, orders[o], new)
  PROVE  Sums(m)'
<1> DEFINE S == OfMember(m)
           k == Kept
           l == Kept'
           s == Spent
           t == Spent'
           row == orders[o]
           net == members[m].balance - members[m].debt
<1>0. o \in Orders /\ m = Member(o)
  BY DEF OfMember
<1>1. /\ orders \in [Orders -> OrderRow] /\ orders' \in [Orders -> OrderRow]
      /\ members \in [Members -> MemberRow]
  BY DEF IndInv, TypeOK
<1>2. /\ IsFiniteSet(Pairs(S, k)) /\ IsFiniteSet(Pairs(S, s))
      /\ members[m].balance = members[m].logged
      /\ net = InitialPoints + Total(S, k) - Total(S, s)
  BY DEF Sums, PointsAccountedAt
<1>3. \A p \in Orders : orders'[p] = IF p = o THEN new ELSE orders[p]
  BY <1>0, <1>1 DEF Write
<1>4. /\ row.earned \in Nat /\ row.spent \in Nat
      /\ new.earned \in Nat /\ new.spent \in Nat
  <2>1. row \in OrderRow /\ new \in OrderRow
    BY <1>0, <1>1, <1>3
  <2> HIDE DEF row
  <2> QED BY <2>1 DEF OrderRow
<1>5. /\ k[o] = KeptOf(row) /\ l[o] = KeptOf(new) /\ s[o] = row.spent /\ t[o] = new.spent
      /\ \A p \in Orders \ {o} : l[p] = k[p] /\ t[p] = s[p]
  BY <1>0, <1>3 DEF Kept, Spent, KeptOf
<1>6. /\ members'[m].balance = members'[m].logged
      /\ members'[m].balance - members'[m].debt
           = net + (KeptOf(new) - KeptOf(row) - (new.spent - row.spent))
  BY <1>0, <1>2 DEF Account, Credits
<1>7. KeptOf(row) \in Nat /\ KeptOf(new) \in Nat
  BY <1>4 DEF KeptOf
<1> HIDE DEF k, l, s, t, row, net
<1>8. o \in S /\ \A p \in S \ {o} : l[p] = k[p] /\ t[p] = s[p]
  BY <1>5 DEF OfMember
<1> HIDE DEF S
<1>9. /\ IsFiniteSet(Pairs(S, l)) /\ Total(S, k) \in Nat
      /\ Total(S, l) = Total(S, k) - k[o] + l[o]
  BY <1>2, <1>5, <1>7, <1>8, TotalChange
<1>10. /\ IsFiniteSet(Pairs(S, t)) /\ Total(S, s) \in Nat
       /\ Total(S, t) = Total(S, s) - s[o] + t[o]
  BY <1>2, <1>4, <1>5, <1>8, TotalChange
<1>11. net + (KeptOf(new) - KeptOf(row) - (new.spent - row.spent))
         = InitialPoints + Total(S, l) - Total(S, t)
  BY <1>2, <1>4, <1>5, <1>7, <1>9, <1>10, PointsAssumption
<1>12. /\ IsFiniteSet(Pairs(S, l)) /\ IsFiniteSet(Pairs(S, t))
       /\ members'[m].balance = members'[m].logged
       /\ members'[m].balance - members'[m].debt
            = InitialPoints + Total(S, l) - Total(S, t)
  BY <1>6, <1>9, <1>10, <1>11
<1> QED BY <1>12 DEF S, l, t, Sums, PointsAccountedAt, OfMember, Pairs, Total

LEMMA AccountStays ==
  ASSUME NEW m \in Members, Sums(m), members'[m] = members[m],
         \A p \in OfMember(m) : /\ KeptOf(orders'[p]) = KeptOf(orders[p])
                                /\ orders'[p].spent = orders[p].spent
  PROVE  Sums(m)'
<1>1. \A p \in OfMember(m) : Kept'[p] = Kept[p] /\ Spent'[p] = Spent[p]
  BY DEF Kept, Spent, KeptOf, OfMember
<1>2. /\ Pairs(OfMember(m), Kept') = Pairs(OfMember(m), Kept)
      /\ Pairs(OfMember(m), Spent') = Pairs(OfMember(m), Spent)
  BY <1>1, PairsSame
<1>3. /\ IsFiniteSet(Pairs(OfMember(m), Kept')) /\ IsFiniteSet(Pairs(OfMember(m), Spent'))
      /\ members'[m].balance = members'[m].logged
      /\ members'[m].balance - members'[m].debt
           = InitialPoints + Total(OfMember(m), Kept') - Total(OfMember(m), Spent')
  BY <1>2 DEF Sums, PointsAccountedAt, Total
<1> QED BY <1>3 DEF Sums, PointsAccountedAt, OfMember, Pairs, Total

(* A commit of one of m's orders, and one of any other order.              *)
LEMMA AccountCommits ==
  ASSUME NEW m \in Members, AccountInv(m), IndInv',
         NEW w \in Workers, Commit(w), tx[w].op # "ship"
  PROVE  Sums(m)'
<1>1. /\ ApartInv(OfMember(m)) /\ IndInv /\ Sums(m)
      /\ orders \in [Orders -> OrderRow]
  BY DEF AccountInv, ApartInv, IndInv, TypeOK
<1>2. CASE tx[w].order \in OfMember(m)
  <2>1. \E new : /\ Write(tx[w].order, new)
                 /\ Account(tx[w].order, orders[tx[w].order], new)
    <3>1. PayCommit(w) \/ ReceiveCommit(w) \/ ApproveCommit(w)
            \/ tx[w].op \notin WritesPoints \union {"ship"}
      BY DEF Commit, WritesPoints, CreateCommit, CancelCommit, CloseCommit, TimeoutCommit,
             StockingCommit, PickupCommit, ShipCommit, RefundCommit, RejectCommit,
             VerifyCommit
    <3>2. CASE PayCommit(w)
      BY <1>2, <3>2, PayAccounts
    <3>3. CASE ReceiveCommit(w)
      BY <1>2, <3>3, ReceiveAccounts
    <3>4. CASE ApproveCommit(w)
      BY <1>2, <3>4, ApproveAccounts
    <3>5. CASE tx[w].op \notin WritesPoints \union {"ship"}
      BY <1>2, <3>5, OtherAccounts
    <3> QED BY <3>1, <3>2, <3>3, <3>4, <3>5
  <2> QED BY <1>1, <1>2, <2>1, AccountMove
<1>3. CASE tx[w].order \notin OfMember(m)
  <2>1. tx[w].order \in Orders /\ \E new : Write(tx[w].order, new)
    BY <1>1, Enters
  <2>2. m # Member(tx[w].order)
    BY <1>3, <2>1 DEF OfMember
  <2>3. members'[m] = members[m]
    BY <2>2, CommitMembers
  <2>4. \A p \in OfMember(m) : orders'[p] = orders[p]
    BY <1>1, <1>3, <2>1 DEF Write, OfMember
  <2> QED BY <1>1, <2>3, <2>4, AccountStays
<1> QED BY <1>2, <1>3

LEMMA AccountShips ==
  ASSUME NEW m \in Members, AccountInv(m), NEW w \in Workers, ShipCommit(w)
  PROVE  Sums(m)'
<1>1. /\ ApartInv(OfMember(m)) /\ Sums(m) /\ OfMember(m) \in SUBSET Orders
      /\ orders \in [Orders -> OrderRow]
  BY DEF AccountInv, ApartInv, IndInv, TypeOK, OfMember
<1>2. UNCHANGED members
  BY DEF ShipCommit
<1>3. ASSUME NEW p \in OfMember(m)
      PROVE  /\ orders'[p].earned = orders[p].earned
             /\ orders'[p].spent = orders[p].spent
  BY <1>1 DEF ShipCommit, OrderRow
<1>4. ASSUME NEW p \in OfMember(m)
      PROVE  orders'[p].status = "REFUNDED" <=> orders[p].status = "REFUNDED"
  <2>1. PhaseOf(orders'[p].status) = PhaseOf(orders[p].status)
    BY <1>1, ShipFollows
  <2>2. \A status : PhaseOf(status) = "returned" <=> status = "REFUNDED"
    BY DEF PhaseOf
  <2> QED BY <2>1, <2>2
<1>5. \A p \in OfMember(m) : /\ KeptOf(orders'[p]) = KeptOf(orders[p])
                             /\ orders'[p].spent = orders[p].spent
  BY <1>3, <1>4 DEF KeptOf
<1> QED BY <1>1, <1>2, <1>5, AccountStays

LEMMA AccountKept ==
  ASSUME NEW m \in Members, AccountInv(m), [Next]_vars, AllAlone(OfMember(m))', Queued(m)'
  PROVE  AccountInv(m)'
<1>1. /\ ApartInv(OfMember(m)) /\ OfMember(m) \in SUBSET Orders
      /\ IndInv /\ Queued(m) /\ Snapshots(m) /\ Sums(m)
  BY DEF AccountInv, ApartInv, OfMember
<1>2. ApartInv(OfMember(m))' /\ IndInv'
  <2>1. ApartInv(OfMember(m))'
    BY <1>1, ApartKept
  <2> QED BY <2>1 DEF ApartInv
<1>3. Snapshots(m)'
  BY <1>1, SnapshotsTrue
<1>4. UNCHANGED <<orders, members>> => Sums(m)'
  BY <1>1, AccountStays
<1>5. ASSUME NEW w \in Workers, Commit(w) PROVE Sums(m)'
  BY <1>2, <1>5, AccountCommits, AccountShips, ShipsOnly
<1>6. Sums(m)'
  BY <1>4, <1>5, CommitsWrite
<1> QED BY <1>2, <1>3, <1>6 DEF AccountInv

LEMMA AccountInit ==
  ASSUME NEW m \in Members, Init
  PROVE  AccountInv(m)
<1>1. \A o \in OfMember(m) : Kept[o] = 0 /\ Spent[o] = 0
  BY DEF Init, NoRow, Kept, Spent, OfMember
<1>2. \A w \in Workers : tx[w].op \notin WritesPoints
  <2>1. Idle.op = "idle"
    BY DEF Idle
  <2> QED BY <2>1 DEF Init, WritesPoints
<1>3. IsFiniteSet(Pairs(OfMember(m), Kept)) /\ Total(OfMember(m), Kept) = 0
  BY <1>1, TotalNone
<1>4. IsFiniteSet(Pairs(OfMember(m), Spent)) /\ Total(OfMember(m), Spent) = 0
  BY <1>1, TotalNone
<1>5. /\ members[m].balance = InitialPoints /\ members[m].debt = 0
      /\ members[m].logged = InitialPoints
  BY DEF Init, NewMember
<1>6. Sums(m)
  BY <1>3, <1>4, <1>5, PointsAssumption DEF Sums, PointsAccountedAt
<1>7. Queued(m) /\ Snapshots(m)
  BY <1>2 DEF Queued, Snapshots
<1> QED BY <1>6, <1>7, ApartInit DEF AccountInv, OfMember

(* As long as no two open transactions deal with an order of a member or   *)
(* write its points, and whatever happens to the other members, none of    *)
(* its grants, deductions and take-backs is lost: its balance is the sum   *)
(* of its log, and net of the debt it is what its orders kept and spent    *)
(* make of the points it started with.                                     *)
THEOREM MemberAccounted ==
  ASSUME NEW m \in Members
  PROVE  Spec /\ []AllAlone(OfMember(m)) /\ []Queued(m) => []PointsAccountedAt(m)
<1>1. Init => AccountInv(m)
  BY AccountInit
<1>2. AccountInv(m) /\ [Next]_vars /\ AllAlone(OfMember(m))' /\ Queued(m)'
        => AccountInv(m)'
  BY AccountKept
<1>3. AccountInv(m) => PointsAccountedAt(m)
  BY DEF AccountInv, Sums
<1> QED BY <1>1, <1>2, <1>3, PTL DEF Spec

(* The same of all members, when no two handlers overlap.                  *)
THEOREM PointsAccountedHolds == IsolatedSpec => []PointsAccounted
<1> DEFINE Accounts == \A m \in Members : AccountInv(m)
<1>1. Init => Accounts
  BY AccountInit
<1>2. Accounts /\ Isolated /\ [Next /\ Isolated']_vars => Accounts'
  <2>1. ASSUME Isolated, [Next /\ Isolated']_vars, NEW m \in Members
        PROVE  [Next]_vars /\ AllAlone(OfMember(m))' /\ Queued(m)'
    BY <2>1, IsolatedApart DEF Isolated, AllAlone, OfMember
  <2> QED BY <2>1, AccountKept
<1>3. Accounts => PointsAccounted
  BY DEF AccountInv, Sums, PointsAccounted
<1> QED BY <1>1, <1>2, <1>3, IsolatedHolds, PTL DEF IsolatedSpec
=============================================================================
