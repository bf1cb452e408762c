--------------------------- MODULE WarehouseProofs ---------------------------
(***************************************************************************)
(* Proofs about module Warehouse for every set of orders, rows and calls   *)
(* of adjust_stock and all quantities.                                     *)
(***************************************************************************)
EXTENDS Warehouse, FiniteSetTheorems, TLAPS

(* The number of units of the orders of row s in phase p.                  *)
Count(s, p) == Cardinality(UnitsOf(OrdersIn(s, p)))

Counted(s, p) == IsFiniteSet(UnitsOf(OrdersIn(s, p)))

IndInv ==
  /\ TypeOK
  /\ \A s \in Skus : \A p \in {"held", "sold"} : Counted(s, p)
  /\ StockOwned

-----------------------------------------------------------------------------
(* Counting units.                                                         *)

LEMMA Units ==
  ASSUME NEW o, NEW q \in Nat \ {0}
  PROVE  IsFiniteSet({o} \X (1..q)) /\ Cardinality({o} \X (1..q)) = q
<1>1. IsFiniteSet(1..q) /\ Cardinality(1..q) = q
  <2>1. IsFiniteSet(1..q) /\ Cardinality(1..q) = IF 1 > q THEN 0 ELSE q - 1 + 1
    BY FS_Interval
  <2> QED BY <2>1
<1>2. IsFiniteSet({o}) /\ Cardinality({o}) = 1
  BY FS_Singleton
<1>3. /\ IsFiniteSet({o} \X (1..q))
      /\ Cardinality({o} \X (1..q)) = Cardinality({o}) * Cardinality(1..q)
  BY <1>1, <1>2, FS_Product
<1>4. Cardinality({o} \X (1..q)) = 1 * q
  BY <1>1, <1>2, <1>3
<1> QED BY <1>3, <1>4

(* An order that joins brings its units.                                   *)
LEMMA Joins ==
  ASSUME NEW S \in SUBSET Orders, NEW o \in Orders, o \notin S, IsFiniteSet(UnitsOf(S))
  PROVE  /\ IsFiniteSet(UnitsOf(S \union {o}))
         /\ Cardinality(UnitsOf(S \union {o})) = Cardinality(UnitsOf(S)) + QtyOf[o]
<1> DEFINE U == {o} \X (1..QtyOf[o])
<1>1. QtyOf[o] \in Nat \ {0}
  BY RowAssumption
<1>2. IsFiniteSet(U) /\ Cardinality(U) = QtyOf[o]
  BY <1>1, Units
<1>3. UnitsOf(S \union {o}) = UnitsOf(S) \union U
  BY DEF UnitsOf
<1>4. UnitsOf(S) \intersect U = {}
  BY DEF UnitsOf
<1>5. Cardinality(UnitsOf(S)) \in Nat
  BY FS_CardinalityType
<1> HIDE DEF U
<1>6. /\ IsFiniteSet(UnitsOf(S) \union U)
      /\ Cardinality(UnitsOf(S) \union U)
           = Cardinality(UnitsOf(S)) + Cardinality(U) - Cardinality(UnitsOf(S) \intersect U)
  BY <1>2, FS_Union
<1>7. Cardinality(UnitsOf(S) \intersect U) = 0
  BY <1>4, FS_EmptySet
<1>8. Cardinality(UnitsOf(S) \union U) = Cardinality(UnitsOf(S)) + QtyOf[o]
  BY <1>1, <1>2, <1>5, <1>6, <1>7
<1> QED BY <1>3, <1>6, <1>8

(* An order that leaves takes them with it.                                *)
LEMMA Parts ==
  ASSUME NEW S \in SUBSET Orders, NEW o \in S, IsFiniteSet(UnitsOf(S))
  PROVE  /\ IsFiniteSet(UnitsOf(S \ {o}))
         /\ Cardinality(UnitsOf(S \ {o})) = Cardinality(UnitsOf(S)) - QtyOf[o]
<1>1. UnitsOf(S \ {o}) \subseteq UnitsOf(S)
  BY DEF UnitsOf
<1>2. IsFiniteSet(UnitsOf(S \ {o}))
  BY <1>1, FS_Subset
<1>3. (S \ {o}) \union {o} = S /\ S \ {o} \in SUBSET Orders /\ o \in Orders /\ o \notin S \ {o}
  OBVIOUS
<1>4. Cardinality(UnitsOf(S)) = Cardinality(UnitsOf(S \ {o})) + QtyOf[o]
  BY <1>2, <1>3, Joins
<1>5. Cardinality(UnitsOf(S \ {o})) \in Nat /\ QtyOf[o] \in Nat
  BY <1>2, <1>3, FS_CardinalityType, RowAssumption
<1> QED BY <1>2, <1>4, <1>5

(* What the orders of a phase own after one of them has moved.             *)
LEMMA CountAfter ==
  ASSUME TypeOK, NEW o \in Orders, NEW from \in Phases, NEW to \in Phases, from # to,
         Advance(o, from, to), NEW s \in Skus, NEW p \in Phases, Counted(s, p)
  PROVE  /\ Counted(s, p)'
         /\ Count(s, p)' = IF s # SkuOf[o] THEN Count(s, p)
                           ELSE IF p = to THEN Count(s, p) + QtyOf[o]
                           ELSE IF p = from THEN Count(s, p) - QtyOf[o]
                           ELSE Count(s, p)
<1> DEFINE S == OrdersIn(s, p)
           T == {v \in Orders : SkuOf[v] = s /\ phase'[v] = p}
<1>1. phase \in [Orders -> Phases] /\ phase[o] = from /\ phase' = [phase EXCEPT ![o] = to]
  BY DEF TypeOK, Advance
<1>2. S \in SUBSET Orders /\ IsFiniteSet(UnitsOf(S)) /\ Count(s, p) = Cardinality(UnitsOf(S))
  BY DEF Counted, Count, OrdersIn
<1>3. UnitsOf(OrdersIn(s, p))' = UnitsOf(T)
  BY DEF OrdersIn, UnitsOf
<1>4. CASE s # SkuOf[o] \/ p \notin {from, to}
  <2>1. T = S
    BY <1>1, <1>4 DEF OrdersIn
  <2> HIDE DEF S, T
  <2> QED BY <1>2, <1>3, <1>4, <2>1 DEF Counted, Count
<1>5. CASE s = SkuOf[o] /\ p = to
  <2>1. T = S \union {o} /\ o \notin S
    BY <1>1, <1>5 DEF OrdersIn
  <2> HIDE DEF S, T
  <2>2. IsFiniteSet(UnitsOf(T)) /\ Cardinality(UnitsOf(T)) = Count(s, p) + QtyOf[o]
    BY <1>2, <2>1, Joins
  <2> QED BY <1>3, <1>5, <2>2 DEF Counted, Count
<1>6. CASE s = SkuOf[o] /\ p = from
  <2>1. T = S \ {o} /\ o \in S
    BY <1>1, <1>6 DEF OrdersIn
  <2> HIDE DEF S, T
  <2>2. IsFiniteSet(UnitsOf(T)) /\ Cardinality(UnitsOf(T)) = Count(s, p) - QtyOf[o]
    BY <1>2, <2>1, Parts
  <2> QED BY <1>3, <1>6, <2>2 DEF Counted, Count
<1> QED BY <1>4, <1>5, <1>6

-----------------------------------------------------------------------------
(* The moves of the orders.                                                *)

(* A move of order o between two phases that moves its units between the   *)
(* counters accordingly.                                                   *)
LEMMA MoveKeeps ==
  ASSUME IndInv, NEW o \in Orders, NEW from \in Phases, NEW to \in Phases, from # to,
         Advance(o, from, to),
         NEW l \in Int, NEW d \in Int, NEW a \in Int, Move(SkuOf[o], l, d, a),
         stock[SkuOf[o]].locked + l >= 0, stock[SkuOf[o]].sold + d >= 0,
         stock[SkuOf[o]].available + a >= 0,
         l = IF to = "held" THEN QtyOf[o] ELSE IF from = "held" THEN -QtyOf[o] ELSE 0,
         d = IF to = "sold" THEN QtyOf[o] ELSE IF from = "sold" THEN -QtyOf[o] ELSE 0,
         NEW change \in Int, Log(SkuOf[o], change)
  PROVE  IndInv'
<1> DEFINE k == SkuOf[o]
<1>1. TypeOK /\ k \in Skus /\ QtyOf[o] \in Nat /\ stock \in [Skus -> StockRow]
  BY RowAssumption DEF IndInv, TypeOK
<1>2. stock[k] \in StockRow
  BY <1>1
<1>3. /\ stock'[k].locked = stock[k].locked + l /\ stock'[k].sold = stock[k].sold + d
      /\ stock'[k] \in StockRow
  BY <1>1, <1>2 DEF Move, StockRow
<1>4. \A s \in Skus : s # k => stock'[s] = stock[s]
  BY <1>1 DEF Move
<1>5. stock' \in [Skus -> StockRow]
  BY <1>1, <1>3 DEF Move
<1>6. TypeOK'
  BY <1>1, <1>5 DEF TypeOK, Advance, Log
<1>7. ASSUME NEW s \in Skus
      PROVE  /\ \A p \in {"held", "sold"} : Counted(s, p)'
             /\ stock'[s].locked = Count(s, "held")'
             /\ stock'[s].sold = Count(s, "sold")'
  <2>1. /\ Counted(s, "held") /\ stock[s].locked = Count(s, "held")
        /\ Counted(s, "sold") /\ stock[s].sold = Count(s, "sold")
        /\ stock[s].locked \in Nat /\ stock[s].sold \in Nat
    BY <1>1 DEF IndInv, StockRow, StockOwned, Count
  <2>2. /\ Counted(s, "held")'
        /\ Count(s, "held")' = IF s # SkuOf[o] THEN Count(s, "held")
                               ELSE IF "held" = to THEN Count(s, "held") + QtyOf[o]
                               ELSE IF "held" = from THEN Count(s, "held") - QtyOf[o]
                               ELSE Count(s, "held")
    BY <1>1, <2>1, CountAfter DEF Phases
  <2>3. /\ Counted(s, "sold")'
        /\ Count(s, "sold")' = IF s # SkuOf[o] THEN Count(s, "sold")
                               ELSE IF "sold" = to THEN Count(s, "sold") + QtyOf[o]
                               ELSE IF "sold" = from THEN Count(s, "sold") - QtyOf[o]
                               ELSE Count(s, "sold")
    BY <1>1, <2>1, CountAfter DEF Phases
  <2>4. stock'[s].locked = Count(s, "held")'
    BY <1>1, <1>3, <1>4, <2>1, <2>2
  <2>5. stock'[s].sold = Count(s, "sold")'
    BY <1>1, <1>3, <1>4, <2>1, <2>3
  <2> QED BY <2>2, <2>3, <2>4, <2>5
<1> QED BY <1>6, <1>7 DEF IndInv, StockOwned, Count

LEMMA OrderKeeps ==
  ASSUME IndInv, NEW o \in Orders, Lock(o) \/ Confirm(o) \/ Release(o) \/ Return(o)
  PROVE  IndInv'
<1> DEFINE k == SkuOf[o]
           q == QtyOf[o]
<1>1. /\ k \in Skus /\ q \in Nat /\ q > 0 /\ stock[k] \in StockRow
  BY RowAssumption DEF IndInv, TypeOK
<1>2. /\ stock[k].locked \in Nat /\ stock[k].sold \in Nat /\ stock[k].available \in Nat
      /\ 0 \in Int /\ q \in Int /\ -q \in Int
  BY <1>1 DEF StockRow
<1>3. {"none", "held", "sold", "released", "returned"} \subseteq Phases
  BY DEF Phases
<1>4. CASE Lock(o)
  <2>1. Advance(o, "none", "held") /\ stock[k].available >= q /\ Move(k, q, 0, -q) /\ Log(k, -q)
    BY <1>4 DEF Lock, LockStock
  <2> QED BY <1>1, <1>2, <1>3, <2>1, MoveKeeps
<1>5. CASE Confirm(o)
  <2>1. Advance(o, "held", "sold") /\ stock[k].locked >= q /\ Move(k, -q, q, 0) /\ Log(k, 0)
    BY <1>5 DEF Confirm, ConfirmLock
  <2> QED BY <1>1, <1>2, <1>3, <2>1, MoveKeeps
<1>6. CASE Release(o)
  <2>1. Advance(o, "held", "released") /\ stock[k].locked >= q /\ Move(k, -q, 0, q) /\ Log(k, q)
    BY <1>6 DEF Release, ReleaseLock
  <2> QED BY <1>1, <1>2, <1>3, <2>1, MoveKeeps
<1>7. CASE Return(o)
  <2>1. Advance(o, "sold", "returned") /\ stock[k].sold >= q /\ Move(k, 0, -q, q) /\ Log(k, q)
    BY <1>7 DEF Return, RefundReturn
  <2> QED BY <1>1, <1>2, <1>3, <2>1, MoveKeeps
<1> QED BY <1>4, <1>5, <1>6, <1>7

-----------------------------------------------------------------------------
(* The calls of adjust_stock.                                              *)

LEMMA BlankType ==
  ASSUME NEW state \in {"new", "over"}
  PROVE  Blank(state) \in Transaction
<1>1. <<>> \in [{} -> [mode: Modes, value: Values]]
  OBVIOUS
<1>2. <<>> \in Items
  BY <1>1 DEF Items
<1>3. [s \in Skus |-> FreshRow(0)] \in [Skus -> StockRow]
  BY DEF FreshRow, StockRow
<1> QED BY <1>2, <1>3 DEF Blank, Transaction

(* A new total is a whole number, and the computed available counter too.  *)
LEMMA TotalType ==
  ASSUME NEW t \in Transaction, NEW s \in DOMAIN t.items
  PROVE  /\ s \in Skus /\ t.seen[s] \in StockRow
         /\ NewTotal(t.seen[s], t.items[s]) \in Int
         /\ Change(t.seen[s], t.items[s]) \in Int
<1>1. t.items \in Items /\ t.seen \in [Skus -> StockRow]
  BY DEF Transaction
<1>2. PICK S \in SUBSET Skus : t.items \in [S -> [mode: Modes, value: Values]]
  BY <1>1 DEF Items
<1>3. s \in Skus /\ t.seen[s] \in StockRow /\ t.items[s] \in [mode: Modes, value: Values]
  BY <1>1, <1>2
<1>4. NewTotal(t.seen[s], t.items[s]) \in Int
  BY <1>3, ValueAssumption DEF NewTotal, StockRow, Modes
<1> QED BY <1>3, <1>4 DEF Change, StockRow

(* What the flush of one row writes.                                       *)
LEMMA AdjustedRow ==
  ASSUME NEW t \in Transaction, NEW s \in DOMAIN t.items, NEW cur \in StockRow,
         ~(Adjusted(cur, t.seen[s], t.items[s]).available < 0)
  PROVE  /\ Adjusted(cur, t.seen[s], t.items[s]) \in StockRow
         /\ Adjusted(cur, t.seen[s], t.items[s]).locked = cur.locked
         /\ Adjusted(cur, t.seen[s], t.items[s]).sold = cur.sold
         /\ cur = t.seen[s] =>
              /\ Balanced(Adjusted(cur, t.seen[s], t.items[s]))
              /\ Adjusted(cur, t.seen[s], t.items[s]).available - cur.available
                   = Change(t.seen[s], t.items[s])
<1> DEFINE n == NewTotal(t.seen[s], t.items[s])
           r == Adjusted(cur, t.seen[s], t.items[s])
           total == IF n = t.seen[s].total THEN cur.total ELSE n
           avail == n - t.seen[s].locked - t.seen[s].sold
           available == IF avail = t.seen[s].available THEN cur.available ELSE avail
<1>1. n \in Int /\ t.seen[s] \in StockRow
  BY TotalType
<1>2. r = [cur EXCEPT !.total = total, !.available = available]
  BY DEF Adjusted
<1>3. total \in Int /\ available \in Int
  <2> HIDE DEF n
  <2> QED BY <1>1 DEF StockRow
<1>4. /\ r.total = total /\ r.available = available
      /\ r.locked = cur.locked /\ r.sold = cur.sold
      /\ r = [total |-> total, locked |-> cur.locked, sold |-> cur.sold,
              available |-> available]
  <2> HIDE DEF total, available, r
  <2> QED BY <1>2 DEF StockRow
<1>5. available >= 0
  BY <1>3, <1>4
<1>6. r \in StockRow
  <2> HIDE DEF total, available, r
  <2> QED BY <1>3, <1>4, <1>5 DEF StockRow
<1>7. ASSUME cur = t.seen[s]
      PROVE  Balanced(r) /\ r.available - cur.available = Change(t.seen[s], t.items[s])
  <2>1. total = n /\ available = n - cur.locked - cur.sold
    BY <1>7
  <2> HIDE DEF total, available, r, n
  <2>2. Balanced(r)
    BY <1>1, <1>4, <1>7, <2>1 DEF Balanced, StockRow
  <2>3. Change(t.seen[s], t.items[s]) = n - cur.locked - cur.sold - cur.available
    BY <1>7 DEF Change, n
  <2> QED BY <1>4, <2>1, <2>2, <2>3
<1> QED BY <1>4, <1>6, <1>7

(* A step of a call that leaves the rows alone.                            *)
LEMMA CallStep ==
  ASSUME IndInv, NEW c \in Calls, NEW t \in Transaction, call' = [call EXCEPT ![c] = t],
         UNCHANGED <<stock, rows, phase, logged>>
  PROVE  IndInv'
BY DEF IndInv, TypeOK, StockOwned, Counted, OrdersIn

LEMMA AdjustBeginKeeps ==
  ASSUME IndInv, NEW c \in Calls, NEW items \in Items, AdjustBegin(c, items)
  PROVE  IndInv'
<1> DEFINE t == [state |-> "open", items |-> items, seen |-> stock, found |-> rows]
<1>1. t \in Transaction
  BY DEF IndInv, TypeOK, Transaction
<1>2. call' = [call EXCEPT ![c] = t] /\ UNCHANGED <<stock, rows, phase, logged>>
  BY DEF AdjustBegin
<1> HIDE DEF t
<1> QED BY <1>1, <1>2, CallStep

LEMMA RollbackKeeps ==
  ASSUME IndInv, NEW c \in Calls, Rollback(c)
  PROVE  IndInv'
<1>1. Blank("over") \in Transaction
  BY BlankType
<1> QED BY <1>1, CallStep DEF Rollback

(* What a commit of a call does to each row.                               *)
LEMMA CommitRows ==
  ASSUME IndInv, NEW c \in Calls, AdjustCommit(c), NEW s \in Skus
  PROVE  /\ stock'[s] \in StockRow
         /\ stock'[s].locked = stock[s].locked /\ stock'[s].sold = stock[s].sold
         /\ logged'[s] \in Int
         /\ s \notin DOMAIN call[c].items => stock'[s] = stock[s] /\ logged'[s] = logged[s]
         /\ s \in DOMAIN call[c].items /\ stock[s] = call[c].seen[s] =>
              /\ Balanced(stock'[s])
              /\ stock'[s].available - stock[s].available = logged'[s] - logged[s]
<1> DEFINE t == call[c]
           change == Change(t.seen[s], t.items[s])
<1>1. t \in Transaction /\ stock[s] \in StockRow /\ logged[s] \in Int
  BY DEF IndInv, TypeOK
<1>2. CASE s \notin DOMAIN t.items
  <2>1. stock'[s] = stock[s] /\ logged'[s] = logged[s]
    BY <1>2 DEF AdjustCommit
  <2> QED BY <1>1, <1>2, <2>1
<1>3. CASE s \in DOMAIN t.items
  <2>1. /\ stock'[s] = Adjusted(stock[s], t.seen[s], t.items[s])
        /\ logged'[s] = logged[s] + change
    BY <1>3 DEF AdjustCommit
  <2>2. ~(Adjusted(stock[s], t.seen[s], t.items[s]).available < 0)
    BY <1>3 DEF AdjustCommit, Refused
  <2>3. change \in Int
    BY <1>1, <1>3, TotalType
  <2>4. /\ stock'[s] \in StockRow
        /\ stock'[s].locked = stock[s].locked /\ stock'[s].sold = stock[s].sold
        /\ stock[s] = t.seen[s] =>
             Balanced(stock'[s]) /\ stock'[s].available - stock[s].available = change
    <3> HIDE DEF t, change
    <3> QED BY <1>1, <1>3, <2>1, <2>2, AdjustedRow DEF change
  <2>5. logged'[s] \in Int /\ logged'[s] - logged[s] = change
    <3> HIDE DEF change
    <3> QED BY <1>1, <2>1, <2>3
  <2> QED BY <1>3, <2>4, <2>5
<1> QED BY <1>2, <1>3

LEMMA AdjustCommitKeeps ==
  ASSUME IndInv, NEW c \in Calls, AdjustCommit(c)
  PROVE  IndInv'
<1> DEFINE t == call[c]
<1>1. t \in Transaction /\ UNCHANGED phase
  BY DEF IndInv, TypeOK, AdjustCommit
<1>2. /\ stock' = [s \in Skus |-> stock'[s]] /\ logged' = [s \in Skus |-> logged'[s]]
  BY DEF AdjustCommit
<1>3. stock' \in [Skus -> StockRow] /\ logged' \in [Skus -> Int]
  <2>1. \A s \in Skus : stock'[s] \in StockRow /\ logged'[s] \in Int
    BY CommitRows
  <2> QED BY <1>2, <2>1
<1>4. rows' \subseteq Skus
  <2>1. DOMAIN t.items \subseteq Skus
    BY <1>1, TotalType
  <2> QED BY <2>1 DEF IndInv, TypeOK, AdjustCommit
<1>5. call' \in [Calls -> Transaction]
  BY BlankType DEF IndInv, TypeOK, AdjustCommit
<1>6. TypeOK'
  BY <1>1, <1>3, <1>4, <1>5 DEF IndInv, TypeOK
<1>7. StockOwned'
  BY <1>1, CommitRows DEF IndInv, StockOwned, OrdersIn
<1> QED BY <1>1, <1>6, <1>7 DEF IndInv, Counted, OrdersIn

-----------------------------------------------------------------------------
LEMMA InitKeeps == Init => IndInv
<1> SUFFICES ASSUME Init PROVE IndInv
  OBVIOUS
<1>1. stock \in [Skus -> StockRow] /\ \A s \in Skus : stock[s].locked = 0 /\ stock[s].sold = 0
  BY ValueAssumption DEF Init, StartRow, FreshRow, StockRow
<1>2. TypeOK
  BY <1>1, RowAssumption, BlankType DEF Init, TypeOK, Phases
<1>3. ASSUME NEW s \in Skus, NEW p \in {"held", "sold"}
      PROVE  Counted(s, p) /\ Count(s, p) = 0
  <2>1. UnitsOf(OrdersIn(s, p)) = {}
    BY DEF Init, OrdersIn, UnitsOf
  <2> QED BY <2>1, FS_EmptySet DEF Counted, Count
<1> QED BY <1>1, <1>2, <1>3 DEF IndInv, StockOwned, Count

LEMMA NextKeeps == IndInv /\ [Next]_vars => IndInv'
<1> SUFFICES ASSUME IndInv, [Next]_vars PROVE IndInv'
  OBVIOUS
<1>1. CASE UNCHANGED vars
  BY <1>1 DEF vars, IndInv, TypeOK, StockOwned, Counted, OrdersIn
<1>2. ASSUME NEW o \in Orders, Lock(o) \/ Confirm(o) \/ Release(o) \/ Return(o) PROVE IndInv'
  BY <1>2, OrderKeeps
<1>3. ASSUME NEW c \in Calls, NEW items \in Items, AdjustBegin(c, items) PROVE IndInv'
  BY <1>3, AdjustBeginKeeps
<1>4. ASSUME NEW c \in Calls, AdjustCommit(c) \/ Rollback(c) PROVE IndInv'
  BY <1>4, AdjustCommitKeeps, RollbackKeeps
<1> QED BY <1>1, <1>2, <1>3, <1>4 DEF Next

(* Every variable keeps its type; in particular no counter of a row falls  *)
(* below zero.                                                             *)
THEOREM TypeCorrect == Spec => []TypeOK
<1>1. IndInv => TypeOK
  BY DEF IndInv
<1> QED BY <1>1, InitKeeps, NextKeeps, PTL DEF Spec

(* The locked and sold counters are what the orders hold and bought,       *)
(* whatever adjustments overlap their moves.                               *)
THEOREM StockOwnedHolds == Spec => []StockOwned
<1>1. IndInv => StockOwned
  BY DEF IndInv
<1> QED BY <1>1, InitKeeps, NextKeeps, PTL DEF Spec

-----------------------------------------------------------------------------
(* What a step does to the identity and to the log.                        *)

LEMMA MoveSteps ==
  ASSUME IndInv, NEW o \in Orders, NEW l \in Int, NEW d \in Int, NEW a \in Int,
         l + d + a = 0, Move(SkuOf[o], l, d, a), Log(SkuOf[o], a)
  PROVE  KeepsIdentity /\ KeepsLog
<1> SUFFICES ASSUME NEW s \in Skus
             PROVE  /\ Balanced(stock[s]) => Balanced(stock'[s])
                    /\ stock'[s].available - stock[s].available = logged'[s] - logged[s]
  BY DEF KeepsIdentity, KeepsLog
<1>1. /\ stock \in [Skus -> StockRow] /\ logged \in [Skus -> Int] /\ SkuOf[o] \in Skus
      /\ stock[s] \in StockRow /\ logged[s] \in Int
  BY RowAssumption DEF IndInv, TypeOK
<1>2. CASE s # SkuOf[o]
  BY <1>1, <1>2 DEF Move, Log, StockRow
<1>3. CASE s = SkuOf[o]
  <2>1. /\ stock'[s].total = stock[s].total /\ stock'[s].locked = stock[s].locked + l
        /\ stock'[s].sold = stock[s].sold + d
        /\ stock'[s].available = stock[s].available + a
    BY <1>1, <1>3 DEF Move
  <2>2. logged'[s] = logged[s] + a
    BY <1>1, <1>3 DEF Log
  <2> QED BY <1>1, <2>1, <2>2 DEF Balanced, StockRow
<1> QED BY <1>2, <1>3

LEMMA OrderSteps ==
  ASSUME IndInv, NEW o \in Orders, Lock(o) \/ Confirm(o) \/ Release(o) \/ Return(o)
  PROVE  KeepsIdentity /\ KeepsLog
<1> DEFINE k == SkuOf[o]
           q == QtyOf[o]
<1>1. q \in Int /\ -q \in Int /\ 0 \in Int /\ q + 0 + -q = 0 /\ -q + q + 0 = 0
      /\ -q + 0 + q = 0 /\ 0 + -q + q = 0
  BY RowAssumption
<1>2. \/ Move(k, q, 0, -q) /\ Log(k, -q)
      \/ Move(k, -q, q, 0) /\ Log(k, 0)
      \/ Move(k, -q, 0, q) /\ Log(k, q)
      \/ Move(k, 0, -q, q) /\ Log(k, q)
  BY DEF Lock, LockStock, Confirm, ConfirmLock, Release, ReleaseLock, Return, RefundReturn
<1> HIDE DEF k, q
<1> QED BY <1>1, <1>2, MoveSteps DEF k

LEMMA CommitSteps ==
  ASSUME IndInv, NEW c \in Calls, AdjustCommit(c)
  PROVE  KeepsIdentity /\ KeepsLog
<1> SUFFICES ASSUME NEW s \in Skus, ~WrittenStale(s)
             PROVE  /\ Balanced(stock[s]) => Balanced(stock'[s])
                    /\ stock'[s].available - stock[s].available = logged'[s] - logged[s]
  BY DEF KeepsIdentity, KeepsLog
<1>1. call[c].state = "open" /\ call'[c].state = "over"
  BY DEF IndInv, TypeOK, AdjustCommit, Blank
<1>2. s \in DOMAIN call[c].items => call[c].seen[s] = stock[s]
  BY <1>1 DEF WrittenStale
<1>3. stock[s].available \in Int /\ logged[s] \in Int
  BY DEF IndInv, TypeOK, StockRow
<1> QED BY <1>2, <1>3, CommitRows

LEMMA Steps == IndInv /\ [Next]_vars => [KeepsIdentity]_vars /\ [KeepsLog]_vars
<1> SUFFICES ASSUME IndInv, Next PROVE KeepsIdentity /\ KeepsLog
  BY DEF vars
<1>1. ASSUME NEW o \in Orders, Lock(o) \/ Confirm(o) \/ Release(o) \/ Return(o)
      PROVE  KeepsIdentity /\ KeepsLog
  BY <1>1, OrderSteps
<1>2. ASSUME NEW c \in Calls, AdjustCommit(c) PROVE KeepsIdentity /\ KeepsLog
  BY <1>2, CommitSteps
<1>3. CASE UNCHANGED <<stock, logged>>
  <2>1. stock \in [Skus -> StockRow] /\ logged \in [Skus -> Int]
    BY DEF IndInv, TypeOK
  <2>2. KeepsIdentity
    BY <1>3 DEF KeepsIdentity
  <2>3. KeepsLog
    <3> SUFFICES ASSUME NEW s \in Skus
                 PROVE  stock'[s].available - stock[s].available = logged'[s] - logged[s]
      BY DEF KeepsLog
    <3>1. stock'[s] = stock[s] /\ logged'[s] = logged[s]
      BY <1>3
    <3>2. stock[s] \in StockRow /\ logged[s] \in Int
      BY <2>1
    <3>3. stock[s].available \in Int
      BY <3>2 DEF StockRow
    <3> QED BY <3>1, <3>2, <3>3
  <2> QED BY <2>2, <2>3
<1>4. ASSUME NEW c \in Calls, Rollback(c) \/ \E items \in Items : AdjustBegin(c, items)
      PROVE  UNCHANGED <<stock, logged>>
  BY <1>4 DEF Rollback, AdjustBegin
<1> QED BY <1>1, <1>2, <1>3, <1>4 DEF Next

(* The identity of the docstring survives every step but the commit of an  *)
(* adjustment that loaded the row as it no longer is.                      *)
THEOREM IdentityKeptHolds == Spec => IdentityKept
<1>1. []IndInv /\ [][Next]_vars => [][KeepsIdentity]_vars
  BY Steps, PTL
<1> QED BY <1>1, InitKeeps, NextKeeps, PTL DEF Spec, IdentityKept

(* The log changes by what the available counter changes by, likewise.     *)
THEOREM LogKeptHolds == Spec => LogKept
<1>1. []IndInv /\ [][Next]_vars => [][KeepsLog]_vars
  BY Steps, PTL
<1> QED BY <1>1, InitKeeps, NextKeeps, PTL DEF Spec, LogKept
=============================================================================
