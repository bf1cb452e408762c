----------------------------- MODULE Warehouse -----------------------------
(***************************************************************************)
(* The stock rows shared by customers and staff: the three-phase moves of  *)
(* the order handlers and adjust_stock, with which staff set a row's total *)
(* (PUT /goods/{id}/stock, and the edit of a goods item with its stocks).  *)
(*                                                                         *)
(* A move is one guarded UPDATE, hence one step.  adjust_stock is not: it  *)
(* loads the row, computes a new total and a new available counter, and    *)
(* the flush writes both numbers without looking at the row again.         *)
(***************************************************************************)
EXTENDS Inventory, FiniteSets

CONSTANTS Orders,
          Calls,        \* one element per call of adjust_stock: their number is
                        \* the bound on the adjustments of a behaviour
          SkuOf,        \* SkuOf[o]: the row the order o takes units of
          QtyOf,        \* QtyOf[o]: how many
          Made,         \* the rows that exist at the start
          StartTotal,   \* and their total
          Values        \* the values staff type in

ASSUME RowAssumption   == /\ SkuOf \in [Orders -> Skus]
                          /\ QtyOf \in [Orders -> Nat \ {0}]
                          /\ Made \subseteq Skus
ASSUME ValueAssumption == Values \subseteq Nat /\ StartTotal \in Nat

VARIABLES
  rows,      \* the rows of gd_sku_stock that exist
  phase,     \* phase[o]: the last move of order o
  call,      \* call[c]: the transaction of a call
  logged     \* logged[s]: sum of change_val in gd_stock_log for row s

vars == <<stock, rows, phase, call, logged>>

Phases == {"none", "held", "sold", "released", "returned"}
Modes == {"INCREASE", "DECREASE", "SET"}

(* The items of one call: what to change in some of the rows.              *)
Items == UNION {[S -> [mode: Modes, value: Values]] : S \in SUBSET Skus}

(* seen and found: the counters and the rows in the call's snapshot.       *)
Transaction == [state: {"new", "open", "over"}, items: Items,
                seen: [Skus -> StockRow], found: SUBSET Skus]

Blank(state) == [state |-> state, items |-> <<>>,
                 seen |-> [s \in Skus |-> FreshRow(0)], found |-> {}]

TypeOK ==
  /\ stock \in [Skus -> StockRow]
  /\ rows \subseteq Skus
  /\ phase \in [Orders -> Phases]
  /\ call \in [Calls -> Transaction]
  /\ logged \in [Skus -> Int]

-----------------------------------------------------------------------------
(* The moves of the order handlers, one per order and phase.               *)

Log(s, change) == logged' = [logged EXCEPT ![s] = @ + change]

Advance(o, from, to) ==
  /\ phase[o] = from
  /\ phase' = [phase EXCEPT ![o] = to]
  /\ UNCHANGED <<rows, call>>

Lock(o) ==
  /\ SkuOf[o] \in rows
  /\ Advance(o, "none", "held")
  /\ LockStock(SkuOf[o], QtyOf[o])
  /\ Log(SkuOf[o], -QtyOf[o])

Confirm(o) ==
  /\ Advance(o, "held", "sold")
  /\ ConfirmLock(FALSE, SkuOf[o], QtyOf[o])
  /\ Log(SkuOf[o], 0)

Release(o) ==
  /\ Advance(o, "held", "released")
  /\ ReleaseLock(FALSE, SkuOf[o], QtyOf[o])
  /\ Log(SkuOf[o], QtyOf[o])

Return(o) ==
  /\ Advance(o, "sold", "returned")
  /\ RefundReturn(FALSE, SkuOf[o], QtyOf[o])
  /\ Log(SkuOf[o], QtyOf[o])

-----------------------------------------------------------------------------
(* adjust_stock.                                                           *)

(* The checks on the row as loaded.                                        *)
Accepted(row, item) ==
  /\ item.mode \in {"INCREASE", "DECREASE"} => item.value > 0
  /\ item.mode = "DECREASE" => item.value <= row.available
  /\ item.mode = "SET" => item.value >= row.locked + row.sold

NewTotal(row, item) ==
  CASE item.mode = "INCREASE" -> row.total + item.value
    [] item.mode = "DECREASE" -> row.total - item.value
    [] item.mode = "SET"      -> item.value

(* A variant that writes the counters it only read.                        *)
AdjustedWhole(cur, row, item) ==
  [row EXCEPT !.total     = NewTotal(row, item),
              !.available = NewTotal(row, item) - row.locked - row.sold]

(* A variant that leaves the available counter as it was.                  *)
AdjustedTotal(cur, row, item) == [cur EXCEPT !.total = NewTotal(row, item)]

(* The row cur after the flush of a row loaded as `row': total and         *)
(* available are written where the computed value differs from the loaded. *)
Adjusted(cur, row, item) ==
  LET total == NewTotal(row, item)
      avail == total - row.locked - row.sold
  IN [cur EXCEPT !.total     = IF total = row.total THEN @ ELSE total,
                 !.available = IF avail = row.available THEN @ ELSE avail]

(* The change_val logged for it.                                           *)
Change(row, item) == NewTotal(row, item) - row.locked - row.sold - row.available

(* A missing row is created with no stock, except for a DECREASE.          *)
AdjustBegin(c, items) ==
  /\ call[c].state = "new"
  /\ DOMAIN items # {}
  /\ \A s \in DOMAIN items :
       /\ s \in rows \/ items[s].mode # "DECREASE"
       /\ Accepted(stock[s], items[s])
  /\ call' = [call EXCEPT ![c] = [state |-> "open", items |-> items,
                                  seen |-> stock, found |-> rows]]
  /\ UNCHANGED <<stock, rows, phase, logged>>

(* What the commit is refused for: a row created meanwhile                 *)
(* (uk_sku_channel), a counter below zero (ck_stock_nonneg).               *)
Refused(c) ==
  LET t == call[c] IN
  \E s \in DOMAIN t.items :
    \/ s \in rows \ t.found
    \/ Adjusted(stock[s], t.seen[s], t.items[s]).available < 0

AdjustCommit(c) ==
  LET t == call[c] IN
  /\ t.state = "open"
  /\ ~Refused(c)
  /\ stock' = [s \in Skus |-> IF s \in DOMAIN t.items
                              THEN Adjusted(stock[s], t.seen[s], t.items[s])
                              ELSE stock[s]]
  /\ logged' = [s \in Skus |-> IF s \in DOMAIN t.items
                               THEN logged[s] + Change(t.seen[s], t.items[s])
                               ELSE logged[s]]
  /\ rows' = rows \union DOMAIN t.items
  /\ call' = [call EXCEPT ![c] = Blank("over")]
  /\ UNCHANGED phase

(* An error, or the loss of the connection, rolls the call back whole.     *)
Rollback(c) ==
  /\ call[c].state = "open"
  /\ call' = [call EXCEPT ![c] = Blank("over")]
  /\ UNCHANGED <<stock, rows, phase, logged>>

-----------------------------------------------------------------------------
StartRow(s) == FreshRow(IF s \in Made THEN StartTotal ELSE 0)

Init ==
  /\ stock = [s \in Skus |-> StartRow(s)]
  /\ rows = Made
  /\ phase = [o \in Orders |-> "none"]
  /\ call = [c \in Calls |-> Blank("new")]
  /\ logged = [s \in Skus |-> 0]

Next ==
  \/ \E o \in Orders : Lock(o) \/ Confirm(o) \/ Release(o) \/ Return(o)
  \/ \E c \in Calls : \/ \E items \in Items : AdjustBegin(c, items)
                      \/ AdjustCommit(c)
                      \/ Rollback(c)

Spec == Init /\ [][Next]_vars

-----------------------------------------------------------------------------
(* Properties.                                                             *)

(* For any interleaving: the locked counter is what the unpaid orders hold *)
(* and the sold counter what the paid ones bought.  adjust_stock reads both*)
(* but never writes them back, so a stale read of it loses no move.        *)
UnitsOf(S) == UNION {{o} \X (1..QtyOf[o]) : o \in S}

OrdersIn(s, p) == {o \in Orders : SkuOf[o] = s /\ phase[o] = p}

StockOwned ==
  \A s \in Skus :
    /\ stock[s].locked = Cardinality(UnitsOf(OrdersIn(s, "held")))
    /\ stock[s].sold   = Cardinality(UnitsOf(OrdersIn(s, "sold")))

(* The step ends a call that loaded the row s as it no longer is.          *)
WrittenStale(s) ==
  \E c \in Calls :
    LET t == call[c] IN
    /\ t.state = "open" /\ call'[c].state = "over"
    /\ s \in DOMAIN t.items /\ t.seen[s] # stock[s]

(* The identity total = locked + sold + available that the service's       *)
(* docstring promises to maintain: no move and no adjustment breaks it,    *)
(* but for an adjustment whose row changed between load and commit.        *)
KeepsIdentity ==
  \A s \in Skus : Balanced(stock[s]) /\ ~WrittenStale(s) => Balanced(stock'[s])

IdentityKept == [][KeepsIdentity]_vars

(* The log explains the available counter: both change by the same amount, *)
(* with the same exception.                                                *)
KeepsLog ==
  \A s \in Skus :
    ~WrittenStale(s) => stock'[s].available - stock[s].available
                          = logged'[s] - logged[s]

LogKept == [][KeepsLog]_vars
=============================================================================
