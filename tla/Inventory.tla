----------------------------- MODULE Inventory -----------------------------
(***************************************************************************)
(* The stock service, app/services/inventory.py: one counter row per SKU   *)
(* and sales channel (gd_sku_stock) and the three-phase stock lock.        *)
(*                                                                         *)
(* The service never commits, so each operator below is the part of one    *)
(* database transaction that touches a stock row; the modules that EXTEND  *)
(* this one conjoin it with the rest of the transaction.  An UPDATE with a *)
(* guard in its WHERE clause reads the last committed row, not the         *)
(* transaction's snapshot, and keeps the row locked until the commit:      *)
(* hence the guards here are on the variable stock itself, whereas `done', *)
(* the answer of _already_applied, was read in the snapshot.               *)
(***************************************************************************)
EXTENDS Integers

CONSTANT Skus          \* the rows of gd_sku_stock: one per SKU and channel

VARIABLE stock         \* stock[s]: the counters of row s

(* ck_stock_nonneg keeps three of the counters non-negative.               *)
StockRow == [total: Int, locked: Nat, sold: Nat, available: Nat]

(* A row as ensure_stock_row creates it, holding n units.                  *)
FreshRow(n) == [total |-> n, locked |-> 0, sold |-> 0, available |-> n]

-----------------------------------------------------------------------------
(* The UPDATE of _move_cas: it adds to the counters of the committed row.  *)
Move(s, locked, sold, available) ==
  stock' = [stock EXCEPT ![s] = [total     |-> @.total,
                                 locked    |-> @.locked + locked,
                                 sold      |-> @.sold + sold,
                                 available |-> @.available + available]]

(* Phase one, order placed: available -> locked.                           *)
LockStock(s, q) ==
  /\ stock[s].available >= q
  /\ Move(s, q, 0, -q)

(* A variant that forgets the lock.                                        *)
ConfirmUnlocked(done, s, q) == Move(s, 0, q, 0)

(* Phase two, order paid: locked -> sold, unless already applied.          *)
ConfirmLock(done, s, q) ==
  \/ done /\ UNCHANGED stock
  \/ ~done /\ stock[s].locked >= q /\ Move(s, -q, q, 0)

(* Phase three, order closed: locked -> available, unless already applied. *)
ReleaseLock(done, s, q) ==
  \/ done /\ UNCHANGED stock
  \/ ~done /\ stock[s].locked >= q /\ Move(s, -q, 0, q)

(* Refund approved: sold -> available, unless already applied.             *)
RefundReturn(done, s, q) ==
  \/ done /\ UNCHANGED stock
  \/ ~done /\ stock[s].sold >= q /\ Move(s, 0, -q, q)

(* A variant that logs a skipped move.                                     *)
AlwaysLogs(done) == 1

(* The log row each move appends: none when it was already applied.        *)
LogRows(done) == IF done THEN 0 ELSE 1

-----------------------------------------------------------------------------
(* The identity the module's docstring promises to maintain.               *)
Balanced(row) == row.total = row.locked + row.sold + row.available
=============================================================================
