------------------------------ MODULE Customer ------------------------------
(***************************************************************************)
(* The address book and the cart of a member (api/mall.py).  No handler    *)
(* locks what it reads, so each is two steps: it reads its snapshot, and   *)
(* it writes and commits.  Two requests of the member overlap when he      *)
(* uses two devices, or taps twice.                                        *)
(***************************************************************************)
EXTENDS Naturals, FiniteSets

CONSTANTS Workers,        \* requests handled at the same time
          Ids,            \* ids of cart rows; one is used again when nothing refers to it
          NoId,           \* the cart has no row for the sku
          Amounts,        \* quantities asked for
          MaxAddresses,   \* bound on the addresses ever made
          MaxQuantity     \* bound on a quantity

ASSUME CustomerAssumption ==
  /\ MaxAddresses \in Nat /\ MaxQuantity \in Nat
  /\ Amounts \subseteq Nat \ {0} /\ NoId \notin Ids

VARIABLES
  address,   \* address[a]: the row of od_address with id a
  cart,      \* the row of od_cart for one sku
  wanted,    \* what the requests served ask the quantity to be, while settled
  settled,   \* no request since the last that set the quantity has read an old row
  tx         \* tx[w]: the request a worker handles

vars == <<address, cart, wanted, settled, tx>>

Addresses == 1..MaxAddresses

AddressRow == [state: {"none", "live", "deleted"}, default: BOOLEAN]
CartRow == [id: Ids \union {NoId}, quantity: Nat]

NoRow == [state |-> "none", default |-> FALSE]
NoItem == [id |-> NoId, quantity |-> 0]
NoRows == [a \in Addresses |-> NoRow]

(* arg: an address or an amount; default: it is to be the default; rows,   *)
(* item: the snapshot.                                                     *)
Request == [op: {"idle", "create", "default", "delete", "add", "set", "remove"},
            arg: Nat, default: BOOLEAN, rows: [Addresses -> AddressRow], item: CartRow]

Idle == [op |-> "idle", arg |-> 0, default |-> FALSE, rows |-> NoRows, item |-> NoItem]

TypeOK ==
  /\ address \in [Addresses -> AddressRow]
  /\ cart \in CartRow
  /\ wanted \in Nat
  /\ settled \in BOOLEAN
  /\ tx \in [Workers -> Request]

Live(rows) == {a \in Addresses : rows[a].state = "live"}

Reply(w) == tx' = [tx EXCEPT ![w] = Idle]

-----------------------------------------------------------------------------
(* The address book.                                                       *)

AddressBegin(w, op, a, default) ==
  /\ tx[w].op = "idle"
  /\ tx' = [tx EXCEPT ![w] = [Idle EXCEPT !.op = op, !.arg = a, !.default = default,
                                          !.rows = address]]
  /\ UNCHANGED <<address, cart, wanted, settled>>

AddressCommit(w, rows) ==
  /\ address' = rows
  /\ Reply(w)
  /\ UNCHANGED <<cart, wanted, settled>>

(* The first address is the default whatever the customer says.            *)
CreateBegin(w, wish) == AddressBegin(w, "create", 0, wish \/ Live(address) = {})

DefaultBegin(w, a) == a \in Live(address) /\ AddressBegin(w, "default", a, TRUE)

DeleteBegin(w, a) == a \in Live(address) /\ AddressBegin(w, "delete", a, FALSE)

(* A variant that clears the mark of the row read as the default.          *)
ClearedSeen(t, rows) ==
  [a \in Addresses |-> [rows[a] EXCEPT !.default = @ /\ ~t.rows[a].default]]

(* The bulk UPDATE acts on every row of the member, as it is by now.       *)
Cleared(t, rows) == [a \in Addresses |-> [rows[a] EXCEPT !.default = FALSE]]

Unmarked(t) == IF t.default THEN Cleared(t, address) ELSE address

CreateCommit(w) ==
  /\ tx[w].op = "create"
  /\ \E a \in Addresses :
       /\ address[a].state = "none"
       /\ \A b \in Addresses : b < a => address[b].state # "none"
       /\ AddressCommit(w, [Unmarked(tx[w]) EXCEPT
                              ![a] = [state |-> "live", default |-> tx[w].default]])

(* The row is written by its id, also when it is deleted meanwhile.        *)
DefaultCommit(w) ==
  /\ tx[w].op = "default"
  /\ AddressCommit(w, [Unmarked(tx[w]) EXCEPT ![tx[w].arg].default = TRUE])

(* The newest of the other addresses in the snapshot.                      *)
Replacement(t) ==
  {a \in Live(t.rows) \ {t.arg} : \A b \in Live(t.rows) \ {t.arg} : b <= a}

Replaced(t) == IF t.rows[t.arg].default THEN Replacement(t) ELSE {}

(* A mark is written where it differs from the snapshot.                   *)
DeleteCommit(w) ==
  LET t == tx[w] IN
  /\ t.op = "delete"
  /\ AddressCommit(w, [a \in Addresses |->
       IF a = t.arg
       THEN [state |-> "deleted", default |-> address[a].default /\ ~t.rows[a].default]
       ELSE [address[a] EXCEPT !.default = @ \/ (a \in Replaced(t) /\ ~t.rows[a].default)]])

-----------------------------------------------------------------------------
(* The cart.                                                               *)

CartBegin(w, op, q) ==
  /\ tx[w].op = "idle"
  /\ tx' = [tx EXCEPT ![w] = [Idle EXCEPT !.op = op, !.arg = q, !.item = cart]]
  /\ UNCHANGED <<address, cart, wanted, settled>>

AddBegin(w, q) == cart.quantity + q <= MaxQuantity /\ CartBegin(w, "add", q)

SetBegin(w, q) == cart # NoItem /\ CartBegin(w, "set", q)

RemoveBegin(w) == cart # NoItem /\ CartBegin(w, "remove", 0)

Stale(w) == tx[w].item # cart

(* Nothing is asked of the quantity while it is not settled.               *)
Tally(quantity, sure) ==
  /\ settled' = sure
  /\ wanted' = IF sure THEN quantity ELSE 0

Free == Ids \ ({cart.id} \union {tx[w].item.id : w \in Workers})

(* A variant that forgets what was in the cart.                            *)
JustAdded(item, q) == q

Added(item, q) == item.quantity + q

(* A row made meanwhile is refused by uk_member_sku, and a row gone        *)
(* meanwhile by the count of the rows updated: see Fail.                   *)
AddCommit(w) ==
  LET t == tx[w] IN
  /\ t.op = "add"
  /\ t.item.id = cart.id
  /\ \E id \in IF t.item = NoItem THEN Free ELSE {cart.id} :
       cart' = [id |-> id, quantity |-> Added(t.item, t.arg)]
  /\ Tally(wanted + t.arg, settled /\ ~Stale(w))
  /\ Reply(w)
  /\ UNCHANGED address

(* The same quantity as read is not written.                               *)
SetCommit(w) ==
  LET t == tx[w]
      same == t.arg = t.item.quantity
  IN
  /\ t.op = "set"
  /\ \/ same /\ UNCHANGED cart
     \/ ~same /\ t.item.id = cart.id /\ cart' = [cart EXCEPT !.quantity = t.arg]
  /\ Tally(t.arg, ~same \/ ~Stale(w))
  /\ Reply(w)
  /\ UNCHANGED address

Emptied == cart' = NoItem /\ Tally(0, TRUE)

(* DELETE by the id read, which another row may have replaced.             *)
RemoveCommit(w) ==
  /\ tx[w].op = "remove"
  /\ IF tx[w].item.id = cart.id THEN Emptied ELSE UNCHANGED <<cart, wanted, settled>>
  /\ Reply(w)
  /\ UNCHANGED address

(* delete_cart_batch is one statement.                                     *)
RemoveBatch == cart # NoItem /\ Emptied /\ UNCHANGED <<address, tx>>

-----------------------------------------------------------------------------
(* A refused write, a deadlock, or the loss of the process.                *)
Fail(w) ==
  /\ tx[w].op # "idle"
  /\ Reply(w)
  /\ UNCHANGED <<address, cart, wanted, settled>>

Init ==
  /\ address = NoRows
  /\ cart = NoItem
  /\ wanted = 0 /\ settled = TRUE
  /\ tx = [w \in Workers |-> Idle]

Next ==
  \/ \E w \in Workers :
       \/ \E wish \in BOOLEAN : CreateBegin(w, wish)
       \/ \E a \in Addresses : DefaultBegin(w, a) \/ DeleteBegin(w, a)
       \/ CreateCommit(w) \/ DefaultCommit(w) \/ DeleteCommit(w)
       \/ \E q \in Amounts : AddBegin(w, q) \/ SetBegin(w, q)
       \/ RemoveBegin(w)
       \/ AddCommit(w) \/ SetCommit(w) \/ RemoveCommit(w)
       \/ Fail(w)
  \/ RemoveBatch

Spec == Init /\ [][Next]_vars

-----------------------------------------------------------------------------
(* Properties.                                                             *)

(* A member with addresses has one default.                                *)
OneIn(rows) ==
  LET marked == {a \in Live(rows) : rows[a].default}
  IN Cardinality(marked) = IF Live(rows) = {} THEN 0 ELSE 1

AddressOps == {"create", "default", "delete"}

Ends(w) == tx[w].op # "idle" /\ tx'[w].op = "idle"

DefaultKept ==
  /\ OneIn(address) /\ (\A w \in Workers :
                          Ends(w) /\ tx[w].op \in AddressOps => tx[w].rows = address)
       => OneIn(address')
  /\ \A w \in Workers :
       /\ Ends(w) /\ tx[w].default /\ address' # address
       /\ tx[w].op = "default" => address[tx[w].arg].state = "live"
       => OneIn(address')

(* A request that read the address book as it still is keeps the single    *)
(* default; and one that makes a live address the default restores it,     *)
(* however old its snapshot and whatever overlapping requests have left.   *)
OneDefault == [][DefaultKept]_vars

(* The cart holds what the requests served add up to, but for an add or a  *)
(* set that read a row since changed; and the next set or removal mends it.*)
CartCounted == settled => cart.quantity = wanted
=============================================================================
