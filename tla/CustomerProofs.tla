--------------------------- MODULE CustomerProofs ---------------------------
(***************************************************************************)
(* Proofs about module Customer for every number of requests and           *)
(* addresses and all quantities.                                           *)
(***************************************************************************)
EXTENDS Customer, WellFoundedInduction, FiniteSetTheorems, TLAPS

-----------------------------------------------------------------------------
(* What the open requests have checked: see the steps that begin them.     *)
TxFacts(t) ==
  /\ t.default => t.op \in {"create", "default"}
  /\ t.op = "default" => t.default /\ t.arg \in Live(t.rows)
  /\ t.op = "create" /\ ~t.default => Live(t.rows) # {}
  /\ t.op = "delete" => t.arg \in Live(t.rows)

IndInv ==
  /\ TypeOK
  /\ CartCounted
  /\ \A w \in Workers : TxFacts(tx[w])

(* A set of addresses has one with the largest id.                         *)
LEMMA Largest ==
  ASSUME NEW n \in Nat, NEW S \in SUBSET (1..n), S # {}
  PROVE  \E a \in S : \A b \in S : b <= a
<1> DEFINE T == {n - a : a \in S}
<1>1. T \in SUBSET Nat /\ T # {}
  <2>1. \A a \in S : n - a \in Nat
    OBVIOUS
  <2>2. \E a \in S : n - a \in T
    OBVIOUS
  <2> QED BY <2>1, <2>2
<1>2. PICK x \in T : \A y \in T : ~(<<y, x>> \in OpToRel(<, Nat))
  <2> HIDE DEF T
  <2> QED BY <1>1, NatLessThanWellFounded, WFMin
<1>3. \A y \in T : ~(y < x)
  <2> HIDE DEF T
  <2> QED BY <1>1, <1>2 DEF OpToRel
<1>4. PICK a \in S : x = n - a
  OBVIOUS
<1>5. \A b \in S : ~(n - b < n - a)
  BY <1>3, <1>4
<1> QED BY <1>5

(* The rows without a request are typed, and so is an empty cart.          *)
LEMMA Blank ==
  /\ NoItem \in CartRow /\ NoRows \in [Addresses -> AddressRow]
  /\ Idle \in Request /\ TxFacts(Idle)
<1>1. NoItem \in CartRow /\ NoRows \in [Addresses -> AddressRow]
  BY DEF NoItem, CartRow, NoRows, NoRow, AddressRow
<1> QED BY <1>1 DEF Idle, Request, TxFacts

(* A step that replaces one request by a typed one.                        *)
LEMMA Turn ==
  ASSUME IndInv, NEW w \in Workers, NEW t \in Request, TxFacts(t),
         tx' = [tx EXCEPT ![w] = t]
  PROVE  tx' \in [Workers -> Request] /\ \A v \in Workers : TxFacts(tx'[v])
BY DEF IndInv, TypeOK

(* The handlers of the address book only read at first.                    *)
LEMMA AddressBeginKeeps ==
  ASSUME IndInv, NEW w \in Workers,
         NEW op \in {"create", "default", "delete"}, NEW a \in Nat, NEW d \in BOOLEAN,
         AddressBegin(w, op, a, d),
         TxFacts([Idle EXCEPT !.op = op, !.arg = a, !.default = d, !.rows = address])
  PROVE  IndInv'
<1> DEFINE t == [Idle EXCEPT !.op = op, !.arg = a, !.default = d, !.rows = address]
<1>1. t \in Request
  BY Blank DEF IndInv, TypeOK, Request, Idle
<1>2. UNCHANGED <<address, cart, wanted, settled>> /\ tx' = [tx EXCEPT ![w] = t]
  BY DEF AddressBegin
<1> HIDE DEF t
<1>3. tx' \in [Workers -> Request] /\ \A v \in Workers : TxFacts(tx'[v])
  BY <1>1, <1>2, Turn DEF t
<1> QED BY <1>2, <1>3 DEF IndInv, TypeOK, CartCounted

(* A commit of the address book leaves the cart alone.                     *)
LEMMA AddressCommitKeeps ==
  ASSUME IndInv, NEW w \in Workers, NEW rows \in [Addresses -> AddressRow],
         AddressCommit(w, rows)
  PROVE  IndInv'
<1>1. tx' \in [Workers -> Request] /\ \A v \in Workers : TxFacts(tx'[v])
  BY Blank, Turn DEF AddressCommit, Reply
<1>2. UNCHANGED <<cart, wanted, settled>> /\ address' \in [Addresses -> AddressRow]
  BY DEF IndInv, TypeOK, AddressCommit
<1> QED BY <1>1, <1>2 DEF IndInv, TypeOK, CartCounted

(* Clearing the marks keeps the rows typed.                                *)
LEMMA UnmarkedType ==
  ASSUME TypeOK, NEW t \in Request
  PROVE  Unmarked(t) \in [Addresses -> AddressRow]
<1>1. ASSUME NEW a \in Addresses PROVE [address[a] EXCEPT !.default = FALSE] \in AddressRow
  BY DEF TypeOK, AddressRow
<1>2. address \in [Addresses -> AddressRow]
  BY DEF TypeOK
<1> QED BY <1>1, <1>2 DEF Unmarked, Cleared

(* The actions of the address book.                                        *)
LEMMA BookKeeps ==
  ASSUME IndInv, NEW w \in Workers,
         \/ \E wish \in BOOLEAN : CreateBegin(w, wish)
         \/ \E a \in Addresses : DefaultBegin(w, a) \/ DeleteBegin(w, a)
         \/ CreateCommit(w) \/ DefaultCommit(w) \/ DeleteCommit(w)
  PROVE  IndInv'
<1> DEFINE t == tx[w]
<1>1. /\ TypeOK /\ t \in Request /\ TxFacts(t) /\ Addresses \subseteq Nat
      /\ address \in [Addresses -> AddressRow] /\ t.rows \in [Addresses -> AddressRow]
  BY DEF IndInv, TypeOK, Request, Addresses
<1>2. ASSUME NEW wish \in BOOLEAN, CreateBegin(w, wish) PROVE IndInv'
  <2> DEFINE d == wish \/ Live(address) = {}
  <2>1. AddressBegin(w, "create", 0, d) /\ d \in BOOLEAN
    BY <1>2 DEF CreateBegin
  <2>2. TxFacts([Idle EXCEPT !.op = "create", !.arg = 0, !.default = d, !.rows = address])
    BY DEF TxFacts, Idle
  <2> HIDE DEF d
  <2> QED BY <2>1, <2>2, AddressBeginKeeps
<1>3. ASSUME NEW a \in Addresses, DefaultBegin(w, a) PROVE IndInv'
  <2>1. AddressBegin(w, "default", a, TRUE) /\ a \in Nat /\ a \in Live(address)
    BY <1>1, <1>3 DEF DefaultBegin
  <2>2. TxFacts([Idle EXCEPT !.op = "default", !.arg = a, !.default = TRUE, !.rows = address])
    BY <2>1 DEF TxFacts, Idle
  <2> QED BY <2>1, <2>2, AddressBeginKeeps
<1>4. ASSUME NEW a \in Addresses, DeleteBegin(w, a) PROVE IndInv'
  <2>1. AddressBegin(w, "delete", a, FALSE) /\ a \in Nat /\ a \in Live(address)
    BY <1>1, <1>4 DEF DeleteBegin
  <2>2. TxFacts([Idle EXCEPT !.op = "delete", !.arg = a, !.default = FALSE, !.rows = address])
    BY <2>1 DEF TxFacts, Idle
  <2> QED BY <2>1, <2>2, AddressBeginKeeps
<1>5. CASE CreateCommit(w)
  <2>1. PICK a \in Addresses :
          AddressCommit(w, [Unmarked(t) EXCEPT ![a] = [state |-> "live", default |-> t.default]])
    BY <1>5 DEF CreateCommit
  <2>2. [state |-> "live", default |-> t.default] \in AddressRow
    BY <1>1 DEF AddressRow, Request
  <2>3. [Unmarked(t) EXCEPT ![a] = [state |-> "live", default |-> t.default]]
          \in [Addresses -> AddressRow]
    BY <1>1, <2>2, UnmarkedType
  <2> QED BY <2>1, <2>3, AddressCommitKeeps
<1>6. CASE DefaultCommit(w)
  <2>1. AddressCommit(w, [Unmarked(t) EXCEPT ![t.arg].default = TRUE]) /\ t.arg \in Addresses
    BY <1>1, <1>6 DEF DefaultCommit, TxFacts, Live
  <2>2. Unmarked(t) \in [Addresses -> AddressRow]
    BY <1>1, UnmarkedType
  <2>3. [Unmarked(t) EXCEPT ![t.arg].default = TRUE] \in [Addresses -> AddressRow]
    BY <2>1, <2>2 DEF AddressRow
  <2> QED BY <2>1, <2>3, AddressCommitKeeps
<1>7. CASE DeleteCommit(w)
  <2> DEFINE rows == [a \in Addresses |->
               IF a = t.arg
               THEN [state |-> "deleted", default |-> address[a].default /\ ~t.rows[a].default]
               ELSE [address[a] EXCEPT !.default = @ \/ (a \in Replaced(t) /\ ~t.rows[a].default)]]
  <2>1. AddressCommit(w, rows)
    BY <1>7 DEF DeleteCommit
  <2>2. rows \in [Addresses -> AddressRow]
    BY <1>1 DEF AddressRow
  <2> HIDE DEF rows
  <2> QED BY <2>1, <2>2, AddressCommitKeeps
<1> QED BY <1>2, <1>3, <1>4, <1>5, <1>6, <1>7

-----------------------------------------------------------------------------
(* The actions of the cart.                                                *)
LEMMA CartKeeps ==
  ASSUME IndInv, NEW w \in Workers,
         \/ \E q \in Amounts : AddBegin(w, q) \/ SetBegin(w, q)
         \/ RemoveBegin(w)
         \/ AddCommit(w) \/ SetCommit(w) \/ RemoveCommit(w)
         \/ Fail(w)
  PROVE  IndInv'
<1> DEFINE t == tx[w]
<1>1. /\ t \in Request /\ cart \in CartRow /\ t.item \in CartRow /\ t.arg \in Nat
      /\ wanted \in Nat /\ settled \in BOOLEAN
      /\ address \in [Addresses -> AddressRow]
      /\ CartCounted
  BY DEF IndInv, TypeOK, Request
<1>2. ASSUME NEW op \in {"add", "set", "remove"}, NEW q \in Nat, CartBegin(w, op, q)
      PROVE  IndInv'
  <2> DEFINE new == [Idle EXCEPT !.op = op, !.arg = q, !.item = cart]
  <2>1. new \in Request /\ TxFacts(new)
    BY <1>1, Blank DEF Request, Idle, TxFacts
  <2>2. tx' = [tx EXCEPT ![w] = new] /\ UNCHANGED <<address, cart, wanted, settled>>
    BY <1>2 DEF CartBegin
  <2> HIDE DEF new
  <2>3. tx' \in [Workers -> Request] /\ \A v \in Workers : TxFacts(tx'[v])
    BY <2>1, <2>2, Turn
  <2> QED BY <1>1, <2>2, <2>3 DEF IndInv, TypeOK, CartCounted
<1>3. ASSUME NEW q \in Amounts, AddBegin(w, q) \/ SetBegin(w, q) PROVE IndInv'
  BY <1>2, <1>3, CustomerAssumption DEF AddBegin, SetBegin
<1>4. CASE RemoveBegin(w)
  BY <1>2, <1>4 DEF RemoveBegin
<1>5. ASSUME Reply(w), UNCHANGED address, cart' \in CartRow, wanted' \in Nat,
             settled' \in BOOLEAN, CartCounted'
      PROVE  IndInv'
  <2>1. tx' \in [Workers -> Request] /\ \A v \in Workers : TxFacts(tx'[v])
    BY <1>5, Blank, Turn DEF Reply
  <2> QED BY <1>1, <1>5, <2>1 DEF IndInv, TypeOK
<1>6. CASE AddCommit(w)
  <2>1. PICK id \in Ids \union {NoId} :
          cart' = [id |-> id, quantity |-> t.item.quantity + t.arg]
    BY <1>1, <1>6 DEF AddCommit, Free, Added, CartRow
  <2>2. Tally(wanted + t.arg, settled /\ ~Stale(w)) /\ Reply(w) /\ UNCHANGED address
    BY <1>6 DEF AddCommit
  <2>3. cart' \in CartRow /\ wanted' \in Nat /\ settled' \in BOOLEAN
    BY <1>1, <2>1, <2>2 DEF Tally, CartRow
  <2>4. CartCounted'
    BY <1>1, <2>1, <2>2 DEF Tally, CartCounted, Stale
  <2> QED BY <1>5, <2>2, <2>3, <2>4
<1>7. CASE SetCommit(w)
  <2> DEFINE same == t.arg = t.item.quantity
  <2>1. /\ \/ same /\ UNCHANGED cart
           \/ ~same /\ cart' = [cart EXCEPT !.quantity = t.arg]
        /\ Tally(t.arg, ~same \/ ~Stale(w)) /\ Reply(w) /\ UNCHANGED address
    BY <1>7 DEF SetCommit
  <2>2. cart' \in CartRow /\ wanted' \in Nat /\ settled' \in BOOLEAN
    BY <1>1, <2>1 DEF Tally, CartRow
  <2>3. CartCounted'
    BY <1>1, <2>1 DEF Tally, CartCounted, Stale, CartRow
  <2> QED BY <1>5, <2>1, <2>2, <2>3
<1>8. CASE RemoveCommit(w)
  <2>1. /\ Emptied \/ UNCHANGED <<cart, wanted, settled>>
        /\ Reply(w) /\ UNCHANGED address
    BY <1>8 DEF RemoveCommit
  <2>2. CASE Emptied
    <3>1. cart' = NoItem /\ wanted' = 0 /\ settled' = TRUE
      BY <2>2 DEF Emptied, Tally
    <3>2. CartCounted'
      BY <3>1 DEF CartCounted, NoItem
    <3> QED BY <1>5, <2>1, <3>1, <3>2, Blank
  <2>3. CASE UNCHANGED <<cart, wanted, settled>>
    BY <1>1, <1>5, <2>1, <2>3 DEF CartCounted
  <2> QED BY <2>1, <2>2, <2>3
<1>9. CASE Fail(w)
  <2>1. Reply(w) /\ UNCHANGED <<address, cart, wanted, settled>>
    BY <1>9 DEF Fail
  <2> QED BY <1>1, <1>5, <2>1 DEF CartCounted
<1> QED BY <1>3, <1>4, <1>6, <1>7, <1>8, <1>9

-----------------------------------------------------------------------------
LEMMA InitKeeps == Init => IndInv
<1> SUFFICES ASSUME Init PROVE IndInv
  OBVIOUS
<1>1. tx \in [Workers -> Request] /\ \A w \in Workers : TxFacts(tx[w])
  BY Blank DEF Init
<1>2. /\ address \in [Addresses -> AddressRow] /\ cart \in CartRow
      /\ wanted \in Nat /\ settled \in BOOLEAN
  BY Blank DEF Init
<1>3. CartCounted
  BY DEF Init, CartCounted, NoItem
<1> QED BY <1>1, <1>2, <1>3 DEF IndInv, TypeOK

LEMMA NextKeeps == IndInv /\ [Next]_vars => IndInv'
<1> SUFFICES ASSUME IndInv, [Next]_vars PROVE IndInv'
  OBVIOUS
<1>1. CASE Next
  <2>1. CASE RemoveBatch
    <3>1. cart' \in CartRow /\ wanted' = 0 /\ settled' /\ UNCHANGED <<address, tx>>
      BY <2>1, Blank DEF RemoveBatch, Emptied, Tally
    <3>2. CartCounted'
      BY <2>1 DEF RemoveBatch, Emptied, Tally, CartCounted, NoItem
    <3>3. settled' \in BOOLEAN
      BY <2>1 DEF RemoveBatch, Emptied, Tally
    <3> QED BY <3>1, <3>2, <3>3 DEF IndInv, TypeOK
  <2> QED BY <1>1, <2>1, BookKeeps, CartKeeps DEF Next
<1>2. CASE UNCHANGED vars
  BY <1>2 DEF vars, IndInv, TypeOK, CartCounted
<1> QED BY <1>1, <1>2

(* The rows and the requests keep their types, for any number of them.     *)
THEOREM TypeCorrect == Spec => []TypeOK
<1>1. IndInv => TypeOK
  BY DEF IndInv
<1> QED BY <1>1, InitKeeps, NextKeeps, PTL DEF Spec

(* The cart holds what was asked for, unless an add or a set worked from   *)
(* a row that had changed since it was read.                               *)
THEOREM CartCountedHolds == Spec => []CartCounted
<1>1. IndInv => CartCounted
  BY DEF IndInv
<1> QED BY <1>1, InitKeeps, NextKeeps, PTL DEF Spec

-----------------------------------------------------------------------------
(* The default address.                                                    *)

Marked(rows) == {a \in Live(rows) : rows[a].default}

(* There are finitely many addresses, so OneIn can be had without counting.*)
LEMMA OneInMeaning ==
  ASSUME NEW rows
  PROVE  OneIn(rows) <=> IF Live(rows) = {} THEN Marked(rows) = {}
                                            ELSE \E x \in Live(rows) : Marked(rows) = {x}
<1>1. IsFiniteSet(Addresses)
  BY CustomerAssumption, FS_Interval DEF Addresses
<1>2. Marked(rows) \subseteq Live(rows) /\ Live(rows) \subseteq Addresses
  BY DEF Marked, Live
<1>3. IsFiniteSet(Marked(rows))
  BY <1>1, <1>2, FS_Subset
<1>4. OneIn(rows) <=> Cardinality(Marked(rows)) = IF Live(rows) = {} THEN 0 ELSE 1
  BY DEF OneIn, Marked
<1>5. Cardinality(Marked(rows)) = 0 <=> Marked(rows) = {}
  BY <1>3, FS_EmptySet
<1>6. Cardinality(Marked(rows)) = 1 <=> \E x : Marked(rows) = {x}
  BY <1>3, FS_Singleton
<1> HIDE DEF OneIn
<1> QED BY <1>2, <1>4, <1>5, <1>6

(* A live address that is the only one marked is a single default.         *)
LEMMA Single ==
  ASSUME NEW rows, NEW x \in Live(rows), rows[x].default,
         \A a \in Live(rows) : rows[a].default => a = x
  PROVE  OneIn(rows)
<1>1. Marked(rows) = {x}
  BY DEF Marked
<1> QED BY <1>1, OneInMeaning

(* A new address.                                                          *)
LEMMA CreateDefault ==
  ASSUME IndInv, NEW w \in Workers, CreateCommit(w),
         tx[w].default \/ (OneIn(address) /\ tx[w].rows = address)
  PROVE  OneIn(address')
<1> DEFINE t == tx[w]
<1>1. /\ address \in [Addresses -> AddressRow] /\ t.default \in BOOLEAN /\ TxFacts(t)
      /\ t.op = "create"
  BY DEF IndInv, TypeOK, Request, CreateCommit
<1>2. PICK a \in Addresses :
        /\ address[a].state = "none"
        /\ address' = [Unmarked(t) EXCEPT ![a] = [state |-> "live", default |-> t.default]]
  BY DEF CreateCommit, AddressCommit
<1>3. CASE t.default
  <2>1. Unmarked(t) = [b \in Addresses |-> [address[b] EXCEPT !.default = FALSE]]
    BY <1>3 DEF Unmarked, Cleared
  <2>2. /\ address'[a] = [state |-> "live", default |-> TRUE]
        /\ \A b \in Addresses \ {a} : address'[b].default = FALSE
    BY <1>1, <1>2, <1>3, <2>1 DEF AddressRow
  <2> QED BY <2>2, Single DEF Live
<1>4. CASE ~t.default
  <2>1. OneIn(address) /\ Live(address) # {}
    BY <1>1, <1>4 DEF TxFacts
  <2>2. PICK x \in Live(address) : Marked(address) = {x}
    BY <2>1, OneInMeaning
  <2>3. /\ address' = [address EXCEPT ![a] = [state |-> "live", default |-> FALSE]]
        /\ a # x
    BY <1>1, <1>2, <1>4, <2>2 DEF Unmarked, Live
  <2>4. \A b \in Addresses : b # a => address'[b] = address[b]
    BY <1>1, <2>3
  <2>5. address'[a].default = FALSE
    BY <1>1, <2>3
  <2>6. x \in Live(address') /\ address'[x].default
    BY <2>2, <2>3, <2>4 DEF Live, Marked
  <2>7. \A b \in Live(address') : address'[b].default => b = x
    BY <2>2, <2>4, <2>5 DEF Live, Marked
  <2> QED BY <2>6, <2>7, Single
<1> QED BY <1>1, <1>3, <1>4

(* An address is made the default.                                         *)
LEMMA DefaultDefault ==
  ASSUME IndInv, NEW w \in Workers, DefaultCommit(w),
         tx[w].rows = address \/ address[tx[w].arg].state = "live"
  PROVE  OneIn(address')
<1> DEFINE t == tx[w]
<1>1. /\ address \in [Addresses -> AddressRow] /\ TxFacts(t) /\ t.op = "default"
  BY DEF IndInv, TypeOK, DefaultCommit
<1>2. t.default /\ t.arg \in Addresses /\ address[t.arg].state = "live"
  BY <1>1 DEF TxFacts, Live
<1>3. address' = [Unmarked(t) EXCEPT ![t.arg].default = TRUE]
  BY DEF DefaultCommit, AddressCommit
<1>4. Unmarked(t) = [b \in Addresses |-> [address[b] EXCEPT !.default = FALSE]]
  BY <1>2 DEF Unmarked, Cleared
<1>5. /\ address'[t.arg].state = "live" /\ address'[t.arg].default = TRUE
      /\ \A b \in Addresses \ {t.arg} : address'[b].default = FALSE
  BY <1>1, <1>2, <1>3, <1>4 DEF AddressRow
<1> QED BY <1>2, <1>5, Single DEF Live

(* An address is deleted, and the newest of the others takes its mark.     *)
LEMMA DeleteDefault ==
  ASSUME IndInv, NEW w \in Workers, DeleteCommit(w), OneIn(address), tx[w].rows = address
  PROVE  OneIn(address')
<1> DEFINE t == tx[w]
           rest == Live(address) \ {t.arg}
<1>1. address \in [Addresses -> AddressRow] /\ t.arg \in Live(address)
  BY DEF IndInv, TypeOK, DeleteCommit, TxFacts
<1>2. address' = [a \in Addresses |->
        IF a = t.arg
        THEN [state |-> "deleted", default |-> address[a].default /\ ~address[a].default]
        ELSE [address[a] EXCEPT !.default = @ \/ (a \in Replaced(t) /\ ~address[a].default)]]
  BY DEF DeleteCommit, AddressCommit
<1>3. /\ address'[t.arg].state = "deleted"
      /\ \A a \in Addresses \ {t.arg} :
           /\ address'[a].state = address[a].state
           /\ address'[a].default <=> (address[a].default \/ a \in Replaced(t))
  <2>1. t.arg \in Addresses
    BY <1>1 DEF Live
  <2>2. address'[t.arg].state = "deleted"
    BY <1>2, <2>1
  <2>3. ASSUME NEW a \in Addresses \ {t.arg}
        PROVE  /\ address'[a].state = address[a].state
               /\ address'[a].default <=> (address[a].default \/ a \in Replaced(t))
    <3>1. address[a] \in AddressRow
      BY <1>1
    <3>2. address'[a] = [address[a] EXCEPT !.default =
                           @ \/ (a \in Replaced(t) /\ ~address[a].default)]
      BY <1>2
    <3> QED BY <3>1, <3>2 DEF AddressRow
  <2> QED BY <2>2, <2>3
<1>4. Live(address') = rest
  BY <1>1, <1>3 DEF Live
<1>5. PICK x \in Live(address) : Marked(address) = {x}
  BY <1>1, OneInMeaning
<1>6. CASE x = t.arg
  <2>1. Replaced(t) = {a \in rest : \A b \in rest : b <= a}
    BY <1>5, <1>6 DEF Replaced, Replacement, Marked
  <2>2. CASE rest = {}
    <3>1. Marked(address') = {}
      BY <1>4, <2>2 DEF Marked
    <3> QED BY <1>4, <2>2, <3>1, OneInMeaning
  <2>3. CASE rest # {}
    <3>1. rest \subseteq 1..MaxAddresses /\ rest \subseteq Nat
      BY DEF Live, Addresses
    <3>2. PICK y \in rest : \A b \in rest : b <= y
      BY <2>3, <3>1, Largest, CustomerAssumption
    <3>3. \A a \in rest : a \in Replaced(t) <=> a = y
      <4> HIDE DEF rest
      <4> QED BY <2>1, <3>1, <3>2
    <3>4. \A a \in rest : address[a].default => a = x
      BY <1>5 DEF Marked
    <3>5. \A a \in rest : address'[a].default <=> a = y
      BY <1>3, <1>6, <3>3, <3>4 DEF Live
    <3> HIDE DEF rest
    <3> QED BY <1>4, <3>2, <3>5, Single
  <2> QED BY <2>2, <2>3
<1>7. CASE x # t.arg
  <2>1. Replaced(t) = {}
    BY <1>1, <1>5, <1>7 DEF Replaced, Marked
  <2>2. \A a \in rest : address'[a].default <=> a = x
    BY <1>3, <1>5, <2>1 DEF Marked, Live
  <2>3. x \in rest
    BY <1>5, <1>7
  <2> HIDE DEF rest
  <2> QED BY <1>4, <2>2, <2>3, Single
<1> QED BY <1>6, <1>7

(* A commit ends the request of its worker and of no other.                *)
LEMMA OneEnds ==
  ASSUME IndInv, NEW w \in Workers, Reply(w), NEW v \in Workers, Ends(v)
  PROVE  v = w
BY DEF IndInv, TypeOK, Reply, Ends

LEMMA DefaultStep == IndInv /\ [Next]_vars => [DefaultKept]_vars
<1> SUFFICES ASSUME IndInv, Next PROVE DefaultKept
  BY DEF vars
<1>1. CASE address' = address
  BY <1>1 DEF DefaultKept
<1>2. ASSUME NEW w \in Workers, Reply(w), tx[w].op \in AddressOps,
             tx[w].default /\ (tx[w].op = "default" => address[tx[w].arg].state = "live")
               => OneIn(address'),
             OneIn(address) /\ tx[w].rows = address => OneIn(address')
      PROVE  DefaultKept
  <2>1. Ends(w)
    BY <1>2 DEF IndInv, TypeOK, Reply, Ends, Idle, AddressOps
  <2>2. \A v \in Workers : Ends(v) => v = w
    BY <1>2, OneEnds
  <2> HIDE DEF Ends
  <2> QED BY <1>2, <2>1, <2>2 DEF DefaultKept
<1>3. ASSUME NEW w \in Workers, CreateCommit(w) PROVE DefaultKept
  <2>1. Reply(w) /\ tx[w].op = "create"
    BY <1>3 DEF CreateCommit, AddressCommit
  <2> QED BY <1>2, <1>3, <2>1, CreateDefault DEF AddressOps
<1>4. ASSUME NEW w \in Workers, DefaultCommit(w) PROVE DefaultKept
  <2>1. Reply(w) /\ tx[w].op = "default"
    BY <1>4 DEF DefaultCommit, AddressCommit
  <2> QED BY <1>2, <1>4, <2>1, DefaultDefault DEF AddressOps
<1>5. ASSUME NEW w \in Workers, DeleteCommit(w) PROVE DefaultKept
  <2>1. Reply(w) /\ tx[w].op = "delete"
    BY <1>5 DEF DeleteCommit, AddressCommit
  <2>2. ~tx[w].default
    BY <2>1 DEF IndInv, TxFacts
  <2> QED BY <1>2, <1>5, <2>1, <2>2, DeleteDefault DEF AddressOps
<1>6. ASSUME NEW w \in Workers,
             \/ \E wish \in BOOLEAN : CreateBegin(w, wish)
             \/ \E a \in Addresses : DefaultBegin(w, a) \/ DeleteBegin(w, a)
      PROVE  address' = address
  BY <1>6 DEF CreateBegin, DefaultBegin, DeleteBegin, AddressBegin
<1>7. ASSUME NEW w \in Workers,
             \/ \E q \in Amounts : AddBegin(w, q) \/ SetBegin(w, q)
             \/ RemoveBegin(w) \/ AddCommit(w) \/ SetCommit(w) \/ RemoveCommit(w) \/ Fail(w)
      PROVE  address' = address
  BY <1>7 DEF AddBegin, SetBegin, RemoveBegin, CartBegin, AddCommit, SetCommit,
              RemoveCommit, Fail
<1>8. RemoveBatch => address' = address
  BY DEF RemoveBatch
<1> QED BY <1>1, <1>3, <1>4, <1>5, <1>6, <1>7, <1>8 DEF Next

(* A request that read the address book as it still is keeps the single    *)
(* default, and one that sets a default restores it.                       *)
THEOREM OneDefaultHolds == Spec => OneDefault
<1>1. []IndInv /\ [][Next]_vars => [][DefaultKept]_vars
  BY DefaultStep, PTL
<1> QED BY <1>1, InitKeeps, NextKeeps, PTL DEF Spec, OneDefault
=============================================================================
