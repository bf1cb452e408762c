----------------------------- MODULE CatalogProofs -----------------------------
(***************************************************************************)
(* Proofs about module Catalog for all goods, SKUs, workers and bodies.    *)
(***************************************************************************)
EXTENDS Catalog, FiniteSetTheorems, TLAPS

OnLoaded == {"update", "delete", "shelf"}

(* What a call has read and checked before its commit.                     *)
CallFacts(call) ==
  /\ call.op = "create" =>
       /\ call.request \in Requests /\ ~call.old.made
       /\ \A k \in DOMAIN call.request.skus : GoodsOf[k] = call.goods
  /\ call.op \in OnLoaded => call.old.made /\ ~call.old.deleted
  /\ call.op = "update" =>
       /\ call.edit \in Edits
       /\ \A k \in DOMAIN call.edit.skus : GoodsOf[k] = call.goods /\ call.skus[k].made
       /\ \A k \in DOMAIN call.edit.added : GoodsOf[k] = call.goods /\ ~call.skus[k].made

(* A row that a shop lists on every channel it is flagged for.             *)
SaleRow(row) == row.normal \/ row.points => row.made /\ ~row.deleted /\ row.status = "ON_SALE"

(* The SKUs of some goods bear different numbers, up to how many they are. *)
NumberedAt(g) ==
  \A k \in SkusOf(g, sku) :
    /\ sku[k].seq <= Cardinality(SkusOf(g, sku))
    /\ \A j \in SkusOf(g, sku) : j # k => sku[j].seq # sku[k].seq

IndInv ==
  /\ TypeOK
  /\ \A w \in Workers : CallFacts(tx[w])
  /\ \A w \in Workers : tx[w].op \in OnLoaded => goods[tx[w].goods].made
  /\ \A k \in Skus : sku[k].made => goods[GoodsOf[k]].made
  /\ \A g \in Goods \ raced : SaleRow(goods[g]) /\ NumberedAt(g)

-----------------------------------------------------------------------------
LEMMA Typed ==
  ASSUME IndInv
  PROVE  /\ goods \in [Goods -> GoodsRow] /\ sku \in [Skus -> SkuRow]
         /\ tx \in [Workers -> Transaction] /\ raced \subseteq Goods /\ unseen \subseteq Skus
         /\ \A w \in Workers : /\ CallFacts(tx[w]) /\ tx[w].goods \in Goods
                               /\ tx[w].op \in OnLoaded => goods[tx[w].goods].made
         /\ \A k \in Skus : GoodsOf[k] \in Goods /\ (sku[k].made => goods[GoodsOf[k]].made)
<1>1. tx \in [Workers -> Transaction]
  BY DEF IndInv, TypeOK
<1>2. \A w \in Workers : tx[w].goods \in Goods
  BY <1>1 DEF Transaction
<1> QED BY <1>1, <1>2, CatalogAssumption DEF IndInv, TypeOK

LEMMA IdleType == Idle \in Transaction /\ Idle.op = "none" /\ CallFacts(Idle)
<1>1. NoGoods \in GoodsRow
  BY DEF NoGoods, GoodsRow, Types, Channels, Shelves, Statuses
<1>2. [k \in Skus |-> NoSku] \in [Skus -> SkuRow]
  BY DEF NoSku, SkuRow, Modes
<1>3. (CHOOSE g \in Goods : TRUE) \in Goods
  BY CatalogAssumption
<1>4. Idle.op = "none"
  BY DEF Idle
<1>5. Idle \in Transaction
  BY <1>1, <1>2, <1>3 DEF Idle, Transaction, Ops
<1> QED BY <1>4, <1>5 DEF CallFacts, OnLoaded

LEMMA LoadFields ==
  ASSUME IndInv, NEW op \in Ops, NEW g \in Goods
  PROVE  /\ Load(op, g) \in Transaction /\ Load(op, g).op = op /\ Load(op, g).goods = g
         /\ Load(op, g).old = goods[g]
<1>1. goods[g] \in GoodsRow
  BY Typed
<1>2. Idle \in Transaction
  BY IdleType
<1> QED BY <1>1, <1>2 DEF Load, Transaction

LEMMA SkusLoaded ==
  ASSUME IndInv, NEW g \in Goods
  PROVE  LoadSkus(g) \in [Skus -> SkuRow]
<1>1. NoSku \in SkuRow
  BY DEF NoSku, SkuRow, Modes
<1> QED BY <1>1, Typed DEF LoadSkus

-----------------------------------------------------------------------------
(* A call begins.                                                          *)
LEMMA StartKeeps ==
  ASSUME IndInv, NEW w \in Workers, NEW call \in Transaction, Start(w, call), CallFacts(call),
         call.op \in OnLoaded => goods[call.goods].made
  PROVE  IndInv'
<1>1. /\ tx' = [tx EXCEPT ![w] = call] /\ UNCHANGED <<goods, sku, raced, unseen>>
  BY DEF Start
<1>2. /\ tx' \in [Workers -> Transaction] /\ tx'[w] = call
      /\ \A v \in Workers : v # w => tx'[v] = tx[v]
  BY <1>1, Typed
<1>3. TypeOK'
  BY <1>1, <1>2 DEF IndInv, TypeOK
<1>4. ASSUME NEW v \in Workers
      PROVE  CallFacts(tx'[v]) /\ (tx'[v].op \in OnLoaded => goods[tx'[v].goods].made)
  BY <1>2, Typed
<1>5. \A g \in Goods : NumberedAt(g)' <=> NumberedAt(g)
  BY <1>1 DEF NumberedAt, SkusOf
<1> QED BY <1>1, <1>3, <1>4, <1>5 DEF IndInv

LEMMA CreateBegins ==
  ASSUME IndInv, NEW w \in Workers, NEW g \in Goods, NEW request \in Requests,
         CreateBegin(w, g, request)
  PROVE  /\ IndInv' /\ UnderQuota
         /\ \E call : call.op = "create" /\ Start(w, call)
<1> DEFINE load == Load("create", g)
           call == [load EXCEPT !.request = request]
<1>1. /\ UnderQuota /\ ~goods[g].made
      /\ \A k \in DOMAIN request.skus : GoodsOf[k] = g
  BY DEF CreateBegin, Fresh
<1>2. /\ load \in Transaction /\ load.op = "create" /\ load.goods = g
      /\ load.old = goods[g]
  BY LoadFields DEF Ops
<1>3. Start(w, call)
  BY DEF CreateBegin
<1> HIDE DEF load
<1>5. call \in Transaction
  BY <1>2 DEF Transaction
<1>6. /\ call.op = "create" /\ call.request = request /\ call.goods = g
      /\ call.old = goods[g]
  BY <1>2 DEF Transaction
<1> HIDE DEF call
<1>7. CallFacts(call)
  BY <1>1, <1>6 DEF CallFacts, OnLoaded
<1> QED BY <1>1, <1>3, <1>5, <1>6, <1>7, StartKeeps DEF OnLoaded

LEMMA UpdateBegins ==
  ASSUME IndInv, NEW w \in Workers, NEW g \in Goods, NEW edit \in Edits, UpdateBegin(w, g, edit)
  PROVE  IndInv' /\ \E call : call.op = "update" /\ Start(w, call)
<1> DEFINE load == Load("update", g)
           call == [load EXCEPT !.edit = edit, !.skus = LoadSkus(g)]
<1>1. /\ goods[g].made /\ ~goods[g].deleted
      /\ \A k \in DOMAIN edit.skus : k \in SkusOf(g, sku)
      /\ \A k \in DOMAIN edit.added : Fresh(k, g)
  BY DEF UpdateBegin, Live
<1>2. DOMAIN edit.added \subseteq Skus
  BY BodyAssumption DEF Edit, Rows
<1>3. /\ \A k \in DOMAIN edit.skus : GoodsOf[k] = g /\ LoadSkus(g)[k].made
      /\ \A k \in DOMAIN edit.added : GoodsOf[k] = g /\ ~LoadSkus(g)[k].made
  BY <1>1, <1>2 DEF SkusOf, Fresh, LoadSkus
<1>4. /\ load \in Transaction /\ load.op = "update" /\ load.goods = g
      /\ load.old = goods[g]
  BY LoadFields DEF Ops
<1>5. Start(w, call)
  BY DEF UpdateBegin
<1> HIDE DEF load
<1>7. call \in Transaction
  BY <1>4, SkusLoaded DEF Transaction
<1>8. /\ call.op = "update" /\ call.edit = edit /\ call.goods = g
      /\ call.old = goods[g] /\ call.skus = LoadSkus(g)
  BY <1>4 DEF Transaction
<1> HIDE DEF call
<1>9. CallFacts(call)
  BY <1>1, <1>3, <1>8 DEF CallFacts, OnLoaded
<1> QED BY <1>1, <1>5, <1>7, <1>8, <1>9, StartKeeps

LEMMA DeleteBegins ==
  ASSUME IndInv, NEW w \in Workers, NEW g \in Goods, DeleteBegin(w, g)
  PROVE  IndInv' /\ \E call : call.op = "delete" /\ Start(w, call)
<1>1. goods[g].made /\ ~goods[g].deleted /\ Start(w, Load("delete", g))
  BY DEF DeleteBegin, Live
<1> DEFINE call == Load("delete", g)
<1>3. /\ call \in Transaction /\ call.op = "delete" /\ call.goods = g /\ call.old = goods[g]
  BY LoadFields DEF Ops
<1> HIDE DEF call
<1>4. CallFacts(call)
  BY <1>1, <1>3 DEF CallFacts, OnLoaded
<1> QED BY <1>1, <1>3, <1>4, StartKeeps DEF call

LEMMA ShelfBegins ==
  ASSUME IndInv, NEW w \in Workers, NEW g \in Goods, NEW channel \in Channels,
         NEW on \in BOOLEAN, ShelfBegin(w, g, channel, on)
  PROVE  IndInv' /\ \E call : call.op = "shelf" /\ Start(w, call)
<1> DEFINE load == Load("shelf", g)
           call == [load EXCEPT !.targets = Targets(channel), !.on = on]
<1>1. goods[g].made /\ ~goods[g].deleted
  BY DEF ShelfBegin, Live
<1>2. /\ load \in Transaction /\ load.op = "shelf" /\ load.goods = g
      /\ load.old = goods[g]
  BY LoadFields DEF Ops
<1>3. Start(w, call)
  BY DEF ShelfBegin
<1> HIDE DEF load
<1>5. Targets(channel) \subseteq Shelves
  BY DEF Targets, Channels
<1>6. call \in Transaction
  BY <1>2, <1>5 DEF Transaction
<1>7. call.op = "shelf" /\ call.goods = g /\ call.old = goods[g]
  BY <1>2 DEF Transaction
<1> HIDE DEF call
<1>8. CallFacts(call)
  BY <1>1, <1>7 DEF CallFacts, OnLoaded
<1> QED BY <1>1, <1>3, <1>6, <1>7, <1>8, StartKeeps

-----------------------------------------------------------------------------
(* NewSkus gives the numbers from `first' on, each once.                   *)

LEMMA FiniteSkus == \A S \in SUBSET Skus : IsFiniteSet(S) /\ Cardinality(S) \in Nat
BY CatalogAssumption, FS_Subset, FS_CardinalityType

LEMMA RankBounds ==
  ASSUME NEW D \in SUBSET Skus, NEW k \in D
  PROVE  /\ Cardinality({i \in D : i < k}) \in Nat
         /\ Cardinality({i \in D : i < k}) < Cardinality(D)
<1> DEFINE below == {i \in D : i < k}
<1>1. below \subseteq D \ {k} /\ D \in SUBSET Skus /\ D \ {k} \in SUBSET Skus
  BY CatalogAssumption
<1>2. IsFiniteSet(D) /\ IsFiniteSet(D \ {k}) /\ Cardinality(D) \in Nat
      /\ Cardinality(below) \in Nat
  BY <1>1, FiniteSkus
<1>3. Cardinality(D \ {k}) = Cardinality(D) - 1
  BY <1>2, FS_RemoveElement
<1>4. Cardinality(below) <= Cardinality(D \ {k})
  BY <1>1, <1>2, FS_Subset
<1> QED BY <1>2, <1>3, <1>4, FS_CardinalityType

LEMMA RankGrows ==
  ASSUME NEW D \in SUBSET Skus, NEW j \in D, NEW k \in D, j < k
  PROVE  Cardinality({i \in D : i < j}) < Cardinality({i \in D : i < k})
<1> DEFINE below(m) == {i \in D : i < m}
<1>1. j \in Int /\ k \in Int /\ D \subseteq Int
  BY CatalogAssumption
<1>2. below(j) \subseteq below(k) \ {j} /\ j \in below(k)
  <2>1. ASSUME NEW i \in below(j) PROVE i \in below(k) /\ i # j
    <3>1. i \in D /\ i < j /\ i \in Int
      BY <1>1
    <3> QED BY <1>1, <3>1
  <2>2. j \in below(k)
    OBVIOUS
  <2> HIDE DEF below
  <2> QED BY <2>1, <2>2
<1>3. below(k) \in SUBSET Skus /\ below(k) \ {j} \in SUBSET Skus /\ below(j) \in SUBSET Skus
  OBVIOUS
<1>4. /\ IsFiniteSet(below(k)) /\ Cardinality(below(k)) \in Nat
      /\ IsFiniteSet(below(k) \ {j}) /\ Cardinality(below(j)) \in Nat
  BY <1>3, FiniteSkus
<1> HIDE DEF below
<1>5. Cardinality(below(k) \ {j}) = Cardinality(below(k)) - 1
  BY <1>2, <1>4, FS_RemoveElement
<1>6. Cardinality(below(j)) <= Cardinality(below(k) \ {j})
  BY <1>2, <1>4, FS_Subset
<1>7. Cardinality(below(k) \ {j}) \in Nat
  BY <1>4, FS_CardinalityType
<1> QED BY <1>4, <1>5, <1>6, <1>7 DEF below

LEMMA ChangedType ==
  ASSUME NEW change \in Change, NEW row \in SkuRow
  PROVE  Changed(change, row) \in SkuRow
<1> DEFINE mode == Given(change.mode, Given(change.alias, row.mode))
           price == IF change.price = Null THEN 0 ELSE Given(change.price, row.price)
           points == IF change.points = Null THEN 0 ELSE Given(change.points, row.points)
<1>1. Given(change.alias, row.mode) \in Modes
  BY DEF Given, Change, SkuRow
<1>2. mode \in Modes
  BY <1>1 DEF Given, Change
<1>3. price \in Nat /\ points \in Int
  BY DEF Given, Change, SkuRow
<1>4. Changed(change, row) = [row EXCEPT !.mode = mode, !.price = price, !.points = points]
  BY DEF Changed
<1> HIDE DEF mode, price, points
<1> QED BY <1>2, <1>3, <1>4 DEF SkuRow

LEMMA NewNumbers ==
  ASSUME NEW skus, Rows(skus, Change), NEW first \in Nat
  PROVE  /\ DOMAIN NewSkus(skus, first) = DOMAIN skus /\ DOMAIN skus \in SUBSET Skus
         /\ \A k \in DOMAIN skus :
              /\ NewSkus(skus, first)[k] \in SkuRow /\ NewSkus(skus, first)[k].made
              /\ first <= NewSkus(skus, first)[k].seq
              /\ NewSkus(skus, first)[k].seq < first + Cardinality(DOMAIN skus)
              /\ \A j \in DOMAIN skus :
                   j # k => NewSkus(skus, first)[j].seq # NewSkus(skus, first)[k].seq
<1> DEFINE D == DOMAIN skus
           rank(k) == Cardinality({i \in D : i < k})
           base(k) == Changed(skus[k], NoSku)
           new == NewSkus(skus, first)
<1>1. D \in SUBSET Skus /\ \A k \in D : skus[k] \in Change
  BY DEF Rows
<1>2. \A k \in D : rank(k) \in Nat /\ rank(k) < Cardinality(D)
  BY <1>1, RankBounds
<1>3. \A j, k \in D : j < k => rank(j) < rank(k)
  BY <1>1, RankGrows
<1>4. /\ DOMAIN new = D
      /\ \A k \in D : new[k] = [base(k) EXCEPT !.made = TRUE, !.seq = first + rank(k)]
  BY DEF NewSkus
<1>10. \A k \in D : base(k) \in SkuRow
  <2>1. NoSku \in SkuRow
    BY DEF NoSku, SkuRow, Modes
  <2> QED BY <1>1, <2>1, ChangedType
<1>5. Cardinality(D) \in Nat /\ D \subseteq Int
  BY <1>1, FiniteSkus, CatalogAssumption
<1> HIDE DEF rank, new, base
<1>6. \A k \in D : new[k].seq = first + rank(k) /\ new[k].made
  BY <1>4, <1>10 DEF SkuRow
<1>7. \A k \in D : new[k] \in SkuRow
  <2> SUFFICES ASSUME NEW k \in D PROVE new[k] \in SkuRow
    OBVIOUS
  <2>1. first + rank(k) \in Nat
    BY <1>2
  <2> QED BY <1>4, <1>10, <2>1 DEF SkuRow
<1>8. ASSUME NEW j \in D, NEW k \in D, j # k PROVE new[j].seq # new[k].seq
  <2>1. rank(j) # rank(k)
    <3>1. j < k \/ k < j
      BY <1>5, <1>8
    <3> QED BY <1>2, <1>3, <3>1
  <2>2. rank(j) \in Nat /\ rank(k) \in Nat
    BY <1>2
  <2> QED BY <1>6, <2>1, <2>2
<1>9. \A k \in D : first <= new[k].seq /\ new[k].seq < first + Cardinality(D)
  BY <1>2, <1>5, <1>6
<1> QED BY <1>1, <1>4, <1>6, <1>7, <1>8, <1>9 DEF new

-----------------------------------------------------------------------------
(* A call commits: it writes one row of goods and SKUs of those goods.     *)
LEMMA CommitKeeps ==
  ASSUME IndInv, NEW w \in Workers, NEW g \in Goods, g = tx[w].goods, Finish(w),
         NEW row \in GoodsRow, row.made, goods' = [goods EXCEPT ![g] = row],
         sku' \in [Skus -> SkuRow], \A k \in Skus : GoodsOf[k] # g => sku'[k] = sku[k],
         unseen' \subseteq Skus,
         ~Stale(tx[w]) /\ g \notin raced => SaleRow(row) /\ NumberedAt(g)'
  PROVE  IndInv'
<1>1. /\ tx' = [tx EXCEPT ![w] = Idle]
      /\ raced' = IF Stale(tx[w]) THEN raced \union {g} ELSE raced
  BY DEF Finish
<1>2. /\ tx' \in [Workers -> Transaction] /\ tx'[w] = Idle
      /\ \A v \in Workers : v # w => tx'[v] = tx[v]
  BY <1>1, Typed, IdleType
<1>3. /\ goods' \in [Goods -> GoodsRow] /\ goods'[g] = row
      /\ \A h \in Goods : h # g => goods'[h] = goods[h]
  BY Typed
<1>4. TypeOK'
  BY <1>1, <1>2, <1>3, Typed DEF TypeOK
<1>5. ASSUME NEW v \in Workers
      PROVE  CallFacts(tx'[v]) /\ (tx'[v].op \in OnLoaded => goods'[tx'[v].goods].made)
  <2>1. CASE v = w
    BY <1>2, <2>1, IdleType DEF OnLoaded
  <2>2. CASE v # w
    <3>1. tx'[v] = tx[v] /\ tx[v].goods \in Goods
      BY <1>2, <2>2, Typed
    <3> QED BY <1>3, <3>1, Typed
  <2> QED BY <2>1, <2>2
<1>6. ASSUME NEW k \in Skus, sku'[k].made PROVE goods'[GoodsOf[k]].made
  <2>1. CASE GoodsOf[k] = g
    BY <1>3, <2>1
  <2>2. CASE GoodsOf[k] # g
    BY <1>3, <1>6, <2>2, Typed
  <2> QED BY <2>1, <2>2
<1>7. ASSUME NEW h \in Goods \ raced' PROVE SaleRow(goods'[h]) /\ NumberedAt(h)'
  <2>1. CASE h = g
    <3>1. ~Stale(tx[w]) /\ g \notin raced
      BY <1>1, <1>7, <2>1
    <3> QED BY <1>3, <2>1, <3>1
  <2>2. CASE h # g
    <3>1. h \in Goods \ raced
      BY <1>1, <1>7
    <3>2. SkusOf(h, sku') = SkusOf(h, sku) /\ \A k \in SkusOf(h, sku) : sku'[k] = sku[k]
      BY <2>2 DEF SkusOf
    <3>3. SaleRow(goods[h]) /\ NumberedAt(h)
      BY <3>1 DEF IndInv
    <3>4. NumberedAt(h)'
      BY <3>2, <3>3 DEF NumberedAt
    <3> QED BY <1>3, <2>2, <3>3, <3>4
  <2> QED BY <2>1, <2>2
<1> QED BY <1>4, <1>5, <1>6, <1>7 DEF IndInv

(* A call that leaves the SKUs alone.                                      *)
LEMMA RowCommitKeeps ==
  ASSUME IndInv, NEW w \in Workers, NEW g \in Goods, g = tx[w].goods, Finish(w),
         NEW row \in GoodsRow, row.made, goods' = [goods EXCEPT ![g] = row],
         UNCHANGED <<sku, unseen>>, goods[g] = tx[w].old => SaleRow(row)
  PROVE  IndInv'
<1>1. NumberedAt(g) => NumberedAt(g)'
  BY DEF NumberedAt, SkusOf
<1>2. g \notin raced => NumberedAt(g)
  BY DEF IndInv
<1>3. ~Stale(tx[w]) => SaleRow(row)
  BY DEF Stale
<1> QED BY <1>1, <1>2, <1>3, Typed, CommitKeeps

LEMMA DeleteKeeps ==
  ASSUME IndInv, NEW w \in Workers, DeleteCommit(w)
  PROVE  IndInv'
<1> DEFINE g == tx[w].goods
           old == tx[w].old
           row == DeletedRow(old, goods[g])
<1>1. /\ tx[w].op = "delete" /\ goods' = [goods EXCEPT ![g] = row] /\ UNCHANGED <<sku, unseen>> /\ Finish(w)
  BY DEF DeleteCommit
<1>2. g \in Goods /\ goods[g] \in GoodsRow /\ goods[g].made
  BY <1>1, Typed DEF OnLoaded
<1>3. /\ Put(old.normal, goods[g].normal, FALSE) \in BOOLEAN
      /\ Put(old.points, goods[g].points, FALSE) \in BOOLEAN
      /\ Put(old.status, goods[g].status, "OFF_SALE") \in Statuses
  BY <1>2 DEF GoodsRow, Put, Statuses
<1>4. /\ row \in GoodsRow /\ row.made
      /\ row.normal = Put(old.normal, goods[g].normal, FALSE)
      /\ row.points = Put(old.points, goods[g].points, FALSE)
  BY <1>2, <1>3 DEF DeletedRow, GoodsRow
<1> HIDE DEF row
<1>5. goods[g] = old => SaleRow(row)
  <2>1. goods[g] = old => ~row.normal /\ ~row.points
    BY <1>2, <1>4 DEF Put, GoodsRow
  <2> QED BY <2>1 DEF SaleRow
<1> HIDE DEF g, old
<1> QED BY <1>1, <1>2, <1>4, <1>5, RowCommitKeeps DEF g, old

LEMMA ShelfRow ==
  ASSUME NEW call \in Transaction, NEW current \in GoodsRow
  PROVE  /\ Shelved(call, current) \in GoodsRow
         /\ Shelved(call, current).made = current.made
         /\ Shelved(call, current).deleted = current.deleted
         /\ "NORMAL" \notin call.targets => Shelved(call, current).normal = current.normal
         /\ "POINTS" \notin call.targets => Shelved(call, current).points = current.points
         /\ current = call.old /\ call.old.made /\ ~call.old.deleted
              => SaleRow(Shelved(call, current))
<1> DEFINE normal == IF "NORMAL" \in call.targets THEN call.on ELSE call.old.normal
           points == IF "POINTS" \in call.targets THEN call.on ELSE call.old.points
           status == StatusAfter(call.old, call.targets, call.on)
           row == Shelved(call, current)
<1>1. call.on \in BOOLEAN /\ call.old \in GoodsRow
  BY DEF Transaction
<1>2. normal \in BOOLEAN /\ points \in BOOLEAN
  BY <1>1 DEF GoodsRow
<1>3. status = IF normal \/ points THEN "ON_SALE"
               ELSE IF call.old.status = "ON_SALE" THEN "OFF_SALE" ELSE call.old.status
  BY DEF StatusAfter
<1>4. status \in Statuses
  BY <1>1, <1>3 DEF GoodsRow, Statuses
<1>5. row = [current EXCEPT !.normal = Put(call.old.normal, current.normal, normal),
                            !.points = Put(call.old.points, current.points, points),
                            !.status = Put(call.old.status, current.status, status)]
  BY DEF Shelved
<1> HIDE DEF normal, points, status, row
<1>6. /\ Put(call.old.normal, current.normal, normal) \in BOOLEAN
      /\ Put(call.old.points, current.points, points) \in BOOLEAN
      /\ Put(call.old.status, current.status, status) \in Statuses
  BY <1>2, <1>4 DEF Put, GoodsRow
<1>7. /\ row \in GoodsRow /\ row.made = current.made /\ row.deleted = current.deleted
      /\ row.normal = Put(call.old.normal, current.normal, normal)
      /\ row.points = Put(call.old.points, current.points, points)
      /\ row.status = Put(call.old.status, current.status, status)
  BY <1>5, <1>6 DEF GoodsRow
<1>8. "NORMAL" \notin call.targets => row.normal = current.normal
  BY <1>7 DEF Put, normal
<1>9. "POINTS" \notin call.targets => row.points = current.points
  BY <1>7 DEF Put, points
<1>10. current = call.old => row.normal = normal /\ row.points = points /\ row.status = status
  BY <1>7 DEF Put
<1>11. current = call.old /\ call.old.made /\ ~call.old.deleted => SaleRow(row)
  BY <1>3, <1>7, <1>10 DEF SaleRow
<1> QED BY <1>7, <1>8, <1>9, <1>11 DEF row

LEMMA ShelfKeeps ==
  ASSUME IndInv, NEW w \in Workers, ShelfCommit(w)
  PROVE  IndInv'
<1> DEFINE g == tx[w].goods
           row == Shelved(tx[w], goods[g])
<1>1. /\ tx[w].op = "shelf" /\ goods' = [goods EXCEPT ![g] = row] /\ UNCHANGED <<sku, unseen>> /\ Finish(w)
  BY DEF ShelfCommit
<1>2. g \in Goods /\ goods[g] \in GoodsRow /\ goods[g].made /\ tx[w] \in Transaction
  BY <1>1, Typed DEF OnLoaded
<1>3. tx[w].old.made /\ ~tx[w].old.deleted
  BY <1>1, Typed DEF CallFacts, OnLoaded
<1>4. row \in GoodsRow /\ row.made /\ (goods[g] = tx[w].old => SaleRow(row))
  BY <1>2, <1>3, ShelfRow
<1> HIDE DEF row, g
<1> QED BY <1>1, <1>2, <1>4, RowCommitKeeps DEF g

LEMMA CreateKeeps ==
  ASSUME IndInv, NEW w \in Workers, CreateCommit(w)
  PROVE  IndInv'
<1>0. PICK g \in Goods : g = tx[w].goods
  BY Typed
<1> DEFINE request == tx[w].request
           new == NewSkus(request.skus, 1)
           row == [NoGoods EXCEPT !.made = TRUE, !.type = request.type, !.dated = request.dated,
                                  !.channel = request.channel, !.status = request.status]
           D == DOMAIN request.skus
<1>1. /\ tx[w].op = "create" /\ goods' = [goods EXCEPT ![g] = row] /\ Finish(w)
      /\ sku' = [k \in Skus |-> IF k \in DOMAIN new THEN new[k] ELSE sku[k]]
  BY <1>0 DEF CreateCommit
<1>2. /\ request \in Requests /\ ~tx[w].old.made
      /\ \A k \in D : GoodsOf[k] = g
  BY <1>0, <1>1, Typed DEF CallFacts
<1>3. /\ request.type \in Types /\ request.dated \in BOOLEAN /\ request.channel \in Channels
      /\ request.status \in Statuses /\ Rows(request.skus, Change)
  BY <1>2, BodyAssumption DEF Request
<1>4. row \in GoodsRow /\ row.made /\ SaleRow(row)
  <2>1. NoGoods \in GoodsRow /\ ~NoGoods.normal /\ ~NoGoods.points
    BY DEF NoGoods, GoodsRow, Types, Channels, Shelves, Statuses
  <2> HIDE DEF request
  <2>2. row \in GoodsRow
    BY <1>3, <2>1 DEF GoodsRow
  <2>3. row.made /\ ~row.normal /\ ~row.points
    BY <2>1 DEF GoodsRow
  <2> HIDE DEF row
  <2> QED BY <2>2, <2>3 DEF SaleRow
<1> HIDE DEF row
<1>5. /\ DOMAIN new = D /\ D \in SUBSET Skus 
      /\ \A k \in D : /\ new[k] \in SkuRow /\ new[k].made /\ new[k].seq < 1 + Cardinality(D)
                      /\ \A j \in D : j # k => new[j].seq # new[k].seq
  <2> DEFINE prices == request.skus
  <2>1. Rows(prices, Change) /\ 1 \in Nat
    BY <1>3
  <2> HIDE DEF prices
  <2>2. /\ DOMAIN NewSkus(prices, 1) = DOMAIN prices /\ DOMAIN prices \in SUBSET Skus
        /\ \A k \in DOMAIN prices :
             /\ NewSkus(prices, 1)[k] \in SkuRow /\ NewSkus(prices, 1)[k].made
             /\ NewSkus(prices, 1)[k].seq < 1 + Cardinality(DOMAIN prices)
             /\ \A j \in DOMAIN prices :
                  j # k => NewSkus(prices, 1)[j].seq # NewSkus(prices, 1)[k].seq
    BY <2>1, NewNumbers
  <2> QED BY <2>2 DEF prices
<1> HIDE DEF new
<1>6. /\ \A k \in D : sku'[k] = new[k]
      /\ \A k \in Skus \ D : sku'[k] = sku[k]
  BY <1>1, <1>5
<1>7. sku' \in [Skus -> SkuRow]
  BY <1>1, <1>5, Typed
<1>8. \A k \in Skus : GoodsOf[k] # g => sku'[k] = sku[k]
  BY <1>2, <1>6
<1>9. ASSUME goods[g] = tx[w].old PROVE NumberedAt(g)'
  <2>1. \A k \in Skus : GoodsOf[k] = g => ~sku[k].made
    BY <1>2, <1>9, Typed
  <2>2. SkusOf(g, sku') = D
    BY <1>2, <1>5, <1>6, <2>1 DEF SkusOf
  <2>3. Cardinality(D) \in Nat /\ \A k \in D : new[k].seq \in Nat
    BY <1>5, FiniteSkus DEF SkuRow
  <2>4. \A k \in D : new[k].seq <= Cardinality(D)
    BY <1>5, <2>3
  <2> QED BY <1>5, <1>6, <2>2, <2>4 DEF NumberedAt
<1>10. ~Stale(tx[w]) => goods[g] = tx[w].old
  BY <1>0 DEF Stale
<1>11. unseen' \subseteq Skus
  <2>1. unseen' = unseen \union {k \in DOMAIN new : PastCheck(request.skus[k], NoSku)}
    BY DEF CreateCommit, new
  <2> QED BY <1>5, <2>1, Typed
<1> QED BY <1>0, <1>1, <1>4, <1>7, <1>8, <1>9, <1>10, <1>11, CommitKeeps

LEMMA SkuUpdated ==
  ASSUME NEW call \in Transaction, call.edit \in Edits, NEW k \in DOMAIN call.edit.skus,
         NEW current \in SkuRow
  PROVE  /\ k \in Skus /\ UpdatedSku(call, k, current) \in SkuRow
         /\ UpdatedSku(call, k, current).made = current.made
         /\ UpdatedSku(call, k, current).seq = current.seq
<1> DEFINE loaded == call.skus[k]
           new == Changed(call.edit.skus[k], loaded)
<1>1. k \in Skus /\ call.edit.skus[k] \in Change
  BY BodyAssumption DEF Edit, Rows
<1>2. loaded \in SkuRow
  BY <1>1 DEF Transaction
<1>3. new \in SkuRow
  BY <1>1, <1>2, ChangedType
<1>4. UpdatedSku(call, k, current) =
        [current EXCEPT !.mode = Put(loaded.mode, current.mode, new.mode),
                        !.price = Put(loaded.price, current.price, new.price),
                        !.points = Put(loaded.points, current.points, new.points)]
  BY DEF UpdatedSku
<1> HIDE DEF loaded, new
<1>5. /\ Put(loaded.mode, current.mode, new.mode) \in Modes
      /\ Put(loaded.price, current.price, new.price) \in Nat
      /\ Put(loaded.points, current.points, new.points) \in Int
  BY <1>3 DEF Put, SkuRow
<1> QED BY <1>1, <1>4, <1>5 DEF SkuRow

LEMMA GoodsUpdated ==
  ASSUME NEW call \in Transaction, call.edit \in Edits, NEW current \in GoodsRow
  PROVE  /\ UpdatedGoods(call, current) \in GoodsRow
         /\ UpdatedGoods(call, current).made = current.made
         /\ SaleRow(current) => SaleRow(UpdatedGoods(call, current))
<1> DEFINE set(value, loaded, cur) == Put(loaded, cur, Given(value, loaded))
           type == set(call.edit.type, call.old.type, current.type)
           dated == set(call.edit.dated, call.old.dated, current.dated)
           channel == set(call.edit.channel, call.old.channel, current.channel)
           row == UpdatedGoods(call, current)
<1>1. /\ call.edit.type \in Types \union {Absent}
      /\ call.edit.dated \in BOOLEAN \union {Absent}
      /\ call.edit.channel \in Channels \union {Absent}
  BY BodyAssumption DEF Edit
<1>2. call.old \in GoodsRow
  BY DEF Transaction
<1>3. type \in Types /\ dated \in BOOLEAN /\ channel \in Channels
  <2>1. type \in Types
    BY <1>1, <1>2 DEF Put, Given, GoodsRow
  <2>2. dated \in BOOLEAN
    BY <1>1, <1>2 DEF Put, Given, GoodsRow
  <2>3. channel \in Channels
    BY <1>1, <1>2 DEF Put, Given, GoodsRow
  <2> QED BY <2>1, <2>2, <2>3
<1>4. row = [current EXCEPT !.type = type, !.dated = dated, !.channel = channel]
  BY DEF UpdatedGoods
<1> HIDE DEF type, dated, channel, row
<1>5. /\ row \in GoodsRow /\ row.made = current.made /\ row.deleted = current.deleted
      /\ row.normal = current.normal /\ row.points = current.points
      /\ row.status = current.status
  BY <1>3, <1>4 DEF GoodsRow
<1> QED BY <1>5 DEF row, SaleRow

LEMMA UpdateKeeps ==
  ASSUME IndInv, NEW w \in Workers, UpdateCommit(w)
  PROVE  IndInv'
<1>0. PICK g \in Goods : g = tx[w].goods
  BY Typed
<1>1. PICK call \in Transaction : call = tx[w]
  BY Typed
<1> DEFINE first == FirstAdded(call)
           new == NewSkus(call.edit.added, first)
           row == UpdatedGoods(call, goods[g])
           D == DOMAIN call.edit.added
           E == DOMAIN call.edit.skus
<1>2. /\ call.op = "update" /\ goods' = [goods EXCEPT ![g] = row] /\ Finish(w)
      /\ sku' = [k \in Skus |-> IF k \in E THEN UpdatedSku(call, k, sku[k])
                                ELSE IF k \in DOMAIN new THEN new[k] ELSE sku[k]]
  BY <1>0, <1>1 DEF UpdateCommit
<1>3. /\ call.edit \in Edits /\ call.goods = g
      /\ \A k \in E : GoodsOf[k] = g /\ call.skus[k].made
      /\ \A k \in D : GoodsOf[k] = g /\ ~call.skus[k].made
  BY <1>0, <1>1, <1>2, Typed DEF CallFacts
<1>4. Rows(call.edit.added, Change) /\ E \subseteq Skus
  BY <1>3, BodyAssumption DEF Edit, Rows
<1>5. goods[g] \in GoodsRow /\ goods[g].made
  BY <1>0, <1>1, <1>2, Typed DEF OnLoaded
<1>6. row \in GoodsRow /\ row.made /\ (SaleRow(goods[g]) => SaleRow(row))
  BY <1>3, <1>5, GoodsUpdated
<1> HIDE DEF row
<1> DEFINE n == Cardinality(SkusOf(g, call.skus))
<1>7. first \in Nat /\ n \in Nat /\ first = n + 1
  <2>1. SkusOf(g, call.skus) \in SUBSET Skus
    BY DEF SkusOf
  <2>2. n \in Nat
    BY <2>1, FiniteSkus
  <2> QED BY <1>3, <2>2 DEF FirstAdded
<1>8. /\ DOMAIN new = D /\ D \in SUBSET Skus
      /\ \A k \in D : /\ new[k] \in SkuRow /\ new[k].made
                      /\ first <= new[k].seq /\ new[k].seq < first + Cardinality(D)
                      /\ \A j \in D : j # k => new[j].seq # new[k].seq
  <2> DEFINE prices == call.edit.added
  <2>1. Rows(prices, Change)
    BY <1>4
  <2> HIDE DEF prices, first
  <2>2. /\ DOMAIN NewSkus(prices, first) = DOMAIN prices /\ DOMAIN prices \in SUBSET Skus
        /\ \A k \in DOMAIN prices :
             /\ NewSkus(prices, first)[k] \in SkuRow /\ NewSkus(prices, first)[k].made
             /\ first <= NewSkus(prices, first)[k].seq
             /\ NewSkus(prices, first)[k].seq < first + Cardinality(DOMAIN prices)
             /\ \A j \in DOMAIN prices :
                  j # k => NewSkus(prices, first)[j].seq # NewSkus(prices, first)[k].seq
    BY <1>7, <2>1, NewNumbers
  <2> QED BY <2>2 DEF prices
<1> HIDE DEF new, first
<1>9. E \intersect D = {}
  BY <1>3
<1>10. /\ \A k \in E : /\ sku'[k] \in SkuRow /\ sku'[k].made = sku[k].made
                       /\ sku'[k].seq = sku[k].seq
       /\ \A k \in D : sku'[k] = new[k]
       /\ \A k \in Skus : k \notin E /\ k \notin D => sku'[k] = sku[k]
  <2>1. ASSUME NEW k \in E
        PROVE  /\ sku'[k] \in SkuRow /\ sku'[k].made = sku[k].made
               /\ sku'[k].seq = sku[k].seq
    <3>1. sku[k] \in SkuRow /\ k \in Skus
      BY <1>4, Typed
    <3>2. sku'[k] = UpdatedSku(call, k, sku[k])
      BY <1>2, <3>1
    <3> QED BY <1>3, <3>1, <3>2, SkuUpdated
  <2> QED BY <1>2, <1>8, <1>9, <2>1
<1>11. sku' \in [Skus -> SkuRow]
  <2>1. \A k \in Skus : sku'[k] \in SkuRow
    BY <1>8, <1>10, Typed
  <2>2. sku' = [k \in Skus |-> sku'[k]]
    BY <1>2
  <2> QED BY <2>1, <2>2
<1>12. \A k \in Skus : GoodsOf[k] # g => sku'[k] = sku[k]
  BY <1>3, <1>10
<1>13. ASSUME ~Stale(call), NumberedAt(g) PROVE NumberedAt(g)'
  <2> DEFINE old == SkusOf(g, sku)
  <2>1. LoadSkus(g) = call.skus
    BY <1>2, <1>3, <1>13 DEF Stale
  <2>2. \A k \in Skus : GoodsOf[k] = g => call.skus[k] = sku[k]
    BY <2>1 DEF LoadSkus
  <2>3. old = SkusOf(g, call.skus) /\ old \in SUBSET Skus
    BY <2>2 DEF SkusOf
  <2>4. D \intersect old = {}
    BY <1>3, <2>2, <1>8 DEF SkusOf
  <2>5. SkusOf(g, sku') = old \union D
    <3>1. \A k \in Skus : GoodsOf[k] = g => (sku'[k].made <=> sku[k].made \/ k \in D)
      BY <1>8, <1>9, <1>10
    <3> QED BY <1>3, <1>8, <3>1 DEF SkusOf
  <2>6. \A k \in old : sku'[k].seq = sku[k].seq
    BY <1>10, <2>3, <2>4
  <2>7. Cardinality(old \union D) = n + Cardinality(D) /\ Cardinality(D) \in Nat
    <3>1. IsFiniteSet(old) /\ IsFiniteSet(D) /\ n = Cardinality(old)
          /\ Cardinality(D) \in Nat
      BY <1>8, <2>3, FiniteSkus
    <3>2. old \intersect D = {}
      BY <2>4
    <3>3. Cardinality(old \intersect D) = 0
      BY <3>2, FS_EmptySet
    <3> HIDE DEF old, D, n
    <3>4. Cardinality(old \union D)
            = Cardinality(old) + Cardinality(D) - Cardinality(old \intersect D)
      BY <3>1, FS_Union
    <3> QED BY <1>7, <3>1, <3>3, <3>4
  <2>8. n = Cardinality(old)
    BY <2>3
  <2>9. \A k \in old : /\ sku[k].seq \in Nat /\ sku[k].seq <= n
                       /\ \A j \in old : j # k => sku[j].seq # sku[k].seq
    BY <1>13, <2>3, <2>8, Typed DEF NumberedAt, SkuRow
  <2>10. \A k \in D : new[k].seq \in Nat
    BY <1>8 DEF SkuRow
  <2>11. \A k \in old \union D : sku'[k].seq \in Nat /\ sku'[k].seq <= n + Cardinality(D)
    BY <1>7, <1>8, <1>10, <2>6, <2>7, <2>9, <2>10
  <2>12. ASSUME NEW j \in old \union D, NEW k \in old \union D, j # k
         PROVE  sku'[j].seq # sku'[k].seq
    <3>1. CASE j \in old /\ k \in old
      BY <2>6, <2>9, <2>12, <3>1
    <3>2. CASE j \in D /\ k \in D
      BY <1>8, <1>10, <2>12, <3>2
    <3>3. \A a \in old, b \in D : sku'[a].seq < sku'[b].seq
      BY <1>7, <1>8, <1>10, <2>6, <2>9, <2>10
    <3>4. sku'[j].seq \in Nat /\ sku'[k].seq \in Nat
      BY <2>11
    <3> QED BY <3>1, <3>2, <3>3, <3>4
  <2> HIDE DEF old, n
  <2> QED BY <2>5, <2>7, <2>11, <2>12 DEF NumberedAt
<1>14. g \notin raced => SaleRow(goods[g]) /\ NumberedAt(g)
  BY DEF IndInv
<1>15. unseen' \subseteq Skus
  <2>1. unseen' = (unseen \ E) \union {k \in E : PastCheck(call.edit.skus[k], call.skus[k])}
                   \union {k \in DOMAIN new : PastCheck(call.edit.added[k], NoSku)}
    BY <1>1 DEF UpdateCommit, new, first
  <2> QED BY <1>4, <1>8, <2>1, Typed
<1> QED BY <1>0, <1>1, <1>2, <1>6, <1>11, <1>12, <1>13, <1>14, <1>15, CommitKeeps

-----------------------------------------------------------------------------
LEMMA RollbackKeeps ==
  ASSUME IndInv, NEW w \in Workers, Rollback(w)
  PROVE  IndInv'
<1>1. tx' = [tx EXCEPT ![w] = Idle] /\ UNCHANGED <<goods, sku, raced, unseen>>
  BY DEF Rollback
<1>2. /\ tx' \in [Workers -> Transaction] /\ tx'[w] = Idle
      /\ \A v \in Workers : v # w => tx'[v] = tx[v]
  BY <1>1, Typed, IdleType
<1>3. TypeOK'
  BY <1>1, <1>2 DEF IndInv, TypeOK
<1>4. ASSUME NEW v \in Workers
      PROVE  CallFacts(tx'[v]) /\ (tx'[v].op \in OnLoaded => goods[tx'[v].goods].made)
  <2>1. CASE v = w
    BY <1>2, <2>1, IdleType DEF OnLoaded
  <2>2. CASE v # w
    BY <1>2, <2>2, Typed
  <2> QED BY <2>1, <2>2
<1>5. \A g \in Goods : NumberedAt(g)' <=> NumberedAt(g)
  BY <1>1 DEF NumberedAt, SkusOf
<1> QED BY <1>1, <1>3, <1>4, <1>5 DEF IndInv

LEMMA InitKeeps == Init => IndInv
<1> SUFFICES ASSUME Init PROVE IndInv
  OBVIOUS
<1>1. /\ goods = [g \in Goods |-> NoGoods] /\ sku = [k \in Skus |-> NoSku]
      /\ tx = [w \in Workers |-> Idle] /\ raced = {} /\ unseen = {}
  BY DEF Init
<1>2. /\ NoGoods \in GoodsRow /\ ~NoGoods.normal /\ ~NoGoods.points
  BY DEF NoGoods, GoodsRow, Types, Channels, Shelves, Statuses
<1>3. NoSku \in SkuRow /\ ~NoSku.made
  BY DEF NoSku, SkuRow, Modes
<1>4. Idle \in Transaction /\ Idle.op = "none" /\ CallFacts(Idle)
  BY IdleType
<1>5. TypeOK
  BY <1>1, <1>2, <1>3, <1>4 DEF TypeOK
<1>6. \A g \in Goods : SkusOf(g, sku) = {}
  BY <1>1, <1>3 DEF SkusOf
<1>7. \A g \in Goods : SaleRow(goods[g]) /\ NumberedAt(g)
  BY <1>1, <1>2, <1>6 DEF SaleRow, NumberedAt
<1> QED BY <1>1, <1>3, <1>4, <1>5, <1>7 DEF IndInv, OnLoaded

LEMMA NextKeeps == IndInv /\ [Next]_vars => IndInv'
<1> SUFFICES ASSUME IndInv, [Next]_vars PROVE IndInv'
  OBVIOUS
<1>1. CASE UNCHANGED vars
  <2>1. \A g \in Goods : NumberedAt(g)' <=> NumberedAt(g)
    BY <1>1 DEF vars, NumberedAt, SkusOf
  <2>2. TypeOK'
    BY <1>1 DEF vars, IndInv, TypeOK
  <2> QED BY <1>1, <2>1, <2>2 DEF vars, IndInv
<1>2. ASSUME NEW w \in Workers, NEW g \in Goods, Begin(w, g) PROVE IndInv'
  BY <1>2, CreateBegins, UpdateBegins, DeleteBegins, ShelfBegins DEF Begin
<1>3. ASSUME NEW w \in Workers, Commit(w) PROVE IndInv'
  BY <1>3, CreateKeeps, UpdateKeeps, DeleteKeeps, ShelfKeeps DEF Commit
<1>4. ASSUME NEW w \in Workers, Rollback(w) PROVE IndInv'
  BY <1>4, RollbackKeeps
<1> QED BY <1>1, <1>2, <1>3, <1>4 DEF Next

(* The rows of gd_goods and gd_sku and the open calls keep their types.    *)
THEOREM TypeCorrect == Spec => []TypeOK
<1>1. IndInv => TypeOK
  BY DEF IndInv
<1> QED BY <1>1, InitKeeps, NextKeeps, PTL DEF Spec

(* Goods that no two calls have changed at once, and that are for sale on  *)
(* a channel, are listed there.                                            *)
THEOREM SaleAgreesHolds == Spec => []SaleAgrees
<1>1. IndInv => SaleAgrees
  BY DEF IndInv, SaleRow, SaleAgrees, ListedNormal, ListedPoints, Live
<1> QED BY <1>1, InitKeeps, NextKeeps, PTL DEF Spec

(* The SKUs of goods that no two calls have changed at once have different *)
(* codes, however many edits have added some.                              *)
THEOREM CodesDistinctHolds == Spec => []CodesDistinct
<1>1. ASSUME IndInv PROVE CodesDistinct
  <2> SUFFICES ASSUME NEW j \in Skus, NEW k \in Skus, j # k, sku[j].made, sku[k].made,
                      GoodsOf[j] = GoodsOf[k], GoodsOf[k] \notin raced
               PROVE  sku[j].seq # sku[k].seq
    BY DEF CodesDistinct
  <2>1. NumberedAt(GoodsOf[k])
    BY <1>1, Typed DEF IndInv
  <2>2. j \in SkusOf(GoodsOf[k], sku) /\ k \in SkusOf(GoodsOf[k], sku)
    BY DEF SkusOf
  <2> QED BY <2>1, <2>2 DEF NumberedAt
<1> QED BY <1>1, InitKeeps, NextKeeps, PTL DEF Spec

-----------------------------------------------------------------------------
(* A call is at work on one channel only.                                  *)
LEMMA OtherStep == IndInv /\ [Next]_vars => [KeepsOther]_vars
<1> SUFFICES ASSUME IndInv, Next PROVE KeepsOther
  BY DEF vars
<1> SUFFICES ASSUME NEW w \in Workers, tx[w].op = "shelf", tx'[w].op = "none", NEW g \in Goods
             PROVE  /\ "NORMAL" \notin tx[w].targets => goods'[g].normal = goods[g].normal
                    /\ "POINTS" \notin tx[w].targets => goods'[g].points = goods[g].points
  BY DEF KeepsOther
<1>1. CASE goods' = goods
  BY <1>1
<1>2. ASSUME NEW v \in Workers, Finish(v) PROVE v = w
  BY <1>2, Typed DEF Finish
<1>3. ASSUME NEW v \in Workers, Commit(v) PROVE v = w /\ ShelfCommit(w)
  <2>1. Finish(v)
    BY <1>3 DEF Commit, CreateCommit, UpdateCommit, DeleteCommit, ShelfCommit
  <2>2. v = w
    BY <1>2, <2>1
  <2> QED BY <1>3, <2>2 DEF Commit, CreateCommit, UpdateCommit, DeleteCommit
<1>4. CASE ShelfCommit(w)
  <2>1. goods' = [goods EXCEPT ![tx[w].goods] = Shelved(tx[w], goods[tx[w].goods])]
    BY <1>4 DEF ShelfCommit
  <2>2. CASE g = tx[w].goods
    <3>1. goods'[g] = Shelved(tx[w], goods[g]) /\ goods[g] \in GoodsRow
          /\ tx[w] \in Transaction
      BY <2>1, <2>2, Typed
    <3> QED BY <3>1, ShelfRow
  <2>3. CASE g # tx[w].goods
    <3>1. goods'[g] = goods[g]
      BY <2>1, <2>3, Typed
    <3> QED BY <3>1
  <2> QED BY <2>2, <2>3
<1>5. ASSUME NEW v \in Workers, NEW h \in Goods, Begin(v, h) PROVE goods' = goods
  BY <1>5 DEF Begin, CreateBegin, UpdateBegin, DeleteBegin, ShelfBegin, Start
<1>6. ASSUME NEW v \in Workers, Rollback(v) PROVE goods' = goods
  BY <1>6 DEF Rollback
<1> QED BY <1>1, <1>3, <1>4, <1>5, <1>6 DEF Next

(* Staff who shelve goods on one channel leave the other channel's flag as *)
(* it is, also if another call has just changed it.                        *)
THEOREM ChannelsApartHolds == Spec => ChannelsApart
<1>1. []IndInv /\ [][Next]_vars => [][KeepsOther]_vars
  BY OtherStep, PTL
<1> QED BY <1>1, InitKeeps, NextKeeps, PTL DEF Spec, ChannelsApart

-----------------------------------------------------------------------------
(* The quota.                                                              *)
Creating == {w \in Workers : tx[w].op = "create"}

LEMMA Counts ==
  /\ IsFiniteSet(Live) /\ Cardinality(Live) \in Nat
  /\ IsFiniteSet(Creating) /\ Cardinality(Creating) \in Nat
  /\ IsFiniteSet(Workers) /\ Cardinality(Workers) \in Nat /\ Limit \in Nat
  /\ Cardinality(Creating) <= Cardinality(Workers)
<1>1. Live \in SUBSET Goods /\ Creating \in SUBSET Workers
  BY DEF Live, Creating
<1> QED BY <1>1, CatalogAssumption, FS_Subset, FS_CardinalityType

(* A step that neither adds goods nor begins a creation.                   *)
LEMMA QuotaLess ==
  ASSUME QuotaBound, Live' \subseteq Live, Creating' \subseteq Creating
  PROVE  QuotaBound'
<1>1. /\ Cardinality(Live') \in Nat /\ Cardinality(Live') <= Cardinality(Live)
      /\ Cardinality(Creating') \in Nat /\ Cardinality(Creating') <= Cardinality(Creating)
  BY Counts, FS_Subset, FS_CardinalityType
<1> QED BY <1>1, Counts DEF QuotaBound, Creating

(* A creation begins under the quota.                                      *)
LEMMA QuotaBegin ==
  ASSUME UnderQuota, Live' = Live
  PROVE  QuotaBound'
<1>1. Creating' \subseteq Workers
  BY DEF Creating
<1>2. Cardinality(Creating') \in Nat /\ Cardinality(Creating') <= Cardinality(Workers)
  BY <1>1, Counts, FS_Subset, FS_CardinalityType
<1> QED BY <1>2, Counts DEF QuotaBound, UnderQuota, Creating

(* A creation that ends turns into one more row.                           *)
LEMMA QuotaCreate ==
  ASSUME QuotaBound, NEW g, NEW w \in Creating, Live' \subseteq Live \union {g},
         Creating' \subseteq Creating \ {w}
  PROVE  QuotaBound'
<1>1. IsFiniteSet(Live \union {g}) /\ Cardinality(Live \union {g}) <= Cardinality(Live) + 1
      /\ Cardinality(Live \union {g}) \in Nat
  <2>1. IsFiniteSet(Live) /\ Cardinality(Live) \in Nat
    BY Counts
  <2>2. /\ IsFiniteSet(Live \union {g})
        /\ Cardinality(Live \union {g})
             = IF g \in Live THEN Cardinality(Live) ELSE Cardinality(Live) + 1
    BY <2>1, FS_AddElement
  <2> QED BY <2>1, <2>2
<1>2. Cardinality(Live') \in Nat /\ Cardinality(Live') <= Cardinality(Live \union {g})
  BY <1>1, FS_Subset, FS_CardinalityType
<1>3. /\ IsFiniteSet(Creating \ {w}) /\ Cardinality(Creating \ {w}) = Cardinality(Creating) - 1
  BY Counts, FS_RemoveElement
<1>4. Cardinality(Creating') \in Nat /\ Cardinality(Creating') <= Cardinality(Creating \ {w})
  BY <1>3, FS_Subset, FS_CardinalityType
<1>5. Limit # 0 => Cardinality(Live) + Cardinality(Creating) <= Limit - 1 + Cardinality(Workers)
  BY DEF QuotaBound, Creating
<1>6. Limit # 0 => Cardinality(Live') + Cardinality(Creating')
                     <= Limit - 1 + Cardinality(Workers)
  BY <1>1, <1>2, <1>3, <1>4, <1>5, Counts
<1> QED BY <1>6 DEF QuotaBound, Creating

LEMMA QuotaNext == IndInv /\ QuotaBound /\ [Next]_vars => QuotaBound'
<1> SUFFICES ASSUME IndInv, QuotaBound, [Next]_vars PROVE QuotaBound'
  OBVIOUS
<1>1. CASE UNCHANGED vars
  BY <1>1, QuotaLess DEF vars, Live, Creating
<1>2. ASSUME NEW w \in Workers, NEW call, Start(w, call), call.op # "create" PROVE QuotaBound'
  BY <1>2, QuotaLess, Typed DEF Start, Live, Creating
<1>3. ASSUME NEW w \in Workers, NEW g \in Goods, Begin(w, g) PROVE QuotaBound'
  <2>1. ASSUME NEW request \in Requests, CreateBegin(w, g, request) PROVE QuotaBound'
    BY <2>1, QuotaBegin DEF CreateBegin, Start, Live
  <2>2. ASSUME NEW edit \in Edits, UpdateBegin(w, g, edit) PROVE QuotaBound'
    BY <1>2, <2>2, UpdateBegins
  <2>3. ASSUME DeleteBegin(w, g) PROVE QuotaBound'
    BY <1>2, <2>3, DeleteBegins
  <2>4. ASSUME NEW channel \in Channels, NEW on \in BOOLEAN, ShelfBegin(w, g, channel, on)
        PROVE  QuotaBound'
    BY <1>2, <2>4, ShelfBegins
  <2> QED BY <1>3, <2>1, <2>2, <2>3, <2>4 DEF Begin
<1>4. ASSUME NEW w \in Workers, tx' = [tx EXCEPT ![w] = Idle]
      PROVE  Creating' \subseteq Creating \ {w}
  BY <1>4, Typed, IdleType DEF Creating
<1>5. ASSUME NEW w \in Workers, Rollback(w) PROVE QuotaBound'
  BY <1>4, <1>5, QuotaLess DEF Rollback, Live
<1>6. ASSUME NEW w \in Workers, CreateCommit(w) PROVE QuotaBound'
  <2>1. w \in Creating /\ Creating' \subseteq Creating \ {w}
    BY <1>4, <1>6 DEF CreateCommit, Finish, Creating
  <2>2. Live' \subseteq Live \union {tx[w].goods}
    BY <1>6, Typed DEF CreateCommit, Live
  <2> QED BY <2>1, <2>2, QuotaCreate
<1>7. ASSUME NEW w \in Workers, UpdateCommit(w) \/ DeleteCommit(w) \/ ShelfCommit(w)
      PROVE  QuotaBound'
  <2> DEFINE g == tx[w].goods
  <2>1. Creating' \subseteq Creating
    BY <1>4, <1>7 DEF UpdateCommit, DeleteCommit, ShelfCommit, Finish
  <2>2. /\ g \in Goods /\ goods[g] \in GoodsRow /\ tx[w] \in Transaction
        /\ goods \in [Goods -> GoodsRow]
    BY Typed
  <2>3. \E row : /\ goods' = [goods EXCEPT ![g] = row]
                 /\ row.made = goods[g].made /\ (row.deleted = goods[g].deleted \/ row.deleted)
    <3>1. CASE UpdateCommit(w)
      <4>1. goods' = [goods EXCEPT ![g] = UpdatedGoods(tx[w], goods[g])]
        BY <3>1 DEF UpdateCommit
      <4>2. /\ UpdatedGoods(tx[w], goods[g]).made = goods[g].made
            /\ UpdatedGoods(tx[w], goods[g]).deleted = goods[g].deleted
        BY <2>2 DEF UpdatedGoods, GoodsRow
      <4> QED BY <4>1, <4>2
    <3>2. CASE DeleteCommit(w)
      <4>1. goods' = [goods EXCEPT ![g] = DeletedRow(tx[w].old, goods[g])]
        BY <3>2 DEF DeleteCommit
      <4>2. /\ DeletedRow(tx[w].old, goods[g]).made = goods[g].made
            /\ DeletedRow(tx[w].old, goods[g]).deleted
        BY <2>2 DEF DeletedRow, GoodsRow
      <4> QED BY <4>1, <4>2
    <3>3. CASE ShelfCommit(w)
      <4>1. goods' = [goods EXCEPT ![g] = Shelved(tx[w], goods[g])]
        BY <3>3 DEF ShelfCommit
      <4>2. /\ Shelved(tx[w], goods[g]).made = goods[g].made
            /\ Shelved(tx[w], goods[g]).deleted = goods[g].deleted
        BY <2>2, ShelfRow
      <4> QED BY <4>1, <4>2
    <3> QED BY <1>7, <3>1, <3>2, <3>3
  <2>4. Live' \subseteq Live
    BY <2>2, <2>3 DEF Live
  <2> QED BY <2>1, <2>4, QuotaLess
<1> QED BY <1>1, <1>3, <1>5, <1>6, <1>7 DEF Next, Commit

LEMMA QuotaInit == Init => QuotaBound
<1> SUFFICES ASSUME Init PROVE QuotaBound
  OBVIOUS
<1>1. Live = {} /\ Creating = {}
  BY IdleType DEF Init, Live, Creating, NoGoods
<1>2. Cardinality(Live) = 0 /\ Cardinality(Creating) = 0
  BY <1>1, FS_EmptySet
<1> QED BY <1>2, Counts DEF QuotaBound, Creating

(* Creations that overlap pass the quota by one for each further worker,   *)
(* and never by more.                                                      *)
THEOREM QuotaBoundHolds == Spec => []QuotaBound
BY InitKeeps, NextKeeps, QuotaInit, QuotaNext, PTL DEF Spec

-----------------------------------------------------------------------------
(* The amount that the mode of a SKU charges.                              *)
Charged(row) == IF row.mode = "CASH" THEN row.price > 0 ELSE row.points > 0

(* What a call has checked of the amounts before its commit.               *)
ChargeFacts(call) ==
  /\ call.op = "create" =>
       \A k \in DOMAIN call.request.skus : Charged(Merged(call.request.skus[k], NoSku))
  /\ call.op = "update" =>
       /\ \A k \in DOMAIN call.edit.skus : Charged(Merged(call.edit.skus[k], call.skus[k]))
       /\ \A k \in DOMAIN call.edit.added : Charged(Merged(call.edit.added[k], NoSku))

ChargeInv == PricedRight /\ \A w \in Workers : ChargeFacts(tx[w])

(* validate_sku_payload looks at the amount that is charged, on every      *)
(* channel.                                                                *)
LEMMA PricedCharged ==
  ASSUME NEW change \in Change, NEW row \in SkuRow, NEW channel,
         Priced(Merged(change, row), channel)
  PROVE  Charged(Merged(change, row))
<1>1. Merged(change, row).mode = Given(change.mode, row.mode)
  BY DEF Merged, SkuRow
<1>2. Merged(change, row).mode \in Modes
  BY <1>1 DEF Given, Change, SkuRow
<1> QED BY <1>2 DEF Priced, Charged, Modes

LEMMA NoSkuType == NoSku \in SkuRow
BY DEF NoSku, SkuRow, Modes

(* What was checked of a body holds of the row that it makes, unless the   *)
(* body got past the check.                                                *)
LEMMA ChangedCharged ==
  ASSUME NEW change \in Change, NEW row \in SkuRow, Charged(Merged(change, row)),
         ~PastCheck(change, row)
  PROVE  Charged(Changed(change, row))
<1> DEFINE seen == Merged(change, row)
           new == Changed(change, row)
<1>1. /\ seen.mode = Given(change.mode, row.mode)
      /\ new.mode = Given(change.mode, Given(change.alias, row.mode))
  BY DEF Merged, Changed, SkuRow
<1>2. seen.mode = new.mode
  BY <1>1 DEF PastCheck, Given
<1>3. change.price # Null => new.price = seen.price
  BY DEF Merged, Changed, SkuRow
<1>4. change.points # Null => new.points = seen.points
  BY DEF Merged, Changed, SkuRow
<1>5. IF new.mode = "CASH" THEN change.price # Null ELSE change.points # Null
  BY DEF PastCheck
<1> HIDE DEF seen, new
<1>6. Charged(seen)
  BY DEF seen
<1>7. Charged(new)
  BY <1>2, <1>3, <1>4, <1>5, <1>6 DEF Charged
<1> QED BY <1>7 DEF new

(* A call begins: it has checked what it is going to write.                *)
LEMMA ChargeBegins ==
  ASSUME IndInv, ChargeInv, NEW w \in Workers, NEW g \in Goods, Begin(w, g)
  PROVE  ChargeInv'
<1>1. ASSUME NEW call, Start(w, call), ChargeFacts(call) PROVE ChargeInv'
  <2>1. tx' = [tx EXCEPT ![w] = call] /\ UNCHANGED <<goods, sku, raced, unseen>>
    BY <1>1 DEF Start
  <2>2. PricedRight'
    BY <2>1 DEF ChargeInv, PricedRight
  <2>3. \A v \in Workers : tx'[v] = IF v = w THEN call ELSE tx[v]
    BY <2>1, Typed
  <2>4. \A v \in Workers : ChargeFacts(tx'[v])
    BY <1>1, <2>3 DEF ChargeInv
  <2> QED BY <2>2, <2>4 DEF ChargeInv
<1>2. ASSUME NEW request \in Requests, CreateBegin(w, g, request) PROVE ChargeInv'
  <2> DEFINE load == Load("create", g)
             call == [load EXCEPT !.request = request]
  <2>1. load \in Transaction /\ load.op = "create"
    BY LoadFields DEF Ops
  <2>2. /\ Start(w, call)
        /\ \A k \in DOMAIN request.skus : Priced(Merged(request.skus[k], NoSku), request.channel)
    BY <1>2 DEF CreateBegin
  <2>3. \A k \in DOMAIN request.skus : request.skus[k] \in Change
    BY BodyAssumption DEF Request, Rows
  <2>4. \A k \in DOMAIN request.skus : Charged(Merged(request.skus[k], NoSku))
    BY <2>2, <2>3, NoSkuType, PricedCharged
  <2> HIDE DEF load
  <2>5. call.op = "create" /\ call.request = request
    BY <2>1 DEF Transaction
  <2> HIDE DEF call
  <2>6. ChargeFacts(call)
    BY <2>4, <2>5 DEF ChargeFacts
  <2> QED BY <1>1, <2>2, <2>6
<1>3. ASSUME NEW edit \in Edits, UpdateBegin(w, g, edit) PROVE ChargeInv'
  <2> DEFINE load == Load("update", g)
             call == [load EXCEPT !.edit = edit, !.skus = LoadSkus(g)]
             channel == Given(edit.channel, goods[g].channel)
  <2>1. load \in Transaction /\ load.op = "update"
    BY LoadFields DEF Ops
  <2>2. /\ Start(w, call)
        /\ \A k \in DOMAIN edit.skus :
             k \in SkusOf(g, sku) /\ Priced(Merged(edit.skus[k], sku[k]), channel)
        /\ \A k \in DOMAIN edit.added : Priced(Merged(edit.added[k], NoSku), channel)
    BY <1>3 DEF UpdateBegin
  <2>3. ASSUME NEW k \in DOMAIN edit.skus PROVE Charged(Merged(edit.skus[k], LoadSkus(g)[k]))
    <3>1. k \in Skus /\ GoodsOf[k] = g /\ edit.skus[k] \in Change
      BY <2>2, BodyAssumption DEF SkusOf, Edit, Rows
    <3>2. LoadSkus(g)[k] = sku[k] /\ sku[k] \in SkuRow
      BY <3>1, Typed DEF LoadSkus
    <3>3. Priced(Merged(edit.skus[k], sku[k]), channel)
      BY <2>2
    <3> QED BY <3>1, <3>2, <3>3, PricedCharged
  <2>4. \A k \in DOMAIN edit.added : Charged(Merged(edit.added[k], NoSku))
    <3>1. \A k \in DOMAIN edit.added : edit.added[k] \in Change
      BY BodyAssumption DEF Edit, Rows
    <3> QED BY <2>2, <3>1, NoSkuType, PricedCharged
  <2> HIDE DEF load
  <2>5. call.op = "update" /\ call.edit = edit /\ call.skus = LoadSkus(g)
    BY <2>1 DEF Transaction
  <2> HIDE DEF call
  <2>6. ChargeFacts(call)
    BY <2>3, <2>4, <2>5 DEF ChargeFacts
  <2> QED BY <1>1, <2>2, <2>6
<1>4. ASSUME NEW call, Start(w, call), call.op \in {"delete", "shelf"} PROVE ChargeInv'
  BY <1>1, <1>4 DEF ChargeFacts
<1>5. ASSUME DeleteBegin(w, g) PROVE ChargeInv'
  BY <1>4, <1>5, DeleteBegins
<1>6. ASSUME NEW channel \in Channels, NEW on \in BOOLEAN, ShelfBegin(w, g, channel, on)
      PROVE  ChargeInv'
  BY <1>4, <1>6, ShelfBegins
<1> QED BY <1>2, <1>3, <1>5, <1>6 DEF Begin

(* A call ends: it is enough to look at the SKUs that it writes.           *)
LEMMA ChargeEnds ==
  ASSUME IndInv, ChargeInv, NEW w \in Workers, tx' = [tx EXCEPT ![w] = Idle], PricedRight'
  PROVE  ChargeInv'
<1>1. \A v \in Workers : tx'[v] = IF v = w THEN Idle ELSE tx[v]
  BY Typed
<1>2. ChargeFacts(Idle)
  BY IdleType DEF ChargeFacts
<1> QED BY <1>1, <1>2 DEF ChargeInv

(* A new row keeps what was checked of its body.                           *)
LEMMA NewCharged ==
  ASSUME NEW skus, Rows(skus, Change), NEW first, NEW k \in DOMAIN skus,
         Charged(Merged(skus[k], NoSku)), ~PastCheck(skus[k], NoSku)
  PROVE  Charged(NewSkus(skus, first)[k])
<1> DEFINE row == Changed(skus[k], NoSku)
           new == NewSkus(skus, first)[k]
<1>1. skus[k] \in Change
  BY DEF Rows
<1>2. Charged(row) /\ row \in SkuRow
  BY <1>1, NoSkuType, ChangedCharged, ChangedType
<1>3. \E n : new = [row EXCEPT !.made = TRUE, !.seq = n]
  BY DEF NewSkus
<1> HIDE DEF row, new
<1>4. new.mode = row.mode /\ new.price = row.price /\ new.points = row.points
  BY <1>2, <1>3 DEF SkuRow
<1>5. Charged(new)
  BY <1>2, <1>4 DEF Charged
<1> QED BY <1>5 DEF new

LEMMA ChargeCreates ==
  ASSUME IndInv, ChargeInv, NEW w \in Workers, CreateCommit(w)
  PROVE  ChargeInv'
<1> DEFINE skus == tx[w].request.skus
           new == NewSkus(skus, 1)
<1>1. /\ tx[w].op = "create" /\ Finish(w)
      /\ sku' = [k \in Skus |-> IF k \in DOMAIN new THEN new[k] ELSE sku[k]]
      /\ unseen' = unseen \union {k \in DOMAIN new : PastCheck(skus[k], NoSku)}
  BY DEF CreateCommit
<1>2. \A k \in DOMAIN skus : Charged(Merged(skus[k], NoSku))
  BY <1>1 DEF ChargeInv, ChargeFacts
<1>3. tx' = [tx EXCEPT ![w] = Idle] /\ raced \subseteq raced'
  BY <1>1 DEF Finish
<1>4. tx[w].request \in Requests
  BY <1>1, Typed DEF CallFacts
<1>5. Rows(skus, Change)
  BY <1>4, BodyAssumption DEF Request
<1>6. DOMAIN new = DOMAIN skus
  BY DEF NewSkus
<1>7. \A k \in DOMAIN new : PastCheck(skus[k], NoSku) \/ Charged(new[k])
  BY <1>2, <1>5, <1>6, NewCharged
<1> HIDE DEF skus, new
<1>8. PricedRight'
  <2> SUFFICES ASSUME NEW k \in Skus, k \notin unseen', sku'[k].made, GoodsOf[k] \notin raced'
               PROVE  Charged(sku'[k])
    BY DEF PricedRight, Charged
  <2>1. CASE k \in DOMAIN new
    BY <1>1, <1>7, <2>1
  <2>2. CASE k \notin DOMAIN new
    BY <1>1, <1>3, <2>2 DEF ChargeInv, PricedRight, Charged
  <2> QED BY <2>1, <2>2
<1> QED BY <1>3, <1>8, ChargeEnds

LEMMA ChargeUpdates ==
  ASSUME IndInv, ChargeInv, NEW w \in Workers, UpdateCommit(w)
  PROVE  ChargeInv'
<1>1. PICK call \in Transaction : call = tx[w]
  BY Typed
<1> DEFINE g == call.goods
           added == call.edit.added
           new == NewSkus(added, FirstAdded(call))
           E == DOMAIN call.edit.skus
<1>2. /\ call.op = "update" /\ Finish(w)
      /\ sku' = [k \in Skus |-> IF k \in E THEN UpdatedSku(call, k, sku[k])
                                ELSE IF k \in DOMAIN new THEN new[k] ELSE sku[k]]
      /\ unseen' = (unseen \ E) \union {k \in E : PastCheck(call.edit.skus[k], call.skus[k])}
                     \union {k \in DOMAIN new : PastCheck(added[k], NoSku)}
  BY <1>1 DEF UpdateCommit
<1>3. /\ call.edit \in Edits /\ \A k \in E : GoodsOf[k] = g
  BY <1>1, <1>2, Typed DEF CallFacts
<1>4. /\ \A k \in E : Charged(Merged(call.edit.skus[k], call.skus[k]))
      /\ \A k \in DOMAIN added : Charged(Merged(added[k], NoSku))
  BY <1>1, <1>2 DEF ChargeInv, ChargeFacts
<1>5. /\ tx' = [tx EXCEPT ![w] = Idle] /\ raced \subseteq raced'
      /\ g \notin raced' => LoadSkus(g) = call.skus
  BY <1>1, <1>2 DEF Finish, Stale
<1>6. \A k \in DOMAIN new : PastCheck(added[k], NoSku) \/ Charged(new[k])
  <2>1. Rows(added, Change) /\ DOMAIN new = DOMAIN added
    BY <1>3, BodyAssumption DEF Edit, NewSkus
  <2> QED BY <1>4, <2>1, NewCharged
<1> HIDE DEF new, added
<1>7. ASSUME NEW k \in E \intersect Skus, g \notin raced',
             ~PastCheck(call.edit.skus[k], call.skus[k])
      PROVE  Charged(UpdatedSku(call, k, sku[k]))
  <2>1. call.skus[k] = sku[k] /\ sku[k] \in SkuRow
    BY <1>3, <1>5, <1>7, Typed DEF LoadSkus
  <2>2. call.edit.skus[k] \in Change
    BY <1>3, BodyAssumption DEF Edit, Rows
  <2>3. Charged(Changed(call.edit.skus[k], sku[k]))
    BY <1>4, <1>7, <2>1, <2>2, ChangedCharged
  <2> DEFINE made == Changed(call.edit.skus[k], sku[k])
             row == UpdatedSku(call, k, sku[k])
  <2>4. row.mode = made.mode /\ row.price = made.price /\ row.points = made.points
    BY <2>1 DEF UpdatedSku, Put, SkuRow
  <2> HIDE DEF made, row
  <2>5. Charged(row)
    BY <2>3, <2>4 DEF Charged, made
  <2> QED BY <2>5 DEF row
<1> HIDE DEF g, E
<1>8. PricedRight'
  <2> SUFFICES ASSUME NEW k \in Skus, k \notin unseen', sku'[k].made, GoodsOf[k] \notin raced'
               PROVE  Charged(sku'[k])
    BY DEF PricedRight, Charged
  <2>1. CASE k \in E
    BY <1>2, <1>3, <1>7, <2>1
  <2>2. CASE k \notin E /\ k \in DOMAIN new
    BY <1>2, <1>6, <2>2
  <2>3. CASE k \notin E /\ k \notin DOMAIN new
    BY <1>2, <1>5, <2>3 DEF ChargeInv, PricedRight, Charged
  <2> QED BY <2>1, <2>2, <2>3
<1> QED BY <1>5, <1>8, ChargeEnds

LEMMA ChargeNext == IndInv /\ ChargeInv /\ [Next]_vars => ChargeInv'
<1> SUFFICES ASSUME IndInv, ChargeInv, [Next]_vars PROVE ChargeInv'
  OBVIOUS
<1>1. CASE UNCHANGED vars
  BY <1>1 DEF vars, ChargeInv, PricedRight
<1>2. ASSUME NEW w \in Workers, Rollback(w) \/ DeleteCommit(w) \/ ShelfCommit(w)
      PROVE  ChargeInv'
  <2>1. tx' = [tx EXCEPT ![w] = Idle] /\ UNCHANGED <<sku, unseen>> /\ raced \subseteq raced'
    BY <1>2 DEF Rollback, DeleteCommit, ShelfCommit, Finish
  <2>2. PricedRight'
    BY <2>1 DEF ChargeInv, PricedRight
  <2> QED BY <2>1, <2>2, ChargeEnds
<1> QED BY <1>1, <1>2, ChargeBegins, ChargeCreates, ChargeUpdates DEF Next, Commit

(* The SKUs of goods that no two calls have changed at once cost something *)
(* in the mode they are sold in, after any series of bodies, unless the    *)
(* last one for the SKU got past the check.                                *)
THEOREM PricedRightHolds == Spec => []PricedRight
<1>1. Init => ChargeInv
  <2> SUFFICES ASSUME Init PROVE ChargeInv
    OBVIOUS
  <2>1. \A k \in Skus : ~sku[k].made
    BY DEF Init, NoSku
  <2>2. \A w \in Workers : ChargeFacts(tx[w])
    BY IdleType DEF Init, ChargeFacts
  <2> QED BY <2>1, <2>2 DEF ChargeInv, PricedRight
<1>2. ChargeInv => PricedRight
  BY DEF ChargeInv
<1> QED BY <1>1, <1>2, ChargeNext, InitKeeps, NextKeeps, PTL DEF Spec
==============================================================================
