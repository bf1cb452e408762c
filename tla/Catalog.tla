------------------------------- MODULE Catalog -------------------------------
(***************************************************************************)
(* services/goods.py and services/sku.py with their endpoints in           *)
(* api/mc/goods.py: staff create, edit, delete and shelve goods, one       *)
(* database transaction per call.  A transaction reads a snapshot, checks  *)
(* it, and writes at its commit the columns that it changed, whatever was  *)
(* committed to them meanwhile.  Stock rows are in module Warehouse.       *)
(***************************************************************************)
EXTENDS Integers, FiniteSets

CONSTANTS Goods,       \* ids of goods, given out in any order
          Skus,        \* ids of SKUs
          GoodsOf,     \* GoodsOf[k]: the goods that a SKU belongs to
          Workers,     \* transactions that may be open at the same time
          Limit,       \* goods_limit of the tenant, 0 for none
          Requests,    \* the bodies of POST /goods
          Edits,       \* the bodies of PUT /goods/{id}
          Absent, Null \* a key that a body lacks, and a JSON null

ASSUME CatalogAssumption ==
  /\ GoodsOf \in [Skus -> Goods]
  /\ Limit \in Nat
  /\ Skus \subseteq Int
  /\ IsFiniteSet(Goods) /\ IsFiniteSet(Skus) /\ IsFiniteSet(Workers) /\ Goods # {}
  /\ Absent # Null /\ Absent \notin Int /\ Null \notin Int

VARIABLES
  goods,   \* goods[g]: the row of gd_goods
  sku,     \* sku[k]: the row of gd_sku
  tx,      \* tx[w]: the call that a worker executes
  raced,   \* the goods that a call wrote after another call had changed them
  unseen   \* the SKUs whose last call priced them past its check

vars == <<goods, sku, tx, raced, unseen>>

Types    == {"PHYSICAL", "TICKET"}
Shelves  == {"NORMAL", "POINTS"}
Channels == Shelves \union {"BOTH"}
Statuses == {"DRAFT", "ON_SALE", "OFF_SALE"}
Modes    == {"CASH", "POINTS", "MIXED"}

(* `dated' is a complete ticketConfig.                                     *)
GoodsRow == [made: BOOLEAN, deleted: BOOLEAN, type: Types, dated: BOOLEAN,
             channel: Channels, normal: BOOLEAN, points: BOOLEAN, status: Statuses]

NoGoods == [made |-> FALSE, deleted |-> FALSE, type |-> "PHYSICAL", dated |-> FALSE,
            channel |-> "NORMAL", normal |-> FALSE, points |-> FALSE, status |-> "DRAFT"]

(* The code of a SKU is SKU, the goods id and the number `seq'.            *)
SkuRow == [made: BOOLEAN, seq: Nat, mode: Modes, price: Nat, points: Int]

NoSku == [made |-> FALSE, seq |-> 0, mode |-> "CASH", price |-> 0, points |-> 0]

(* The parts of a body: those of a SKU, whose mode may come as priceMode   *)
(* or as its alias price_mode, and the fields of the goods.  A null mode   *)
(* and a negative price are refused; negative points are not.              *)
Change == [mode: Modes \union {Absent}, alias: Modes \union {Absent},
           price: Nat \union {Absent, Null}, points: Int \union {Absent, Null}]

Rows(rows, Values) == DOMAIN rows \subseteq Skus /\ rows \in [DOMAIN rows -> Values]

Request(body) ==
  /\ body \in [type: Types, dated: BOOLEAN, channel: Channels, status: Statuses,
               skus: {body.skus}]
  /\ Rows(body.skus, Change)

Edit(body) ==
  /\ body \in [type: Types \union {Absent}, dated: BOOLEAN \union {Absent},
               channel: Channels \union {Absent}, skus: {body.skus}, added: {body.added}]
  /\ Rows(body.skus, Change) /\ Rows(body.added, Change)

ASSUME BodyAssumption ==
  /\ \A body \in Requests : Request(body)
  /\ \A body \in Edits : Edit(body)
  /\ Absent \notin Types \union Channels \union Modes

Ops == {"none", "create", "update", "delete", "shelf"}

(* The arguments of a call and the rows that it has loaded.                *)
Transaction == [op: Ops, goods: Goods, old: GoodsRow, skus: [Skus -> SkuRow],
                request: Requests \union {Null}, edit: Edits \union {Null},
                targets: SUBSET Shelves, on: BOOLEAN]

Idle == [op |-> "none", goods |-> CHOOSE g \in Goods : TRUE, old |-> NoGoods,
         skus |-> [k \in Skus |-> NoSku], request |-> Null, edit |-> Null,
         targets |-> {}, on |-> FALSE]

TypeOK ==
  /\ goods \in [Goods -> GoodsRow]
  /\ sku \in [Skus -> SkuRow]
  /\ tx \in [Workers -> Transaction]
  /\ raced \subseteq Goods
  /\ unseen \subseteq Skus

-----------------------------------------------------------------------------
(* A variant that writes a column even if the transaction left it alone.   *)
PutAlways(loaded, current, new) == new

(* The ORM writes a column only if its value differs from the loaded one.  *)
Put(loaded, current, new) == IF new = loaded THEN current ELSE new

Live == {g \in Goods : goods[g].made /\ ~goods[g].deleted}

SkusOf(g, rows) == {k \in Skus : GoodsOf[k] = g /\ rows[k].made}

(* _get_goods, at the snapshot.                                            *)
Load(op, g) == [Idle EXCEPT !.op = op, !.goods = g, !.old = goods[g]]

LoadSkus(g) == [k \in Skus |-> IF GoodsOf[k] = g THEN sku[k] ELSE NoSku]

Start(w, call) ==
  /\ tx[w].op = "none"
  /\ tx' = [tx EXCEPT ![w] = call]
  /\ UNCHANGED <<goods, sku, raced, unseen>>

(* The rows that the call writes are not those that it has loaded.         *)
Stale(call) ==
  \/ goods[call.goods] # call.old
  \/ call.op = "update" /\ LoadSkus(call.goods) # call.skus

Finish(w) ==
  /\ tx' = [tx EXCEPT ![w] = Idle]
  /\ raced' = IF Stale(tx[w]) THEN raced \union {tx[w].goods} ELSE raced

(* A variant that looks at the mode alone.                                 *)
PricedAnyhow(row, channel) == row.mode = "POINTS" => row.points > 0

(* validate_sku_payload.                                                   *)
Priced(row, channel) ==
  /\ row.mode = "CASH" => row.price > 0
  /\ row.mode \in {"POINTS", "MIXED"} => row.points > 0
  /\ channel = "POINTS" => row.mode # "CASH"

Given(value, old) == IF value = Absent THEN old ELSE value

(* The row that validate_sku_payload sees, for an edit or, with NoSku, for *)
(* a new SKU: the alias and a null are passed over.                        *)
Merged(change, row) ==
  LET seen(value, old) == IF value = Null THEN old ELSE Given(value, old) IN
  [row EXCEPT !.mode = Given(change.mode, @), !.price = seen(change.price, @),
              !.points = seen(change.points, @)]

(* The row that _apply_sku_fields makes: the alias counts, a null is 0.    *)
Changed(change, row) ==
  LET set(value, old) == IF value = Null THEN 0 ELSE Given(value, old) IN
  [row EXCEPT !.mode = Given(change.mode, Given(change.alias, @)),
              !.price = set(change.price, @), !.points = set(change.points, @)]

(* What gets past the check: a mode changed by its alias, and a null for   *)
(* the amount that the mode charges.                                       *)
PastCheck(change, row) ==
  \/ change.mode = Absent /\ change.alias \notin {Absent, row.mode}
  \/ Null = IF Changed(change, row).mode = "CASH" THEN change.price ELSE change.points

(* create_skus: new rows, numbered in the order of their ids.              *)
NewSkus(skus, first) ==
  [k \in DOMAIN skus |->
     [Changed(skus[k], NoSku) EXCEPT
        !.made = TRUE, !.seq = first + Cardinality({j \in DOMAIN skus : j < k})]]

(* The ids that a call takes for its new rows.                             *)
Inserted(call) ==
  IF call.op = "create" THEN DOMAIN call.request.skus
  ELSE IF call.op = "update" THEN DOMAIN call.edit.added ELSE {}

Fresh(k, g) ==
  GoodsOf[k] = g /\ ~sku[k].made /\ \A w \in Workers : k \notin Inserted(tx[w])

-----------------------------------------------------------------------------
(* create_goods, for POST /goods and for each row of a CSV import, which   *)
(* commits row by row.                                                     *)

(* A variant that lets the limit itself be passed.                         *)
UnderQuotaLax == Limit = 0 \/ Cardinality(Live) <= Limit

(* _check_quota.                                                           *)
UnderQuota == Limit = 0 \/ Cardinality(Live) < Limit

CreateBegin(w, g, request) ==
  /\ UnderQuota
  /\ ~goods[g].made /\ \A v \in Workers : ~(tx[v].op = "create" /\ tx[v].goods = g)
  /\ \A k \in DOMAIN request.skus :
       Fresh(k, g) /\ Priced(Merged(request.skus[k], NoSku), request.channel)
  /\ Start(w, [Load("create", g) EXCEPT !.request = request])

CreateCommit(w) ==
  LET request == tx[w].request
      new == NewSkus(request.skus, 1) IN
  /\ tx[w].op = "create"
  /\ goods' = [goods EXCEPT ![tx[w].goods] =
       [NoGoods EXCEPT !.made = TRUE, !.type = request.type, !.dated = request.dated,
                       !.channel = request.channel, !.status = request.status]]
  /\ sku' = [k \in Skus |-> IF k \in DOMAIN new THEN new[k] ELSE sku[k]]
  /\ unseen' = unseen \union {k \in DOMAIN new : PastCheck(request.skus[k], NoSku)}
  /\ Finish(w)

-----------------------------------------------------------------------------
(* update_goods.                                                           *)

UpdateBegin(w, g, edit) ==
  LET channel == Given(edit.channel, goods[g].channel) IN
  /\ g \in Live
  /\ \A k \in DOMAIN edit.skus :
       k \in SkusOf(g, sku) /\ Priced(Merged(edit.skus[k], sku[k]), channel)
  /\ \A k \in DOMAIN edit.added : Fresh(k, g) /\ Priced(Merged(edit.added[k], NoSku), channel)
  /\ Start(w, [Load("update", g) EXCEPT !.edit = edit, !.skus = LoadSkus(g)])

UpdatedGoods(call, current) ==
  LET set(value, loaded, cur) == Put(loaded, cur, Given(value, loaded)) IN
  [current EXCEPT !.type = set(call.edit.type, call.old.type, @),
                  !.dated = set(call.edit.dated, call.old.dated, @),
                  !.channel = set(call.edit.channel, call.old.channel, @)]

UpdatedSku(call, k, current) ==
  LET loaded == call.skus[k]
      new    == Changed(call.edit.skus[k], loaded) IN
  [current EXCEPT !.mode = Put(loaded.mode, @, new.mode),
                  !.price = Put(loaded.price, @, new.price),
                  !.points = Put(loaded.points, @, new.points)]

(* A variant that numbers from 1 again.                                    *)
FirstAddedAgain(call) == 1

(* A new SKU is numbered after those that the call has counted.            *)
FirstAdded(call) == Cardinality(SkusOf(call.goods, call.skus)) + 1

UpdateCommit(w) ==
  LET call == tx[w]
      new  == NewSkus(call.edit.added, FirstAdded(call)) IN
  /\ call.op = "update"
  /\ goods' = [goods EXCEPT ![call.goods] = UpdatedGoods(call, @)]
  /\ sku' = [k \in Skus |->
       IF k \in DOMAIN call.edit.skus THEN UpdatedSku(call, k, sku[k])
       ELSE IF k \in DOMAIN new THEN new[k] ELSE sku[k]]
  /\ unseen' = (unseen \ DOMAIN call.edit.skus)
       \union {k \in DOMAIN call.edit.skus : PastCheck(call.edit.skus[k], call.skus[k])}
       \union {k \in DOMAIN new : PastCheck(call.edit.added[k], NoSku)}
  /\ Finish(w)

-----------------------------------------------------------------------------
(* delete_goods.                                                           *)

DeleteBegin(w, g) == g \in Live /\ Start(w, Load("delete", g))

DeletedRow(loaded, current) ==
  [current EXCEPT !.deleted = TRUE,
                  !.normal = Put(loaded.normal, @, FALSE),
                  !.points = Put(loaded.points, @, FALSE),
                  !.status = Put(loaded.status, @, "OFF_SALE")]

DeleteCommit(w) ==
  /\ tx[w].op = "delete"
  /\ goods' = [goods EXCEPT ![tx[w].goods] = DeletedRow(tx[w].old, @)]
  /\ UNCHANGED <<sku, unseen>>
  /\ Finish(w)

-----------------------------------------------------------------------------
(* shelf_goods, for POST /goods/{id}/shelf and for each id of a            *)
(* batch-status call, which commits and fails one by one.                  *)

Targets(channel) == IF channel = "BOTH" THEN Shelves ELSE {channel}

(* _shelf_missing finds nothing.                                           *)
Complete(g, channel) ==
  LET rows == {sku[k] : k \in SkusOf(g, sku)} IN
  /\ rows # {}
  /\ channel = "NORMAL" => \E row \in rows : row.price > 0
  /\ channel = "POINTS" => \E row \in rows : row.mode \in {"POINTS", "MIXED"} /\ row.points > 0
  /\ goods[g].type = "TICKET" => goods[g].dated

ShelfBegin(w, g, channel, on) ==
  /\ g \in Live
  /\ on => \A target \in Targets(channel) : Complete(g, target)
  /\ Start(w, [Load("shelf", g) EXCEPT !.targets = Targets(channel), !.on = on])

(* A variant in which the status is that of the channel of the call.       *)
StatusOfCall(old, targets, on) == IF on THEN "ON_SALE" ELSE "OFF_SALE"

(* The status that follows from the loaded flags and the new ones.         *)
StatusAfter(old, targets, on) ==
  LET flag(channel, loaded) == IF channel \in targets THEN on ELSE loaded IN
  IF flag("NORMAL", old.normal) \/ flag("POINTS", old.points) THEN "ON_SALE"
  ELSE IF old.status = "ON_SALE" THEN "OFF_SALE" ELSE old.status

Shelved(call, current) ==
  LET flag(channel, loaded) == IF channel \in call.targets THEN call.on ELSE loaded IN
  [current EXCEPT
     !.normal = Put(call.old.normal, @, flag("NORMAL", call.old.normal)),
     !.points = Put(call.old.points, @, flag("POINTS", call.old.points)),
     !.status = Put(call.old.status, @, StatusAfter(call.old, call.targets, call.on))]

ShelfCommit(w) ==
  /\ tx[w].op = "shelf"
  /\ goods' = [goods EXCEPT ![tx[w].goods] = Shelved(tx[w], @)]
  /\ UNCHANGED <<sku, unseen>>
  /\ Finish(w)

-----------------------------------------------------------------------------
(* A call raises, or its connection is lost: nothing was written.          *)
Rollback(w) ==
  /\ tx[w].op # "none"
  /\ tx' = [tx EXCEPT ![w] = Idle]
  /\ UNCHANGED <<goods, sku, raced, unseen>>

Init ==
  /\ goods = [g \in Goods |-> NoGoods]
  /\ sku = [k \in Skus |-> NoSku]
  /\ tx = [w \in Workers |-> Idle]
  /\ raced = {}
  /\ unseen = {}

Begin(w, g) ==
  \/ \E request \in Requests : CreateBegin(w, g, request)
  \/ \E edit \in Edits : UpdateBegin(w, g, edit)
  \/ DeleteBegin(w, g)
  \/ \E channel \in Channels, on \in BOOLEAN : ShelfBegin(w, g, channel, on)

Commit(w) == CreateCommit(w) \/ UpdateCommit(w) \/ DeleteCommit(w) \/ ShelfCommit(w)

Next == \E w \in Workers : (\E g \in Goods : Begin(w, g)) \/ Commit(w) \/ Rollback(w)

Spec == Init /\ [][Next]_vars

-----------------------------------------------------------------------------
(* What the customer calls show, and accept in an order.                   *)

(* shop_goods_list and customer_search.                                    *)
ListedNormal(g) == g \in Live /\ goods[g].status = "ON_SALE" /\ goods[g].normal

(* _points_goods_rows.                                                     *)
ListedPoints(g) == g \in Live /\ goods[g].status = "ON_SALE" /\ goods[g].points

-----------------------------------------------------------------------------
(* Properties.                                                             *)

(* The goods are counted and inserted without a lock, so creations that    *)
(* overlap pass the quota, but only by one for each further worker.        *)
QuotaBound ==
  LET creating == {w \in Workers : tx[w].op = "create"} IN
  Limit # 0 =>
    Cardinality(Live) + Cardinality(creating) <= Limit - 1 + Cardinality(Workers)

(* Shelving on one channel never undoes what is committed meanwhile on the *)
(* other one, by staff who work on the same goods.                         *)
KeepsOther ==
  \A w \in Workers : tx[w].op = "shelf" /\ tx'[w].op = "none" =>
    \A g \in Goods :
      /\ "NORMAL" \notin tx[w].targets => goods'[g].normal = goods[g].normal
      /\ "POINTS" \notin tx[w].targets => goods'[g].points = goods[g].points

ChannelsApart == [][KeepsOther]_vars

(* As long as no two calls on the goods have overlapped, what is for sale  *)
(* on a channel is ON_SALE and not deleted, so the shops do list it.       *)
SaleAgrees ==
  \A g \in Goods \ raced :
    /\ goods[g].normal => ListedNormal(g)
    /\ goods[g].points => ListedPoints(g)

(* A series of partial edits leaves each SKU with an amount for its mode   *)
(* to charge, as long as no two calls on the goods have overlapped, unless *)
(* the last edit of the SKU named its mode by the alias or sent null for   *)
(* the amount: those the check does not see.  A checked edit mends it.     *)
PricedRight ==
  \A k \in Skus \ unseen : sku[k].made /\ GoodsOf[k] \notin raced =>
    IF sku[k].mode = "CASH" THEN sku[k].price > 0 ELSE sku[k].points > 0

(* As long as no two calls on the goods have overlapped, the codes made    *)
(* for its SKUs differ; the unique key of the table does not help, because *)
(* its deleted_at is NULL.                                                 *)
CodesDistinct ==
  \A j, k \in Skus :
    j # k /\ sku[j].made /\ sku[k].made /\ GoodsOf[j] = GoodsOf[k] /\ GoodsOf[k] \notin raced
      => sku[j].seq # sku[k].seq
=============================================================================
