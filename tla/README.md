# Verification of the mall back end

TLA+ models of the order, stock and points code of this repository (a
multi-tenant mall back end: FastAPI, SQLAlchemy, MySQL, Redis, Celery), the TLC
configurations that check them on small instances, and proofs, checked by
TLAPS, that the main safety properties hold for every number of orders,
members and workers.

Paths below are relative to `src/`.

## 1. The system

### Components

| component | state | operations | models |
|---|---|---|---|
| stock service, `app/services/inventory.py` | `gd_sku_stock` (total, locked, sold, available per SKU and channel), `gd_stock_log` | `lock_stock`, `confirm_lock`, `release_lock`, `refund_return`, `adjust_stock`, `ensure_stock_row` | `Inventory`, `Warehouse`, `Reservation` |
| order lifecycle, `app/api/mall.py`, `app/api/c_points.py`, `app/api/mc_p1.py` | `od_order`, `od_order_item`, `od_payment`, `od_refund`, `od_verify_code` | place, pay, cancel, close, stock, pick up, ship, receive, refund, audit, verify | `Trade` |
| order timeout, `app/tasks/order_timeout.py` | none of its own | Celery beat every 60 s, and a cron script | `Trade` |
| member points, `app/api/mall.py` | `mb_member` (balance, totals, debt), `mb_points_log`, `mb_points_import` | deducted and granted by orders, taken back by refunds; manual adjustment, CSV import | `Trade` (orders), `Points` |
| goods and shelf, `app/services/goods.py`, `sku.py`, `app/api/mc/goods.py` | `gd_goods`, `gd_sku` | create, import, edit, delete, shelf per channel, quota | `Catalog` |
| cart and addresses, `app/api/mall.py` | `od_cart`, `od_address` | add, set, remove; create, edit, delete, default address | `Customer` |
| sessions, `app/core/security.py`, `redis.py`, `app/api/mc_auth.py`, `app/services/platform_auth.py`, `app/middleware/tenant_guard.py` | JWTs, token version and blacklist in Redis, password and status in MySQL | login, refresh, logout, password change, the check of each request | `Access` |
| numbers, `app/core/id_generator.py` | Redis counters, `pf_sequence` | next number, fallback | `Tenancy` |
| tenants, `app/services/tenant.py`, `app/api/pf/merchant.py` | `pf_tenant`, sign-on tickets in Redis, `mb_member` as far as the quota goes | open, first login of a customer, impersonate, sign on, enable, disable, renew | `Tenancy`, `Access` |
| UTC migration, `scripts/utc_migrate.py` | the DATETIME columns, `schema_migrate_flags`, backup files | scan, apply | `UtcMigration` |
| tenant filters of the ORM, staff, roles, templates, audit log, uploads, exports, schema migrations, seeds | rows edited one at a time | CRUD | not modelled, see section 7 |

### How they interact

Handlers are synchronous functions. FastAPI runs each request in a thread of a
pool, with a database session of its own; the timeout task runs in a Celery
process. They meet only in the database. A handler reads its rows, checks them,
moves stock through the stock service (which never commits), changes ORM objects
and commits once.

What decides the outcome of a race:

- MySQL answers the SELECTs of a transaction from the snapshot taken at the
  first one (REPEATABLE READ); an UPDATE sees the last committed row.
- The session (`app/db/session.py:25`) has `autoflush=False`: attribute writes
  reach the database at the commit, as `UPDATE ... SET col = value WHERE id =`,
  only for attributes whose value changed. There is no version column and no
  `SELECT ... FOR UPDATE`.
- `expire_on_commit=False`: an object loaded before a commit keeps its values
  after it.
- The stock service moves counters with guarded UPDATEs; whether a move was
  already applied is looked up in the log, in the snapshot.
- Unique keys: one payment row per order number, one stock row per SKU and
  channel, one cart row per SKU, one member per number, one import per key. None
  on the idempotency keys of orders and adjustments, on tenant numbers, on
  `pf_sequence.seq_key`; and keys that contain a `deleted_at` that is NULL
  (`gd_sku.uk_tenant_skucode`, `mb_member.uk_openid`) never refuse a row.
- Redis is shared by all processes. A call that cannot reach it is caught and
  skipped: no blacklist, no version check, numbers from MySQL.

### What is hard, and what makes each part correct

| hazard | properties |
|---|---|
| two handlers of one order overlap (pay, cancel, close, timeout) | `ChargedOnce`, `StockLedger`, `StockOwned`, `PaidNeverClosed` |
| the timeout task's batch works with stale objects | `StockIdentity`, `PaidNeverClosed` |
| the last units of a SKU | `StockIdentity`, `ImplementsReservation` |
| points written from a loaded balance; grant at payment and again at receipt; take-back larger than the balance | `PointsAccounted`, `EarnedOnce`, `LastRowTrue` |
| refunds requested or audited twice, or against fulfilment | `RefundedOnce`, `TerminalStays`, `FulfilledPaid` |
| a code used while its order is refunded | `CodesSettled`, `CodesStay` |
| orders that hold stock for ever; one failing order in a batch | `OverdueSettled` |
| staff set a row's total while orders move its units | `IdentityKept`, `LogKept`, `StockOwned` (module `Warehouse`) |
| an adjustment sent again, a file imported again, lost answers, lost processes | `AppliedOnce`, `BatchTrue`, `BatchEnds`, `LogExplains` |
| a quota counted without a lock | `QuotaBound`, `MembersBounded` |
| the status of goods derived from flags that two staff set | `SaleAgrees`, `ChannelsApart` |
| a series of partial edits of price, points and mode; numbering of added SKUs | `PricedRight`, `CodesDistinct` |
| password changes, renewals and logins in any order, with Redis down | `RevocationHolds`, `SessionBounded`, `LogoutHolds` |
| an account or a tenant that is closed while requests are on their way | `BarredRefused` |
| two counters for one kind of number; a one-time ticket read and deleted in two calls | `NumbersApart`, `Recovers`, `OutageServed`, `TicketOnce` |
| two devices of one member | `OneDefault`, `CartCounted` |
| a migration stopped, repeated or overlapped while the application writes | `BackupExplains`, `ShiftedOnce`, `MigratedUtc`, `MarkGrows` |

`PROJECT.json` has the list with the line each one bites at.

## 2. The modules

| module | what it is |
|---|---|
| `Inventory` | one stock row and the four guarded moves on it, each with its `done` branch |
| `Trade` | all order handlers and the timeout task over stock, orders, members and open transactions |
| `Reservation` | what the three-phase lock promises: units free, held, sold, released or returned |
| `TradeProperties` | properties of `Trade`, the inductive invariant, the isolation assumption, the refinement mapping to `Reservation`, fairness |
| `Warehouse` | the moves of `Inventory` against `adjust_stock` |
| `Points` | manual adjustments, the CSV import and order handlers over the points of a member |
| `Catalog` | goods and SKUs: creation, edits, deletion, shelves |
| `Access` | tokens of platform and merchant staff, TenantGuard, password and status changes, Redis |
| `Tenancy` | first logins, tenants, number generation, sign-on tickets |
| `Customer` | one member's cart and address book |
| `UtcMigration` | the migration tool against the application |
| `MC...` | small instances of each |
| `...Proofs` | theorems about the module they are named for |

In every module a handler that reads and later writes is two steps or more: the
reads and checks at its snapshot, then everything from the first write to the
commit. An early return changes nothing and is no step. Nothing the code does not
enforce keeps two handlers apart.

### Trade

**State.** `stock[s]` is the row of `gd_sku_stock`. `orders[o]` gathers the rows
of all tables that belong to one order: status, amounts, rows of the stock log by
kind, payment rows, points granted and spent, refund rows, codes by status.
`members[m]` is the row of `mb_member` plus the sum of the member's points log.
`overdue` holds the orders whose `pay_deadline` has passed. `tx[w]` is what worker
`w` has in hand: the handler, its order, the rows as it read them, the rest of its
batch.

**Actions.** A handler is two steps. `...Begin` reads the snapshot and makes the
handler's checks; an early return changes nothing and is no step. `...Commit` is
everything from the first write on, in one step: the guarded moves act on the
committed row (the row stays locked until the commit), the ORM writes put values
computed from the snapshot over whatever the row now holds, and `Put` leaves alone
an attribute whose value the handler did not change. A commit whose guarded
UPDATE matches no row, or that meets a unique key, cannot happen; the handler then
takes `Fail`, which rolls all of it back. `Crash` loses a connection at any time.
`TimeoutScan`, `TimeoutCommit` and `TimeoutNext` are the task: one scan, then one
transaction per order, the later ones with a fresh log and a stale order object.
A `Fail` there abandons the batch, as the exception leaves the loop.

**Abstractions.**

- An order has exactly one item, as every handler that places orders makes it.
- An element of `Orders` is one request to place an order; `Request` fixes what it
  asks for. Attributes that never change stay there. A request runs once at a
  time. A request without an Idempotency-Key is one with a key of its own.
- Money is counted in the value of one point, 1/`ReduceRatio` yuan. `Deducts` is
  the set of deductions customers ask for.
- Codes are numbered per order; order numbers are unique. Validity dates, shop
  scopes, goods on sale, wording, addresses and before/after values in logs are
  left out.
- Statuses `PENDING_PAYMENT`, `PENDING_STOCK`, `STOCKED`, `PENDING_RECEIVE` are
  tested for but never written by the code, so no state has them.
- Stock rows are never deleted, so the branches for a missing row are not
  reachable from an order.
- Bound: `MaxRefunds`, the refund rows of one order.

### Warehouse

`adjust_stock` has two steps as well: `AdjustBegin` reads the rows of its items
and checks them, `AdjustCommit` writes `total` and `available` as computed, never
`locked` and `sold`, creates missing rows and is refused by `uk_sku_channel` and
`ck_stock_nonneg`. The order moves are one guarded UPDATE each. An element of
`Calls` is one call: their number bounds the adjustments of a behaviour. Two items
for the same row in one call are left out. Without `locked` and `sold` in the
UPDATE no move is lost; with `total` and `available` in it, an overlap does break
the identity, so `IdentityKept` and `LogKept` speak of the steps that write over
the row they read, and `WrittenStale` names the others.

### Points

`member[m]` is the points part of `mb_member`, `log` the points log in commit
order, `batch[b]` the row of one import, `job[w]` the loop of `points_import`
(local variables of the handler), `tx[w]` the adjustment or order handler a
worker has open. `Outcome` is the sequence of checks of `adjust_points`: balance,
look-up of the key, comparison with the row found, so an adjustment that is sent
again may be refused for its balance before its key is looked up. `Write` is the
commit with blind column values. `CommitUnheard` is a commit whose answer is lost:
the import counts the row as failed although it is applied. `Crash` loses the
process of an import between any two steps. `OrderBegin` stands for the handlers of
orders, which move points with no key: a payment spends and grants (`OrderPaid`), a
receipt grants, a refund takes back (`OrderRefunded`). A `Move` keeps the three
apart, since a take-back lowers the balance and changes neither total
(`mall.py:1402`), and `Net` is what it does to the balance. A move of nothing is
logged too (an adjustment by 0, a refund with nothing to take back): its row repeats
the balance that was loaded, which the commit then does not write. A payment that
spends and grants logs two rows at once and is one entry here. `raced` and `doubled`
record overlaps that the code does not prevent; properties that an overlap really
breaks exempt exactly those members and keys. Bound: `MaxLog`.

### Catalog

One transaction per call, with the rows it read. `Put` is the ORM's column-wise
write: a column is written only if the handler changed it. `Complete` is the
shelf's completeness check per channel, `Priced` the check of price and mode.
`Merged` is the row that the check sees, `Changed` the row that is written, and they
differ: the check passes over a JSON null, which the assignment makes 0, and over
the alias `price_mode`, which the assignment takes for the mode. `PastCheck` says
when that matters, and `unseen` records the SKUs whose last edit got past the check
in this way. `raced` records the goods that a call wrote after another one had
changed them. A batch-status call and a CSV import commit one
goods at a time and are series of single calls. SKU numbers are counted, not
formatted. Stock rows of new SKUs are in `Warehouse`.

### Access

`GuardRedis` and `GuardRows` are the two parts of TenantGuard: the token against
Redis, then tenant and account against MySQL; `GuardBlind` is the `except: pass`
around the second part. `RefreshBegin`, `RefreshRow` and `Issue` are a renewal.
`Refused` says what the rows hold against a request: at the door a closed tenant or
a disabled account, at a renewal a disabled account alone. `barred` is a request
that was `Refused` at each of its steps.
Password changes have two orders in the code: the merchant's own and `reset_pwd`
commit first (`WriteFirst`, `RaiseLast`), the platform's own raises the version
first (`RaiseFirst`, `WriteLast`); `EditPassword` is a staff edit that carries a
password, which raises nothing. `up` says whether Redis answers; any call to it is
skipped while it does not. Time counts in lives of an access token. History
variables: `password`, `root` and `clean` of a token, `barred` of a request,
`covered`. Bounds: `Names`, `MaxTime`, `MaxPasswords`.

### Tenancy

`LoginBegin`/`OpenBegin` check quota and look-up on a snapshot, `DrawRedis` or
`DrawMysql` draws the number, `Store` flushes and commits, and is rolled back by
`uk_member_no`. `sequence[k]` is the number of rows of `pf_sequence` for a key: as
`seq_key` has no unique key, `ON DUPLICATE KEY UPDATE` never applies, each
fallback inserts a row with 1, and `.one()` fails for a key that has a committed
row. `Ticket` actions are the sign-on: `SsoRead`, `SsoDelete` (its failure is
swallowed), `SsoIssue`. Bounds: `Tickets`, `Companies`, `MaxLost`.

### Customer

The cart row of one SKU and the addresses of one member. The clearing of the old
default is a bulk UPDATE on the rows as they are (`Cleared`); marks and quantities
set through objects are written by id where they differ from the snapshot. An
INSERT that meets `uk_member_sku`, and an UPDATE of a row that is gone, fail.
`wanted` is what the requests served ask the quantity to be, `settled` whether a
request since the last set or removal worked from an old row.

### UtcMigration

A run is `Look` (whether the table of watermarks is there), `MakePlan` (watermarks
and candidates, one snapshot), `Save` (the operator's YES, the backup file), `Apply`
(guarded updates and watermarks, one transaction); `Stop` is a dry run, a NO, an
error or a loss. A run that has missed the table plans from id 0, even if another
run has made it since; two runs overlap from their `Look` on. The application inserts and updates rows,
in UTC, at any time. `mixed` and `overlap` record what the tool cannot detect: a
plan that names values that are UTC already, and runs that overlap. `scan` only
reports and is not modelled.

## 3. The runs

`tlc -workers 2 -config X.cfg M`. All passing runs switch off the deadlock check:
when every request has been handled, or a bound is reached, the system really
stops.

| run | specification | instance | shows |
|---|---|---|---|
| `trade_locks` | `Spec` | 3 orders of 1, 1 and 2 units on a row of 3, 2 members, 2 workers; place, pay, cancel, close, timeout, lost connections | `StockIdentity`, `StockLedger`, `ChargedOnce` |
| `trade_fulfil` | `Spec` | 1 order of 2 tickets to collect, 2 workers, every handler except close and timeout, lost connections | `FulfilledPaid`, `EarnedOnce`, `CodesSettled` |
| `trade_isolated` | `FairSpec` | 2 orders of one member, 2 pieces to send and 1 ticket, 2 workers; place, pay, close, timeout, ship, receive, refund, audit, verify | `StockOwned`, `PointsAccounted`, `RefundedOnce`, `TerminalStays`, `CodesStay`, `ImplementsReservation`, `OverdueSettled` |
| `warehouse` | `Spec` | 2 rows, one not made yet, 2 orders, 2 calls, values 1 to 3 | `StockOwned`, `IdentityKept`, `LogKept` |
| `points` | `FairSpec` | 1 member with 1 point, 2 workers, amounts 1, 0 and -2, orders that move 0 or 1, 2 keys also used by hand, 2 files of 2 rows that share one, one row without key | `AppliedOnce`, `LogExplains`, `LastRowTrue`, `BatchTrue`, `BatchEnds` |
| `catalog` | `Spec` | 3 goods under a quota of 1, 2 SKUs, 2 workers; edits: add a SKU; mode MIXED; mode CASH and a second SKU; mode CASH by its alias with a null price | `QuotaBound`, `SaleAgrees`, `PricedRight`, `CodesDistinct`, `ChannelsApart` |
| `access` | `Spec` | one account, of either scope, 2 workers, 1 name of a token, 2 lives | `RevocationHolds`, `BarredRefused`, `LogoutHolds`, `SessionBounded` |
| `tenancy` | `FairSpec` | 2 customers, 1 company, limit 2, 1 ticket, 2 workers | `MembersBounded`, `NumbersApart`, `TicketOnce`, `Recovers` |
| `customer` | `Spec` | 3 addresses, quantities to 3, 2 workers | `CartCounted`, `OneDefault` |
| `utc` | `Spec` | 1 column, 1 row and room for another, 3 runs | `BackupExplains`, `ShiftedOnce`, `MigratedUtc`, `MarkGrows` |

**Bounds.** A race here needs two transactions on one row, so two workers show
every pairwise overlap. In the trade runs a third order on the SKU is what lets a
double release go through, since the guard only asks for enough locked units, and
it cannot take more than the row holds (1 + 1 + 2 > 3), so the last units are
fought over. A member starts with one point and is granted two for the ticket, so a
deduction, a grant and a take-back larger than the balance all occur. The catalog
needs three goods for a quota of one to be passed by an overlap and then met again,
and two SKUs for two codes. One token at a time is enough for `Access`: each property is
about one token and the requests that overlap with it; a life of two ticks lets a
token outlive a blacklist entry that is too short. A second run of the migration
meets the watermark of the first, a third meets it after both. Workers, calls and
runs are interchangeable and taken as symmetry sets, except under fairness.

**Isolation.** `Alone(o)` says that no two open handlers deal with order `o`,
`Queued(m)` that no two are going to write the points of member `m`; `Isolated` says
both of all orders and members. Nothing in the code enforces it. It describes
requests that arrive one after the other per order and member, which is what the
repository's tests exercise; different orders still interleave freely on the stock
row, and requests with one key may overlap. `trade_isolated` checks the second group
of `TradeProperties` under `Isolated`; the proofs say more precisely which orders
and members must be left alone for what (section 5), and section 4 shows what
happens without. The other modules do not restrict behaviours: a property that an
overlap breaks exempts the rows on which one happened.

**Fairness.** `Trade`: Celery beat starts the task every minute, so a scan that is
possible for ever is made, and a handler that runs comes to its end (weak
fairness). Customers and staff are not fair: nobody has to pay or to ship.
`Points`: a process that is not lost goes on with the import or the transaction it
has begun (weak fairness of its steps; nobody has to begin one). `Tenancy`: a
request that has begun goes on (weak), and a customer who tries to log in again
and again is served by some worker (strong fairness: the workers may be busy in
between, but not with him for ever); Redis need not come back.

## 4. Where the code departs from what the repository says

| run | statement | what the code does |
|---|---|---|
| `find_paid_closed` | `mc_p1.py:96`: only PENDING_PAY orders are closed | the status is checked on a snapshot and CLOSED written blindly: an order paid in between ends CLOSED with a payment |
| `find_outage` | `id_generator.py:3`: while Redis is down numbers come from `pf_sequence` | `seq_key` is not unique, so the upsert always inserts, and the read-back fails from the second committed row on: one number per key, then every request that needs one fails |

Seen while modelling, and kept out of the properties by the exemptions named
above:

- `order_timeout.py:37`: `s.get` returns the object the scan loaded
  (`expire_on_commit=False`), so the re-check before closing never sees a payment
  made since. `test_order_timeout.py` runs with a session factory that does not set
  that option.
- `inventory.py:258`: two overlapping closings of one order both find no
  log row; the guard lets both pass while another order holds units.
- `mall.py:737`, `mall.py:1519`: look-up of an idempotency key and INSERT are
  not atomic and the indexes are not unique. `KeyPlacesOne` proves that overlapping
  requests are the only way to place two orders with one key.
- `mall.py:1518`: the balance is checked before the key, so a repeated deduction
  may be refused instead of answered.
- `c_points.py:184`: the points of a pure points order are checked and never
  deducted.
- `inventory.py:354`: an adjustment that overlaps a move breaks
  available = total - locked - sold.
- `sku.py:149`: a JSON null for price or points is passed over by the check and
  stored as 0, so an edit may leave a SKU that costs nothing in its own mode.
- `sku.py:44`: the check reads `priceMode`, the assignment at `:75` takes
  `price_mode` too, so an edit with the alias changes the mode unchecked (to POINTS
  without points, or to CASH without a price). `PricedRight` exempts SKUs
  whose last edit was one of these two kinds (`unseen`).
- `mall.py:1121`: a verification that read its code before a refund was approved
  writes USED over the REFUNDED that the approval has set (`mall.py:1406`), and the
  customer has both the money and the service. `CodesSettled` says that only a
  verification already open can; `CodesStay` and `OrderSettled` that none can if
  handlers of the order do not overlap.
- `mc_auth.py:76`, `mc_auth.py:138`: login and renewal look at the account and not at
  the tenant, so the staff of a closed tenant still get tokens, where
  `tenant_guard.py:143` says they may log in again once the tenant is enabled. The
  tokens are of no use until then: TenantGuard refuses them (`BarredRefused`).
- `docs/utc-migration.md:12` says that executing again shifts the rows by 8 hours a
  second time (重复执行会二次偏移 8 小时). The code does not: the watermark skips
  them, as lines 46 and 47 of the same page, `test_second_apply_skips_done_ranges`
  and `ShiftedOnce` say. Only two runs that overlap may shift a row twice.
- `mall.py:1402`: a take-back lowers the balance and no total, so from a refund on
  the balance of a member is no longer `points_total_earn - points_total_used`
  (`LogExplains`).
- `mall.py:1403`, `mall.py:446`: a refund with nothing to take back, an adjustment by
  0 and a payment that earns what it spends log a balance that they do not write.
  If the member's points were changed meanwhile, the last row of the log is wrong
  until the next move (`LastRowTrue`).
- `mall.py:706` promises one default address; two overlapping requests may leave
  two or none. `OneDefault` shows the next setting of a default mends it.
- `pf_tenant.tenant_no` is not unique and the seeds use M10001, which is also the
  first number Redis gives.
- A staff edit that sets a password raises no token version; TenantGuard lets a
  request pass when its queries fail, and looks at neither the status of platform
  staff nor the type of a token.
- Two runs of the migration that overlap may take the watermark back.

## 5. The proofs

`tlapm <module>` checks each proof module. A theorem holds for every value of the
constants that meets the ASSUME of its module, every number of workers and every
interleaving, failures and crashes included.

| module | theorems (`Spec =>`) |
|---|---|
| `TradeProofs` | `IndInvHolds`, `TypeCorrect`, `StockIdentityHolds`, `ChargedOnceHolds`, `FulfilledPaidHolds`, `EarnedOnceHolds`, `StockLedgerHolds`, `CodesSettledHolds`, `NeverOversold` |
| the same, for an order, row, member or key | `OrderRefundedOnce`, `OrderSettled`, `RowsReserved`, `RowOwned`, `RowNeverOversold`, `MemberAccounted`, `KeyPlacesOne` |
| the same, `IsolatedSpec =>` | `ReservationImplemented`, `TerminalStaysHolds`, `CodesStayHolds`, `RefundedOnceHolds`, `StockOwnedHolds`, `PointsAccountedHolds`, `PaidNeverClosedApart` |
| `WarehouseProofs` | `TypeCorrect`, `StockOwnedHolds`, `IdentityKeptHolds`, `LogKeptHolds` |
| `PointsProofs` | `TypeCorrect`, `AppliedOnceHolds`, `LogExplainsHolds`, `LastRowTrueHolds`, `BatchTrueHolds` |
| `CatalogProofs` | `TypeCorrect`, `SaleAgreesHolds`, `CodesDistinctHolds`, `ChannelsApartHolds`, `QuotaBoundHolds`, `PricedRightHolds` |
| `AccessProofs` | `IndInvHolds`, `TypeCorrect`, `RevocationHoldsAlways`, `BarredRefusedHolds`, `LogoutHoldsAlways`, `SessionBoundedHolds` |
| `TenancyProofs` | `TypeCorrect`, `NumbersApartHolds`, `TicketOnceHolds`, `MembersBoundedHolds` |
| `CustomerProofs` | `TypeCorrect`, `CartCountedHolds`, `OneDefaultHolds` |
| `UtcMigrationProofs` | `TypeCorrect`, `BackupExplainsHolds`, `ShiftedOnceHolds`, `MarkGrowsHolds`, `MigratedUtcHolds` |

Except where stated below they use only the assumptions on constants in the module
they are about (types of requests, rows and offsets; finite sets where something
is counted; `ReduceRatio` is not zero).

Hardly any of the properties is inductive: a handler writes from what it read, so
the invariant has to say how what an open request remembers relates to the rows as
they are by now, whatever was committed in between. Each module has an `IndInv`
that says so.

**Trade** (`SnapshotFacts`, `RowFacts`, `BatchFacts`).

- The number of payments only grows, and the amount changes only with it, so a
  snapshot with as many payments as the row has its amount; at the commit of a
  payment the unique key says the row has none, hence neither has the snapshot:
  its stock move is not skipped, nothing was granted before, and the grant is that
  of the amount finally written.
- What a handler after payment checked (PAID, SHIPPED, a refund row) still implies
  a payment although the status may have been overwritten since, because payments
  are never removed.
- A receipt therefore finds the grant of the payment in its snapshot, if there was
  one, and grants nothing.
- The deduction a payment asked for is at most the balance it read, so a blindly
  written balance is wrong perhaps, but never negative.
- A rejection restores a status recorded by a refund request, and all recorded
  statuses are statuses after payment.
- While a request is being placed nobody else has its order in hand.

*The ledger* (`LedgerInv`). A sum over orders is the cardinality of a set of pairs
(`Pairs`, `Total`), one pair for each unit, so that it can be reasoned about with
the library's theorems on finite sets: `TotalChange` says what a sum becomes when
the value of one order changes. Each commit writes one entry of one order's log and
shifts the counters of its row by as much (`Entry`, `Shifts`), or neither.

*The codes* (`CodesInv`). An open verification works on a code of its order, and a
snapshot without payment sees no codes; so the codes of a paid order stay one per
unit, and nothing puts a code back among the unused once a refund is approved. A
verification begins only with an unused code, so one that is open after the approval
read the order before it.

`NeverOversold` follows from the ledger, the identity and the types: what orders
have paid for on a row, less what came back, is at most what the row started with,
through every race.

*Isolation* (`ApartInv(G)`). What an overlap breaks, it breaks for the order, row or
member on which it happens and for nothing else. So the invariant is about a set `G`
of orders, and the hypotheses of the theorems name exactly who must be left alone;
all other handlers overlap as they like:

| theorem | as long as | then always |
|---|---|---|
| `OrderRefundedOnce` | `Alone(o)` | order `o` has at most one approved refund, one return of its units with it, and says so |
| `OrderSettled` | `Alone(o)` | `o` stays CLOSED or REFUNDED, its used and refunded codes stay so, and it is not closed once paid |
| `RowsReserved` | `Alone(o)` for the orders on the rows `T` | on `T`, the handlers implement `Reservation` |
| `RowOwned` | the same for the row `s` | the counters of `s` are the units of the orders in each phase |
| `RowNeverOversold` | the same | the units held and sold on `s` are no more than it started with |
| `MemberAccounted` | `Queued(m)`, and `Alone(o)` for the orders of `m` | the balance of `m` is the sum of its log, and explained by its orders |
| `KeyPlacesOne` | no two open requests of a member to place an order with the same key | at most one order of the member with this key |

When no two open handlers share an order of `G`, what a handler read and checked of
it (`Checked`, `Waiting` for the orders of a timeout batch) is still so when it
writes. Then the log, the refunds and the codes of the order agree with its status
(`ApartFacts`), a step of a handler leaves alone what is settled (`Settled`) and is
one step of `Reservation` (`BooksStep`, `ReservationStep`) or a stutter. A handler
writes only orders that it has in hand, its batch included, and of those in `G` it is
the only one that has them; and it moves units on no row but that of its order
(`Elsewhere`). That is why the refinement can be stated for any set of
rows (`Over(T)`, the abstract module over the rows and the orders on them):
`ReservationImplemented` is the case of all rows. `OwnedInv(s)` adds that the
counters are the sums over the orders in each phase, `AccountInv(m)` that a member's
row is the sum of what his orders granted, gave back and took; for the latter a
handler that writes points must still have the member's row as it is (`Snapshots`),
which `Queued(m)` gives. `KeyInv` says that what the look-up of a key found holds
until the order is inserted.

The theorems of `IsolatedSpec`, the behaviours of `Spec` whose states are all
`Isolated`, are what the run checks; each takes the local invariant for every order,
row or member at once.

**Warehouse.** `StockOwned` relates a counter to the number of units a set of
orders has. `Counted` and the lemmas on the library's theorems about finite sets
say by how much that number changes when one order changes its phase; given the
guard of the UPDATE the property is then inductive with the types. `IdentityKept`
and `LogKept` are properties of steps: the commit of an adjustment is the only one
that needs its snapshot to be the row.

**Points** (`TxFacts`, `KeyFacts`, `JobFacts`, `EndFacts`, `Explained`). A key that no
two open adjustments had at once is in the log once at most, and not at all while
one with it is open; that is why the look-up at the start suffices. `JobFacts`
counts, for an import under way, how many of the rows dealt with are in the log; the
log only grows (`Longer`), so a count that was true stays so. `LastRowTrue` is
inductive with the types: a commit that moves the balance writes the balance that it
logs, whatever it overwrites, and one that does not logs what it loaded. `Explained` carries the sums of the log, of what was
granted, used and taken back, again as sets of pairs; `TxFacts` adds that an open
move has no negative part and never takes the balance it read below zero.

**Catalog** (`CallFacts`, `SaleRow`, `NumberedAt`). A call's copy of a row counts
only for goods that no two calls changed at once. There the numbers of the codes
given so far are distinct and at most the number of SKUs, which is why numbering
from the count on gives no code twice. For `PricedRightHolds`: unless an edit is
`PastCheck`, the row that the check sees (`Merged`) and the row that is written
(`Changed`) have the same mode and differ only in an amount nobody is charged
(`ChangedCharged`, `NewCharged`), and with what each open call has checked
(`ChargeFacts`) the property is inductive. `QuotaBound` is
inductive on its own: a creation begins only under the quota, so live goods and
creations under way exceed it by less than the number of workers.

**Access** (`TokFacts`, `Announced`, `Facts`). A token carries a version no higher
than the account's, so raising it shuts out all tokens made before; what a request
in the middle of issuing one read may be older, and `clean` says when it is not.
`Announced` covers the platform's order of the two writes: version first, password
after. A merchant's refresh token keeps the expiry counted from its login, which
bounds every access token renewed from it. `OutNamed` keeps the names of logged-out
tokens from being given again while an entry is needed.

**Tenancy** (`RowsApart`, `HandsApart`, `Whole`). A number given by Redis is at most
the counter whether it is in a row, in a hand or lost, so the next one is new;
`Whole` follows a ticket through the read, the delete and the session it opens.
`MembersBounded` is not inductive without the logins under way: the rows and the
logins that may each add one are together within the bound (`Within`), for all
members and for one person alike.

**Customer** (`TxFacts`). `OneDefault` is a property of steps: a request that read
the address book as it still is. The elected default is the row with the largest
id, and that one exists because the book is finite (`Largest`).

**UtcMigration** (`RunFacts`, `Alone`, `Below`). A run plans ids of existing rows
only, and has saved a record of each before it updates. Without overlap nobody else
records a watermark while a run is open (`Alone`), so a run that missed the table is
right to plan from 0, and whatever was shifted is at or below the watermark, hence
never planned again. `MigratedUtcHolds` needs `RightOffset`: every offset below
zero that staff enter is that of the local zone. It rests on `Migrating`: a
value still in local time is in the plan of every open run of its column, and no
plan holds a value that is in UTC already, so the guarded UPDATE meets the first
and misses the second.

**Layout.** Lemmas on types and values first, then what any opening and any
committing step does to the others, one lemma per action, `InitKeeps`, `NextKeeps`
and the theorems.

## 6. What is only model-checked

- Liveness (`OverdueSettled`, `BatchEnds`, `Recovers`): the prover does not reach
  fairness and ENABLED.

Every other property of a passing run is also a theorem. Those of `trade_isolated`
are theorems of `IsolatedSpec`, and local ones of `Spec` (section 5).

## 7. Not modelled

- The clause the ORM adds to each SELECT, and the context variables it reads
  (`orm_hooks.py`, `tenant_context.py`): a property of each query, not of any
  order of steps. `Trade`, `Points`, `Catalog` and `Customer` describe one tenant.
- Staff, roles, levels, points rules, stores, categories, freight, message
  templates, feature flags: rows edited one at a time that no other operation
  relates to. What their edits do to sessions is in `Access`.
- Queries, statistics and exports: they change nothing.
- Uploads, WeChat, health: input and output without state of their own.
- Schema migrations and seeds: run once at deployment. The seeded tenant numbers
  are a constant of `Tenancy`.
- Order and refund numbers are assumed distinct in `Trade`. They come from the
  same functions as member numbers, with a key per day.
- Tokens of customers: nothing raises their version, and none is renewed (a login
  answers with its access token as `refreshToken`).
