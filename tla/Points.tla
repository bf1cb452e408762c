------------------------------- MODULE Points -------------------------------
(***************************************************************************)
(* Manual points adjustments and the CSV import of api/mall.py.  An        *)
(* adjustment is one transaction with an idempotency key; an import        *)
(* commits its batch, then makes one adjustment per row of the file, each  *)
(* in a transaction of its own, and last commits the counts.  Handlers of  *)
(* orders (module Trade) move the points of the same members.              *)
(***************************************************************************)
EXTENDS Integers, Sequences, FiniteSets

CONSTANTS Members, Workers,
          Keys,          \* idempotency keys of adjustments
          Amounts,       \* the points of an adjustment
          OrderPoints,   \* the points that an order spends, earns or gives back
          Batches,       \* one element per call of points_import
          File,          \* File[b]: the rows of the file
          BatchKey,      \* BatchKey[b]: the Idempotency-Key of the call
          InitialPoints,
          MaxLog,        \* bound on the rows that calls outside of an import log
          NoKey, NoBatch

(* What an adjustment asks for.                                            *)
Row == [member: Members, amount: Amounts, key: Keys \union {NoKey}]

ASSUME PointsAssumption ==
  /\ Amounts \subseteq Int /\ OrderPoints \subseteq Nat
  /\ InitialPoints \in Nat /\ MaxLog \in Nat
  /\ NoKey \notin Keys /\ NoBatch \notin Batches
ASSUME FileAssumption == \A b \in Batches : File[b] \in Seq(Row)

VARIABLES
  member,    \* member[m]: the points columns of mb_member
  log,       \* mb_points_log in the order of the commits
  tx,        \* tx[w]: the transaction that a worker has open
  batch,     \* batch[b]: the row of mb_points_import
  job,       \* job[w]: the import that a worker executes
  raced,     \* members that a transaction wrote after another had changed them
  doubled,   \* keys that two open adjustments had at the same time
  lost       \* batches whose process was lost

vars == <<member, log, tx, batch, job, raced, doubled, lost>>

MemberRow == [balance: Int, earn: Int, used: Int]

(* The points that one transaction moves: granted, used, and taken back by *)
(* a refund, which counts as neither.                                      *)
Move ==
  [member: Members, key: Keys \union {NoKey}, earn: Nat, used: Nat, back: Nat]

Net(move) == move.earn - move.used - move.back

(* What a transaction adds to the log.  A payment that spends and earns    *)
(* adds two rows at once, which count as one here.                         *)
LogRow ==
  [member: Members, key: Keys \union {NoKey}, earn: Nat, used: Nat, back: Nat, after: Int]

Adjustment == [open: BOOLEAN, move: Move \union {NoKey}, old: MemberRow]

BatchRow == [status: {"NONE", "PROCESSING", "COMPLETED"}, success: Nat, fail: Nat]

Job == [batch: Batches \union {NoBatch}, next: Nat, success: Nat, fail: Nat]

Closed == [open |-> FALSE, move |-> NoKey, old |-> [balance |-> 0, earn |-> 0, used |-> 0]]

NoJob == [batch |-> NoBatch, next |-> 1, success |-> 0, fail |-> 0]

(* No balance becomes negative, whatever overlaps.                         *)
TypeOK ==
  /\ member \in [Members -> [balance: Nat, earn: Nat, used: Nat]]
  /\ log \in Seq(LogRow)
  /\ tx \in [Workers -> Adjustment]
  /\ batch \in [Batches -> BatchRow]
  /\ job \in [Workers -> Job]
  /\ raced \subseteq Members
  /\ doubled \subseteq Keys
  /\ lost \subseteq Batches

-----------------------------------------------------------------------------
(* adjust_points.                                                          *)

Rows(key) == {i \in DOMAIN log : log[i].key = key}

(* The row that the look-up of the key finds first.                        *)
Previous(key) == log[CHOOSE i \in Rows(key) : \A j \in Rows(key) : i <= j]

(* A variant that does not look the key up.                                *)
OutcomeBlind(row) ==
  IF member[row.member].balance + row.amount < 0 THEN "refused" ELSE "new"

(* What the checks of the handler decide, in their order.                  *)
Outcome(row) ==
  IF member[row.member].balance + row.amount < 0 THEN "refused"
  ELSE IF Rows(row.key) = {} THEN "new"
  ELSE IF Previous(row.key).member = row.member /\ Net(Previous(row.key)) = row.amount
    THEN "replayed"
  ELSE "conflict"

Opened == {w \in Workers : tx[w].open}

Open(w, move) ==
  /\ ~tx[w].open
  /\ tx' = [tx EXCEPT ![w] = [open |-> TRUE, move |-> move, old |-> member[move.member]]]
  /\ doubled' = IF move.key # NoKey /\ \E v \in Opened : tx[v].move.key = move.key
                  THEN doubled \union {move.key} ELSE doubled

LogHasRoom == Len(log) + Cardinality(Opened) < MaxLog

(* Points above zero count as earned, the others as used.                  *)
Adjusted(row) ==
  [member |-> row.member, key |-> row.key,
   earn |-> IF row.amount > 0 THEN row.amount ELSE 0,
   used |-> IF row.amount > 0 THEN 0 ELSE -row.amount,
   back |-> 0]

AdjustBegin(w, row) ==
  /\ job[w] = NoJob /\ LogHasRoom
  /\ row.key # NoKey
  /\ Outcome(row) = "new"
  /\ Open(w, Adjusted(row))
  /\ UNCHANGED <<member, log, batch, job, raced, lost>>

(* A payment deducts at most the balance it read, and grants; a receipt    *)
(* grants.  Without points they write nothing.                             *)
OrderPaid(m) ==
  {[member |-> m, key |-> NoKey, earn |-> earn, used |-> used, back |-> 0] :
     earn \in OrderPoints, used \in {n \in OrderPoints : n <= member[m].balance}}
  \ {[member |-> m, key |-> NoKey, earn |-> 0, used |-> 0, back |-> 0]}

(* A refund takes back at most the balance it read, perhaps nothing, and   *)
(* logs that anyway.                                                       *)
OrderRefunded(m) ==
  {[member |-> m, key |-> NoKey, earn |-> 0, used |-> 0, back |-> n] :
     n \in {k \in OrderPoints : k <= member[m].balance}}

(* A handler of an order that moves points of the member.                  *)
OrderBegin(w, m) ==
  /\ job[w] = NoJob /\ LogHasRoom
  /\ \E move \in OrderPaid(m) \union OrderRefunded(m) : Open(w, move)
  /\ UNCHANGED <<member, log, batch, job, raced, lost>>

(* A variant in which what a refund takes back counts as used.             *)
MovedBack(old, current, move) ==
  [balance |-> IF Net(move) = 0 THEN current.balance ELSE old.balance + Net(move),
   earn |-> IF move.earn = 0 THEN current.earn ELSE old.earn + move.earn,
   used |-> IF move.used + move.back = 0 THEN current.used
            ELSE old.used + move.used + move.back]

(* The columns are computed from the loaded row; one whose value stays is  *)
(* not written.                                                            *)
Moved(old, current, move) ==
  [balance |-> IF Net(move) = 0 THEN current.balance ELSE old.balance + Net(move),
   earn |-> IF move.earn = 0 THEN current.earn ELSE old.earn + move.earn,
   used |-> IF move.used = 0 THEN current.used ELSE old.used + move.used]

(* A variant that logs the balance before.                                 *)
LoggedBefore(call) ==
  [member |-> call.move.member, key |-> call.move.key, earn |-> call.move.earn,
   used |-> call.move.used, back |-> call.move.back, after |-> call.old.balance]

(* The balance logged is that of the loaded row, moved: also when it is not*)
(* written.                                                                *)
Logged(call) ==
  [member |-> call.move.member, key |-> call.move.key, earn |-> call.move.earn,
   used |-> call.move.used, back |-> call.move.back,
   after |-> call.old.balance + Net(call.move)]

Write(w) ==
  LET m == tx[w].move.member IN
  /\ tx[w].open
  /\ member' = [member EXCEPT ![m] = Moved(tx[w].old, @, tx[w].move)]
  /\ log' = Append(log, Logged(tx[w]))
  /\ raced' = IF member[m] # tx[w].old THEN raced \union {m} ELSE raced
  /\ tx' = [tx EXCEPT ![w] = Closed]
  /\ UNCHANGED <<batch, doubled, lost>>

-----------------------------------------------------------------------------
(* points_import.                                                          *)

Succeeded(j) == [j EXCEPT !.next = @ + 1, !.success = @ + 1]

Failed(j) == [j EXCEPT !.next = @ + 1, !.fail = @ + 1]

(* A batch of the key is found, or the unique key of the table refuses the *)
(* second one: either way no second batch.                                 *)
ImportBegin(w, b) ==
  /\ job[w] = NoJob /\ ~tx[w].open
  /\ \A c \in Batches : BatchKey[c] = BatchKey[b] => batch[c].status = "NONE"
  /\ batch' = [batch EXCEPT ![b].status = "PROCESSING"]
  /\ job' = [job EXCEPT ![w].batch = b]
  /\ UNCHANGED <<member, log, tx, raced, doubled, lost>>

AtRow(w) == job[w].batch # NoBatch /\ ~tx[w].open /\ job[w].next <= Len(File[job[w].batch])

NextRow(w) == File[job[w].batch][job[w].next]

ImportRowBegin(w) ==
  /\ AtRow(w)
  /\ NextRow(w).key # NoKey /\ Outcome(NextRow(w)) = "new"
  /\ Open(w, Adjusted(NextRow(w)))
  /\ UNCHANGED <<member, log, batch, job, raced, lost>>

(* A variant in which a conflict counts as a success.                      *)
CountsAny(row) == row.key # NoKey /\ Outcome(row) \in {"replayed", "conflict"}

Counts(row) == row.key # NoKey /\ Outcome(row) = "replayed"

(* A row that changes nothing.                                             *)
ImportRowAnswered(w) ==
  /\ AtRow(w)
  /\ NextRow(w).key = NoKey \/ Outcome(NextRow(w)) # "new"
  /\ job' = [job EXCEPT ![w] = IF Counts(NextRow(w)) THEN Succeeded(@) ELSE Failed(@)]
  /\ UNCHANGED <<member, log, tx, batch, raced, doubled, lost>>

(* A variant that saves the counts but not the status.                     *)
CompletedUnmarked(j) == [status |-> "PROCESSING", success |-> j.success, fail |-> j.fail]

Completed(j) == [status |-> "COMPLETED", success |-> j.success, fail |-> j.fail]

ImportEnd(w) ==
  LET b == job[w].batch IN
  /\ b # NoBatch /\ ~tx[w].open /\ job[w].next > Len(File[b])
  /\ batch' = [batch EXCEPT ![b] = Completed(job[w])]
  /\ job' = [job EXCEPT ![w] = NoJob]
  /\ UNCHANGED <<member, log, tx, raced, doubled, lost>>

-----------------------------------------------------------------------------
(* The ends of a transaction.                                              *)

Counted(w, j) == IF job[w].batch = NoBatch THEN job ELSE [job EXCEPT ![w] = j]

Commit(w) == Write(w) /\ job' = Counted(w, Succeeded(job[w]))

(* The commit takes effect but its answer is lost, so the handler raises.  *)
CommitUnheard(w) == Write(w) /\ job' = Counted(w, Failed(job[w]))

Rollback(w) ==
  /\ tx[w].open
  /\ tx' = [tx EXCEPT ![w] = Closed]
  /\ job' = Counted(w, Failed(job[w]))
  /\ UNCHANGED <<member, log, batch, raced, doubled, lost>>

(* The process is lost.                                                    *)
Crash(w) ==
  /\ tx[w].open \/ job[w] # NoJob
  /\ tx' = [tx EXCEPT ![w] = Closed]
  /\ job' = [job EXCEPT ![w] = NoJob]
  /\ lost' = lost \union ({job[w].batch} \ {NoBatch})
  /\ UNCHANGED <<member, log, batch, raced, doubled>>

Init ==
  /\ member = [m \in Members |-> [balance |-> InitialPoints, earn |-> 0, used |-> 0]]
  /\ log = <<>>
  /\ tx = [w \in Workers |-> Closed]
  /\ batch = [b \in Batches |-> [status |-> "NONE", success |-> 0, fail |-> 0]]
  /\ job = [w \in Workers |-> NoJob]
  /\ raced = {}
  /\ doubled = {}
  /\ lost = {}

ImportStep(w) ==
  ImportRowBegin(w) \/ ImportRowAnswered(w) \/ ImportEnd(w)

Next == \E w \in Workers :
  \/ \E row \in Row : AdjustBegin(w, row)
  \/ \E m \in Members : OrderBegin(w, m)
  \/ \E b \in Batches : ImportBegin(w, b)
  \/ ImportStep(w) \/ Commit(w) \/ CommitUnheard(w) \/ Rollback(w) \/ Crash(w)

Spec == Init /\ [][Next]_vars

(* A process that is not lost goes on with what it has begun.              *)
FairSpec == Spec /\ \A w \in Workers : WF_vars(ImportStep(w) \/ Commit(w))

-----------------------------------------------------------------------------
(* Properties.                                                             *)

(* An adjustment is applied once however often it is sent: by hand, by a   *)
(* second row of a file, or by the file again after a crash under a new    *)
(* batch key, unless two calls with its key overlapped.                    *)
AppliedOnce == \A k \in Keys \ doubled : Cardinality(Rows(k)) <= 1

(* The rows of a member in the log, and those that moved his balance.      *)
RowsOf(m) == {i \in DOMAIN log : log[i].member = m}

MovesOf(m) == {i \in RowsOf(m) : Net(log[i]) # 0}

(* What the log granted to a member, what he used and what refunds took    *)
(* back; and the sum of such numbers, counted as pairs.                    *)
Grants(m) == [i \in DOMAIN log |-> IF log[i].member = m THEN log[i].earn ELSE 0]

Takes(m) == [i \in DOMAIN log |-> IF log[i].member = m THEN log[i].used ELSE 0]

Backs(m) == [i \in DOMAIN log |-> IF log[i].member = m THEN log[i].back ELSE 0]

Pairs(n) == UNION {{i} \X (1..n[i]) : i \in DOMAIN n}

Total(n) == Cardinality(Pairs(n))

(* The log explains the columns of a member whose transactions have not    *)
(* overlapped: what he earned, what he used, and a balance that is the     *)
(* difference less what refunds took back, which no column tells.  (A      *)
(* transaction that overlapped another may have undone it: the lost update *)
(* itself is out of this property.)                                        *)
LogExplains ==
  \A m \in Members \ raced :
    /\ member[m].balance = InitialPoints + member[m].earn - member[m].used - Total(Backs(m))
    /\ member[m].earn = Total(Grants(m))
    /\ member[m].used = Total(Takes(m))

(* Even when transactions overlap, the last row of a member that moved his *)
(* balance says what he has.  A row that moves nothing logs the balance its*)
(* transaction loaded, which may be out of date: it says what he has only  *)
(* when his transactions did not overlap.                                  *)
LastRowTrue ==
  \A m \in Members :
    /\ \A i \in MovesOf(m) :
         (\A j \in MovesOf(m) : j <= i) => log[i].after = member[m].balance
    /\ m \notin raced =>
         \A i \in RowsOf(m) :
           (\A j \in RowsOf(m) : j <= i) => log[i].after = member[m].balance

(* The counts of a completed batch cover the file, and each row counted as *)
(* a success is in the log.  (A row counted as failed may be there too: an *)
(* answer can be lost.)                                                    *)
BatchTrue ==
  \A b \in Batches : batch[b].status = "COMPLETED" =>
    /\ batch[b].success + batch[b].fail = Len(File[b])
    /\ batch[b].success <= Cardinality(
         {i \in DOMAIN File[b] : File[b][i].key # NoKey /\ \E j \in Rows(File[b][i].key) :
            log[j].member = File[b][i].member /\ Net(log[j]) = File[b][i].amount})

(* A batch is completed unless the process that works on it is lost.       *)
BatchEnds ==
  \A b \in Batches : batch[b].status = "PROCESSING" ~>
    batch[b].status = "COMPLETED" \/ b \in lost
=============================================================================
