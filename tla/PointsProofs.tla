---------------------------- MODULE PointsProofs ----------------------------
(***************************************************************************)
(* Proofs about module Points for every number of members, keys, files and *)
(* workers, with any overlaps, lost answers and lost processes.            *)
(***************************************************************************)
EXTENDS Points, FiniteSetTheorems, SequenceTheorems, WellFoundedInduction, TLAPS

Columns == [balance: Nat, earn: Nat, used: Nat]

(* What an open transaction loaded can bear what it will write.            *)
TxFacts(t) ==
  t.open => t.move \in Move /\ t.old \in Columns /\ t.old.balance + Net(t.move) >= 0

(* A key that no two open adjustments had at once is in the log once at    *)
(* most, and not at all while an adjustment with it is open.               *)
KeyFacts(k) ==
  /\ \A i, j \in Rows(k) : i = j
  /\ \A w \in Workers : tx[w].open /\ tx[w].move.key = k =>
       /\ Rows(k) = {}
       /\ \A v \in Workers : tx[v].open /\ tx[v].move.key = k => v = w

(* The rows of a file, up to the n-th, that are among those of the log.    *)
InLog(rows, row) ==
  row.key # NoKey /\ \E j \in DOMAIN rows :
    rows[j].key = row.key /\ rows[j].member = row.member /\ Net(rows[j]) = row.amount

Done(rows, b, n) == {i \in 1..n : InLog(rows, File[b][i])}

(* How far an import has come ...                                          *)
JobFacts(j, t, rows) ==
  j.batch # NoBatch =>
    /\ j.next <= Len(File[j.batch]) + 1
    /\ j.success + j.fail = j.next - 1
    /\ j.success <= Cardinality(Done(rows, j.batch, j.next - 1))
    /\ t.open => /\ j.next <= Len(File[j.batch])
                  /\ t.move = Adjusted(File[j.batch][j.next])
                  /\ File[j.batch][j.next].key # NoKey

(* ... and what its batch says at the end.                                 *)
EndFacts(b, row, rows) ==
  row.status = "COMPLETED" =>
    /\ row.success + row.fail = Len(File[b])
    /\ row.success <= Cardinality(Done(rows, b, Len(File[b])))

Explained(m) ==
  /\ \A n \in {Grants(m), Takes(m), Backs(m)} : IsFiniteSet(Pairs(n))
  /\ m \notin raced =>
       /\ member[m].balance = InitialPoints + member[m].earn - member[m].used - Total(Backs(m))
       /\ member[m].earn = Total(Grants(m))
       /\ member[m].used = Total(Takes(m))

IndInv ==
  /\ TypeOK
  /\ \A w \in Workers : TxFacts(tx[w]) /\ JobFacts(job[w], tx[w], log)
  /\ \A k \in Keys \ doubled : KeyFacts(k)
  /\ \A b \in Batches : EndFacts(b, batch[b], log)
  /\ \A m \in Members : Explained(m)
  /\ LastRowTrue

-----------------------------------------------------------------------------
(* Sets, sums and the log.                                                 *)

(* The CHOOSE of Previous finds a row.                                     *)
LEMMA Smallest ==
  ASSUME NEW S \in SUBSET Nat, S # {}
  PROVE  \E a \in S : \A b \in S : a <= b
<1>1. PICK a \in S : \A b \in S : ~(<<b, a>> \in OpToRel(<, Nat))
  BY NatLessThanWellFounded, WFMin
<1>2. \A b \in S : ~(b < a)
  BY <1>1 DEF OpToRel
<1> QED BY <1>2

(* A set of numbers grows, and by the next number.                         *)
LEMMA OneMore ==
  ASSUME NEW n \in Nat, NEW D \in SUBSET (1..n), NEW E \in SUBSET (1..(n + 1)), D \subseteq E
  PROVE  /\ Cardinality(D) \in Nat /\ Cardinality(E) \in Nat
         /\ Cardinality(D) <= Cardinality(E)
         /\ n + 1 \in E => Cardinality(D) + 1 <= Cardinality(E)
<1>1. IsFiniteSet(1..(n + 1))
  BY FS_Interval
<1>2. IsFiniteSet(E) /\ Cardinality(E) \in Nat
  BY <1>1, FS_Subset, FS_CardinalityType
<1>3. IsFiniteSet(D) /\ Cardinality(D) \in Nat /\ Cardinality(D) <= Cardinality(E)
  BY <1>2, FS_Subset, FS_CardinalityType
<1>4. ASSUME n + 1 \in E PROVE Cardinality(D) + 1 <= Cardinality(E)
  <2>1. n + 1 \notin D /\ D \union {n + 1} \in SUBSET E
    BY <1>4
  <2>2. Cardinality(D \union {n + 1}) = Cardinality(D) + 1
    BY <1>3, <2>1, FS_AddElement
  <2>3. Cardinality(D \union {n + 1}) <= Cardinality(E)
    BY <1>2, <2>1, FS_Subset
  <2> QED BY <2>2, <2>3
<1> QED BY <1>2, <1>3, <1>4

(* The pairs that stand for the number of one row.                         *)
LEMMA PairsOfOne ==
  ASSUME NEW x, NEW k \in Nat
  PROVE  IsFiniteSet({x} \X (1..k)) /\ Cardinality({x} \X (1..k)) = k
<1>1. IsFiniteSet(1..k) /\ Cardinality(1..k) = k
  <2>1. IsFiniteSet(1..k) /\ Cardinality(1..k) = IF 1 > k THEN 0 ELSE k - 1 + 1
    BY FS_Interval
  <2> QED BY <2>1
<1>2. IsFiniteSet({x}) /\ Cardinality({x}) = 1
  BY FS_Singleton
<1>3. /\ IsFiniteSet({x} \X (1..k))
      /\ Cardinality({x} \X (1..k)) = Cardinality({x}) * Cardinality(1..k)
  BY <1>1, <1>2, FS_Product
<1>4. Cardinality({x} \X (1..k)) = 1 * k
  BY <1>1, <1>2, <1>3
<1> QED BY <1>3, <1>4

LEMMA TotalGrown ==
  ASSUME NEW len \in Nat, NEW n, DOMAIN n = 1..len, IsFiniteSet(Pairs(n)),
         NEW m, DOMAIN m = 1..(len + 1), \A i \in 1..len : m[i] = n[i], m[len + 1] \in Nat
  PROVE  /\ IsFiniteSet(Pairs(m)) /\ Total(n) \in Nat
         /\ Total(m) = Total(n) + m[len + 1]
<1> DEFINE x == len + 1
           U == {x} \X (1..m[x])
<1>1. IsFiniteSet(U) /\ Cardinality(U) = m[x]
  BY PairsOfOne
<1>2. Pairs(m) = Pairs(n) \union U
  <2>1. \A i \in 1..len : {i} \X (1..m[i]) = {i} \X (1..n[i])
    OBVIOUS
  <2>2. {{i} \X (1..m[i]) : i \in 1..x} = {{i} \X (1..n[i]) : i \in 1..len} \union {U}
    <3>1. 1..x = (1..len) \union {x}
      OBVIOUS
    <3>2. {{i} \X (1..m[i]) : i \in 1..x}
            = {{i} \X (1..m[i]) : i \in 1..len} \union {U}
      <4> HIDE DEF x
      <4> QED BY <3>1
    <3> HIDE DEF x, U
    <3> QED BY <2>1, <3>2
  <2> QED BY <2>2 DEF Pairs
<1>3. Pairs(n) \intersect U = {}
  BY DEF Pairs
<1> HIDE DEF U
<1>4. /\ IsFiniteSet(Pairs(n) \union U)
      /\ Cardinality(Pairs(n) \union U)
           = Cardinality(Pairs(n)) + Cardinality(U) - Cardinality(Pairs(n) \intersect U)
  BY <1>1, FS_Union
<1>5. Cardinality(Pairs(n) \intersect U) = 0 /\ Cardinality(Pairs(n)) \in Nat
  BY <1>3, FS_EmptySet, FS_CardinalityType
<1>6. Cardinality(Pairs(n) \union U) = Cardinality(Pairs(n)) + m[x]
  BY <1>1, <1>4, <1>5
<1> QED BY <1>2, <1>4, <1>5, <1>6 DEF Total

(* The log after a commit.                                                 *)
LEMMA Grown ==
  ASSUME TypeOK, NEW e \in LogRow, log' = Append(log, e)
  PROVE  /\ Len(log) \in Nat /\ DOMAIN log = 1..Len(log)
         /\ log' \in Seq(LogRow) /\ DOMAIN log' = 1..(Len(log) + 1)
         /\ log'[Len(log) + 1] = e
         /\ \A i \in DOMAIN log : log'[i] = log[i]
BY AppendProperties, LenProperties DEF TypeOK

LEMMA RowsGrown ==
  ASSUME TypeOK, NEW e \in LogRow, log' = Append(log, e), NEW k
  PROVE  Rows(k)' = Rows(k) \union (IF e.key = k THEN {Len(log) + 1} ELSE {})
<1>1. /\ Len(log) \in Nat /\ DOMAIN log = 1..Len(log) /\ DOMAIN log' = 1..(Len(log) + 1)
      /\ log'[Len(log) + 1] = e /\ \A i \in DOMAIN log : log'[i] = log[i]
  BY Grown
<1>2. DOMAIN log' = DOMAIN log \union {Len(log) + 1}
  BY <1>1
<1> QED BY <1>1, <1>2 DEF Rows

(* Nothing leaves the log.                                                 *)
Longer == log' = log \/ \E e \in LogRow : log' = Append(log, e)

LEMMA InLogStays ==
  ASSUME TypeOK, Longer, NEW row, InLog(log, row)
  PROVE  InLog(log', row)
<1>1. CASE log' = log
  BY <1>1
<1>2. ASSUME NEW e \in LogRow, log' = Append(log, e) PROVE InLog(log', row)
  <2>1. DOMAIN log \subseteq DOMAIN log' /\ \A i \in DOMAIN log : log'[i] = log[i]
    BY <1>2, Grown
  <2> QED BY <2>1 DEF InLog
<1> QED BY <1>1, <1>2 DEF Longer

(* So a count of rows that are in the log stays true ...                   *)
LEMMA DoneStays ==
  ASSUME TypeOK, Longer, NEW b, NEW n \in Nat
  PROVE  /\ Cardinality(Done(log, b, n)) \in Nat /\ Cardinality(Done(log', b, n)) \in Nat
         /\ Cardinality(Done(log, b, n)) <= Cardinality(Done(log', b, n))
<1>1. Done(log, b, n) \subseteq Done(log', b, n)
  BY InLogStays DEF Done
<1>2. Done(log, b, n) \in SUBSET (1..n) /\ Done(log', b, n) \in SUBSET (1..(n + 1))
  BY DEF Done
<1> QED BY <1>1, <1>2, OneMore

(* ... and one more row of the file is dealt with.                         *)
LEMMA DoneNext ==
  ASSUME TypeOK, Longer, NEW b, NEW n \in Nat
  PROVE  /\ Cardinality(Done(log, b, n)) \in Nat /\ Cardinality(Done(log', b, n + 1)) \in Nat
         /\ Cardinality(Done(log, b, n)) <= Cardinality(Done(log', b, n + 1))
         /\ InLog(log', File[b][n + 1])
              => Cardinality(Done(log, b, n)) + 1 <= Cardinality(Done(log', b, n + 1))
<1>1. Done(log, b, n) \subseteq Done(log', b, n + 1)
  BY InLogStays DEF Done
<1>2. Done(log, b, n) \in SUBSET (1..n) /\ Done(log', b, n + 1) \in SUBSET (1..(n + 1))
  BY DEF Done
<1>3. InLog(log', File[b][n + 1]) => n + 1 \in Done(log', b, n + 1)
  BY DEF Done
<1> QED BY <1>1, <1>2, <1>3, OneMore

LEMMA CountTypes ==
  ASSUME NEW j \in Job
  PROVE  Succeeded(j) \in Job /\ Failed(j) \in Job
<1>1. j.next + 1 \in Nat /\ j.success + 1 \in Nat /\ j.fail + 1 \in Nat
  BY DEF Job
<1>2. Succeeded(j) \in Job
  BY <1>1 DEF Succeeded, Job
<1>3. Failed(j) \in Job
  BY <1>1 DEF Failed, Job
<1> QED BY <1>2, <1>3

(* A job that stays as it is, and one that has dealt with its row.         *)
LEMMA JobStays ==
  ASSUME TypeOK, Longer, NEW j \in Job, NEW t, NEW u, JobFacts(j, t, log),
         u.open => t.open /\ u.move = t.move
  PROVE  JobFacts(j, u, log')
<1> SUFFICES ASSUME j.batch # NoBatch PROVE JobFacts(j, u, log')
  BY DEF JobFacts
<1> DEFINE n == j.next - 1
<1>1. n \in Nat /\ j.success \in Nat
  BY DEF JobFacts, Job
<1>2. Cardinality(Done(log, j.batch, n)) <= Cardinality(Done(log', j.batch, n))
      /\ Cardinality(Done(log, j.batch, n)) \in Nat /\ Cardinality(Done(log', j.batch, n)) \in Nat
  <2> HIDE DEF n
  <2> QED BY <1>1, DoneStays
<1>3. j.success <= Cardinality(Done(log, j.batch, n))
  BY DEF JobFacts
<1>4. j.success <= Cardinality(Done(log', j.batch, n))
  BY <1>1, <1>2, <1>3
<1> QED BY <1>4 DEF JobFacts

LEMMA JobAdvances ==
  ASSUME TypeOK, Longer, NEW j \in Job, NEW t, NEW u, JobFacts(j, t, log), ~u.open,
         j.batch # NoBatch, j.next <= Len(File[j.batch])
  PROVE  /\ JobFacts(Failed(j), u, log')
         /\ InLog(log', File[j.batch][j.next]) => JobFacts(Succeeded(j), u, log')
<1> DEFINE n == j.next - 1
           b == j.batch
<1>1. /\ n \in Nat /\ j.success \in Nat /\ j.fail \in Nat /\ j.next \in Nat
      /\ j.success + j.fail = n /\ n + 1 = j.next
  BY DEF JobFacts, Job
<1>2. /\ Cardinality(Done(log, b, n)) \in Nat /\ Cardinality(Done(log', b, n + 1)) \in Nat
      /\ Cardinality(Done(log, b, n)) <= Cardinality(Done(log', b, n + 1))
      /\ InLog(log', File[b][n + 1])
           => Cardinality(Done(log, b, n)) + 1 <= Cardinality(Done(log', b, n + 1))
  <2> HIDE DEF n, b
  <2> QED BY <1>1, DoneNext
<1>3. j.success <= Cardinality(Done(log, b, n))
  BY DEF JobFacts
<1>4. File[b] \in Seq(Row) /\ Len(File[b]) \in Nat
  <2>1. b \in Batches
    BY DEF Job
  <2>2. File[b] \in Seq(Row)
    BY <2>1, FileAssumption
  <2> QED BY <2>2, LenProperties
<1>5. /\ Failed(j).batch = b /\ Failed(j).next = j.next + 1
      /\ Failed(j).success = j.success /\ Failed(j).fail = j.fail + 1
  BY DEF Failed, Job
<1>6. /\ Succeeded(j).batch = b /\ Succeeded(j).next = j.next + 1
      /\ Succeeded(j).success = j.success + 1 /\ Succeeded(j).fail = j.fail
  BY DEF Succeeded, Job
<1>7. j.next + 1 <= Len(File[b]) + 1 /\ j.next + 1 - 1 = n + 1
  BY <1>1, <1>4
<1>8. /\ j.success <= Cardinality(Done(log', b, n + 1))
      /\ InLog(log', File[b][n + 1]) => j.success + 1 <= Cardinality(Done(log', b, n + 1))
  BY <1>1, <1>2, <1>3
<1>9. JobFacts(Failed(j), u, log')
  <2>1. Failed(j).success + Failed(j).fail = n + 1
    BY <1>1, <1>5
  <2>2. Failed(j).next - 1 = n + 1 /\ Failed(j).next <= Len(File[b]) + 1
    BY <1>1, <1>5, <1>7
  <2>3. Failed(j).success <= Cardinality(Done(log', b, Failed(j).next - 1))
    BY <1>5, <1>8, <2>2
  <2> HIDE DEF n
  <2> QED BY <1>5, <2>1, <2>2, <2>3 DEF JobFacts
<1>10. ASSUME InLog(log', File[b][n + 1]) PROVE JobFacts(Succeeded(j), u, log')
  <2>1. Succeeded(j).success + Succeeded(j).fail = n + 1
    BY <1>1, <1>6
  <2>2. Succeeded(j).next - 1 = n + 1 /\ Succeeded(j).next <= Len(File[b]) + 1
    BY <1>1, <1>6, <1>7
  <2>3. Succeeded(j).success <= Cardinality(Done(log', b, Succeeded(j).next - 1))
    BY <1>6, <1>8, <1>10, <2>2
  <2> HIDE DEF n
  <2> QED BY <1>6, <2>1, <2>2, <2>3 DEF JobFacts
<1> QED BY <1>1, <1>9, <1>10

LEMMA EndStays ==
  ASSUME TypeOK, Longer, NEW b \in Batches, NEW row \in BatchRow, EndFacts(b, row, log)
  PROVE  EndFacts(b, row, log')
<1>1. File[b] \in Seq(Row) /\ Len(File[b]) \in Nat
  BY FileAssumption, LenProperties
<1>2. /\ Cardinality(Done(log, b, Len(File[b]))) \in Nat
      /\ Cardinality(Done(log', b, Len(File[b]))) \in Nat
      /\ Cardinality(Done(log, b, Len(File[b]))) <= Cardinality(Done(log', b, Len(File[b])))
  BY <1>1, DoneStays
<1>3. row.success \in Nat
  BY DEF BatchRow
<1> QED BY <1>2, <1>3 DEF EndFacts

-----------------------------------------------------------------------------
(* A transaction is opened.                                                *)
LEMMA ClosedFacts == Closed \in Adjustment /\ TxFacts(Closed) /\ ~Closed.open
BY DEF Closed, Adjustment, TxFacts, MemberRow

(* The move of an adjustment.                                              *)
LEMMA AdjustedFacts ==
  ASSUME NEW row \in Row
  PROVE  /\ Adjusted(row) \in Move /\ Net(Adjusted(row)) = row.amount
         /\ Adjusted(row).member = row.member /\ Adjusted(row).key = row.key
<1> DEFINE a == row.amount
           x == IF a > 0 THEN a ELSE 0
           y == IF a > 0 THEN 0 ELSE -a
<1>1. row.member \in Members /\ row.key \in Keys \union {NoKey} /\ a \in Int
  BY PointsAssumption DEF Row
<1>2. x \in Nat /\ y \in Nat /\ x - y - 0 = a
  BY <1>1
<1>3. /\ Adjusted(row).member = row.member /\ Adjusted(row).key = row.key
      /\ Adjusted(row).earn = x /\ Adjusted(row).used = y /\ Adjusted(row).back = 0
  BY DEF Adjusted
<1>4. Adjusted(row) = [member |-> row.member, key |-> row.key, earn |-> x, used |-> y,
                       back |-> 0]
  BY DEF Adjusted
<1> HIDE DEF x, y
<1>5. Adjusted(row) \in Move
  BY <1>1, <1>2, <1>4 DEF Move
<1>6. Net(Adjusted(row)) = a
  BY <1>2, <1>3 DEF Net
<1> QED BY <1>3, <1>5, <1>6

LEMMA OpenKeeps ==
  ASSUME IndInv, NEW w \in Workers, NEW move \in Move, Open(w, move),
         member[move.member].balance + Net(move) >= 0,
         move.key = NoKey \/ Rows(move.key) = {},
         job[w].batch # NoBatch =>
           /\ job[w].next <= Len(File[job[w].batch])
           /\ move = Adjusted(File[job[w].batch][job[w].next])
           /\ File[job[w].batch][job[w].next].key # NoKey,
         UNCHANGED <<member, log, batch, job, raced, lost>>
  PROVE  IndInv'
<1> DEFINE t == [open |-> TRUE, move |-> move, old |-> member[move.member]]
<1>1. TypeOK /\ member[move.member] \in Columns /\ move.member \in Members
  BY DEF IndInv, TypeOK, Move, Columns
<1>2. t \in Adjustment /\ TxFacts(t) /\ t.open /\ t.move = move
  BY <1>1 DEF Adjustment, TxFacts, MemberRow, Columns
<1>3. /\ ~tx[w].open /\ tx' = [tx EXCEPT ![w] = t]
      /\ doubled' = IF move.key # NoKey /\ \E v \in Opened : tx[v].move.key = move.key
                      THEN doubled \union {move.key} ELSE doubled
  BY DEF Open
<1> HIDE DEF t
<1>4. /\ tx' \in [Workers -> Adjustment] /\ tx'[w] = t
      /\ \A v \in Workers : v # w => tx'[v] = tx[v]
  BY <1>1, <1>2, <1>3 DEF TypeOK
<1>5. TypeOK'
  <2>1. move.key # NoKey => move.key \in Keys
    BY DEF Move
  <2>2. doubled' \subseteq Keys
    BY <1>1, <1>3, <2>1 DEF TypeOK
  <2> QED BY <1>1, <1>4, <2>2 DEF TypeOK
<1>6. ASSUME NEW v \in Workers PROVE TxFacts(tx[v])' /\ JobFacts(job[v], tx[v], log)'
  <2>1. TxFacts(tx[v]) /\ JobFacts(job[v], tx[v], log)
    BY DEF IndInv
  <2>2. CASE v # w
    BY <1>4, <2>1, <2>2 DEF TxFacts, JobFacts
  <2>3. CASE v = w
    BY <1>2, <1>4, <2>1, <2>3 DEF TxFacts, JobFacts
  <2> QED BY <2>2, <2>3
<1>7. ASSUME NEW k \in Keys \ doubled' PROVE KeyFacts(k)'
  <2>1. k \in Keys \ doubled /\ KeyFacts(k)
    BY <1>3, <1>7 DEF IndInv
  <2>2. Rows(k)' = Rows(k)
    BY DEF Rows
  <2>3. CASE move.key # k
    BY <1>2, <1>4, <2>1, <2>2, <2>3 DEF KeyFacts
  <2>4. CASE move.key = k
    <3>1. move.key # NoKey /\ Rows(k) = {}
      BY <2>1, <2>4, PointsAssumption
    <3>2. \A v \in Workers : ~(tx[v].open /\ tx[v].move.key = k)
      BY <1>3, <1>7, <2>4, <3>1 DEF Opened
    <3> QED BY <1>4, <2>2, <3>1, <3>2 DEF KeyFacts
  <2> QED BY <2>3, <2>4
<1>8. \A b \in Batches : EndFacts(b, batch[b], log)'
  BY DEF IndInv
<1>9. \A m \in Members : Explained(m)'
  BY DEF IndInv, Explained, Grants, Takes, Backs
<1>10. LastRowTrue'
  BY DEF IndInv, LastRowTrue, RowsOf, MovesOf
<1> QED BY <1>5, <1>6, <1>7, <1>8, <1>9, <1>10 DEF IndInv

(* What Outcome says of the log.                                           *)
LEMMA OutcomeFacts ==
  ASSUME TypeOK, NEW row
  PROVE  /\ Outcome(row) = "new" =>
              Rows(row.key) = {} /\ ~(member[row.member].balance + row.amount < 0)
         /\ Outcome(row) = "replayed" /\ row.key # NoKey => InLog(log, row)
<1>1. Outcome(row) = "new" =>
        Rows(row.key) = {} /\ ~(member[row.member].balance + row.amount < 0)
  BY DEF Outcome
<1>2. ASSUME Outcome(row) = "replayed", row.key # NoKey PROVE InLog(log, row)
  <2> DEFINE R == Rows(row.key)
             first == CHOOSE i \in R : \A j \in R : i <= j
  <2>1. R # {} /\ log[first].member = row.member /\ Net(log[first]) = row.amount
    BY <1>2 DEF Outcome, Previous
  <2>2. R \in SUBSET Nat
    <3>1. DOMAIN log = 1..Len(log) /\ Len(log) \in Nat
      BY LenProperties DEF TypeOK
    <3> QED BY <3>1 DEF Rows
  <2> HIDE DEF R
  <2>3. \E i \in R : \A j \in R : i <= j
    BY <2>1, <2>2, Smallest
  <2>4. first \in R
    BY <2>3
  <2> HIDE DEF first
  <2> QED BY <1>2, <2>1, <2>4 DEF InLog, R, Rows
<1> QED BY <1>1, <1>2

LEMMA FileRows ==
  ASSUME NEW b \in Batches, NEW n \in Nat, 1 <= n, n <= Len(File[b])
  PROVE  Len(File[b]) \in Nat /\ DOMAIN File[b] = 1..Len(File[b]) /\ File[b][n] \in Row
<1>1. File[b] \in Seq(Row)
  BY FileAssumption
<1>2. Len(File[b]) \in Nat /\ DOMAIN File[b] = 1..Len(File[b])
  BY <1>1, LenProperties
<1> QED BY <1>1, <1>2, ElementOfSeq

LEMMA BeginsKeep ==
  ASSUME IndInv, NEW w \in Workers,
         \/ \E row \in Row : AdjustBegin(w, row)
         \/ \E m \in Members : OrderBegin(w, m)
         \/ ImportRowBegin(w)
  PROVE  IndInv'
<1>1. TypeOK /\ job[w] \in Job
  BY DEF IndInv, TypeOK
<1>2. ASSUME NEW row \in Row, AdjustBegin(w, row) PROVE IndInv'
  <2> DEFINE move == Adjusted(row)
  <2>1. /\ Open(w, move) /\ UNCHANGED <<member, log, batch, job, raced, lost>>
        /\ job[w].batch = NoBatch /\ Outcome(row) = "new"
    BY <1>2 DEF AdjustBegin, NoJob
  <2>2. /\ move \in Move /\ Net(move) = row.amount /\ row.amount \in Int
        /\ move.member = row.member /\ move.key = row.key /\ row.member \in Members
    BY AdjustedFacts, PointsAssumption DEF Row
  <2>3. Rows(row.key) = {} /\ ~(member[row.member].balance + row.amount < 0)
    BY <1>1, <2>1, OutcomeFacts
  <2>4. member[row.member].balance \in Nat
    BY <1>1, <2>2 DEF TypeOK
  <2>5. member[row.member].balance + row.amount >= 0
    BY <2>2, <2>3, <2>4
  <2> HIDE DEF move
  <2> QED BY <2>1, <2>2, <2>3, <2>5, OpenKeeps
<1>4. ASSUME NEW m \in Members, OrderBegin(w, m) PROVE IndInv'
  <2>1. PICK move \in OrderPaid(m) \union OrderRefunded(m) : Open(w, move)
    BY <1>4 DEF OrderBegin
  <2>2. UNCHANGED <<member, log, batch, job, raced, lost>> /\ job[w].batch = NoBatch
    BY <1>4 DEF OrderBegin, NoJob
  <2>3. member[m].balance \in Nat
    BY <1>1 DEF TypeOK
  <2>4. /\ move \in Move /\ move.member = m /\ move.key = NoKey
        /\ member[m].balance + Net(move) >= 0
    <3>1. CASE move \in OrderPaid(m)
      <4>1. PICK earn \in OrderPoints, used \in OrderPoints :
              /\ used <= member[m].balance
              /\ move = [member |-> m, key |-> NoKey, earn |-> earn, used |-> used, back |-> 0]
        BY <3>1 DEF OrderPaid
      <4>2. earn \in Nat /\ used \in Nat
        BY PointsAssumption
      <4>3. move \in Move
        BY <4>1, <4>2 DEF Move
      <4>4. move.member = m /\ move.key = NoKey /\ Net(move) = earn - used - 0
        BY <4>1 DEF Net
      <4> QED BY <2>3, <4>1, <4>2, <4>3, <4>4
    <3>2. CASE move \in OrderRefunded(m)
      <4>1. PICK n \in OrderPoints :
              /\ n <= member[m].balance
              /\ move = [member |-> m, key |-> NoKey, earn |-> 0, used |-> 0, back |-> n]
        BY <3>2 DEF OrderRefunded
      <4>2. n \in Nat
        BY PointsAssumption
      <4>3. move \in Move
        BY <4>1, <4>2 DEF Move
      <4>4. move.member = m /\ move.key = NoKey /\ Net(move) = 0 - 0 - n
        BY <4>1 DEF Net
      <4> QED BY <2>3, <4>1, <4>2, <4>3, <4>4
    <3> QED BY <2>1, <3>1, <3>2
  <2> QED BY <2>1, <2>2, <2>4, OpenKeeps
<1>3. ASSUME ImportRowBegin(w) PROVE IndInv'
  <2> DEFINE row == File[job[w].batch][job[w].next]
             move == Adjusted(row)
  <2>1. /\ Open(w, move) /\ UNCHANGED <<member, log, batch, job, raced, lost>>
        /\ Outcome(row) = "new" /\ row.key # NoKey
        /\ job[w].batch # NoBatch /\ job[w].next <= Len(File[job[w].batch])
    BY <1>3 DEF ImportRowBegin, AtRow, NextRow
  <2>2. row \in Row
    <3>1. job[w].batch \in Batches /\ job[w].next \in Nat /\ 1 <= job[w].next
      <4>1. JobFacts(job[w], tx[w], log)
        BY DEF IndInv
      <4> QED BY <1>1, <2>1, <4>1 DEF Job, JobFacts
    <3> QED BY <2>1, <3>1, FileRows
  <2>3. Rows(row.key) = {} /\ ~(member[row.member].balance + row.amount < 0)
    BY <1>1, <2>1, OutcomeFacts
  <2>4. member[row.member].balance \in Nat /\ row.amount \in Int
    BY <1>1, <2>2, PointsAssumption DEF TypeOK, Row
  <2>5. job[w].batch # NoBatch =>
          /\ job[w].next <= Len(File[job[w].batch])
          /\ move = Adjusted(File[job[w].batch][job[w].next])
          /\ File[job[w].batch][job[w].next].key # NoKey
    BY <2>1
  <2> HIDE DEF row
  <2>6. /\ move \in Move /\ Net(move) = row.amount
        /\ move.member = row.member /\ move.key = row.key
    BY <2>2, AdjustedFacts
  <2>7. member[row.member].balance + row.amount >= 0
    BY <2>3, <2>4
  <2> HIDE DEF move
  <2>8. /\ member[move.member].balance + Net(move) >= 0
        /\ move.key = NoKey \/ Rows(move.key) = {}
    BY <2>3, <2>6, <2>7
  <2> QED BY <2>1, <2>5, <2>6, <2>8, OpenKeeps
<1> QED BY <1>2, <1>3, <1>4

-----------------------------------------------------------------------------
(* A transaction is committed.                                             *)

(* What a commit writes.                                                   *)
LEMMA Written ==
  ASSUME IndInv, NEW w \in Workers, tx[w].open
  PROVE  LET t == tx[w]
             v == t.move
             m == v.member
             new == Moved(t.old, member[m], v)
         IN /\ m \in Members /\ t.old \in Columns /\ new \in Columns
            /\ v.earn \in Nat /\ v.used \in Nat /\ v.back \in Nat
            /\ Net(v) = v.earn - v.used - v.back
            /\ Logged(t) \in LogRow
            /\ Logged(t).member = m /\ Logged(t).key = v.key
            /\ Logged(t).earn = v.earn /\ Logged(t).used = v.used /\ Logged(t).back = v.back
            /\ Net(Logged(t)) = Net(v) /\ Logged(t).after = t.old.balance + Net(v)
            /\ new.balance = IF Net(v) = 0 THEN member[m].balance ELSE t.old.balance + Net(v)
            /\ t.old = member[m] => /\ new.balance = member[m].balance + Net(v)
                                    /\ new.earn = member[m].earn + v.earn
                                    /\ new.used = member[m].used + v.used
<1> DEFINE t == tx[w]
           v == t.move
           m == v.member
           new == Moved(t.old, member[m], v)
           e == Logged(t)
<1>1. v \in Move /\ t.old \in Columns /\ t.old.balance + Net(v) >= 0
  BY DEF IndInv, TxFacts
<1>2. /\ m \in Members /\ v.key \in Keys \union {NoKey}
      /\ v.earn \in Nat /\ v.used \in Nat /\ v.back \in Nat
      /\ Net(v) = v.earn - v.used - v.back /\ Net(v) \in Int
  BY <1>1 DEF Move, Net
<1>3. member[m] \in Columns
  BY <1>2 DEF IndInv, TypeOK, Columns
<1>4. /\ e.member = m /\ e.key = v.key /\ e.earn = v.earn /\ e.used = v.used
      /\ e.back = v.back /\ e.after = t.old.balance + Net(v)
  BY DEF Logged
<1>5. e \in LogRow
  <2>1. t.old.balance + Net(v) \in Int
    BY <1>1, <1>2 DEF Columns
  <2> HIDE DEF t, v
  <2>2. e = [member |-> m, key |-> v.key, earn |-> v.earn, used |-> v.used, back |-> v.back,
             after |-> t.old.balance + Net(v)]
    BY DEF Logged, v
  <2> QED BY <1>2, <2>1, <2>2 DEF LogRow
<1>6. Net(e) = Net(v)
  BY <1>4 DEF Net
<1>7. /\ new.balance = IF Net(v) = 0 THEN member[m].balance ELSE t.old.balance + Net(v)
      /\ new.earn = IF v.earn = 0 THEN member[m].earn ELSE t.old.earn + v.earn
      /\ new.used = IF v.used = 0 THEN member[m].used ELSE t.old.used + v.used
      /\ new = [balance |-> new.balance, earn |-> new.earn, used |-> new.used]
  BY DEF Moved
<1>8. /\ t.old.balance \in Nat /\ t.old.earn \in Nat /\ t.old.used \in Nat
      /\ member[m].balance \in Nat /\ member[m].earn \in Nat /\ member[m].used \in Nat
  BY <1>1, <1>3 DEF Columns
<1> HIDE DEF new, e, m, v, t
<1>9. new \in Columns
  <2>1. new.balance \in Nat /\ new.earn \in Nat /\ new.used \in Nat
    BY <1>1, <1>2, <1>7, <1>8
  <2> QED BY <1>7, <2>1 DEF Columns
<1>10. t.old = member[m] => /\ new.balance = member[m].balance + Net(v)
                           /\ new.earn = member[m].earn + v.earn
                           /\ new.used = member[m].used + v.used
  BY <1>2, <1>7, <1>8
<1> QED BY <1>1, <1>2, <1>4, <1>5, <1>6, <1>7, <1>9, <1>10 DEF new, e, m, v, t

LEMMA WriteJobs ==
  ASSUME IndInv, NEW w \in Workers, Write(w),
         NEW j \in {Succeeded(job[w]), Failed(job[w])}, job' = Counted(w, j)
  PROVE  /\ job' \in [Workers -> Job]
         /\ \A v \in Workers : TxFacts(tx[v])' /\ JobFacts(job[v], tx[v], log)'
<1> DEFINE t == tx[w]
           e == Logged(t)
<1>1. TypeOK /\ t.open /\ job[w] \in Job /\ JobFacts(job[w], t, log)
  BY DEF IndInv, TypeOK, Write
<1>2. /\ e \in LogRow /\ e.member = t.move.member /\ Net(e) = Net(t.move)
      /\ e.key = t.move.key
  BY <1>1, Written
<1>3. log' = Append(log, e) /\ tx' = [tx EXCEPT ![w] = Closed]
  BY DEF Write
<1>4. /\ tx'[w] = Closed
      /\ \A v \in Workers : v # w => tx'[v] = tx[v]
  BY <1>1, <1>3 DEF TypeOK
<1>5. ASSUME NEW row \in Row, row.key # NoKey, t.move = Adjusted(row)
      PROVE  InLog(log', row)
  <2>1. Len(log) + 1 \in DOMAIN log' /\ log'[Len(log) + 1] = e
    BY <1>1, <1>2, <1>3, Grown
  <2>2. e.member = row.member /\ Net(e) = row.amount /\ e.key = row.key
    BY <1>2, <1>5, AdjustedFacts
  <2> HIDE DEF t, e
  <2> QED BY <1>5, <2>1, <2>2 DEF InLog
<1> HIDE DEF e
<1>6. Longer
  BY <1>2, <1>3 DEF Longer
<1>7. j \in Job
  <2>1. Succeeded(job[w]) \in Job /\ Failed(job[w]) \in Job
    BY <1>1, CountTypes
  <2> QED BY <2>1
<1>8. /\ job' \in [Workers -> Job] /\ \A v \in Workers : v # w => job'[v] = job[v]
      /\ job'[w] = IF job[w].batch = NoBatch THEN job[w] ELSE j
  BY <1>1, <1>7 DEF Counted, TypeOK
<1>9. \A v \in Workers : TxFacts(tx[v])'
  BY <1>4, ClosedFacts DEF IndInv, TxFacts
<1>10. ASSUME NEW v \in Workers, v # w PROVE JobFacts(job[v], tx[v], log)'
  <2>1. JobFacts(job[v], tx[v], log) /\ job[v] \in Job
    BY <1>1 DEF IndInv, TypeOK
  <2>2. JobFacts(job[v], tx[v], log')
    BY <1>1, <1>6, <2>1, JobStays
  <2> QED BY <1>4, <1>8, <1>10, <2>2
<1>11. JobFacts(job[w], tx[w], log)'
  <2>1. CASE job[w].batch = NoBatch
    BY <1>8, <2>1 DEF JobFacts
  <2>2. CASE job[w].batch # NoBatch
    <3> DEFINE row == File[job[w].batch][job[w].next]
    <3>1. job[w].next <= Len(File[job[w].batch]) /\ t.move = Adjusted(row) /\ row.key # NoKey
      BY <1>1, <2>2 DEF JobFacts
    <3>2. row \in Row
      <4>1. job[w].batch \in Batches /\ job[w].next \in Nat /\ 1 <= job[w].next
        BY <1>1, <2>2 DEF Job, JobFacts
      <4> QED BY <3>1, <4>1, FileRows
    <3> HIDE DEF row
    <3>3. InLog(log', row)
      BY <1>5, <3>1, <3>2
    <3>4. /\ JobFacts(Failed(job[w]), Closed, log')
          /\ JobFacts(Succeeded(job[w]), Closed, log')
      BY <1>1, <1>6, <2>2, <3>1, <3>3, ClosedFacts, JobAdvances DEF row
    <3> QED BY <1>4, <1>8, <2>2, <3>4
  <2> QED BY <2>1, <2>2
<1> QED BY <1>8, <1>9, <1>10, <1>11

LEMMA WriteExplained ==
  ASSUME IndInv, NEW w \in Workers, Write(w), NEW m1 \in Members
  PROVE  Explained(m1)'
<1> DEFINE t == tx[w]
           v == t.move
           m == v.member
           new == Moved(t.old, member[m], v)
           e == Logged(t)
           len == Len(log)
<1>1. TypeOK /\ t.open /\ Explained(m1)
  BY DEF IndInv, Write
<1>2. /\ m \in Members /\ e \in LogRow /\ e.member = m
      /\ e.earn = v.earn /\ e.used = v.used /\ e.back = v.back
      /\ v.earn \in Nat /\ v.used \in Nat /\ v.back \in Nat
      /\ Net(v) = v.earn - v.used - v.back
      /\ t.old = member[m] => /\ new.balance = member[m].balance + Net(v)
                              /\ new.earn = member[m].earn + v.earn
                              /\ new.used = member[m].used + v.used
  BY <1>1, Written
<1>3. /\ member' = [member EXCEPT ![m] = new] /\ log' = Append(log, e)
      /\ raced' = IF member[m] # t.old THEN raced \union {m} ELSE raced
  BY <1>1 DEF Write, TypeOK
<1> HIDE DEF e, new
<1>4. /\ len \in Nat /\ DOMAIN log = 1..len /\ DOMAIN log' = 1..(len + 1)
      /\ log'[len + 1] = e /\ \A i \in 1..len : log'[i] = log[i]
  BY <1>1, <1>2, <1>3, Grown
<1> HIDE DEF len
<1> DEFINE earned == IF m = m1 THEN v.earn ELSE 0
           used == IF m = m1 THEN v.used ELSE 0
           back == IF m = m1 THEN v.back ELSE 0
<1>5. /\ IsFiniteSet(Pairs(Grants(m1)')) /\ Total(Grants(m1)) \in Nat
      /\ Total(Grants(m1)') = Total(Grants(m1)) + earned
  <2> DEFINE n == Grants(m1)
             q == Grants(m1)'
  <2>1. DOMAIN n = 1..len /\ DOMAIN q = 1..(len + 1)
    BY <1>4 DEF Grants
  <2>2. \A i \in 1..len : q[i] = n[i]
    BY <1>4 DEF Grants
  <2>3. q[len + 1] = earned /\ earned \in Nat
    BY <1>2, <1>4 DEF Grants
  <2>4. IsFiniteSet(Pairs(n))
    BY <1>1 DEF Explained
  <2> HIDE DEF n, q, earned
  <2>5. IsFiniteSet(Pairs(q)) /\ Total(n) \in Nat /\ Total(q) = Total(n) + q[len + 1]
    BY <1>4, <2>1, <2>2, <2>3, <2>4, TotalGrown
  <2> QED BY <2>3, <2>5 DEF n, q
<1>6. /\ IsFiniteSet(Pairs(Takes(m1)')) /\ Total(Takes(m1)) \in Nat
      /\ Total(Takes(m1)') = Total(Takes(m1)) + used
  <2> DEFINE n == Takes(m1)
             q == Takes(m1)'
  <2>1. DOMAIN n = 1..len /\ DOMAIN q = 1..(len + 1)
    BY <1>4 DEF Takes
  <2>2. \A i \in 1..len : q[i] = n[i]
    BY <1>4 DEF Takes
  <2>3. q[len + 1] = used /\ used \in Nat
    BY <1>2, <1>4 DEF Takes
  <2>4. IsFiniteSet(Pairs(n))
    BY <1>1 DEF Explained
  <2> HIDE DEF n, q, used
  <2>5. IsFiniteSet(Pairs(q)) /\ Total(n) \in Nat /\ Total(q) = Total(n) + q[len + 1]
    BY <1>4, <2>1, <2>2, <2>3, <2>4, TotalGrown
  <2> QED BY <2>3, <2>5 DEF n, q
<1>7. /\ IsFiniteSet(Pairs(Backs(m1)')) /\ Total(Backs(m1)) \in Nat
      /\ Total(Backs(m1)') = Total(Backs(m1)) + back
  <2> DEFINE n == Backs(m1)
             q == Backs(m1)'
  <2>1. DOMAIN n = 1..len /\ DOMAIN q = 1..(len + 1)
    BY <1>4 DEF Backs
  <2>2. \A i \in 1..len : q[i] = n[i]
    BY <1>4 DEF Backs
  <2>3. q[len + 1] = back /\ back \in Nat
    BY <1>2, <1>4 DEF Backs
  <2>4. IsFiniteSet(Pairs(n))
    BY <1>1 DEF Explained
  <2> HIDE DEF n, q, back
  <2>5. IsFiniteSet(Pairs(q)) /\ Total(n) \in Nat /\ Total(q) = Total(n) + q[len + 1]
    BY <1>4, <2>1, <2>2, <2>3, <2>4, TotalGrown
  <2> QED BY <2>3, <2>5 DEF n, q
<1>8. ASSUME m1 \notin raced'
      PROVE  /\ member'[m1].balance =
                  InitialPoints + member'[m1].earn - member'[m1].used - Total(Backs(m1)')
             /\ member'[m1].earn = Total(Grants(m1)')
             /\ member'[m1].used = Total(Takes(m1)')
  <2>1. /\ member[m1].balance =
             InitialPoints + member[m1].earn - member[m1].used - Total(Backs(m1))
        /\ member[m1].earn = Total(Grants(m1))
        /\ member[m1].used = Total(Takes(m1))
    BY <1>1, <1>3, <1>8 DEF Explained
  <2>2. CASE m # m1
    <3>1. member'[m1] = member[m1]
      BY <1>1, <1>3, <2>2 DEF TypeOK
    <3>2. earned = 0 /\ used = 0 /\ back = 0
      BY <2>2
    <3>3. /\ Total(Grants(m1)') = Total(Grants(m1)) /\ Total(Takes(m1)') = Total(Takes(m1))
          /\ Total(Backs(m1)') = Total(Backs(m1))
      BY <1>5, <1>6, <1>7, <3>2
    <3> QED BY <2>1, <3>1, <3>3
  <2>3. CASE m = m1
    <3>1. member'[m1] = new /\ t.old = member[m1]
      BY <1>1, <1>3, <1>8, <2>3 DEF TypeOK
    <3>2. earned = v.earn /\ used = v.used /\ back = v.back
      BY <2>3
    <3>3. /\ new.earn = member[m1].earn + v.earn /\ new.used = member[m1].used + v.used
          /\ new.balance = member[m1].balance + Net(v)
      BY <1>2, <2>3, <3>1
    <3>4. /\ member[m1].balance \in Nat /\ member[m1].earn \in Nat /\ member[m1].used \in Nat
          /\ InitialPoints \in Nat
      BY <1>1, PointsAssumption DEF TypeOK
    <3>5. Total(Backs(m1)') = Total(Backs(m1)) + v.back
      BY <1>7, <3>2
    <3>6. new.balance = InitialPoints + new.earn - new.used - Total(Backs(m1)')
      <4> HIDE DEF v, m, t
      <4> QED BY <1>2, <1>7, <2>1, <3>3, <3>4, <3>5
    <3> QED BY <1>5, <1>6, <2>1, <3>1, <3>2, <3>3, <3>6
  <2> QED BY <2>2, <2>3
<1>9. ASSUME NEW n \in {Grants(m1), Takes(m1), Backs(m1)}' PROVE IsFiniteSet(Pairs(n))
  BY <1>5, <1>6, <1>7, <1>9
<1>10. /\ Pairs(Grants(m1))' = Pairs(Grants(m1)') /\ Pairs(Takes(m1))' = Pairs(Takes(m1)')
       /\ Pairs(Backs(m1))' = Pairs(Backs(m1)')
       /\ Total(Grants(m1))' = Total(Grants(m1)') /\ Total(Takes(m1))' = Total(Takes(m1)')
       /\ Total(Backs(m1))' = Total(Backs(m1)')
  BY DEF Pairs, Total
<1> QED BY <1>5, <1>6, <1>7, <1>8, <1>9, <1>10 DEF Explained

LEMMA WriteKeeps ==
  ASSUME IndInv, NEW w \in Workers, Write(w),
         NEW j \in {Succeeded(job[w]), Failed(job[w])}, job' = Counted(w, j)
  PROVE  IndInv'
<1> DEFINE t == tx[w]
           m == t.move.member
           new == Moved(t.old, member[m], t.move)
           e == Logged(t)
           len == Len(log)
<1>1. TypeOK /\ t.open
  BY DEF IndInv, Write
<1>2. /\ m \in Members /\ e \in LogRow /\ e.member = m /\ e.key = t.move.key
      /\ Net(e) = Net(t.move) /\ e.after = t.old.balance + Net(e) /\ new \in Columns
      /\ new.balance = IF Net(e) = 0 THEN member[m].balance ELSE e.after
      /\ t.old = member[m] => new.balance = e.after
  BY <1>1, Written
<1>3. /\ member' = [member EXCEPT ![m] = new] /\ log' = Append(log, e)
      /\ raced' = IF member[m] # t.old THEN raced \union {m} ELSE raced
      /\ tx' = [tx EXCEPT ![w] = Closed] /\ UNCHANGED <<batch, doubled, lost>>
  BY <1>1 DEF Write, TypeOK
<1> HIDE DEF e, new
<1>4. /\ job' \in [Workers -> Job]
      /\ \A v \in Workers : TxFacts(tx[v])' /\ JobFacts(job[v], tx[v], log)'
  BY WriteJobs
<1>5. /\ len \in Nat /\ DOMAIN log = 1..len /\ DOMAIN log' = 1..(len + 1)
      /\ log' \in Seq(LogRow)
      /\ log'[len + 1] = e /\ \A i \in 1..len : log'[i] = log[i]
  BY <1>1, <1>2, <1>3, Grown
<1> HIDE DEF len
<1>6. TypeOK'
  <2>1. member' \in [Members -> [balance: Nat, earn: Nat, used: Nat]]
    BY <1>1, <1>2, <1>3 DEF TypeOK, Columns
  <2>2. tx' \in [Workers -> Adjustment]
    BY <1>1, <1>3, ClosedFacts DEF TypeOK
  <2> QED BY <1>1, <1>2, <1>3, <1>4, <1>5, <2>1, <2>2 DEF TypeOK
<1>7. ASSUME NEW k \in Keys \ doubled' PROVE KeyFacts(k)'
  <2>1. KeyFacts(k) /\ k \in Keys
    BY <1>3, <1>7 DEF IndInv
  <2>2. Rows(k)' = Rows(k) \union (IF e.key = k THEN {len + 1} ELSE {})
    BY <1>1, <1>2, <1>3, RowsGrown DEF len
  <2>3. \A v \in Workers : tx'[v].open => v # w /\ tx'[v] = tx[v]
    BY <1>1, <1>3, ClosedFacts DEF TypeOK
  <2>4. CASE e.key = k
    <3>1. Rows(k) = {} /\ \A v \in Workers : tx[v].open /\ tx[v].move.key = k => v = w
      BY <1>1, <1>2, <2>1, <2>4 DEF KeyFacts
    <3>2. Rows(k)' = {len + 1}
      BY <2>2, <2>4, <3>1
    <3> QED BY <2>3, <3>1, <3>2 DEF KeyFacts
  <2>5. CASE e.key # k
    <3>1. Rows(k)' = Rows(k)
      BY <2>2, <2>5
    <3> QED BY <2>1, <2>3, <3>1 DEF KeyFacts
  <2> QED BY <2>4, <2>5
<1>8. ASSUME NEW b \in Batches PROVE EndFacts(b, batch[b], log)'
  <2>1. Longer
    BY <1>2, <1>3 DEF Longer
  <2>2. batch[b] \in BatchRow /\ EndFacts(b, batch[b], log)
    BY <1>1 DEF IndInv, TypeOK
  <2>3. EndFacts(b, batch[b], log')
    BY <1>1, <2>1, <2>2, EndStays
  <2> QED BY <1>3, <2>3
<1>9. \A m1 \in Members : Explained(m1)'
  BY WriteExplained
<1>10. LastRowTrue'
  <2>1. ASSUME NEW m1 \in Members
        PROVE  /\ RowsOf(m1)' = RowsOf(m1) \union (IF m = m1 THEN {len + 1} ELSE {})
               /\ MovesOf(m1)' =
                    MovesOf(m1) \union (IF m = m1 /\ Net(e) # 0 THEN {len + 1} ELSE {})
               /\ len + 1 \notin RowsOf(m1) /\ RowsOf(m1) \subseteq 1..len
               /\ MovesOf(m1) \subseteq RowsOf(m1)
    <3>1. DOMAIN log' = (1..len) \union {len + 1}
      BY <1>5
    <3>2. RowsOf(m1)' = {i \in DOMAIN log' : log'[i].member = m1}
      BY DEF RowsOf
    <3>3. MovesOf(m1)' = {i \in RowsOf(m1)' : Net(log'[i]) # 0}
      BY DEF MovesOf, Net
    <3>4. RowsOf(m1)' = RowsOf(m1) \union (IF m = m1 THEN {len + 1} ELSE {})
      BY <1>2, <1>5, <3>1, <3>2 DEF RowsOf
    <3>5. RowsOf(m1) \subseteq 1..len /\ len + 1 \notin 1..len
      BY <1>5 DEF RowsOf
    <3>6. MovesOf(m1)' = MovesOf(m1) \union (IF m = m1 /\ Net(e) # 0 THEN {len + 1} ELSE {})
      BY <1>5, <3>3, <3>4, <3>5 DEF MovesOf
    <3> QED BY <3>4, <3>5, <3>6 DEF MovesOf
  <2>2. ASSUME NEW m1 \in Members, NEW i \in MovesOf(m1)', \A h \in MovesOf(m1)' : h <= i
        PROVE  log'[i].after = member'[m1].balance
    <3>1. CASE i = len + 1
      <4>1. m = m1 /\ Net(e) # 0
        BY <2>1, <2>2, <3>1
      <4> QED BY <1>1, <1>2, <1>3, <1>5, <3>1, <4>1 DEF TypeOK
    <3>2. CASE i # len + 1
      <4>1. i \in MovesOf(m1) /\ i \in 1..len /\ log'[i] = log[i]
        BY <1>5, <2>1, <2>2, <3>2
      <4>2. ~(m = m1 /\ Net(e) # 0)
        <5>1. ~(len + 1 <= i)
          BY <1>5, <4>1
        <5> QED BY <2>1, <2>2, <5>1
      <4>3. member'[m1].balance = member[m1].balance
        BY <1>1, <1>2, <1>3, <4>2 DEF TypeOK
      <4>4. \A h \in MovesOf(m1) : h <= i
        BY <2>1, <2>2
      <4>5. log[i].after = member[m1].balance
        BY <4>1, <4>4 DEF IndInv, LastRowTrue
      <4> QED BY <4>1, <4>3, <4>5
    <3> QED BY <3>1, <3>2
  <2>3. ASSUME NEW m1 \in Members \ raced', NEW i \in RowsOf(m1)',
               \A h \in RowsOf(m1)' : h <= i
        PROVE  log'[i].after = member'[m1].balance
    <3>0. m1 \notin raced /\ (m = m1 => t.old = member[m])
      BY <1>3, <2>3
    <3>1. CASE i = len + 1
      <4>1. m = m1
        BY <2>1, <2>3, <3>1
      <4> QED BY <1>1, <1>2, <1>3, <1>5, <3>0, <3>1, <4>1 DEF TypeOK
    <3>2. CASE i # len + 1
      <4>1. i \in RowsOf(m1) /\ i \in 1..len /\ log'[i] = log[i]
        BY <1>5, <2>1, <2>3, <3>2
      <4>2. m # m1
        <5>1. ~(len + 1 <= i)
          BY <1>5, <4>1
        <5> QED BY <2>1, <2>3, <5>1
      <4>3. member'[m1] = member[m1]
        BY <1>1, <1>3, <4>2 DEF TypeOK
      <4>4. \A h \in RowsOf(m1) : h <= i
        BY <2>1, <2>3
      <4>5. log[i].after = member[m1].balance
        BY <3>0, <4>1, <4>4 DEF IndInv, LastRowTrue
      <4> QED BY <4>1, <4>3, <4>5
    <3> QED BY <3>1, <3>2
  <2> QED BY <2>2, <2>3 DEF LastRowTrue
<1> QED BY <1>4, <1>6, <1>7, <1>8, <1>9, <1>10 DEF IndInv

-----------------------------------------------------------------------------
(* Steps that leave the points alone.                                      *)
LEMMA QuietKeeps ==
  ASSUME IndInv, UNCHANGED <<member, log, raced, doubled>>,
         tx' \in [Workers -> Adjustment], job' \in [Workers -> Job],
         batch' \in [Batches -> BatchRow], lost' \subseteq Batches,
         \A v \in Workers : tx'[v] = tx[v] \/ tx'[v] = Closed,
         \A v \in Workers : JobFacts(job'[v], tx'[v], log),
         \A b \in Batches : EndFacts(b, batch'[b], log)
  PROVE  IndInv'
<1>1. TypeOK'
  BY DEF IndInv, TypeOK
<1>2. \A v \in Workers : TxFacts(tx[v])' /\ JobFacts(job[v], tx[v], log)'
  BY ClosedFacts DEF IndInv
<1>3. ASSUME NEW k \in Keys \ doubled' PROVE KeyFacts(k)'
  <2>1. KeyFacts(k) /\ Rows(k)' = Rows(k)
    BY <1>3 DEF IndInv, Rows
  <2>2. \A v \in Workers : tx'[v].open => tx'[v] = tx[v]
    BY ClosedFacts
  <2> QED BY <2>1, <2>2 DEF KeyFacts
<1>4. \A b \in Batches : EndFacts(b, batch[b], log)'
  OBVIOUS
<1>5. \A m \in Members : Explained(m)'
  BY DEF IndInv, Explained, Grants, Takes, Backs
<1>6. LastRowTrue'
  BY DEF IndInv, LastRowTrue, RowsOf, MovesOf
<1> QED BY <1>1, <1>2, <1>3, <1>4, <1>5, <1>6 DEF IndInv

(* Only the job of one worker changes, and perhaps its transaction ends.   *)
LEMMA JobKeeps ==
  ASSUME IndInv, NEW w \in Workers, NEW j \in Job, NEW t \in {tx[w], Closed},
         JobFacts(j, t, log),
         tx' = [tx EXCEPT ![w] = t], job' = [job EXCEPT ![w] = j],
         batch' \in [Batches -> BatchRow], lost' \subseteq Batches,
         \A b \in Batches : EndFacts(b, batch'[b], log),
         UNCHANGED <<member, log, raced, doubled>>
  PROVE  IndInv'
<1>1. /\ tx \in [Workers -> Adjustment] /\ job \in [Workers -> Job]
      /\ \A v \in Workers : JobFacts(job[v], tx[v], log)
  BY DEF IndInv, TypeOK
<1>2. /\ tx' \in [Workers -> Adjustment] /\ tx'[w] = t
      /\ \A v \in Workers : v # w => tx'[v] = tx[v]
  BY <1>1, ClosedFacts
<1>3. /\ job' \in [Workers -> Job] /\ job'[w] = j
      /\ \A v \in Workers : v # w => job'[v] = job[v]
  BY <1>1
<1>4. \A v \in Workers : JobFacts(job'[v], tx'[v], log)
  BY <1>1, <1>2, <1>3
<1>5. \A v \in Workers : tx'[v] = tx[v] \/ tx'[v] = Closed
  BY <1>2
<1> QED BY <1>2, <1>3, <1>4, <1>5, QuietKeeps

(* What the lemmas above need of the state before.                         *)
LEMMA JobBefore ==
  ASSUME IndInv, NEW w \in Workers
  PROVE  /\ TypeOK /\ job[w] \in Job /\ JobFacts(job[w], tx[w], log)
         /\ tx = [tx EXCEPT ![w] = tx[w]] /\ job = [job EXCEPT ![w] = job[w]]
         /\ batch \in [Batches -> BatchRow] /\ lost \subseteq Batches
         /\ \A b \in Batches : EndFacts(b, batch[b], log)
         /\ NoJob \in Job /\ \A t : JobFacts(NoJob, t, log)
<1>1. NoJob \in Job /\ NoJob.batch = NoBatch
  BY DEF NoJob, Job
<1> QED BY <1>1 DEF IndInv, TypeOK, JobFacts

LEMMA ImportBeginKeeps ==
  ASSUME IndInv, NEW w \in Workers, NEW b \in Batches, ImportBegin(w, b)
  PROVE  IndInv'
<1> DEFINE j == [NoJob EXCEPT !.batch = b]
           row == [batch[b] EXCEPT !.status = "PROCESSING"]
<1>1. /\ job[w] = NoJob /\ ~tx[w].open /\ batch' = [batch EXCEPT ![b] = row]
      /\ job' = [job EXCEPT ![w] = j] /\ UNCHANGED <<member, log, tx, raced, doubled, lost>>
  BY JobBefore DEF ImportBegin, TypeOK
<1>2. j \in Job /\ j.batch = b /\ j.next = 1 /\ j.success = 0 /\ j.fail = 0
  BY DEF Job, NoJob
<1>3. row \in BatchRow /\ row.status = "PROCESSING"
  BY JobBefore DEF BatchRow
<1> HIDE DEF j, row
<1>4. JobFacts(j, tx[w], log)
  <2>1. Len(File[b]) \in Nat
    BY FileAssumption, LenProperties
  <2>2. Done(log, b, 0) = {}
    BY DEF Done
  <2>3. Cardinality(Done(log, b, 0)) = 0
    BY <2>2, FS_EmptySet
  <2>4. j.next - 1 = 0
    BY <1>2
  <2> QED BY <1>1, <1>2, <2>1, <2>3, <2>4 DEF JobFacts
<1>5. /\ batch' \in [Batches -> BatchRow] /\ \A c \in Batches : EndFacts(c, batch'[c], log)
  BY <1>1, <1>3, JobBefore DEF EndFacts
<1>6. tx' = [tx EXCEPT ![w] = tx[w]] /\ lost' \subseteq Batches
  BY <1>1, JobBefore
<1> QED BY <1>1, <1>2, <1>4, <1>5, <1>6, JobKeeps

LEMMA ImportAnsweredKeeps ==
  ASSUME IndInv, NEW w \in Workers, ImportRowAnswered(w)
  PROVE  IndInv'
<1> DEFINE row == File[job[w].batch][job[w].next]
           j == IF Counts(row) THEN Succeeded(job[w]) ELSE Failed(job[w])
<1>1. /\ job[w].batch # NoBatch /\ ~tx[w].open /\ job[w].next <= Len(File[job[w].batch])
      /\ job' = [job EXCEPT ![w] = j]
      /\ UNCHANGED <<member, log, tx, batch, raced, doubled, lost>>
  BY JobBefore DEF ImportRowAnswered, AtRow, NextRow, TypeOK
<1>2. Longer /\ log' = log
  BY <1>1 DEF Longer
<1>3. Counts(row) => InLog(log', row)
  BY <1>2, JobBefore, OutcomeFacts DEF Counts
<1>4. /\ JobFacts(Failed(job[w]), tx[w], log')
      /\ InLog(log', row) => JobFacts(Succeeded(job[w]), tx[w], log')
  BY <1>1, <1>2, JobBefore, JobAdvances
<1>5. j \in Job /\ JobFacts(j, tx[w], log)
  BY <1>2, <1>3, <1>4, JobBefore, CountTypes
<1> HIDE DEF j
<1>6. /\ tx' = [tx EXCEPT ![w] = tx[w]] /\ lost' \subseteq Batches
      /\ batch' \in [Batches -> BatchRow] /\ \A b \in Batches : EndFacts(b, batch'[b], log)
  BY <1>1, JobBefore
<1> QED BY <1>1, <1>5, <1>6, JobKeeps

LEMMA ImportEndKeeps ==
  ASSUME IndInv, NEW w \in Workers, ImportEnd(w)
  PROVE  IndInv'
<1> DEFINE b == job[w].batch
           row == Completed(job[w])
<1>1. /\ b # NoBatch /\ job[w].next > Len(File[b]) /\ batch' = [batch EXCEPT ![b] = row]
      /\ job' = [job EXCEPT ![w] = NoJob]
      /\ UNCHANGED <<member, log, tx, raced, doubled, lost>>
  BY DEF ImportEnd
<1>2. /\ b \in Batches /\ job[w].next \in Nat /\ job[w].success \in Nat /\ job[w].fail \in Nat
  BY <1>1, JobBefore DEF Job
<1>3. Len(File[b]) \in Nat
  <2>1. File[b] \in Seq(Row)
    BY <1>2, FileAssumption
  <2> QED BY <2>1, LenProperties
<1>4. /\ job[w].next <= Len(File[b]) + 1 /\ job[w].success + job[w].fail = job[w].next - 1
      /\ job[w].success <= Cardinality(Done(log, b, job[w].next - 1))
  BY <1>1, JobBefore DEF JobFacts
<1>5. job[w].next - 1 = Len(File[b])
  BY <1>1, <1>2, <1>3, <1>4
<1>6. /\ row \in BatchRow /\ row.success = job[w].success /\ row.fail = job[w].fail
  BY <1>2 DEF Completed, BatchRow
<1>7. EndFacts(b, row, log)
  BY <1>4, <1>5, <1>6 DEF EndFacts
<1> HIDE DEF row
<1>8. /\ batch' \in [Batches -> BatchRow] /\ \A c \in Batches : EndFacts(c, batch'[c], log)
  BY <1>1, <1>2, <1>6, <1>7, JobBefore
<1>9. tx' = [tx EXCEPT ![w] = tx[w]] /\ lost' \subseteq Batches
  BY <1>1, JobBefore
<1> QED BY <1>1, <1>8, <1>9, JobBefore, JobKeeps

LEMMA EndsKeep ==
  ASSUME IndInv, NEW w \in Workers, Rollback(w) \/ Crash(w)
  PROVE  IndInv'
<1> DEFINE j == IF Crash(w) THEN NoJob
                ELSE IF job[w].batch = NoBatch THEN job[w] ELSE Failed(job[w])
<1>1. /\ tx' = [tx EXCEPT ![w] = Closed] /\ job' = [job EXCEPT ![w] = j]
      /\ UNCHANGED <<member, log, batch, raced, doubled>>
  BY JobBefore DEF Rollback, Crash, Counted
<1>2. lost' \subseteq Batches
  BY JobBefore DEF Rollback, Crash, Job
<1>3. j \in Job /\ JobFacts(j, Closed, log)
  <2>1. CASE Crash(w)
    BY <2>1, JobBefore
  <2>2. CASE ~Crash(w) /\ job[w].batch = NoBatch
    BY <2>2, JobBefore DEF JobFacts
  <2>3. CASE ~Crash(w) /\ job[w].batch # NoBatch
    <3>1. tx[w].open /\ job[w].next <= Len(File[job[w].batch])
      BY <2>3, JobBefore DEF Rollback, JobFacts
    <3>2. Longer /\ log' = log
      BY <1>1 DEF Longer
    <3>3. JobFacts(Failed(job[w]), Closed, log')
      BY <2>3, <3>1, <3>2, JobBefore, JobAdvances, ClosedFacts
    <3> QED BY <2>3, <3>2, <3>3, JobBefore, CountTypes
  <2> QED BY <2>1, <2>2, <2>3
<1> HIDE DEF j
<1>4. batch' \in [Batches -> BatchRow] /\ \A b \in Batches : EndFacts(b, batch'[b], log)
  BY <1>1, JobBefore
<1> QED BY <1>1, <1>2, <1>3, <1>4, JobKeeps

-----------------------------------------------------------------------------
LEMMA InitKeeps == Init => IndInv
<1> SUFFICES ASSUME Init PROVE IndInv
  OBVIOUS
<1>1. log = <<>> /\ DOMAIN log = {} /\ log \in Seq(LogRow)
  BY EmptySeq DEF Init
<1>2. TypeOK
  BY <1>1, ClosedFacts, PointsAssumption DEF Init, TypeOK, NoJob, Job, BatchRow
<1>3. \A w \in Workers : TxFacts(tx[w]) /\ JobFacts(job[w], tx[w], log)
  BY ClosedFacts DEF Init, JobFacts, NoJob
<1>4. \A k : Rows(k) = {}
  BY <1>1 DEF Rows
<1>5. \A k \in Keys \ doubled : KeyFacts(k)
  BY <1>4, ClosedFacts DEF Init, KeyFacts
<1>6. \A b \in Batches : EndFacts(b, batch[b], log)
  BY DEF Init, EndFacts
<1>7. ASSUME NEW m \in Members PROVE Explained(m)
  <2>1. Pairs(Grants(m)) = {} /\ Pairs(Takes(m)) = {} /\ Pairs(Backs(m)) = {}
    BY <1>1 DEF Pairs, Grants, Takes, Backs
  <2>2. Total(Grants(m)) = 0 /\ Total(Takes(m)) = 0 /\ Total(Backs(m)) = 0
    BY <2>1, FS_EmptySet DEF Total
  <2>3. member[m] = [balance |-> InitialPoints, earn |-> 0, used |-> 0] /\ InitialPoints \in Nat
    BY PointsAssumption DEF Init
  <2>4. member[m].balance = InitialPoints + member[m].earn - member[m].used - 0
    BY <2>3
  <2>5. \A n \in {Grants(m), Takes(m), Backs(m)} : IsFiniteSet(Pairs(n))
    BY <2>1, FS_EmptySet
  <2> QED BY <2>2, <2>3, <2>4, <2>5 DEF Explained
<1>8. LastRowTrue
  BY <1>1 DEF LastRowTrue, RowsOf, MovesOf
<1> QED BY <1>2, <1>3, <1>5, <1>6, <1>7, <1>8 DEF IndInv

LEMMA NextKeeps == IndInv /\ [Next]_vars => IndInv'
<1> SUFFICES ASSUME IndInv, [Next]_vars PROVE IndInv'
  OBVIOUS
<1>1. CASE UNCHANGED vars
  BY <1>1 DEF vars, IndInv, TypeOK, KeyFacts, Rows, Explained, Grants, Takes, Backs,
             LastRowTrue, RowsOf, MovesOf
<1>2. ASSUME NEW w \in Workers, Commit(w) \/ CommitUnheard(w) PROVE IndInv'
  BY <1>2, WriteKeeps DEF Commit, CommitUnheard
<1> QED BY <1>1, <1>2, BeginsKeep, ImportBeginKeeps, ImportAnsweredKeeps, ImportEndKeeps,
           EndsKeep DEF Next, ImportStep

LEMMA IndInvHolds == Spec => []IndInv
BY InitKeeps, NextKeeps, PTL DEF Spec

(* Every variable keeps its type: no balance falls below zero, whatever    *)
(* adjustments, imports and orders overlap.                                *)
THEOREM TypeCorrect == Spec => []TypeOK
<1>1. IndInv => TypeOK
  BY DEF IndInv
<1> QED BY <1>1, IndInvHolds, PTL

(* An adjustment is applied once, unless two calls with its key overlapped.*)
THEOREM AppliedOnceHolds == Spec => []AppliedOnce
<1>1. ASSUME IndInv, NEW k \in Keys \ doubled PROVE Cardinality(Rows(k)) <= 1
  <2>1. \A i, j \in Rows(k) : i = j
    BY <1>1 DEF IndInv, KeyFacts
  <2>2. CASE Rows(k) = {}
    <3>1. Cardinality(Rows(k)) = 0
      BY <2>2, FS_EmptySet
    <3> QED BY <3>1
  <2>3. CASE Rows(k) # {}
    <3>1. PICK i : Rows(k) = {i}
      BY <2>1, <2>3
    <3>2. Cardinality(Rows(k)) = 1
      BY <3>1, FS_Singleton
    <3> QED BY <3>2
  <2> QED BY <2>2, <2>3
<1>2. IndInv => AppliedOnce
  BY <1>1 DEF AppliedOnce
<1> QED BY <1>2, IndInvHolds, PTL

(* The log explains the columns of a member whose transactions have not    *)
(* overlapped; what refunds took back is in the balance alone.             *)
THEOREM LogExplainsHolds == Spec => []LogExplains
<1>1. IndInv => LogExplains
  BY DEF IndInv, Explained, LogExplains
<1> QED BY <1>1, IndInvHolds, PTL

(* The last row that moved a member's balance says what he has; so does his*)
(* last row of any kind if his transactions have not overlapped.           *)
THEOREM LastRowTrueHolds == Spec => []LastRowTrue
<1>1. IndInv => LastRowTrue
  BY DEF IndInv
<1> QED BY <1>1, IndInvHolds, PTL

(* A completed batch covers its file, and what it counts as a success is in*)
(* the log.                                                                *)
THEOREM BatchTrueHolds == Spec => []BatchTrue
<1>1. ASSUME IndInv, NEW b \in Batches
      PROVE  Done(log, b, Len(File[b])) =
               {i \in DOMAIN File[b] :
                  File[b][i].key # NoKey /\ \E j \in Rows(File[b][i].key) :
                    log[j].member = File[b][i].member /\ Net(log[j]) = File[b][i].amount}
  <2>1. DOMAIN File[b] = 1..Len(File[b])
    BY FileAssumption, LenProperties
  <2> QED BY <2>1 DEF Done, InLog, Rows
<1>2. IndInv => BatchTrue
  BY <1>1 DEF IndInv, EndFacts, BatchTrue
<1> QED BY <1>2, IndInvHolds, PTL
=============================================================================
