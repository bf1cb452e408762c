--------------------------- MODULE UtcMigration ---------------------------
(***************************************************************************)
(* scripts/utc_migrate.py: the tool that shifts DATETIME columns from      *)
(* local time to UTC.  A run of `apply' looks whether the table of the     *)
(* watermarks is there, reads a plan, waits for the operator's YES, writes *)
(* a backup file, and then updates the rows of the plan and the watermark  *)
(* of each column in one transaction.  The application may write to the    *)
(* tables all the while, and runs may overlap.                             *)
(***************************************************************************)
EXTENDS Integers, FiniteSets

CONSTANTS Fields,      \* the DATETIME columns: what --tables can name
          Runs,        \* one element per call of `apply'
          Offsets,     \* the values given to --hours-offset
          Start,       \* Start[f][i]: the hour that row i holds at the start
          Hours,       \* the hours that the application writes
          Ahead,       \* how many hours the local zone is ahead of UTC
          MaxRows      \* bound on the rows of a table

(* Ids is the set of the row ids that a bounded behaviour can use.         *)
Ids == 1..MaxRows

ASSUME RowAssumption  == MaxRows \in Nat
ASSUME HourAssumption == Hours \subseteq Int /\ Offsets \subseteq Int /\ Ahead \in Int
ASSUME StartAssumption ==
  \A f \in Fields : DOMAIN Start[f] \subseteq Ids /\ \A i \in DOMAIN Start[f] : Start[f][i] \in Int

VARIABLES
  rows,      \* rows[f]: the ids of the rows of f's table
  cell,      \* cell[f][i]: column f of row i
  flag,      \* flag[f]: the row of schema_migrate_flags
  run,       \* run[r]: what a call has in hand
  backup,    \* the records of all backup files
  mixed,     \* the columns of which a plan names a value that is UTC: when it
             \* is made, or when the application writes the planned value
  overlap    \* whether a run ever began while another was open

vars == <<rows, cell, flag, run, backup, mixed, overlap>>

(* A value, and for the properties: how far it is from UTC, how often the  *)
(* tool shifted the row, whether a shift is the last write of it, and the  *)
(* value before the shift.                                                 *)
Cell == [filled: BOOLEAN, at: Int, zone: Int, shifts: Nat, moved: BOOLEAN, was: Int]

Null == [filled |-> FALSE, at |-> 0, zone |-> 0, shifts |-> 0, moved |-> FALSE, was |-> 0]

Flag == [made: BOOLEAN, last: Nat, updated: Nat, offset: Int]

NoFlag == [made |-> FALSE, last |-> 0, updated |-> 0, offset |-> 0]

(* The rows of a plan, with the values they had.                           *)
Plan == [mark: Nat, todo: SUBSET Ids, old: [Ids -> Int]]

(* A run has found the table of the watermarks, or missed it; then it has  *)
(* its plan; then its backup.                                              *)
RunStates == {"new", "found", "missed", "planned", "saved", "over"}

Run == [state: RunStates, offset: Int, targets: SUBSET Fields, plan: [Fields -> Plan]]

NoPlan == [f \in Fields |-> [mark |-> 0, todo |-> {}, old |-> [i \in Ids |-> 0]]]

Idle(state) == [state |-> state, offset |-> 0, targets |-> {}, plan |-> NoPlan]

Backup == [run: Runs, field: Fields, id: Ids, old: Int, new: Int]

TypeOK ==
  /\ rows \in [Fields -> SUBSET Ids]
  /\ cell \in [Fields -> [Ids -> Cell]]
  /\ flag \in [Fields -> Flag]
  /\ run \in [Runs -> Run]
  /\ backup \subseteq Backup
  /\ mixed \subseteq Fields
  /\ overlap \in BOOLEAN

-----------------------------------------------------------------------------
(* The application, which writes UTC.                                      *)

HasPlan(r) == run[r].state \in {"planned", "saved"}

(* A run that has looked and has neither committed nor stopped.            *)
Open(r) == HasPlan(r) \/ run[r].state \in {"found", "missed"}

Written(c, h) == [filled |-> TRUE, at |-> h, zone |-> 0, shifts |-> c.shifts,
                  moved |-> FALSE, was |-> c.was]

AppWrite(f, i, h) ==
  /\ cell' = [cell EXCEPT ![f][i] = Written(@, h)]
  /\ mixed' = IF \E r \in Runs : i \in run[r].plan[f].todo /\ run[r].plan[f].old[i] = h
                THEN mixed \union {f} ELSE mixed
  /\ UNCHANGED <<flag, run, backup, overlap>>

AppUpdate(f, i, h) ==
  /\ i \in rows[f]
  /\ AppWrite(f, i, h)
  /\ UNCHANGED rows

(* A row is added with the next id.                                        *)
AppInsert(f, i, h) ==
  /\ i \in Ids
  /\ \A j \in rows[f] : j < i
  /\ i > 1 => i - 1 \in rows[f]
  /\ AppWrite(f, i, h)
  /\ rows' = [rows EXCEPT ![f] = @ \union {i}]

-----------------------------------------------------------------------------
(* A run of `apply'.                                                       *)

(* validate_apply_request: only from local time to UTC, by 14 hours at the *)
(* most, and for columns named one by one.                                 *)
Valid(targets, offset) == targets # {} /\ offset < 0 /\ offset >= -14

(* get_watermark.                                                          *)
Watermark(f) == IF flag[f].made THEN flag[f].last ELSE 0

(* flag_table_exists.  A run creates the table after its backup and before *)
(* it records a watermark, also when it fails then.                        *)
Look(r) ==
  /\ run[r].state = "new"
  /\ \E seen \in {"found", "missed"} :
       /\ seen = "found" =>
            \/ \E f \in Fields : flag[f].made
            \/ \E q \in Runs : run[q].state \in {"saved", "over"}
       /\ seen = "missed" => \A f \in Fields : ~flag[f].made
       /\ run' = [run EXCEPT ![r] = Idle(seen)]
  /\ overlap' = (overlap \/ \E q \in Runs : Open(q))
  /\ UNCHANGED <<rows, cell, flag, backup, mixed>>

(* The watermark that a run plans with.                                    *)
Mark(r, f) == IF run[r].state = "found" THEN Watermark(f) ELSE 0

(* A variant that takes the rows at the watermark again.                   *)
CandidatesFrom(f, mark) == {i \in rows[f] : i >= mark /\ cell[f][i].filled}

(* fetch_candidates.                                                       *)
Candidates(f, mark) == {i \in rows[f] : i > mark /\ cell[f][i].filled}

PlanOf(f, mark) ==
  [mark |-> mark, todo |-> Candidates(f, mark),
   old |-> [i \in Ids |-> IF i \in Candidates(f, mark) THEN cell[f][i].at ELSE 0]]

(* One transaction reads all watermarks and rows.                          *)
MakePlan(r, targets, offset) ==
  /\ run[r].state \in {"found", "missed"}
  /\ Valid(targets, offset)
  /\ run' = [run EXCEPT ![r] =
       [state |-> "planned", offset |-> offset, targets |-> targets,
        plan |-> [f \in Fields |->
          IF f \in targets THEN PlanOf(f, Mark(r, f)) ELSE NoPlan[f]]]]
  /\ mixed' = mixed \union
       {f \in targets : \E i \in Candidates(f, Mark(r, f)) : cell[f][i].zone = 0}
  /\ UNCHANGED <<rows, cell, flag, backup, overlap>>

(* The records of a run's backup.                                          *)
Records(r) ==
  {[run |-> r, field |-> f, id |-> i, old |-> run[r].plan[f].old[i],
    new |-> run[r].plan[f].old[i] + run[r].offset] :
     f \in run[r].targets, i \in Ids}

(* A variant that saves the first candidate of a column only.              *)
PlannedFirst(r) ==
  {b \in Records(r) : /\ b.id \in run[r].plan[b.field].todo
                      /\ \A i \in run[r].plan[b.field].todo : b.id <= i}

Planned(r) == {b \in Records(r) : b.id \in run[r].plan[b.field].todo}

(* The operator says YES: the backup is written before the first update.   *)
Save(r) ==
  /\ run[r].state = "planned"
  /\ run' = [run EXCEPT ![r].state = "saved"]
  /\ backup' = backup \union Planned(r)
  /\ UNCHANGED <<rows, cell, flag, mixed, overlap>>

(* A variant without the comparison with the value of the plan.            *)
HitsAlways(r, f, i) == f \in run[r].targets /\ i \in run[r].plan[f].todo

(* The guarded UPDATE finds the row as the plan saw it.                    *)
Hits(r, f, i) ==
  /\ f \in run[r].targets
  /\ i \in run[r].plan[f].todo
  /\ cell[f][i].filled /\ cell[f][i].at = run[r].plan[f].old[i]

Shifted(c, offset) ==
  [filled |-> c.filled, at |-> c.at + offset, zone |-> c.zone + offset,
   shifts |-> c.shifts + 1, moved |-> TRUE, was |-> c.at]

(* A variant that starts from 0.                                           *)
LastPlanned(plan) ==
  CHOOSE n \in {0} \union plan.todo : \A i \in {0} \union plan.todo : i <= n

(* The largest of the watermark and the ids of the plan.                   *)
LastId(plan) ==
  CHOOSE n \in {plan.mark} \union plan.todo :
    \A i \in {plan.mark} \union plan.todo : i <= n

(* record_watermark: it sets last_id, whatever another run has set.        *)
Recorded(r, f) ==
  LET plan == run[r].plan[f] IN
  [made |-> TRUE, last |-> LastId(plan),
   updated |-> flag[f].updated + Cardinality(plan.todo), offset |-> run[r].offset]

Apply(r) ==
  /\ run[r].state = "saved"
  /\ cell' = [f \in Fields |-> [i \in Ids |->
       IF Hits(r, f, i) THEN Shifted(cell[f][i], run[r].offset) ELSE cell[f][i]]]
  /\ flag' = [f \in Fields |-> IF f \in run[r].targets THEN Recorded(r, f) ELSE flag[f]]
  /\ run' = [run EXCEPT ![r] = Idle("over")]
  /\ UNCHANGED <<rows, backup, mixed, overlap>>

(* A dry run, an answer other than YES, an error or a lost connection: the *)
(* transaction is rolled back, a backup stays.                             *)
Stop(r) ==
  /\ Open(r)
  /\ run' = [run EXCEPT ![r] = Idle("over")]
  /\ UNCHANGED <<rows, cell, flag, backup, mixed, overlap>>

-----------------------------------------------------------------------------
(* At the start all values are local time.                                 *)
Init ==
  /\ rows = [f \in Fields |-> DOMAIN Start[f]]
  /\ cell = [f \in Fields |-> [i \in Ids |->
       IF i \in DOMAIN Start[f]
         THEN [Null EXCEPT !.filled = TRUE, !.at = Start[f][i], !.zone = Ahead]
         ELSE Null]]
  /\ flag = [f \in Fields |-> NoFlag]
  /\ run = [r \in Runs |-> Idle("new")]
  /\ backup = {}
  /\ mixed = {}
  /\ overlap = FALSE

AppNext ==
  \E f \in Fields, i \in Ids, h \in Hours : AppUpdate(f, i, h) \/ AppInsert(f, i, h)

RunNext ==
  \E r \in Runs :
    \/ Look(r)
    \/ \E targets \in SUBSET Fields, offset \in Offsets : MakePlan(r, targets, offset)
    \/ Save(r) \/ Apply(r) \/ Stop(r)

Next == AppNext \/ RunNext

Spec == Init /\ [][Next]_vars

-----------------------------------------------------------------------------
(* Properties.                                                             *)

(* Every shift can be undone from the backups, whatever the application    *)
(* wrote between the plan and the update: a value that a shift wrote last  *)
(* is the `new' of a record whose `old' is the value before.               *)
BackupExplains ==
  \A f \in Fields, i \in Ids :
    cell[f][i].moved =>
      \E b \in backup : /\ b.field = f /\ b.id = i
                        /\ b.old = cell[f][i].was /\ b.new = cell[f][i].at

(* Commands that are repeated or stopped, but never overlap, shift a row   *)
(* once at most: the watermark keeps the rows of a committed run out.      *)
ShiftedOnce ==
  ~overlap => \A f \in Fields, i \in Ids : cell[f][i].shifts <= 1

(* Once a run has committed, the rows of a column hold UTC, whatever runs  *)
(* overlapped, as long as no run planned a value that was UTC already, the *)
(* application wrote no value that was the planned one, and the offset is  *)
(* that of the zone: the plan covers all local values and the update misses*)
(* those that the application has replaced since.                          *)
MigratedUtc ==
  \A f \in Fields \ mixed :
    flag[f].made => \A i \in rows[f] : cell[f][i].filled => cell[f][i].zone = 0

(* Without overlap a committed run never takes the watermark back, even if *)
(* it found nothing to do.                                                 *)
KeepsMark == ~overlap => \A f \in Fields : Watermark(f)' >= Watermark(f)

MarkGrows == [][KeepsMark]_vars
=============================================================================
