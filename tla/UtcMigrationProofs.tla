-------------------------- MODULE UtcMigrationProofs --------------------------
(***************************************************************************)
(* Proofs about module UtcMigration for every number of columns, rows,     *)
(* runs and values.                                                        *)
(***************************************************************************)
EXTENDS UtcMigration, WellFoundedInduction, FiniteSetTheorems, TLAPS

(* What a run has in hand: it shifts back, and only rows of its columns.   *)
RunFacts(r) ==
  /\ HasPlan(r) => run[r].offset \in Offsets /\ run[r].offset < 0
  /\ \A f \in Fields : run[r].plan[f].todo \subseteq rows[f]
  /\ \A f \in Fields \ run[r].targets : run[r].plan[f].todo = {}
  /\ ~HasPlan(r) => run[r].targets = {}
  /\ run[r].state = "saved" => Planned(r) \subseteq backup

(* Without overlap there is one run at a time, nobody records a watermark  *)
(* after it has missed the table, and nobody moves the watermark that its  *)
(* plan begins at.                                                         *)
Alone ==
  /\ \A q, r \in Runs : Open(q) /\ Open(r) => q = r
  /\ \A r \in Runs : run[r].state = "missed" => \A f \in Fields : ~flag[f].made
  /\ \A r \in Runs : \A f \in run[r].targets :
       /\ run[r].plan[f].mark = Watermark(f)
       /\ \A i \in run[r].plan[f].todo : i > Watermark(f)

(* A shifted row is at or below the watermark.                             *)
Below ==
  \A f \in Fields, i \in Ids :
    /\ cell[f][i].shifts <= 1
    /\ cell[f][i].shifts = 1 => i <= Watermark(f)

IndInv ==
  /\ TypeOK
  /\ \A r \in Runs : RunFacts(r)
  /\ BackupExplains
  /\ ~overlap => Alone /\ Below

(* A local value is in the plan of every run of its column, and no plan    *)
(* finds again a value that is UTC.                                        *)
LocalPlanned(f) ==
  \A i \in rows[f] : cell[f][i].filled /\ cell[f][i].zone # 0 =>
    /\ cell[f][i].zone = Ahead
    /\ ~flag[f].made
    /\ \A r \in Runs : f \in run[r].targets =>
         i \in run[r].plan[f].todo /\ run[r].plan[f].old[i] = cell[f][i].at

UtcMissed(f) ==
  \A r \in Runs, i \in Ids : Hits(r, f, i) => cell[f][i].zone # 0

Migrating == \A f \in Fields \ mixed : LocalPlanned(f) /\ UtcMissed(f)
-----------------------------------------------------------------------------
LEMMA Types ==
  ASSUME IndInv
  PROVE  /\ rows \in [Fields -> SUBSET Ids] /\ cell \in [Fields -> [Ids -> Cell]]
         /\ flag \in [Fields -> Flag] /\ run \in [Runs -> Run] /\ backup \subseteq Backup
         /\ mixed \subseteq Fields /\ overlap \in BOOLEAN
         /\ \A r \in Runs : RunFacts(r)
BY DEF IndInv, TypeOK

LEMMA IdleType ==
  ASSUME NEW state \in {"new", "found", "missed", "over"}
  PROVE  /\ Idle(state) \in Run /\ Idle(state).state = state /\ Idle(state).targets = {}
         /\ \A f \in Fields : Idle(state).plan[f].todo = {}
<1>1. NoPlan \in [Fields -> Plan] /\ \A f \in Fields : NoPlan[f].todo = {}
  BY DEF NoPlan, Plan
<1> QED BY <1>1 DEF Idle, Run, RunStates

LEMMA MarkType ==
  ASSUME TypeOK, NEW f \in Fields
  PROVE  Watermark(f) \in Nat
BY DEF TypeOK, Flag, Watermark

(* A set of ids has a largest one.                                         *)
LEMMA Largest ==
  ASSUME NEW n \in Nat, NEW S \in SUBSET (1..n), S # {}
  PROVE  \E a \in S : \A b \in S : b <= a
<1> DEFINE T == {n - a : a \in S}
<1>1. T \in SUBSET Nat /\ T # {}
  <2>1. \A a \in S : n - a \in Nat
    OBVIOUS
  <2>2. \E a \in S : n - a \in T
    OBVIOUS
  <2> QED BY <2>1, <2>2
<1>2. PICK x \in T : \A y \in T : ~(<<y, x>> \in OpToRel(<, Nat))
  <2> HIDE DEF T
  <2> QED BY <1>1, NatLessThanWellFounded, WFMin
<1>3. \A y \in T : ~(y < x)
  <2> HIDE DEF T
  <2> QED BY <1>1, <1>2 DEF OpToRel
<1>4. PICK a \in S : x = n - a
  OBVIOUS
<1>5. \A b \in S : ~(n - b < n - a)
  BY <1>3, <1>4
<1> QED BY <1>5

(* The watermark that a run records is the largest of what it has seen.    *)
LEMMA LastIdMax ==
  ASSUME NEW plan \in Plan
  PROVE  /\ LastId(plan) \in Nat /\ LastId(plan) >= plan.mark
         /\ \A i \in plan.todo : LastId(plan) >= i
<1> DEFINE S == {plan.mark} \union plan.todo
           IsLast(n) == \A i \in S : i <= n
<1>1. plan.mark \in Nat /\ plan.todo \in SUBSET (1..MaxRows) /\ plan.todo \subseteq Nat
  BY DEF Plan, Ids
<1>2. \E n \in S : IsLast(n)
  <2>1. CASE plan.todo = {}
    BY <1>1, <2>1
  <2>2. CASE plan.todo # {}
    <3>1. PICK m \in plan.todo : \A b \in plan.todo : b <= m
      BY <1>1, <2>2, Largest, RowAssumption
    <3>2. CASE plan.mark <= m
      BY <3>1, <3>2
    <3>3. CASE ~(plan.mark <= m)
      <4>1. m \in Nat /\ m <= plan.mark
        BY <1>1, <3>1, <3>3
      <4>2. \A b \in plan.todo : b <= plan.mark
        BY <1>1, <3>1, <4>1
      <4> QED BY <1>1, <4>2
    <3> QED BY <3>2, <3>3
  <2> QED BY <2>1, <2>2
<1>3. LastId(plan) = CHOOSE n \in S : IsLast(n)
  BY DEF LastId
<1> HIDE DEF IsLast
<1>4. LastId(plan) \in S /\ IsLast(LastId(plan))
  BY <1>2, <1>3
<1> USE DEF IsLast
<1> QED BY <1>1, <1>4

-----------------------------------------------------------------------------
(* The application.                                                        *)

LEMMA WrittenType ==
  ASSUME NEW x \in Cell, NEW h \in Hours
  PROVE  /\ Written(x, h) \in Cell /\ Written(x, h).filled /\ ~Written(x, h).moved
         /\ Written(x, h).zone = 0 /\ Written(x, h).at = h
         /\ Written(x, h).shifts = x.shifts
<1>1. h \in Int
  BY HourAssumption
<1>2. x.shifts \in Nat /\ x.was \in Int
  BY DEF Cell
<1> QED BY <1>1, <1>2 DEF Written, Cell

LEMMA CellWritten ==
  ASSUME TypeOK, NEW f \in Fields, NEW i \in Ids, NEW h \in Hours, AppWrite(f, i, h)
  PROVE  /\ cell' \in [Fields -> [Ids -> Cell]]
         /\ cell'[f][i] = Written(cell[f][i], h)
         /\ \A g \in Fields, j \in Ids : g # f \/ j # i => cell'[g][j] = cell[g][j]
         /\ \A g \in Fields, j \in Ids : cell'[g][j].shifts = cell[g][j].shifts
         /\ cell'[f][i].filled /\ ~cell'[f][i].moved /\ cell'[f][i].zone = 0
         /\ cell'[f][i].at = h
<1>1. cell \in [Fields -> [Ids -> Cell]] /\ cell[f] \in [Ids -> Cell] /\ cell[f][i] \in Cell
  BY DEF TypeOK
<1> DEFINE c == Written(cell[f][i], h)
           column == [cell[f] EXCEPT ![i] = c]
<1>2. /\ c \in Cell /\ c.filled /\ ~c.moved /\ c.zone = 0 /\ c.at = h
      /\ c.shifts = cell[f][i].shifts
  BY <1>1, WrittenType
<1>3. cell' = [cell EXCEPT ![f] = column]
  BY DEF AppWrite
<1> HIDE DEF c
<1>4. column \in [Ids -> Cell] /\ column[i] = c /\ \A j \in Ids : j # i => column[j] = cell[f][j]
  BY <1>1, <1>2
<1> HIDE DEF column
<1>5. cell' \in [Fields -> [Ids -> Cell]] /\ cell'[f] = column
      /\ \A g \in Fields : g # f => cell'[g] = cell[g]
  <2> DEFINE Column == [Ids -> Cell]
  <2>1. cell \in [Fields -> Column] /\ column \in Column
    BY <1>1, <1>4
  <2> HIDE DEF Column
  <2>2. cell' \in [Fields -> Column] /\ cell'[f] = column
        /\ \A g \in Fields : g # f => cell'[g] = cell[g]
    BY <1>3, <2>1
  <2> QED BY <2>2 DEF Column
<1>6. cell'[f][i] = c
  BY <1>4, <1>5
<1>7. \A g \in Fields, j \in Ids : g # f \/ j # i => cell'[g][j] = cell[g][j]
  BY <1>4, <1>5
<1>8. \A g \in Fields, j \in Ids : cell'[g][j].shifts = cell[g][j].shifts
  BY <1>2, <1>6, <1>7
<1> QED BY <1>2, <1>5, <1>6, <1>7, <1>8 DEF c

LEMMA AppKeeps ==
  ASSUME IndInv, NEW f \in Fields, NEW i \in Ids, NEW h \in Hours, AppWrite(f, i, h),
         rows' \in [Fields -> SUBSET Ids], \A g \in Fields : rows[g] \subseteq rows'[g]
  PROVE  IndInv'
<1>1. /\ cell' \in [Fields -> [Ids -> Cell]] /\ ~cell'[f][i].moved
      /\ \A g \in Fields, j \in Ids : g # f \/ j # i => cell'[g][j] = cell[g][j]
      /\ \A g \in Fields, j \in Ids : cell'[g][j].shifts = cell[g][j].shifts
  BY CellWritten DEF IndInv
<1>2. UNCHANGED <<flag, run, backup, overlap>> /\ mixed' \subseteq Fields
  BY Types DEF AppWrite
<1>3. TypeOK'
  BY <1>1, <1>2 DEF IndInv, TypeOK
<1>4. \A r \in Runs : RunFacts(r)'
  <2> SUFFICES ASSUME NEW r \in Runs PROVE RunFacts(r)'
    OBVIOUS
  <2>1. Planned(r)' = Planned(r)
    BY <1>2 DEF Planned, Records
  <2> QED BY <1>2, <2>1, Types DEF RunFacts, HasPlan
<1>5. BackupExplains'
  BY <1>1, <1>2 DEF IndInv, BackupExplains
<1>6. ~overlap' => Alone' /\ Below'
  BY <1>1, <1>2 DEF IndInv, Alone, Below, Open, HasPlan, Watermark
<1> QED BY <1>3, <1>4, <1>5, <1>6 DEF IndInv

LEMMA InsertKeeps ==
  ASSUME IndInv, NEW f \in Fields, NEW i \in Ids, NEW h \in Hours,
         AppUpdate(f, i, h) \/ AppInsert(f, i, h)
  PROVE  IndInv'
<1>1. AppWrite(f, i, h)
  BY DEF AppUpdate, AppInsert
<1>2. rows' \in [Fields -> SUBSET Ids] /\ \A g \in Fields : rows[g] \subseteq rows'[g]
  BY Types DEF AppUpdate, AppInsert
<1> QED BY <1>1, <1>2, AppKeeps

-----------------------------------------------------------------------------
(* The runs.                                                               *)

(* The plan that MakePlan makes.                                           *)
PlanFor(r, targets) ==
  [f \in Fields |-> IF f \in targets THEN PlanOf(f, Mark(r, f)) ELSE NoPlan[f]]

LEMMA PlanType ==
  ASSUME IndInv, NEW r \in Runs, NEW targets \in SUBSET Fields
  PROVE  /\ PlanFor(r, targets) \in [Fields -> Plan]
         /\ \A f \in targets :
              /\ PlanFor(r, targets)[f].mark = Mark(r, f)
              /\ PlanFor(r, targets)[f].todo = Candidates(f, Mark(r, f))
              /\ \A i \in Candidates(f, Mark(r, f)) :
                   PlanFor(r, targets)[f].old[i] = cell[f][i].at
         /\ \A f \in Fields \ targets : PlanFor(r, targets)[f].todo = {}
         /\ \A f \in Fields : PlanFor(r, targets)[f].todo \subseteq rows[f]
<1> DEFINE C(f) == Candidates(f, Mark(r, f))
<1>1. ASSUME NEW f \in Fields PROVE C(f) \subseteq rows[f] /\ C(f) \subseteq Ids
  BY Types DEF Candidates
<1>2. ASSUME NEW f \in Fields
      PROVE  [i \in Ids |-> IF i \in C(f) THEN cell[f][i].at ELSE 0] \in [Ids -> Int]
  BY Types DEF Cell
<1>3. \A f \in Fields : Mark(r, f) \in Nat
  BY MarkType DEF IndInv, Mark
<1>4. NoPlan \in [Fields -> Plan] /\ \A f \in Fields : NoPlan[f].todo = {}
  BY DEF NoPlan, Plan
<1>5. ASSUME NEW f \in targets
      PROVE  /\ PlanFor(r, targets)[f] \in Plan /\ PlanFor(r, targets)[f].mark = Mark(r, f)
             /\ PlanFor(r, targets)[f].todo = C(f)
             /\ \A i \in C(f) : PlanFor(r, targets)[f].old[i] = cell[f][i].at
  <2> DEFINE old == [i \in Ids |-> IF i \in C(f) THEN cell[f][i].at ELSE 0]
  <2>1. PlanFor(r, targets)[f] = [mark |-> Mark(r, f), todo |-> C(f), old |-> old]
    BY DEF PlanFor, PlanOf
  <2>2. \A i \in C(f) : old[i] = cell[f][i].at
    BY <1>1
  <2>3. old \in [Ids -> Int]
    BY <1>2
  <2> HIDE DEF old, C
  <2> QED BY <1>1, <1>3, <2>1, <2>2, <2>3 DEF Plan
<1>6. ASSUME NEW f \in Fields \ targets PROVE PlanFor(r, targets)[f] = NoPlan[f]
  BY DEF PlanFor
<1>7. PlanFor(r, targets) = [f \in Fields |-> PlanFor(r, targets)[f]]
  BY DEF PlanFor
<1>8. PlanFor(r, targets) \in [Fields -> Plan]
  BY <1>4, <1>5, <1>6, <1>7
<1> QED BY <1>1, <1>4, <1>5, <1>6, <1>8

LEMMA LookRun ==
  ASSUME IndInv, NEW r \in Runs, Look(r)
  PROVE  /\ run' \in [Runs -> Run] /\ \A q \in Runs : q # r => run'[q] = run[q]
         /\ run'[r].state \in {"found", "missed"} /\ run'[r].targets = {}
         /\ run'[r].state = "missed" => \A f \in Fields : ~flag[f].made
         /\ \A f \in Fields : run'[r].plan[f].todo = {}
         /\ UNCHANGED <<rows, cell, flag, backup, mixed>>
         /\ overlap' = (overlap \/ \E q \in Runs : Open(q))
<1>1. PICK seen \in {"found", "missed"} :
        /\ seen = "missed" => \A f \in Fields : ~flag[f].made
        /\ run' = [run EXCEPT ![r] = Idle(seen)]
  BY DEF Look
<1>2. /\ Idle(seen) \in Run /\ Idle(seen).state = seen /\ Idle(seen).targets = {}
      /\ \A f \in Fields : Idle(seen).plan[f].todo = {}
  BY IdleType
<1>3. /\ run' \in [Runs -> Run] /\ run'[r] = Idle(seen)
      /\ \A q \in Runs : q # r => run'[q] = run[q]
  BY <1>1, <1>2, Types
<1> QED BY <1>1, <1>2, <1>3 DEF Look

LEMMA LookKeeps ==
  ASSUME IndInv, NEW r \in Runs, Look(r)
  PROVE  IndInv'
<1>1. /\ run' \in [Runs -> Run] /\ \A q \in Runs : q # r => run'[q] = run[q]
      /\ run'[r].state \in {"found", "missed"} /\ run'[r].targets = {}
      /\ run'[r].state = "missed" => \A f \in Fields : ~flag[f].made
      /\ \A f \in Fields : run'[r].plan[f].todo = {}
      /\ UNCHANGED <<rows, cell, flag, backup, mixed>>
      /\ overlap' = (overlap \/ \E q \in Runs : Open(q))
  BY LookRun
<1>2. TypeOK'
  BY <1>1, Types DEF TypeOK
<1>3. ASSUME NEW q \in Runs PROVE RunFacts(q)'
  <2>1. CASE q = r
    BY <1>1, <2>1 DEF RunFacts, HasPlan
  <2>2. CASE q # r
    <3>1. run'[q] = run[q] /\ RunFacts(q)
      BY <1>1, <2>2, Types
    <3>2. Planned(q)' = Planned(q)
      BY <3>1 DEF Planned, Records
    <3> QED BY <1>1, <3>1, <3>2 DEF RunFacts, HasPlan
  <2> QED BY <2>1, <2>2
<1>4. BackupExplains'
  BY <1>1 DEF IndInv, BackupExplains
<1>5. ASSUME ~overlap' PROVE Alone' /\ Below'
  <2>1. Alone /\ Below /\ \A q \in Runs : ~Open(q)
    BY <1>1, <1>5 DEF IndInv
  <2>2. Below'
    BY <1>1, <2>1 DEF Below, Watermark
  <2>3. \A q \in Runs : q # r => ~Open(q)' /\ run'[q].targets = {}
    BY <1>1, <2>1, Types DEF RunFacts, Open, HasPlan
  <2>4. \A q \in Runs : run'[q].state = "missed" => \A f \in Fields : ~flag'[f].made
    BY <1>1, <2>1 DEF Alone
  <2> QED BY <1>1, <2>2, <2>3, <2>4 DEF Alone
<1> QED BY <1>2, <1>3, <1>4, <1>5 DEF IndInv

LEMMA MakePlanRun ==
  ASSUME IndInv, NEW r \in Runs, NEW targets \in SUBSET Fields, NEW offset \in Offsets,
         MakePlan(r, targets, offset)
  PROVE  /\ run' \in [Runs -> Run] /\ \A q \in Runs : q # r => run'[q] = run[q]
         /\ run'[r].state = "planned" /\ run'[r].offset = offset /\ offset < 0
         /\ run'[r].targets = targets /\ run'[r].plan = PlanFor(r, targets)
         /\ UNCHANGED <<rows, cell, flag, backup, overlap>>
         /\ Open(r) /\ run[r].state \in {"found", "missed"}
<1> DEFINE t == [state |-> "planned", offset |-> offset, targets |-> targets,
                 plan |-> PlanFor(r, targets)]
<1>1. run' = [run EXCEPT ![r] = t] /\ UNCHANGED <<rows, cell, flag, backup, overlap>>
  BY DEF MakePlan, PlanFor
<1>2. t \in Run
  BY PlanType, HourAssumption DEF Run, RunStates
<1>3. offset < 0 /\ run[r].state \in {"found", "missed"}
  BY DEF MakePlan, Valid
<1>4. run \in [Runs -> Run]
  BY Types
<1>5. /\ t.state = "planned" /\ t.offset = offset /\ t.targets = targets
      /\ t.plan = PlanFor(r, targets)
  OBVIOUS
<1> HIDE DEF t
<1> QED BY <1>1, <1>2, <1>3, <1>4, <1>5 DEF Open

LEMMA MakePlanKeeps ==
  ASSUME IndInv, NEW r \in Runs, NEW targets \in SUBSET Fields, NEW offset \in Offsets,
         MakePlan(r, targets, offset)
  PROVE  IndInv'
<1>1. /\ run' \in [Runs -> Run] /\ \A q \in Runs : q # r => run'[q] = run[q]
      /\ run'[r].state = "planned" /\ run'[r].offset = offset /\ offset < 0
      /\ run'[r].targets = targets /\ run'[r].plan = PlanFor(r, targets)
      /\ UNCHANGED <<rows, cell, flag, backup, overlap>>
      /\ Open(r) /\ run[r].state \in {"found", "missed"}
  BY MakePlanRun
<1>2. mixed' \subseteq Fields
  BY Types DEF MakePlan
<1>3. TypeOK'
  BY <1>1, <1>2 DEF IndInv, TypeOK
<1>4. ASSUME NEW q \in Runs PROVE RunFacts(q)'
  <2>1. CASE q = r
    BY <1>1, <2>1, PlanType DEF RunFacts, HasPlan
  <2>2. CASE q # r
    <3>1. run'[q] = run[q] /\ RunFacts(q)
      BY <1>1, <2>2, Types
    <3>2. Planned(q)' = Planned(q)
      BY <3>1 DEF Planned, Records
    <3> QED BY <1>1, <3>1, <3>2 DEF RunFacts, HasPlan
  <2> QED BY <2>1, <2>2
<1>5. BackupExplains'
  BY <1>1 DEF IndInv, BackupExplains
<1>6. ASSUME ~overlap' PROVE Alone' /\ Below'
  <2>1. Alone /\ Below
    BY <1>1, <1>6 DEF IndInv
  <2>2. Below'
    BY <1>1, <2>1 DEF Below, Watermark
  <2>3. \A q \in Runs : q # r => ~Open(q)
    BY <1>1, <2>1 DEF Alone
  <2>4. \A q \in Runs : q # r => ~Open(q)' /\ run'[q].targets = {}
    BY <1>1, <2>3, Types DEF RunFacts, Open, HasPlan
  <2>5. \A f \in Fields : Mark(r, f) = Watermark(f)
    BY <1>1, <2>1 DEF Alone, Mark, Watermark
  <2>6. \A f \in targets : /\ run'[r].plan[f].mark = Watermark(f)
                          /\ \A i \in run'[r].plan[f].todo : i > Watermark(f)
    BY <1>1, <2>5, PlanType DEF Candidates
  <2>7. \A f \in Fields : Watermark(f)' = Watermark(f)
    BY <1>1 DEF Watermark
  <2>8. \A q \in Runs : run'[q].state = "missed" => \A f \in Fields : ~flag'[f].made
    BY <1>1, <2>1 DEF Alone
  <2> QED BY <1>1, <2>2, <2>4, <2>6, <2>7, <2>8 DEF Alone
<1> QED BY <1>3, <1>4, <1>5, <1>6 DEF IndInv

(* A run that ends leaves nothing in hand.                                 *)
LEMMA RunEnds ==
  ASSUME IndInv, NEW r \in Runs, run' = [run EXCEPT ![r] = Idle("over")],
         UNCHANGED <<rows, backup>>
  PROVE  /\ run' \in [Runs -> Run] /\ \A q \in Runs : q # r => run'[q] = run[q]
         /\ run'[r].targets = {} /\ ~Open(r)'
         /\ \A q \in Runs : RunFacts(q)'
<1>1. /\ run' \in [Runs -> Run] /\ \A q \in Runs : q # r => run'[q] = run[q]
      /\ run'[r] = Idle("over")
  BY Types, IdleType
<1>2. /\ run'[r].state = "over" /\ run'[r].targets = {}
      /\ \A f \in Fields : run'[r].plan[f].todo = {}
  BY <1>1, IdleType
<1>3. ASSUME NEW q \in Runs PROVE RunFacts(q)'
  <2>1. CASE q = r
    BY <1>2, <2>1 DEF RunFacts, Open, HasPlan
  <2>2. CASE q # r
    <3>1. run'[q] = run[q] /\ RunFacts(q)
      BY <1>1, <2>2, Types
    <3>2. Planned(q)' = Planned(q)
      BY <3>1 DEF Planned, Records
    <3> QED BY <3>1, <3>2 DEF RunFacts, Open, HasPlan
  <2> QED BY <2>1, <2>2
<1> QED BY <1>1, <1>2, <1>3 DEF Open, HasPlan

LEMMA StopKeeps ==
  ASSUME IndInv, NEW r \in Runs, Stop(r)
  PROVE  IndInv'
<1>1. run' = [run EXCEPT ![r] = Idle("over")]
      /\ UNCHANGED <<rows, cell, flag, backup, mixed, overlap>>
  BY DEF Stop
<1>2. /\ run' \in [Runs -> Run] /\ \A q \in Runs : q # r => run'[q] = run[q]
      /\ run'[r].targets = {} /\ ~Open(r)'
      /\ \A q \in Runs : RunFacts(q)'
  BY <1>1, RunEnds
<1>3. TypeOK'
  BY <1>1, <1>2 DEF IndInv, TypeOK
<1>4. BackupExplains'
  BY <1>1 DEF IndInv, BackupExplains
<1>5. ASSUME ~overlap' PROVE Alone' /\ Below'
  <2>1. Alone /\ Below
    BY <1>1, <1>5 DEF IndInv
  <2>2. \A f \in Fields : Watermark(f)' = Watermark(f)
    BY <1>1 DEF Watermark
  <2>3. \A q \in Runs : run[q].targets \subseteq Fields
    BY Types DEF Run
  <2>4. \A q \in Runs : q # r => (Open(q)' <=> Open(q))
    BY <1>2 DEF Open, HasPlan
  <2>5. \A q \in Runs : run'[q].state = "missed" => \A f \in Fields : ~flag'[f].made
    BY <1>1, <1>2, <2>1 DEF Alone, Open
  <2>6. \A q \in Runs : \A f \in run'[q].targets :
          /\ run'[q].plan[f].mark = Watermark(f)'
          /\ \A i \in run'[q].plan[f].todo : i > Watermark(f)'
    BY <1>2, <2>1, <2>2, <2>3 DEF Alone
  <2>7. \A q, p \in Runs : Open(q)' /\ Open(p)' => q = p
    BY <1>2, <2>1, <2>4 DEF Alone
  <2>8. Below'
    BY <1>1, <2>1, <2>2 DEF Below
  <2> QED BY <2>5, <2>6, <2>7, <2>8 DEF Alone
<1> QED BY <1>2, <1>3, <1>4, <1>5 DEF IndInv

LEMMA SaveRun ==
  ASSUME IndInv, NEW r \in Runs, Save(r)
  PROVE  /\ run' \in [Runs -> Run] /\ \A q \in Runs : q # r => run'[q] = run[q]
         /\ run'[r].state = "saved" /\ run'[r].offset = run[r].offset
         /\ run'[r].targets = run[r].targets /\ run'[r].plan = run[r].plan
         /\ HasPlan(r) /\ Planned(r)' = Planned(r)
<1>1. run \in [Runs -> Run] /\ run[r] \in Run
  BY Types
<1>2. run' = [run EXCEPT ![r] = [run[r] EXCEPT !.state = "saved"]] /\ run[r].state = "planned"
  BY DEF Save
<1> DEFINE t == [run[r] EXCEPT !.state = "saved"]
<1>3. /\ t \in Run /\ t.state = "saved" /\ t.offset = run[r].offset
      /\ t.targets = run[r].targets /\ t.plan = run[r].plan
  BY <1>1 DEF Run, RunStates
<1> HIDE DEF t
<1>4. /\ run' \in [Runs -> Run] /\ run'[r] = t
      /\ \A q \in Runs : q # r => run'[q] = run[q]
  BY <1>1, <1>2, <1>3 DEF t
<1>5. Planned(r)' = Planned(r)
  BY <1>3, <1>4 DEF Planned, Records
<1> QED BY <1>2, <1>3, <1>4, <1>5 DEF Open, HasPlan

LEMMA SaveKeeps ==
  ASSUME IndInv, NEW r \in Runs, Save(r)
  PROVE  IndInv'
<1>1. /\ run' \in [Runs -> Run] /\ \A q \in Runs : q # r => run'[q] = run[q]
      /\ run'[r].state = "saved" /\ run'[r].offset = run[r].offset
      /\ run'[r].targets = run[r].targets /\ run'[r].plan = run[r].plan
      /\ HasPlan(r) /\ Planned(r)' = Planned(r)
  BY SaveRun
<1>2. backup' = backup \union Planned(r) /\ UNCHANGED <<rows, cell, flag, mixed, overlap>>
  BY DEF Save
<1>3. Planned(r) \subseteq Backup
  <2> SUFFICES ASSUME NEW f \in run[r].targets, NEW i \in Ids
               PROVE  [run |-> r, field |-> f, id |-> i, old |-> run[r].plan[f].old[i],
                       new |-> run[r].plan[f].old[i] + run[r].offset] \in Backup
    BY DEF Planned, Records
  <2>1. run[r] \in Run
    BY Types
  <2>2. f \in Fields /\ run[r].offset \in Int /\ run[r].plan[f].old[i] \in Int
    BY <2>1 DEF Run, Plan
  <2> QED BY <2>2 DEF Backup
<1>4. TypeOK'
  BY <1>1, <1>2, <1>3 DEF IndInv, TypeOK
<1>5. ASSUME NEW q \in Runs PROVE RunFacts(q)'
  <2>1. CASE q = r
    BY <1>1, <1>2, <2>1, Types DEF RunFacts, Open, HasPlan
  <2>2. CASE q # r
    <3>1. run'[q] = run[q] /\ RunFacts(q)
      BY <1>1, <2>2, Types
    <3>2. Planned(q)' = Planned(q)
      BY <3>1 DEF Planned, Records
    <3> QED BY <1>2, <3>1, <3>2 DEF RunFacts, Open, HasPlan
  <2> QED BY <2>1, <2>2
<1>6. BackupExplains'
  BY <1>2 DEF IndInv, BackupExplains
<1>7. ASSUME ~overlap' PROVE Alone' /\ Below'
  <2>1. Alone /\ Below
    BY <1>2, <1>7 DEF IndInv
  <2>2. \A f \in Fields : Watermark(f)' = Watermark(f)
    BY <1>2 DEF Watermark
  <2>3. \A q \in Runs : run[q].targets \subseteq Fields
    BY Types DEF Run
  <2>4. \A q \in Runs : /\ Open(q)' <=> Open(q)
                       /\ run'[q].targets = run[q].targets /\ run'[q].plan = run[q].plan
    BY <1>1 DEF Open, HasPlan
  <2>5. \A q \in Runs : run'[q].state = "missed" => \A f \in Fields : ~flag'[f].made
    BY <1>1, <1>2, <2>1 DEF Alone
  <2> QED BY <1>2, <2>1, <2>2, <2>3, <2>4, <2>5 DEF Alone, Below
<1> QED BY <1>4, <1>5, <1>6, <1>7 DEF IndInv

(* The commit of a run, value by value and column by column.               *)
LEMMA ApplyCells ==
  ASSUME IndInv, NEW r \in Runs, Apply(r)
  PROVE  /\ cell' \in [Fields -> [Ids -> Cell]] /\ flag' \in [Fields -> Flag]
         /\ \A f \in Fields, i \in Ids :
              cell'[f][i] = IF Hits(r, f, i) THEN Shifted(cell[f][i], run[r].offset)
                                             ELSE cell[f][i]
         /\ \A f \in run[r].targets :
              /\ f \in Fields /\ flag'[f].made
              /\ flag'[f].last >= run[r].plan[f].mark
              /\ \A i \in run[r].plan[f].todo : flag'[f].last >= i
         /\ \A f \in Fields \ run[r].targets : flag'[f] = flag[f]
<1>1. /\ run[r] \in Run /\ run[r].offset \in Int /\ run[r].targets \subseteq Fields
      /\ run[r].plan \in [Fields -> Plan] /\ flag \in [Fields -> Flag]
      /\ cell \in [Fields -> [Ids -> Cell]]
  BY Types DEF Run
<1>2. cell' = [f \in Fields |-> [i \in Ids |->
         IF Hits(r, f, i) THEN Shifted(cell[f][i], run[r].offset) ELSE cell[f][i]]]
  BY DEF Apply
<1>3. flag' = [f \in Fields |-> IF f \in run[r].targets THEN Recorded(r, f) ELSE flag[f]]
  BY DEF Apply
<1>4. ASSUME NEW f \in Fields, NEW i \in Ids
      PROVE  Shifted(cell[f][i], run[r].offset) \in Cell /\ cell[f][i] \in Cell
  BY <1>1 DEF Shifted, Cell
<1>5. ASSUME NEW f \in Fields
      PROVE  /\ Recorded(r, f) \in Flag /\ Recorded(r, f).made
             /\ Recorded(r, f).last >= run[r].plan[f].mark
             /\ \A i \in run[r].plan[f].todo : Recorded(r, f).last >= i
  <2> DEFINE plan == run[r].plan[f]
  <2>1. plan \in Plan /\ flag[f] \in Flag
    BY <1>1
  <2>2. LastId(plan) \in Nat /\ LastId(plan) >= plan.mark
        /\ \A i \in plan.todo : LastId(plan) >= i
    BY <2>1, LastIdMax
  <2>3. Cardinality(plan.todo) \in Nat
    <3>1. plan.todo \in SUBSET (1..MaxRows)
      BY <2>1 DEF Plan, Ids
    <3>2. IsFiniteSet(1..MaxRows)
      BY RowAssumption, FS_Interval
    <3> QED BY <3>1, <3>2, FS_Subset, FS_CardinalityType
  <2>4. flag[f].updated \in Nat
    BY <2>1 DEF Flag
  <2>5. Recorded(r, f) = [made |-> TRUE, last |-> LastId(plan),
                          updated |-> flag[f].updated + Cardinality(plan.todo),
                          offset |-> run[r].offset]
    BY DEF Recorded
  <2> HIDE DEF plan
  <2>6. Recorded(r, f) \in Flag /\ Recorded(r, f).made /\ Recorded(r, f).last = LastId(plan)
    BY <1>1, <2>2, <2>3, <2>4, <2>5 DEF Flag
  <2> QED BY <2>2, <2>6 DEF plan
<1>6. cell' \in [Fields -> [Ids -> Cell]]
  BY <1>2, <1>4
<1>7. flag' \in [Fields -> Flag]
  BY <1>1, <1>3, <1>5
<1>8. \A f \in Fields, i \in Ids :
        cell'[f][i] = IF Hits(r, f, i) THEN Shifted(cell[f][i], run[r].offset) ELSE cell[f][i]
  BY <1>2
<1>9. \A f \in Fields : flag'[f] = IF f \in run[r].targets THEN Recorded(r, f) ELSE flag[f]
  BY <1>3
<1> QED BY <1>1, <1>5, <1>6, <1>7, <1>8, <1>9

(* Without overlap the watermark of no column is taken back.               *)
LEMMA MarkApplied ==
  ASSUME IndInv, NEW r \in Runs, Apply(r), ~overlap, NEW f \in Fields
  PROVE  /\ Watermark(f)' \in Nat /\ Watermark(f) \in Nat /\ Watermark(f)' >= Watermark(f)
         /\ f \in run[r].targets => \A i \in run[r].plan[f].todo : i <= Watermark(f)'
<1>1. Watermark(f) \in Nat
  BY MarkType DEF IndInv
<1>2. CASE f \in run[r].targets
  <2>1. /\ flag'[f].made /\ flag'[f].last \in Nat /\ flag'[f].last >= run[r].plan[f].mark
        /\ \A i \in run[r].plan[f].todo : flag'[f].last >= i
    BY <1>2, ApplyCells DEF Flag
  <2>2. run[r].plan[f].mark = Watermark(f)
    BY <1>2 DEF IndInv, Alone
  <2>3. Watermark(f)' = flag'[f].last
    BY <2>1 DEF Watermark
  <2>4. run[r].plan[f].todo \subseteq Nat
    BY Types DEF Run, Plan, Ids
  <2> QED BY <1>1, <2>1, <2>2, <2>3, <2>4
<1>3. CASE f \notin run[r].targets
  <2>1. flag'[f] = flag[f]
    BY <1>3, ApplyCells
  <2> QED BY <1>1, <1>3, <2>1 DEF Watermark
<1> QED BY <1>2, <1>3

LEMMA ApplyKeeps ==
  ASSUME IndInv, NEW r \in Runs, Apply(r)
  PROVE  IndInv'
<1>1. /\ run' = [run EXCEPT ![r] = Idle("over")] /\ run[r].state = "saved"
      /\ UNCHANGED <<rows, backup, mixed, overlap>>
  BY DEF Apply
<1>2. /\ run' \in [Runs -> Run] /\ \A q \in Runs : q # r => run'[q] = run[q]
      /\ run'[r].targets = {} /\ ~Open(r)'
      /\ \A q \in Runs : RunFacts(q)'
  BY <1>1, RunEnds
<1>3. /\ cell' \in [Fields -> [Ids -> Cell]] /\ flag' \in [Fields -> Flag]
      /\ \A f \in Fields, i \in Ids :
           cell'[f][i] = IF Hits(r, f, i) THEN Shifted(cell[f][i], run[r].offset)
                                          ELSE cell[f][i]
  BY ApplyCells
<1>4. TypeOK'
  BY <1>1, <1>2, <1>3 DEF IndInv, TypeOK
<1>5. BackupExplains'
  <2> SUFFICES ASSUME NEW f \in Fields, NEW i \in Ids, cell'[f][i].moved
               PROVE  \E b \in backup : /\ b.field = f /\ b.id = i
                                        /\ b.old = cell'[f][i].was /\ b.new = cell'[f][i].at
    BY <1>1 DEF BackupExplains
  <2>1. CASE Hits(r, f, i)
    <3> DEFINE b == [run |-> r, field |-> f, id |-> i, old |-> run[r].plan[f].old[i],
                     new |-> run[r].plan[f].old[i] + run[r].offset]
    <3>1. /\ f \in run[r].targets /\ i \in run[r].plan[f].todo
          /\ cell[f][i].at = run[r].plan[f].old[i]
      BY <2>1 DEF Hits
    <3>2. b \in Planned(r)
      <4>1. b \in Records(r) /\ b.id = i /\ b.field = f
        BY <3>1 DEF Records
      <4> HIDE DEF b
      <4> QED BY <3>1, <4>1 DEF Planned
    <3>3. b \in backup
      BY <1>1, <3>2, Types DEF RunFacts
    <3>4. cell'[f][i] = Shifted(cell[f][i], run[r].offset)
      BY <1>3, <2>1
    <3>5. /\ cell'[f][i].was = cell[f][i].at
          /\ cell'[f][i].at = cell[f][i].at + run[r].offset
      BY <3>4 DEF Shifted
    <3>6. b.field = f /\ b.id = i /\ b.old = cell'[f][i].was /\ b.new = cell'[f][i].at
      BY <3>1, <3>5
    <3> HIDE DEF b
    <3> QED BY <3>3, <3>6
  <2>2. CASE ~Hits(r, f, i)
    BY <1>3, <2>2 DEF IndInv, BackupExplains
  <2> QED BY <2>1, <2>2
<1>6. ASSUME ~overlap' PROVE Alone' /\ Below'
  <2>1. ~overlap /\ Alone /\ Below
    BY <1>1, <1>6 DEF IndInv
  <2>2. \A q \in Runs : ~Open(q)' /\ run'[q].targets = {}
    <3> SUFFICES ASSUME NEW q \in Runs, q # r PROVE ~Open(q)' /\ run'[q].targets = {}
      BY <1>2
    <3>1. Open(r) /\ run'[q] = run[q]
      BY <1>1, <1>2 DEF Open, HasPlan
    <3>2. ~Open(q)
      BY <2>1, <3>1 DEF Alone
    <3> QED BY <3>1, <3>2, Types DEF RunFacts, Open, HasPlan
  <2>3. Alone'
    BY <2>2 DEF Alone, Open
  <2>4. ASSUME NEW f \in Fields, NEW i \in Ids
        PROVE  cell'[f][i].shifts <= 1 /\ (cell'[f][i].shifts = 1 => i <= Watermark(f)')
    <3>1. /\ cell[f][i].shifts \in Nat /\ cell[f][i].shifts <= 1 /\ i \in Nat
          /\ cell[f][i].shifts = 1 => i <= Watermark(f)
      <4>1. cell[f][i] \in Cell
        BY Types
      <4>2. cell[f][i].shifts \in Nat
        BY <4>1 DEF Cell
      <4>3. i \in Nat
        BY RowAssumption DEF Ids
      <4> QED BY <2>1, <4>2, <4>3 DEF Below
    <3>2. Watermark(f)' \in Nat /\ Watermark(f) \in Nat /\ Watermark(f)' >= Watermark(f)
          /\ (f \in run[r].targets => \A j \in run[r].plan[f].todo : j <= Watermark(f)')
      BY <2>1, MarkApplied
    <3>3. CASE Hits(r, f, i)
      <4>1. f \in run[r].targets /\ i \in run[r].plan[f].todo
        BY <3>3 DEF Hits
      <4>2. i > Watermark(f)
        BY <2>1, <4>1 DEF Alone
      <4>3. cell'[f][i].shifts = cell[f][i].shifts + 1
        <5>1. cell'[f][i] = Shifted(cell[f][i], run[r].offset)
          BY <1>3, <3>3
        <5> QED BY <5>1 DEF Shifted
      <4> QED BY <3>1, <3>2, <4>1, <4>2, <4>3
    <3>4. CASE ~Hits(r, f, i)
      BY <1>3, <3>1, <3>2, <3>4
    <3> QED BY <3>3, <3>4
  <2> QED BY <2>3, <2>4 DEF Below
<1> QED BY <1>2, <1>4, <1>5, <1>6 DEF IndInv

LEMMA InitKeeps == Init => IndInv
<1> SUFFICES ASSUME Init PROVE IndInv
  OBVIOUS
<1>1. run = [r \in Runs |-> Idle("new")] /\ backup = {} /\ mixed = {} /\ overlap = FALSE
      /\ rows = [f \in Fields |-> DOMAIN Start[f]] /\ flag = [f \in Fields |-> NoFlag]
  BY DEF Init
<1>2. \A r \in Runs : /\ run[r] \in Run /\ run[r].state = "new" /\ run[r].targets = {}
                       /\ \A f \in Fields : run[r].plan[f].todo = {}
  BY <1>1, IdleType
<1>3. ASSUME NEW f \in Fields, NEW i \in Ids
      PROVE  cell[f][i] \in Cell /\ ~cell[f][i].moved /\ cell[f][i].shifts = 0
  <2>1. CASE i \in DOMAIN Start[f]
    <3>1. cell[f][i] = [Null EXCEPT !.filled = TRUE, !.at = Start[f][i], !.zone = Ahead]
      BY <2>1 DEF Init
    <3>2. Start[f][i] \in Int /\ Ahead \in Int
      BY <2>1, StartAssumption, HourAssumption
    <3>3. cell[f][i] = [filled |-> TRUE, at |-> Start[f][i], zone |-> Ahead, shifts |-> 0,
                        moved |-> FALSE, was |-> 0]
      BY <3>1 DEF Null
    <3> QED BY <3>2, <3>3 DEF Cell
  <2>2. CASE i \notin DOMAIN Start[f]
    <3>1. cell[f][i] = Null
      BY <2>2 DEF Init
    <3> QED BY <3>1 DEF Null, Cell
  <2> QED BY <2>1, <2>2
<1>4. cell \in [Fields -> [Ids -> Cell]]
  <2>1. cell = [f \in Fields |-> [i \in Ids |-> cell[f][i]]]
    BY DEF Init
  <2> QED BY <1>3, <2>1
<1>5. flag \in [Fields -> Flag] /\ rows \in [Fields -> SUBSET Ids]
  <2>1. NoFlag \in Flag
    BY DEF NoFlag, Flag
  <2> QED BY <1>1, <2>1, StartAssumption
<1>6. run \in [Runs -> Run]
  <2>1. Idle("new") \in Run
    BY IdleType
  <2> QED BY <1>1, <2>1
<1>7. TypeOK
  BY <1>1, <1>4, <1>5, <1>6 DEF TypeOK
<1>8. \A r \in Runs : RunFacts(r)
  BY <1>2 DEF RunFacts, Open, HasPlan
<1>9. BackupExplains
  BY <1>3 DEF BackupExplains
<1>10. Alone /\ Below
  BY <1>2, <1>3 DEF Alone, Below, Open, HasPlan
<1> QED BY <1>7, <1>8, <1>9, <1>10 DEF IndInv

LEMMA NextKeeps == IndInv /\ [Next]_vars => IndInv'
<1> SUFFICES ASSUME IndInv, [Next]_vars PROVE IndInv'
  OBVIOUS
<1>1. CASE UNCHANGED vars
  <2>1. \A r \in Runs : Planned(r)' = Planned(r)
    BY <1>1 DEF vars, Planned, Records
  <2>2. TypeOK'
    BY <1>1 DEF vars, IndInv, TypeOK
  <2>3. \A r \in Runs : RunFacts(r)'
    BY <1>1, <2>1, Types DEF vars, RunFacts, Open, HasPlan
  <2>4. BackupExplains'
    BY <1>1 DEF vars, IndInv, BackupExplains
  <2>5. ~overlap' => Alone' /\ Below'
    BY <1>1 DEF vars, IndInv, Alone, Below, Open, HasPlan, Watermark
  <2> QED BY <2>2, <2>3, <2>4, <2>5 DEF IndInv
<1>2. CASE AppNext
  BY <1>2, InsertKeeps DEF AppNext
<1>3. ASSUME NEW r \in Runs, NEW targets \in SUBSET Fields, NEW offset \in Offsets,
             MakePlan(r, targets, offset)
      PROVE  IndInv'
  BY <1>3, MakePlanKeeps
<1>7. ASSUME NEW r \in Runs, Look(r) PROVE IndInv'
  BY <1>7, LookKeeps
<1>4. ASSUME NEW r \in Runs, Save(r) PROVE IndInv'
  BY <1>4, SaveKeeps
<1>5. ASSUME NEW r \in Runs, Apply(r) PROVE IndInv'
  BY <1>5, ApplyKeeps
<1>6. ASSUME NEW r \in Runs, Stop(r) PROVE IndInv'
  BY <1>6, StopKeeps
<1> QED BY <1>1, <1>2, <1>3, <1>4, <1>5, <1>6, <1>7 DEF Next, RunNext

(* The state of utc_migrate.py always has the types of TypeOK.             *)
THEOREM TypeCorrect == Spec => []TypeOK
<1>1. IndInv => TypeOK
  BY DEF IndInv
<1> QED BY <1>1, InitKeeps, NextKeeps, PTL DEF Spec

(* Whatever runs overlap, fail or stop, a backup record undoes each shift. *)
THEOREM BackupExplainsHolds == Spec => []BackupExplains
<1>1. IndInv => BackupExplains
  BY DEF IndInv
<1> QED BY <1>1, InitKeeps, NextKeeps, PTL DEF Spec

(* Runs that never overlap shift no row twice.                             *)
THEOREM ShiftedOnceHolds == Spec => []ShiftedOnce
<1>1. IndInv => ShiftedOnce
  BY DEF IndInv, Below, ShiftedOnce
<1> QED BY <1>1, InitKeeps, NextKeeps, PTL DEF Spec

LEMMA MarkStep == IndInv /\ [Next]_vars => [KeepsMark]_vars
<1> SUFFICES ASSUME IndInv, Next PROVE KeepsMark
  BY DEF vars
<1>1. \A f \in Fields : Watermark(f) \in Nat
  BY MarkType DEF IndInv
<1>2. CASE flag' = flag
  BY <1>1, <1>2 DEF KeepsMark, Watermark
<1>3. ASSUME NEW r \in Runs, Apply(r) PROVE KeepsMark
  BY <1>3, MarkApplied DEF KeepsMark
<1>4. AppNext => flag' = flag
  BY DEF AppNext, AppUpdate, AppInsert, AppWrite
<1>5. ASSUME NEW r \in Runs, NEW targets \in SUBSET Fields, NEW offset \in Offsets,
             MakePlan(r, targets, offset)
      PROVE  flag' = flag
  BY <1>5 DEF MakePlan
<1>6. ASSUME NEW r \in Runs, Look(r) \/ Save(r) \/ Stop(r) PROVE flag' = flag
  BY <1>6 DEF Look, Save, Stop
<1> QED BY <1>2, <1>3, <1>4, <1>5, <1>6 DEF Next, RunNext

(* Runs that never overlap take no watermark back.                         *)
THEOREM MarkGrowsHolds == Spec => MarkGrows
<1>1. []IndInv /\ [][Next]_vars => [][KeepsMark]_vars
  BY MarkStep, PTL
<1> QED BY <1>1, InitKeeps, NextKeeps, PTL DEF Spec, MarkGrows

-----------------------------------------------------------------------------
(* The offset of every run that the tool accepts is the one of the zone.   *)
RightOffset == \A offset \in Offsets : offset < 0 => offset = -Ahead

MigInv == IndInv /\ Migrating

LEMMA MigratingInit == Init => MigInv
<1> SUFFICES ASSUME Init PROVE Migrating
  BY InitKeeps DEF MigInv
<1>1. run = [r \in Runs |-> Idle("new")] /\ flag = [f \in Fields |-> NoFlag]
  BY DEF Init
<1>2. \A r \in Runs : run[r].targets = {}
  BY <1>1, IdleType
<1>3. \A f \in Fields : ~flag[f].made
  BY <1>1 DEF NoFlag
<1>4. ASSUME NEW f \in Fields, NEW i \in rows[f] PROVE cell[f][i].zone = Ahead
  <2>1. i \in DOMAIN Start[f] /\ i \in Ids
    BY <1>4, StartAssumption DEF Init
  <2>2. cell[f][i] = [Null EXCEPT !.filled = TRUE, !.at = Start[f][i], !.zone = Ahead]
    BY <2>1 DEF Init
  <2> QED BY <2>2 DEF Null
<1> QED BY <1>2, <1>3, <1>4 DEF Migrating, LocalPlanned, UtcMissed, Hits

LEMMA MigratingApp ==
  ASSUME MigInv, NEW f \in Fields, NEW i \in Ids, NEW h \in Hours,
         AppUpdate(f, i, h) \/ AppInsert(f, i, h)
  PROVE  Migrating'
<1>1. /\ AppWrite(f, i, h) /\ \A g \in Fields : rows'[g] \subseteq rows[g] \union {i}
      /\ \A g \in Fields : g # f => rows'[g] = rows[g]
  BY Types DEF MigInv, AppUpdate, AppInsert
<1>2. /\ cell'[f][i].zone = 0 /\ cell'[f][i].at = h
      /\ \A g \in Fields, j \in Ids : g # f \/ j # i => cell'[g][j] = cell[g][j]
  BY <1>1, CellWritten DEF MigInv, IndInv
<1>3. UNCHANGED <<flag, run>> /\ mixed \subseteq mixed'
      /\ (f \notin mixed' => \A r \in Runs : ~(/\ i \in run[r].plan[f].todo
                                               /\ run[r].plan[f].old[i] = h))
  BY <1>1 DEF AppWrite
<1> SUFFICES ASSUME NEW g \in Fields \ mixed' PROVE LocalPlanned(g)' /\ UtcMissed(g)'
  BY DEF Migrating
<1>4. LocalPlanned(g) /\ UtcMissed(g)
  BY <1>3 DEF MigInv, Migrating
<1>5. ASSUME NEW j \in rows'[g], cell'[g][j].filled, cell'[g][j].zone # 0
      PROVE  j \in rows[g] /\ cell'[g][j] = cell[g][j]
  <2>1. ~(g = f /\ j = i)
    BY <1>2, <1>5
  <2>2. j \in rows[g]
    BY <1>1, <1>5, <2>1
  <2>3. j \in Ids
    BY <2>2, Types DEF MigInv
  <2> QED BY <1>2, <2>1, <2>2, <2>3
<1>6. LocalPlanned(g)'
  BY <1>3, <1>4, <1>5 DEF LocalPlanned
<1>7. ASSUME NEW r \in Runs, NEW j \in Ids, Hits(r, g, j)' PROVE cell'[g][j].zone # 0
  <2>1. CASE g = f /\ j = i
    BY <1>2, <1>3, <1>7, <2>1 DEF Hits
  <2>2. CASE ~(g = f /\ j = i)
    <3>1. cell'[g][j] = cell[g][j]
      BY <1>2, <2>2
    <3>2. Hits(r, g, j)
      BY <1>3, <1>7, <3>1 DEF Hits
    <3> QED BY <1>4, <3>1, <3>2 DEF UtcMissed
  <2> QED BY <2>1, <2>2
<1> QED BY <1>6, <1>7 DEF UtcMissed

LEMMA MigratingPlan ==
  ASSUME MigInv, NEW r \in Runs, NEW targets \in SUBSET Fields, NEW offset \in Offsets,
         MakePlan(r, targets, offset)
  PROVE  Migrating'
<1>1. /\ \A q \in Runs : q # r => run'[q] = run[q]
      /\ run'[r].targets = targets /\ run'[r].plan = PlanFor(r, targets)
      /\ UNCHANGED <<rows, cell, flag>>
  BY MakePlanRun DEF MigInv
<1>2. mixed' = mixed \union
        {f \in targets : \E i \in Candidates(f, Mark(r, f)) : cell[f][i].zone = 0}
  BY DEF MakePlan
<1> SUFFICES ASSUME NEW f \in Fields \ mixed' PROVE LocalPlanned(f)' /\ UtcMissed(f)'
  BY DEF Migrating
<1>3. LocalPlanned(f) /\ UtcMissed(f)
  BY <1>2 DEF MigInv, Migrating
<1>4. f \in targets =>
        /\ run'[r].plan[f].todo = Candidates(f, Mark(r, f))
        /\ \A i \in Candidates(f, Mark(r, f)) : run'[r].plan[f].old[i] = cell[f][i].at
        /\ \A i \in Candidates(f, Mark(r, f)) : cell[f][i].zone # 0
  BY <1>1, <1>2, PlanType DEF MigInv
<1>5. ASSUME NEW i \in rows[f], cell[f][i].filled, ~flag[f].made PROVE i \in Candidates(f, Mark(r, f))
  <2>1. i \in Nat /\ i > 0
    BY <1>5, Types, RowAssumption DEF MigInv, Ids
  <2> QED BY <1>5, <2>1 DEF Candidates, Mark, Watermark
<1>6. LocalPlanned(f)'
  <2> SUFFICES ASSUME NEW i \in rows[f], cell[f][i].filled, cell[f][i].zone # 0
               PROVE  /\ cell[f][i].zone = Ahead /\ ~flag[f].made
                      /\ \A q \in Runs : f \in run'[q].targets =>
                           i \in run'[q].plan[f].todo /\ run'[q].plan[f].old[i] = cell[f][i].at
    BY <1>1 DEF LocalPlanned
  <2>1. cell[f][i].zone = Ahead /\ ~flag[f].made
    BY <1>3 DEF LocalPlanned
  <2>2. ASSUME NEW q \in Runs, f \in run'[q].targets
        PROVE  i \in run'[q].plan[f].todo /\ run'[q].plan[f].old[i] = cell[f][i].at
    <3>1. CASE q = r
      BY <1>1, <1>4, <1>5, <2>1, <2>2, <3>1
    <3>2. CASE q # r
      BY <1>1, <1>3, <2>2, <3>2 DEF LocalPlanned
    <3> QED BY <3>1, <3>2
  <2> QED BY <2>1, <2>2
<1>7. ASSUME NEW q \in Runs, NEW i \in Ids, Hits(q, f, i)' PROVE cell[f][i].zone # 0
  <2>1. CASE q = r
    BY <1>1, <1>4, <1>7, <2>1 DEF Hits
  <2>2. CASE q # r
    <3>1. Hits(q, f, i)
      BY <1>1, <1>7, <2>2 DEF Hits
    <3> QED BY <1>3, <3>1 DEF UtcMissed
  <2> QED BY <2>1, <2>2
<1> QED BY <1>1, <1>6, <1>7 DEF UtcMissed

(* A step that leaves the rows alone and gives no run more in hand.        *)
LEMMA MigratingLess ==
  ASSUME MigInv, UNCHANGED <<rows, cell, flag, mixed>>,
         \A q \in Runs : \/ run'[q].targets = {}
                         \/ run'[q].targets = run[q].targets /\ run'[q].plan = run[q].plan
  PROVE  Migrating'
<1> SUFFICES ASSUME NEW f \in Fields \ mixed PROVE LocalPlanned(f)' /\ UtcMissed(f)'
  BY DEF Migrating
<1>1. LocalPlanned(f) /\ UtcMissed(f)
  BY DEF MigInv, Migrating
<1>2. LocalPlanned(f)'
  BY <1>1 DEF LocalPlanned
<1>3. ASSUME NEW q \in Runs, NEW i \in Ids, Hits(q, f, i)' PROVE Hits(q, f, i)
  BY <1>3 DEF Hits
<1> QED BY <1>1, <1>2, <1>3 DEF UtcMissed

LEMMA MigratingApply ==
  ASSUME MigInv, RightOffset, NEW r \in Runs, Apply(r)
  PROVE  Migrating'
<1>1. /\ \A q \in Runs : q # r => run'[q] = run[q]
      /\ run'[r].targets = {} /\ run[r].state = "saved"
      /\ UNCHANGED <<rows, mixed>>
  BY RunEnds DEF MigInv, Apply
<1>2. /\ \A f \in Fields, i \in Ids :
           cell'[f][i] = IF Hits(r, f, i) THEN Shifted(cell[f][i], run[r].offset)
                                          ELSE cell[f][i]
      /\ \A f \in Fields \ run[r].targets : flag'[f] = flag[f]
  BY ApplyCells DEF MigInv
<1>3. run[r].offset = -Ahead /\ run[r].offset < 0 /\ run[r].offset \in Int
  <2>1. RunFacts(r)
    BY Types DEF MigInv
  <2> QED BY <1>1, <2>1, HourAssumption DEF RunFacts, Open, HasPlan, RightOffset
<1> SUFFICES ASSUME NEW f \in Fields \ mixed PROVE LocalPlanned(f)' /\ UtcMissed(f)'
  BY <1>1 DEF Migrating
<1>4. LocalPlanned(f) /\ UtcMissed(f)
  BY DEF MigInv, Migrating
<1>5. ASSUME NEW i \in Ids, Hits(r, f, i)
      PROVE  /\ i \in rows[f] /\ cell[f][i].filled /\ cell[f][i].zone = Ahead
             /\ cell[f][i].at \in Int
             /\ cell'[f][i].zone = 0 /\ cell'[f][i].at # cell[f][i].at
             /\ \A q \in Runs : f \in run[q].targets => run[q].plan[f].old[i] = cell[f][i].at
  <2>1. i \in run[r].plan[f].todo /\ cell[f][i].filled /\ cell[f][i].zone # 0
    BY <1>4, <1>5 DEF Hits, UtcMissed
  <2>2. i \in rows[f]
    BY <2>1, Types DEF MigInv, RunFacts
  <2>3. /\ cell[f][i].zone = Ahead
        /\ \A q \in Runs : f \in run[q].targets => run[q].plan[f].old[i] = cell[f][i].at
    BY <1>4, <2>1, <2>2 DEF LocalPlanned
  <2>4. cell[f][i] \in Cell
    BY Types DEF MigInv
  <2>5. cell[f][i].at \in Int
    BY <2>4 DEF Cell
  <2>6. cell'[f][i] = Shifted(cell[f][i], run[r].offset)
    BY <1>2, <1>5
  <2>7. /\ cell'[f][i].zone = cell[f][i].zone + run[r].offset
        /\ cell'[f][i].at = cell[f][i].at + run[r].offset
    BY <2>6 DEF Shifted
  <2>8. cell'[f][i].zone = 0
    BY <1>3, <2>3, <2>7, HourAssumption
  <2>9. cell'[f][i].at # cell[f][i].at
    BY <1>3, <2>5, <2>7
  <2> QED BY <2>1, <2>2, <2>3, <2>5, <2>8, <2>9
<1>6. LocalPlanned(f)'
  <2> SUFFICES ASSUME NEW i \in rows[f], cell'[f][i].filled, cell'[f][i].zone # 0
               PROVE  /\ cell'[f][i].zone = Ahead /\ ~flag'[f].made
                      /\ \A q \in Runs : f \in run'[q].targets =>
                           i \in run'[q].plan[f].todo /\ run'[q].plan[f].old[i] = cell'[f][i].at
    BY <1>1 DEF LocalPlanned
  <2>1. i \in Ids
    BY Types DEF MigInv
  <2>2. ~Hits(r, f, i)
    BY <1>5, <2>1
  <2>3. cell'[f][i] = cell[f][i]
    BY <1>2, <2>1, <2>2
  <2>4. /\ cell[f][i].zone = Ahead /\ ~flag[f].made
        /\ \A q \in Runs : f \in run[q].targets =>
             i \in run[q].plan[f].todo /\ run[q].plan[f].old[i] = cell[f][i].at
    BY <1>4, <2>3 DEF LocalPlanned
  <2>5. f \notin run[r].targets
    BY <2>2, <2>3, <2>4 DEF Hits
  <2>6. flag'[f] = flag[f]
    BY <1>2, <2>5
  <2>7. ASSUME NEW q \in Runs, f \in run'[q].targets
        PROVE  i \in run'[q].plan[f].todo /\ run'[q].plan[f].old[i] = cell'[f][i].at
    <3>1. run'[q] = run[q]
      BY <1>1, <2>7
    <3> QED BY <2>3, <2>4, <2>7, <3>1
  <2> QED BY <2>3, <2>4, <2>6, <2>7
<1>7. ASSUME NEW q \in Runs, NEW i \in Ids, Hits(q, f, i)' PROVE cell'[f][i].zone # 0
  <2>1. /\ run'[q] = run[q] /\ f \in run[q].targets
        /\ i \in run[q].plan[f].todo
        /\ cell'[f][i].filled /\ cell'[f][i].at = run[q].plan[f].old[i]
    BY <1>1, <1>7 DEF Hits
  <2>2. ~Hits(r, f, i)
    BY <1>5, <2>1
  <2>3. cell'[f][i] = cell[f][i]
    BY <1>2, <2>2
  <2>4. Hits(q, f, i)
    BY <2>1, <2>3 DEF Hits
  <2> QED BY <1>4, <2>3, <2>4 DEF UtcMissed
<1> QED BY <1>6, <1>7 DEF UtcMissed

LEMMA MigratingNext == RightOffset /\ MigInv /\ [Next]_vars => MigInv'
<1> SUFFICES ASSUME RightOffset, MigInv, [Next]_vars PROVE Migrating'
  BY NextKeeps DEF MigInv
<1>1. CASE UNCHANGED vars
  BY <1>1, MigratingLess DEF vars
<1>2. CASE AppNext
  BY <1>2, MigratingApp DEF AppNext
<1>3. ASSUME NEW r \in Runs, NEW targets \in SUBSET Fields, NEW offset \in Offsets,
             MakePlan(r, targets, offset)
      PROVE  Migrating'
  BY <1>3, MigratingPlan
<1>7. ASSUME NEW r \in Runs, Look(r) PROVE Migrating'
  BY <1>7, LookRun, MigratingLess DEF MigInv
<1>4. ASSUME NEW r \in Runs, Save(r) PROVE Migrating'
  <2>1. UNCHANGED <<rows, cell, flag, mixed>>
    BY <1>4 DEF Save
  <2>2. \A q \in Runs : run'[q].targets = run[q].targets /\ run'[q].plan = run[q].plan
    BY <1>4, SaveRun DEF MigInv
  <2> QED BY <2>1, <2>2, MigratingLess
<1>5. ASSUME NEW r \in Runs, Apply(r) PROVE Migrating'
  BY <1>5, MigratingApply
<1>6. ASSUME NEW r \in Runs, Stop(r) PROVE Migrating'
  <2>1. run' = [run EXCEPT ![r] = Idle("over")] /\ UNCHANGED <<rows, cell, flag, backup, mixed>>
    BY <1>6 DEF Stop
  <2>2. run'[r].targets = {} /\ \A q \in Runs : q # r => run'[q] = run[q]
    BY <2>1, RunEnds DEF MigInv
  <2> QED BY <2>1, <2>2, MigratingLess
<1> QED BY <1>1, <1>2, <1>3, <1>4, <1>5, <1>6, <1>7 DEF Next, RunNext

(* When every offset the tool accepts is that of the local zone, a         *)
(* committed run leaves UTC only, whatever runs overlapped.                *)
THEOREM MigratedUtcHolds == RightOffset /\ Spec => []MigratedUtc
<1>1. MigInv => MigratedUtc
  BY DEF MigInv, Migrating, LocalPlanned, MigratedUtc
<1>2. RightOffset => []RightOffset
  <2>1. RightOffset => RightOffset'
    BY DEF RightOffset
  <2> QED BY <2>1, PTL DEF RightOffset
<1> QED BY <1>1, <1>2, MigratingInit, MigratingNext, PTL DEF Spec
==============================================================================
