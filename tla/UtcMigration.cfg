CONSTANTS
  f1 = f1
  r1 = r1
  r2 = r2
  r3 = r3
  Fields <- MCFields
  Runs <- MCRuns
  Start <- MCStart
  Hours <- MCHours
  Offsets <- MCOffsets
  Ahead = 8
  MaxRows = 2
SPECIFICATION Spec
INVARIANT BackupExplains
INVARIANT ShiftedOnce
INVARIANT MigratedUtc
PROPERTY MarkGrows
SYMMETRY RunSymmetry
CHECK_DEADLOCK FALSE
