--------------------------- MODULE MCUtcMigration ---------------------------
(* One column, a row of which the application may overwrite with the value *)
(* that is planned or with the value that a shift gives.                   *)
EXTENDS UtcMigration, TLC

CONSTANTS f1, r1, r2, r3

MCFields == {f1}
MCRuns   == {r1, r2, r3}
MCStart  == (f1 :> (1 :> 9))
MCHours  == {1, 9}
MCOffsets == {-8, 8}
RunSymmetry == Permutations(Runs)
=============================================================================
