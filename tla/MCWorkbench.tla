---------------------------- MODULE MCWorkbench -----------------------------
(* Instance of Workbench for TLC. *)
EXTENDS Workbench

CONSTANTS sqlite, duckdb, stray, memory, t1, t2

MCFiles == {sqlite, duckdb, stray}
MCDuck == {duckdb, memory}
MCTables == {t1, t2}
MCModes == {"rw", "ro"}
OneTable == {t1}
OneMode == {"rw"}
=============================================================================
