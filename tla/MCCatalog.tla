----------------------------- MODULE MCCatalog ------------------------------
(* Instance of Catalog for TLC: a table and one whose name looks like SQLite's. *)
EXTENDS Catalog, TLC

CONSTANTS t, sqlitedata

MCNames == {t, sqlitedata}
MCSqliteLike == {sqlitedata}
MCBroken == {3}
=============================================================================
