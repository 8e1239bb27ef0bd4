------------------------- MODULE MCConvertDatabase --------------------------
(* Instance of ConvertDatabase for TLC. *)
EXTENDS ConvertDatabase, TLC

\* 1, 2: ordinary tables; 3: sqlite_sequence; 4: a user table called "sqlitedata",
\* which LIKE 'sqlite_%' matches; 5, 6: views.
MCObjects == 1..6
MCLikeSqlite == {3, 4}
MCInternal == {3}

V(name, reads, quirk) == [name |-> name, reads |-> reads, quirk |-> quirk]
Database(engine, main, other, defs) ==
    [engine |-> engine, main |-> main, other |-> other, views |-> defs]

\* The SQLite and the DuckDB form of one database; in both a view reads a view, and
\* name order and creation order differ in the second.
Chain == Database("sqlite", {1, 2, 3}, {}, <<V(5, {1}, FALSE), V(6, {5}, FALSE)>>)
Native == Database("duckdb", {1, 2}, {}, <<V(6, {1, 2}, FALSE), V(5, {6}, FALSE)>>)
\* A table of the same name in two schemas.
Schemas == Database("duckdb", {1}, {1, 2}, << >>)
\* A user table the LIKE pattern matches, a view that reads it, a dialect quirk.
Lookalike == Database("sqlite", {1, 4}, {}, <<V(5, {4}, FALSE), V(6, {1}, TRUE)>>)

\* A view created again after one that reads it.
Recreated == Database("sqlite", {1}, {}, <<V(5, {6}, FALSE), V(6, {1}, FALSE)>>)

\* More tables than views.
Plain == Database("duckdb", {1, 2}, {}, <<V(5, {1}, FALSE)>>)

MCSources == {Plain, Chain, Native, Schemas, Lookalike, Recreated}
MCTargets == {{}, {1}, {3, 5}}
LookalikeOnly == {Lookalike}
=============================================================================
