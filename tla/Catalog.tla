------------------------------ MODULE Catalog -------------------------------
(***************************************************************************)
(* What the sidebar, the completion and the Schema view know of a          *)
(* database: schema.tables, schema.columns, schema.table_detail            *)
(* (src/api/api.c) over the catalog queries of src/engine/engine.c, and    *)
(* refreshSchema (ui/src/App.tsx), which makes the first two in a row.     *)
(*                                                                         *)
(* Each catalog query is a statement of its own: between any two of them   *)
(* another process may commit.  A name may stand for a table in more than  *)
(* one place, and the queries do not all look in the same ones.            *)
(***************************************************************************)
EXTENDS Naturals, Sequences

CONSTANTS
    Names,        \* names of tables and views
    NoName,       \* the empty name
    SqliteLike,   \* names that LIKE 'sqlite_%' matches; a user's may be one of them
    Own,          \* the connection's own main schema
    Other,        \* another schema of its database (DuckDB)
    Attached,     \* the main schema of an attached database
    Broken,       \* versions of a name that are views on something dropped since
    MaxVer,       \* bound: versions of a name
    MaxCommits,   \* bound: commits
    MaxRequests   \* bound: requests made

Spaces == {Own, Other, Attached}

ASSUME ConstantsAssumption ==
    /\ Own # Other /\ Own # Attached /\ Other # Attached
    /\ NoName \notin Names
    /\ MaxVer \in Nat \ {0} /\ Broken \subseteq 2..MaxVer
    /\ MaxCommits \in Nat /\ MaxRequests \in Nat

VARIABLES
    kind,      \* engine of the connection
    store,     \* store[s][n]: version of what n names in s, 0 if nothing
    pc,        \* the query about to be made
    table,     \* argument of schema.table_detail
    cols, idx, \* the db_results of the call: what they describe
    reply,
    sidebar,   \* App.tsx: tables, and the tables of columns
    shown,     \* history: the store when the sidebar's tables were listed
    trouble,   \* history: the engine or an allocation failed during the call
    log,       \* history: the stores since the call began
    commits, requests

vars == <<kind, store, pc, table, cols, idx, reply, sidebar, shown, trouble,
          log, commits, requests>>

At(step) == pc = step
NoReply == [kind |-> "none"]
Error(code) == [kind |-> "error", code |-> code]
NoSidebar == [tables |-> {}, columns |-> {}]

-----------------------------------------------------------------------------
(* What the queries see *)

Object(s, n) == [space |-> s, ver |-> store[s][n]]

\* The place an unqualified name is looked up in: SQLite goes on to attached databases.
Place(n) == IF kind = "sqlite" /\ store[Own][n] = 0 THEN Attached ELSE Own

There(n) == store[Place(n)][n] # 0
IsBroken(n) == store[Place(n)][n] \in Broken

\* Where the two lists look: DuckDB's ask for any schema named main.
AnySchema == IF kind = "duckdb" THEN Spaces ELSE {Own}                \* mutant
ListedSpaces == IF kind = "duckdb" THEN {Own, Attached} ELSE {Own}

ListedByLike ==                                                     \* mutant
    {n \in Names : (\E s \in ListedSpaces : store[s][n] # 0) /\ n \notin SqliteLike}

Listed == {n \in Names : (\E s \in ListedSpaces : store[s][n] # 0)
                         /\ (kind = "sqlite" => n \notin SqliteLike)}

\* The tables whose indexes are listed: DuckDB's by name alone.
IndexedInOwn(n) == {o \in {Object(Own, n)} : o.ver # 0}              \* mutant
IndexedOrNot(n) == {Object(s, n) : s \in Spaces}                     \* mutant

Indexed(n) ==
    LET places == IF kind = "duckdb" THEN Spaces ELSE {Place(n)}
    IN  {o \in {Object(s, n) : s \in places} : o.ver # 0}

-----------------------------------------------------------------------------
(* Requests, and how they end *)

Begins(step, t) ==
    /\ At("idle") /\ requests < MaxRequests
    /\ requests' = requests + 1
    /\ pc' = step /\ table' = t /\ reply' = NoReply
    /\ trouble' = FALSE /\ log' = <<store>>
    /\ UNCHANGED <<kind, store, cols, idx, sidebar, shown, commits>>

\* The reply goes out, and both results are freed whatever it is.
Replies(r) ==
    /\ reply' = r /\ pc' = "idle" /\ cols' = {} /\ idx' = {}
    /\ UNCHANGED <<kind, store, table, log, commits, requests>>

\* The engine refuses the statement, or it or an allocation before it fails.
Refused(refuses) ==
    /\ \/ refuses /\ Replies(Error("sql")) /\ UNCHANGED trouble
       \/ \E code \in {"sql", "oom"} : Replies(Error(code)) /\ trouble' = TRUE

Succeeds(next) ==
    /\ pc' = next
    /\ UNCHANGED <<kind, store, table, reply, trouble, log, commits, requests>>

-----------------------------------------------------------------------------
(* schema.table_detail *)

Describe(n) == Begins("columns", n)

NameMissing ==
    /\ At("columns") /\ table = NoName
    /\ Replies(Error("invalid")) /\ UNCHANGED <<sidebar, shown, trouble>>

\* db_table_columns: for SQLite a table that is not there has no columns.
TableColumns ==
    /\ At("columns") /\ table # NoName
    /\ \/ /\ There(table) \/ kind = "sqlite"
          /\ IsBroken(table) => kind = "duckdb"
          /\ cols' = IF There(table) THEN {Object(Place(table), table)} ELSE {}
          /\ Succeeds("indexes") /\ UNCHANGED idx
       \/ Refused(IsBroken(table) \/ (kind = "duckdb" /\ ~There(table)))
    /\ UNCHANGED <<sidebar, shown>>

\* db_table_indexes
TableIndexes ==
    /\ At("indexes")
    /\ \/ /\ idx' = Indexed(table)
          /\ Succeeds("count") /\ UNCHANGED cols
       \/ Refused(FALSE)
    /\ UNCHANGED <<sidebar, shown>>

\* db_table_row_count, and the reply of the three.
TableRowCount ==
    /\ At("count")
    /\ \/ /\ There(table) /\ ~IsBroken(table)
          /\ Replies([kind |-> "detail", columns |-> cols, indexes |-> idx,
                      row_count |-> Object(Place(table), table)])
          /\ UNCHANGED trouble
       \/ Refused(~There(table) \/ IsBroken(table))
    /\ UNCHANGED <<sidebar, shown>>

-----------------------------------------------------------------------------
(* refreshSchema: schema.tables, then schema.columns *)

RefreshSchema == Begins("tables", NoName)

\* The catch of refreshSchema, whichever call failed.
ClearColumns == sidebar' = [sidebar EXCEPT !.columns = {}] /\ UNCHANGED shown  \* mutant
ClearSidebar == sidebar' = NoSidebar /\ UNCHANGED shown

\* db_list_tables
ListTables ==
    /\ At("tables")
    /\ \/ /\ sidebar' = [sidebar EXCEPT !.tables = Listed] /\ shown' = store
          /\ Succeeds("names") /\ UNCHANGED <<cols, idx>>
       \/ Refused(FALSE) /\ ClearSidebar

\* db_list_columns: SQLite describes every name in one statement, so one view that
\* cannot be described fails it, and the sidebar goes with it.
ListColumns ==
    /\ At("names")
    /\ \/ /\ kind = "sqlite" => \A n \in Listed : store[Own][n] \notin Broken
          /\ sidebar' = [sidebar EXCEPT !.columns = Listed]
          /\ Replies([kind |-> "lists"]) /\ UNCHANGED <<shown, trouble>>
       \/ /\ Refused(\E n \in Listed : \E s \in ListedSpaces : store[s][n] \in Broken)
          /\ ClearSidebar

-----------------------------------------------------------------------------
(* Commits *)

Commits(s, n, v) ==
    /\ commits < MaxCommits /\ commits' = commits + 1
    /\ store[s][n] # v
    /\ store' = [store EXCEPT ![s][n] = v]
    /\ log' = IF pc = "idle" THEN log ELSE Append(log, store')
    /\ UNCHANGED <<kind, pc, table, cols, idx, reply, sidebar, shown, trouble, requests>>

\* query.run on this connection: between two calls, also between the two of a refresh,
\* which awaits the first; never during one (nor, as nobody would see it, after the last).
OwnStatement(s, n, v) ==
    /\ At("names") \/ (At("idle") /\ requests < MaxRequests)
    /\ s = Other => kind = "duckdb"
    /\ Commits(s, n, v)

\* Another process: DuckDB keeps others away from the database it has open.
OtherCommits(s, n, v) ==
    /\ s = Attached \/ (s = Own /\ kind = "sqlite")
    /\ Commits(s, n, v)

-----------------------------------------------------------------------------
Init ==
    /\ kind \in {"sqlite", "duckdb"}
    /\ store \in [Spaces -> [Names -> {0, 1}]]
    /\ kind = "sqlite" => store[Other] = [n \in Names |-> 0]
    /\ pc = "idle" /\ table = NoName /\ cols = {} /\ idx = {}
    /\ reply = NoReply /\ sidebar = NoSidebar /\ shown = store /\ trouble = FALSE /\ log = << >>
    /\ commits = 0 /\ requests = 0

Step ==
    \/ NameMissing \/ TableColumns \/ TableIndexes \/ TableRowCount
    \/ ListTables \/ ListColumns

Next ==
    \/ Step \/ RefreshSchema
    \/ \E n \in Names \cup {NoName} : Describe(n)
    \/ \E s \in Spaces, n \in Names, v \in 0..MaxVer :
          OwnStatement(s, n, v) \/ OtherCommits(s, n, v)

Spec == Init /\ [][Next]_vars

-----------------------------------------------------------------------------
(* Properties *)

Stores == [Spaces -> [Names -> 0..MaxVer]]
Objects == [space : Spaces, ver : 1..MaxVer]
Replied == [kind : {"none", "lists"}] \cup [kind : {"error"}, code : {"sql", "oom", "invalid"}]
           \cup [kind : {"detail"}, columns : SUBSET Objects, indexes : SUBSET Objects,
                 row_count : Objects]

\* Values have their types; at any time the log ends with the present.
TypeOK ==
    /\ kind \in {"sqlite", "duckdb"}
    /\ store \in Stores
    /\ pc \in {"idle", "columns", "indexes", "count", "tables", "names"}
    /\ table \in Names \cup {NoName}
    /\ cols \subseteq Objects /\ idx \subseteq Objects
    /\ reply \in Replied
    /\ sidebar \in [tables : SUBSET Names, columns : SUBSET Names]
    /\ shown \in Stores /\ trouble \in BOOLEAN /\ log \in Seq(Stores)
    /\ pc # "idle" => log # << >> /\ log[Len(log)] = store
    /\ commits \in 0..MaxCommits /\ requests \in 0..MaxRequests

\* Each part of a structure is of the table named, each as it was at some moment of
\* the call, in the order columns, indexes, row count: SQLite describes with no columns
\* a table made after the first query.  If nothing is committed they agree, but for
\* DuckDB's indexes, to which those of its namesakes elsewhere are added.
Named(at, s) == {o \in {[space |-> s, ver |-> at[s][table]]} : o.ver # 0}
Found(at) == Named(at, IF kind = "sqlite" /\ at[Own][table] = 0 THEN Attached ELSE Own)
IndexesOf(set, at) ==
    /\ Found(at) \subseteq set
    /\ set \subseteq IF kind = "duckdb" THEN UNION {Named(at, s) : s \in Spaces} ELSE Found(at)
DetailOfCall ==
    reply.kind = "detail" =>
        \E i, j, k \in DOMAIN log :
            /\ i <= j /\ j <= k
            /\ reply.columns = Found(log[i])
            /\ IndexesOf(reply.indexes, log[j])
            /\ {reply.row_count} = Found(log[k])

\* A name the sidebar shows has a structure: if nothing was committed since and no
\* resource fails, only a broken view and a name of an attached database have none.
ListedDescribed ==
    reply = Error("sql") /\ ~trouble /\ table \in sidebar.tables /\ log = <<shown>> =>
        \/ shown[Own][table] \in Broken
        \/ kind = "duckdb" /\ shown[Own][table] = 0 /\ shown[Attached][table] # 0

\* Sidebar and completion list every name of the own schema but those that look like
\* SQLite's, and none that is nowhere; the second list is the later one.  They agree
\* unless there was a commit in between: of another process, or of a statement that ran
\* on this very connection between the two calls.
Lists(names, at) ==
    \A n \in Names :
        /\ at[Own][n] # 0 => n \in names \/ (kind = "sqlite" /\ n \in SqliteLike)
        /\ n \in names => at[Own][n] # 0 \/ (kind = "duckdb" /\ at[Attached][n] # 0)
SidebarListed ==
    reply.kind = "lists" =>
        /\ \E i, j \in DOMAIN log :
              i <= j /\ Lists(sidebar.tables, log[i]) /\ Lists(sidebar.columns, log[j])
        /\ Len(log) = 1 => sidebar.columns = sidebar.tables

\* A refresh that fails leaves no half of a sidebar: the tables of its first call go with
\* the columns the second could not list.  Unless a resource failed, there was a listed
\* view that could not be described at that moment, in one of the places the lists look in.
SidebarEmptied ==
    reply \in {Error("sql"), Error("oom")} /\ table = NoName =>
        /\ sidebar = NoSidebar
        /\ trouble \/ \E s \in ListedSpaces, n \in Names : log[Len(log)][s][n] \in Broken
=============================================================================
