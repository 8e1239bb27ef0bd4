----------------------------- MODULE Workbench ------------------------------
(***************************************************************************)
(* The UI's asynchronous handlers (ui/src/App.tsx), the bridge, and the    *)
(* shell that owns the connection (src/app/main.c).                        *)
(*                                                                         *)
(* A handler runs until it awaits a call, so a task is a handler and the   *)
(* call it awaits.  Calls reach the shell in the order they were made and  *)
(* replies come back in that order; only a file dialog answers when the    *)
(* user does.  What a database holds is its version: every change of its   *)
(* schema is a new one.                                                    *)
(***************************************************************************)
EXTENDS Naturals, Sequences, FiniteSets

CONSTANTS
    Files,        \* database files
    Duck,         \* databases that are DuckDB's
    Mem,          \* the in-memory DuckDB
    Stray,        \* the SQLite file named like the label of the in-memory database
    Tables,       \* table names
    Modes,        \* modes a file may open in; "rw" is the one that writes
    NoDb, NoTable,
    MaxTasks,     \* bound: handlers in flight
    MaxStarts,    \* bound: handlers started
    MaxLaunches,  \* bound: launches of the program
    MaxVer        \* bound: versions of a database

Dbs == Files \cup {Mem}

ASSUME ConstantsAssumption ==
    /\ Mem \in Duck \ Files /\ Stray \in Files \ Duck /\ Duck \subseteq Dbs
    /\ NoDb \notin Dbs /\ NoTable \notin Tables
    /\ "rw" \in Modes
    /\ {MaxTasks, MaxVer} \subseteq Nat \ {0} /\ {MaxStarts, MaxLaunches} \subseteq Nat

VARIABLES
    \* shell
    conn,      \* active connection
    ver,       \* version of each database
    \* bridge
    calls, replies,
    dialog,    \* task whose file dialog is up, 0 if none
    \* UI
    tasks,     \* handlers in flight
    info,      \* path and badges of the top bar
    tables, columns,                    \* sidebar; editor completion
    result, active, view, detail,       \* result pane
    lastSql,   \* database and table lastSql was run on
    busy, error, notice,
    menu,      \* one of the three menus is open
    lastPath,  \* localStorage dbview-last-path
    \* bounds
    started, launches,
    \* history
    unseen,    \* the schema changed, and nothing tells the page to list it again
    hidden,    \* the launch came back without a database and hid one opened meanwhile
    orphan     \* the launch came back with a database under a result of another

shell == <<conn, ver, unseen>>
wire == <<calls, replies, dialog>>
head == <<info, lastPath>>
sidebar == <<tables, columns>>
pane == <<result, active, view, detail, lastSql>>
status == <<busy, error, notice>>
count == <<started, launches>>
late == <<hidden, orphan>>
vars == <<shell, wire, tasks, head, sidebar, pane, status, menu, count, late>>

NoConn == [db |-> NoDb, mode |-> "none"]
NoNotice == [h |-> "none", db |-> NoDb]
Empty == [db |-> NoDb, ver |-> 0]                \* nothing listed
Blank == [db |-> NoDb, table |-> NoTable]        \* no result, no detail, no SQL
Now == [db |-> conn.db, ver |-> IF conn.db = NoDb THEN 0 ELSE ver[conn.db]]

-----------------------------------------------------------------------------
(* Tasks: the handler h, the method it awaits, the database and table it is about,
   the kind of SQL, and the database it took from the screen when it started *)

Task(h, at, db) ==
    [h |-> h, at |-> at, db |-> db, table |-> NoTable, text |-> "none", src |-> NoDb]

\* Task id makes its next call; the handler of task id returns.
Awaits(id, t) ==
    /\ tasks' = [k \in DOMAIN tasks \cup {id} |-> IF k = id THEN t ELSE tasks[k]]
    /\ calls' = Append(calls, [task |-> id, method |-> t.at, db |-> t.db,
                               text |-> t.text, src |-> t.src])
Ends(id) ==
    /\ tasks' = [k \in DOMAIN tasks \ {id} |-> tasks[k]]
    /\ UNCHANGED calls

Reply(c, ok, k, v) == [task |-> c.task, ok |-> ok, conn |-> k, ver |-> v]
Answer(c, ok, k, v) ==
    /\ calls' = Tail(calls)
    /\ replies' = Append(replies, Reply(c, ok, k, v))

-----------------------------------------------------------------------------
(* main.c on_invoke: the call that came first is executed to its end *)

Serves(method) == calls # << >> /\ Head(calls).method = method
Untouched == UNCHANGED <<tasks, head, sidebar, pane, status, menu, count, late>>

Current ==
    /\ Serves("current")
    /\ Answer(Head(calls), TRUE, conn, 0)
    /\ UNCHANGED <<shell, dialog>> /\ Untouched

Opens ==
    /\ Serves("open") \/ Serves("memory")
    /\ LET c == Head(calls)
       IN  \/ \E mode \in Modes :
                 LET k == [db |-> c.db, mode |-> mode]
                 IN  /\ c.db = Mem => mode = "rw" /\ ver[Mem] < MaxVer
                     /\ conn' = k
                     \* a new in-memory database is not the old one
                     /\ ver' = IF c.db = Mem THEN [ver EXCEPT ![Mem] = @ + 1] ELSE ver
                     /\ Answer(c, TRUE, k, 0) /\ unseen' = FALSE
           \/ UNCHANGED <<conn, ver, unseen>> /\ Answer(c, FALSE, conn, 0)
    /\ UNCHANGED dialog /\ Untouched

\* schema.tables, schema.columns, schema.table_detail; a listing starts with its tables.
Lists ==
    /\ Serves("tables") \/ Serves("columns") \/ Serves("detail")
    /\ \E ok \in BOOLEAN :
          /\ ok => conn.db # NoDb
          /\ Answer(Head(calls), ok, conn, Now.ver)
    /\ unseen' = (unseen /\ ~Serves("tables"))
    /\ UNCHANGED <<conn, ver, dialog>> /\ Untouched

\* query.run: any text of the editor may change the schema, "ddl" holds one of the words
\* after which the page lists it again, "other" does not (a ROLLBACK, an IMPORT DATABASE).
\* DuckDB runs every statement of a text up to the first that fails, SQLite the first alone.
Changing == {"ddl", "other", "import"}
Queries ==
    /\ Serves("query")
    /\ LET c == Head(calls)
           changes == /\ c.text \in Changing /\ conn.mode = "rw" /\ ver[conn.db] < MaxVer
                      /\ ver' = [ver EXCEPT ![conn.db] = @ + 1]
       IN  \/ /\ conn.db # NoDb /\ (c.text \in {"import", "copy"} => conn.db \in Duck)
              /\ \/ changes /\ unseen' = (unseen \/ c.text = "other")
                 \/ c.text # "import" /\ UNCHANGED <<ver, unseen>>
              /\ Answer(c, TRUE, conn, 0)
           \/ UNCHANGED <<ver, unseen>> /\ Answer(c, FALSE, conn, 0)
           \/ /\ conn.db \in Duck /\ c.text # "import" /\ changes /\ unseen' = TRUE
              /\ Answer(c, FALSE, conn, 0)
    /\ UNCHANGED <<conn, dialog>> /\ Untouched

\* convert.database takes its source by path and writes a file of its own, the open
\* one or another (ConvertDatabase).
Converts ==
    /\ Serves("convert")
    /\ LET c == Head(calls)
       IN  \E ok \in BOOLEAN, wrote \in BOOLEAN :
              /\ ok \/ wrote => /\ conn.db # NoDb /\ c.src \in Files
                                /\ (c.db \in Duck) # (c.src \in Duck)
              /\ wrote => ver[c.db] < MaxVer
              /\ ver' = IF wrote THEN [ver EXCEPT ![c.db] = @ + 1] ELSE ver
              /\ unseen' = (unseen \/ (wrote /\ conn.db = c.db))
              /\ Answer(c, ok, conn, 0)
    /\ UNCHANGED <<conn, dialog>> /\ Untouched

\* convert.import_csv, convert.import_parquet only build SQL.
Builds ==
    /\ Serves("build")
    /\ \E ok \in BOOLEAN : Answer(Head(calls), ok, conn, 0)
    /\ UNCHANGED <<shell, dialog>> /\ Untouched

ShowDialogOverDialog ==                                             \* mutant
    /\ Serves("pick")
    /\ calls' = Tail(calls) /\ dialog' = Head(calls).task
    /\ UNCHANGED <<shell, replies>> /\ Untouched

\* A dialog waits for the user, others do not wait for it.
ShowDialog ==
    /\ Serves("pick") /\ dialog = 0
    /\ calls' = Tail(calls) /\ dialog' = Head(calls).task
    /\ UNCHANGED <<shell, replies>> /\ Untouched

CloseDialogKeepsIt(db) ==                                           \* mutant
    /\ dialog # 0
    /\ replies' = Append(replies, [task |-> dialog, ok |-> TRUE, conn |-> [NoConn EXCEPT !.db = db], ver |-> 0])
    /\ UNCHANGED <<shell, calls, dialog>> /\ Untouched

CloseDialog(db) ==
    /\ dialog # 0
    /\ replies' = Append(replies, [task |-> dialog, ok |-> TRUE, conn |-> [NoConn EXCEPT !.db = db], ver |-> 0])
    /\ dialog' = 0
    /\ UNCHANGED <<shell, calls>> /\ Untouched

-----------------------------------------------------------------------------
(* App.tsx: the user starts a handler *)

\* A file dialog is modal.
Starts(t) ==
    /\ dialog = 0 /\ started < MaxStarts /\ Cardinality(DOMAIN tasks) < MaxTasks
    /\ Awaits(CHOOSE k \in 1..MaxTasks : k \notin DOMAIN tasks, t)
    /\ started' = started + 1
    /\ UNCHANGED <<shell, replies, dialog, head, sidebar, pane, launches, late>>

\* New DB, Import and Export are menus: the button waits for busy, the items of an open
\* menu do not.  A click beside an open menu only closes it, its backdrop covers the page.
OnPage(t) == ~menu /\ Starts(t) /\ UNCHANGED menu
InMenu(t) == menu /\ Starts(t) /\ menu' = FALSE

ToggleMenu ==
    /\ dialog = 0 /\ (menu \/ ~busy)
    /\ menu' = ~menu
    /\ UNCHANGED <<shell, wire, tasks, head, sidebar, pane, status, count, late>>

ClickOpen == ~busy /\ OnPage(Task("open", "pick", NoDb)) /\ UNCHANGED status
ClickNewDb == InMenu(Task("newdb", "pick", NoDb)) /\ UNCHANGED status
ClickRefresh == OnPage(Task("refresh", "tables", NoDb)) /\ UNCHANGED status

ClickConvert ==
    /\ ~busy /\ info.db # NoDb
    /\ OnPage([Task("convert", "pick", NoDb) EXCEPT !.src = info.db])
    /\ UNCHANGED status

ClickExport ==
    /\ info.db \in Duck /\ result.db # NoDb
    /\ InMenu([Task("export", "pick", NoDb) EXCEPT !.text = "copy", !.src = lastSql.db])
    /\ UNCHANGED status

ClickImport ==
    /\ info.db \in Duck
    /\ InMenu(Task("import", "pick", NoDb))
    /\ error' = "none" /\ notice' = NoNotice /\ UNCHANGED busy

\* Offered where the connection is not DuckDB's.
ClickMemory ==
    /\ info.db \notin Duck
    /\ OnPage(Task("memory", "memory", Mem))
    /\ busy' = TRUE /\ error' = "none" /\ UNCHANGED notice

\* The Run button waits for busy, the keyboard and the sidebar do not; the keyboard works
\* beside an open menu.
RunSql(text) ==
    /\ Starts([Task("run", "query", NoDb) EXCEPT !.text = text]) /\ UNCHANGED menu
    /\ busy' = TRUE /\ error' = "none" /\ notice' = NoNotice

Preview(table) ==
    /\ tables.db # NoDb
    /\ OnPage([Task("run", "query", NoDb) EXCEPT !.text = "select", !.table = table])
    /\ busy' = TRUE /\ error' = "none" /\ notice' = NoNotice

ClickSchema ==
    /\ active # NoTable /\ view = "data"
    /\ OnPage([Task("schema", "detail", NoDb) EXCEPT !.table = active])
    /\ UNCHANGED status

ClickData ==
    /\ dialog = 0 /\ ~menu /\ active # NoTable /\ view = "schema"
    /\ view' = "data"
    /\ UNCHANGED <<shell, wire, tasks, head, sidebar, result, active, detail, lastSql,
                   status, menu, count, late>>

-----------------------------------------------------------------------------
(* App.tsx: a reply resumes the handler that awaits it *)

Arrives(h, at, ok) ==
    /\ replies # << >>
    /\ Head(replies).ok = ok
    /\ tasks[Head(replies).task].h \in h /\ tasks[Head(replies).task].at \in at
    /\ replies' = Tail(replies)
    /\ UNCHANGED <<shell, dialog, menu, count>>

Id == Head(replies).task
Me == tasks[Id]
Then(at) == Awaits(Id, [Me EXCEPT !.at = at])

Apply(k) ==
    /\ info' = k
    /\ lastPath' = IF k.db = NoDb THEN lastPath ELSE k.db

\* The file picker: cancelled, or the handler goes on with the file.  convertDatabase
\* awaits it inside its try, so that even a cancelled one clears busy.
Picked ==
    /\ Arrives({"open", "newdb", "import", "export", "convert"}, {"pick"}, TRUE)
    /\ LET db == Head(replies).conn.db
           next == [open |-> "open", newdb |-> "open", import |-> "build",
                    export |-> "query", convert |-> "convert"][Me.h]
       IN  IF db = NoDb
           THEN /\ Ends(Id) /\ UNCHANGED <<error, notice>>
                /\ busy' = (busy /\ Me.h # "convert")
           ELSE /\ Awaits(Id, [Me EXCEPT !.at = next, !.db = db])
                /\ busy' = (busy \/ Me.h \in {"open", "newdb", "convert"})
                /\ error' = IF Me.h \in {"open", "newdb", "convert"} THEN "none" ELSE error
                /\ notice' = IF Me.h = "convert" THEN NoNotice ELSE notice
    /\ UNCHANGED <<head, sidebar, pane>>

\* The first effect of the page: show the connection, or reopen the last one.
Launched ==
    /\ Arrives({"launch"}, {"current"}, TRUE)
    /\ LET k == Head(replies).conn
       IN  IF k.db # NoDb THEN Apply(k) /\ Then("tables")
           ELSE IF lastPath # NoDb
           THEN Awaits(Id, Task("launch", "open", IF lastPath = Mem THEN Stray ELSE lastPath))
                /\ UNCHANGED head
           ELSE Apply(NoConn) /\ Ends(Id)
    /\ UNCHANGED <<sidebar, pane, status>>

OpenedKeepsResult ==                                                \* mutant
    /\ Arrives({"open", "newdb", "memory", "launch", "convert"}, {"open", "memory"}, TRUE)
    /\ Apply(Head(replies).conn) /\ Then("tables")
    /\ UNCHANGED <<sidebar, pane, status>>

OpenedForgetsConverted ==                                           \* mutant
    /\ Arrives({"open", "newdb", "memory", "launch", "convert"}, {"open", "memory"}, TRUE)
    /\ IF Me.h = "convert" THEN UNCHANGED head ELSE Apply(Head(replies).conn)
    /\ Then("tables")
    /\ result' = IF Me.h \in {"launch", "convert"} THEN result ELSE Blank
    /\ UNCHANGED <<sidebar, active, view, detail, lastSql, status>>

Opened ==
    /\ Arrives({"open", "newdb", "memory", "launch", "convert"}, {"open", "memory"}, TRUE)
    /\ Apply(Head(replies).conn) /\ Then("tables")
    /\ result' = IF Me.h \in {"launch", "convert"} THEN result ELSE Blank
    /\ UNCHANGED <<sidebar, active, view, detail, lastSql, status>>

OpenFailedStaysBusy ==                                              \* mutant
    /\ Arrives({"open", "newdb", "memory", "convert"}, {"open", "memory", "convert"}, FALSE)
    /\ Ends(Id)
    /\ error' = Me.h
    /\ notice' = IF Me.h = "newdb" THEN [h |-> Me.h, db |-> Me.db] ELSE notice
    /\ UNCHANGED <<head, sidebar, pane, busy>>

\* withBusy reports the error and returns, so newDatabase goes on to its notice.
OpenFailed ==
    /\ Arrives({"open", "newdb", "memory", "convert"}, {"open", "memory", "convert"}, FALSE)
    /\ Ends(Id)
    /\ busy' = FALSE /\ error' = Me.h
    /\ notice' = IF Me.h = "newdb" THEN [h |-> Me.h, db |-> Me.db] ELSE notice
    /\ UNCHANGED <<head, sidebar, pane>>

LaunchRetries ==                                                    \* mutant
    /\ Arrives({"launch"}, {"open"}, FALSE)
    /\ Then("open")
    /\ UNCHANGED <<head, sidebar, pane, status>>

LaunchFailed ==
    /\ Arrives({"launch"}, {"open"}, FALSE)
    /\ Apply(NoConn) /\ Ends(Id)
    /\ UNCHANGED <<sidebar, pane, status>>

Converted ==
    /\ Arrives({"convert"}, {"convert"}, TRUE)
    /\ Then("open")
    /\ UNCHANGED <<head, sidebar, pane, status>>

Built ==
    /\ Arrives({"import"}, {"build"}, TRUE)
    /\ Awaits(Id, [Me EXCEPT !.at = "query", !.text = "import"])
    /\ UNCHANGED <<head, sidebar, pane, status>>

Imported ==
    /\ Arrives({"import"}, {"query"}, TRUE)
    /\ Then("tables")
    /\ UNCHANGED <<head, sidebar, pane, status>>

Exported ==
    /\ Arrives({"export"}, {"query"}, TRUE)
    /\ Ends(Id)
    /\ notice' = [h |-> Me.h, db |-> Me.db]
    /\ UNCHANGED <<head, sidebar, pane, busy, error>>

\* Import, export and the structure query report what went wrong.
Failed ==
    /\ Arrives({"import", "export", "schema"}, {"build", "query", "detail"}, FALSE)
    /\ Ends(Id)
    /\ error' = Me.h
    /\ UNCHANGED <<head, sidebar, pane, busy, notice>>

\* refreshSchema, first half.
TablesListed ==
    /\ Arrives({"launch", "open", "newdb", "memory", "convert", "import", "refresh"}, {"tables"}, TRUE)
    /\ tables' = [db |-> Head(replies).conn.db, ver |-> Head(replies).ver]
    /\ Then("columns")
    /\ UNCHANGED <<head, columns, pane, status>>

\* What follows `await refreshSchema()` in the handler that called it.
AfterRefresh(failed) ==
    LET say == IF failed THEN "refresh" ELSE error
    IN  CASE Me.h \in {"launch", "refresh"} ->
               Ends(Id) /\ error' = say /\ UNCHANGED <<pane, busy, notice>>
          [] Me.h \in {"open", "memory"} ->
               Ends(Id) /\ busy' = FALSE /\ error' = say /\ UNCHANGED <<pane, notice>>
          [] Me.h = "newdb" ->
               /\ Ends(Id) /\ busy' = FALSE /\ error' = say
               /\ notice' = [h |-> Me.h, db |-> Me.db] /\ UNCHANGED pane
          [] Me.h = "convert" ->
               /\ Ends(Id) /\ busy' = FALSE /\ error' = say
               /\ result' = Blank /\ active' = NoTable
               /\ notice' = [h |-> Me.h, db |-> Me.db]
               /\ UNCHANGED <<view, detail, lastSql>>
          [] Me.h = "import" ->
               /\ Awaits(Id, [Me EXCEPT !.h = "preview", !.at = "query", !.text = "select"])
               /\ busy' = TRUE /\ error' = "none" /\ notice' = NoNotice
               /\ UNCHANGED pane

ColumnsListed ==
    /\ Arrives({"launch", "open", "newdb", "memory", "convert", "import", "refresh"}, {"columns"}, TRUE)
    /\ columns' = [db |-> Head(replies).conn.db, ver |-> Head(replies).ver]
    /\ AfterRefresh(FALSE)
    /\ UNCHANGED <<head, tables>>

ListingFailed ==
    /\ Arrives({"launch", "open", "newdb", "memory", "convert", "import", "refresh"},
               {"tables", "columns"}, FALSE)
    /\ tables' = Empty /\ columns' = Empty
    /\ AfterRefresh(TRUE)
    /\ UNCHANGED head

RanWithoutRefresh ==                                                \* mutant
    /\ Arrives({"run", "preview"}, {"query"}, TRUE)
    /\ LET shown == [db |-> Head(replies).conn.db, table |-> Me.table]
       IN  result' = shown /\ lastSql' = shown
    /\ active' = Me.table /\ view' = "data" /\ detail' = Blank
    /\ busy' = FALSE
    /\ notice' = IF Me.h = "preview" THEN [h |-> "import", db |-> Me.db] ELSE notice
    /\ Ends(Id)
    /\ UNCHANGED <<head, sidebar, error>>

\* runQuery; DDL starts a refresh nobody awaits.  importFile awaits it and notifies.
Ran ==
    /\ Arrives({"run", "preview"}, {"query"}, TRUE)
    /\ LET shown == [db |-> Head(replies).conn.db, table |-> Me.table]
       IN  result' = shown /\ lastSql' = shown
    /\ active' = Me.table /\ view' = "data" /\ detail' = Blank
    /\ busy' = FALSE
    /\ notice' = IF Me.h = "preview" THEN [h |-> "import", db |-> Me.db] ELSE notice
    /\ IF Me.text = "ddl" THEN Awaits(Id, Task("refresh", "tables", NoDb)) ELSE Ends(Id)
    /\ UNCHANGED <<head, sidebar, error>>

RunFailed ==
    /\ Arrives({"run", "preview"}, {"query"}, FALSE)
    /\ Ends(Id)
    /\ result' = Blank /\ error' = "run" /\ busy' = FALSE
    /\ notice' = IF Me.h = "preview" THEN [h |-> "import", db |-> Me.db] ELSE notice
    /\ UNCHANGED <<head, sidebar, active, view, detail, lastSql>>

\* The structure of the table that was active at the click.
Detailed ==
    /\ Arrives({"schema"}, {"detail"}, TRUE)
    /\ Ends(Id)
    /\ detail' = [db |-> Head(replies).conn.db, table |-> Me.table] /\ view' = "schema"
    /\ UNCHANGED <<head, sidebar, result, active, lastSql, status>>

\* History: nothing keeps the user from opening a database before the launch has reopened
\* the last one, nor the launch from going on as if nobody had.
Remembers ==
    /\ hidden' = IF info' = info THEN hidden ELSE Me.h = "launch" /\ info'.db = NoDb
    /\ orphan' = (result' = result /\ result # Blank
                    /\ (orphan \/ (Me.h = "launch" /\ Me.at = "open" /\ Head(replies).ok)))

-----------------------------------------------------------------------------
(* The program is started, with a file or without, and again after it ended *)

FirstPage(k) ==
    /\ conn' = k
    /\ calls' = <<[task |-> 1, method |-> "current", db |-> NoDb, text |-> "none", src |-> NoDb]>>
    /\ tasks' = [i \in {1} |-> Task("launch", "current", NoDb)]
    /\ replies' = << >> /\ dialog' = 0 /\ unseen' = FALSE
    /\ info' = NoConn /\ tables' = Empty /\ columns' = Empty
    /\ result' = Blank /\ active' = NoTable /\ view' = "data" /\ detail' = Blank
    /\ lastSql' = Blank /\ busy' = FALSE /\ error' = "none" /\ notice' = NoNotice
    /\ menu' = FALSE /\ hidden' = FALSE /\ orphan' = FALSE
    /\ started' = 0

Launch ==
    /\ launches < MaxLaunches /\ launches' = launches + 1
    /\ \/ FirstPage(NoConn)
       \/ \E f \in Files \ {Stray}, mode \in Modes : FirstPage([db |-> f, mode |-> mode])
    /\ UNCHANGED <<ver, lastPath>>

\* Before the first launch; an earlier session may have left a path.
Init ==
    /\ conn = NoConn /\ ver = [d \in Dbs |-> 1] /\ unseen = FALSE
    /\ calls = << >> /\ replies = << >> /\ dialog = 0 /\ tasks = [i \in {} |-> NoConn]
    /\ info = NoConn /\ lastPath \in (Files \ {Stray}) \cup {NoDb} /\ tables = Empty /\ columns = Empty
    /\ result = Blank /\ active = NoTable /\ view = "data" /\ detail = Blank /\ lastSql = Blank
    /\ busy = FALSE /\ error = "none" /\ notice = NoNotice
    /\ menu = FALSE /\ hidden = FALSE /\ orphan = FALSE
    /\ started = MaxStarts /\ launches = 0

\* The shell's thread, the page's, and the user closing a dialog.
Executes == Current \/ Opens \/ Lists \/ Queries \/ Converts \/ Builds \/ ShowDialog
Resumes ==
    /\ \/ Picked \/ Launched \/ Opened \/ OpenFailed \/ LaunchFailed \/ Converted
       \/ Built \/ Imported \/ Exported \/ Failed \/ TablesListed \/ ColumnsListed
       \/ ListingFailed \/ Ran \/ RunFailed \/ Detailed
    /\ Remembers
ClosesDialog == \E f \in (Files \ {Stray}) \cup {NoDb} : CloseDialog(f)

Clicks ==
    \/ ClickOpen \/ ClickNewDb \/ ClickRefresh \/ ClickConvert \/ ClickExport \/ ClickImport
    \/ ClickMemory \/ ClickSchema \/ ClickData \/ ToggleMenu
    \/ \E text \in {"ddl", "other"} : RunSql(text)
    \/ \E t \in Tables : Preview(t)

Next == Launch \/ Executes \/ Resumes \/ ClosesDialog \/ Clicks

Spec == Init /\ [][Next]_vars

\* Both threads run their event loops; a modal dialog is closed in the end.
FairSpec == Spec /\ WF_vars(Executes) /\ WF_vars(Resumes) /\ WF_vars(ClosesDialog)

-----------------------------------------------------------------------------
(* Properties *)

Conns == [db : Dbs \cup {NoDb}, mode : Modes \cup {"none"}]
Versions == [db : Dbs \cup {NoDb}, ver : 0..MaxVer]
Places == [db : Dbs \cup {NoDb}, table : Tables \cup {NoTable}]
Handlers == {"launch", "open", "newdb", "refresh", "convert", "export", "import", "preview",
             "memory", "run", "schema"}
Methods == {"pick", "tables", "columns", "detail", "current", "open", "memory", "query",
            "convert", "build"}
Texts == {"none", "select", "ddl", "other", "import", "copy"}

\* Values have their types; a dialog belongs to a task in flight.
TypeOK ==
    /\ {conn, info} \subseteq Conns /\ ver \in [Dbs -> 1..MaxVer]
    /\ {unseen, hidden, orphan, busy, menu} \subseteq BOOLEAN
    /\ DOMAIN tasks \subseteq 1..MaxTasks
    /\ \A k \in DOMAIN tasks :
          tasks[k] \in [h : Handlers, at : Methods, db : Dbs \cup {NoDb},
                        table : Tables \cup {NoTable}, text : Texts, src : Dbs \cup {NoDb}]
    /\ calls \in Seq([task : DOMAIN tasks, method : Methods, db : Dbs \cup {NoDb},
                      text : Texts, src : Dbs \cup {NoDb}])
    /\ replies \in Seq([task : DOMAIN tasks, ok : BOOLEAN, conn : Conns, ver : 0..MaxVer])
    /\ dialog # 0 => dialog \in DOMAIN tasks
    /\ {tables, columns} \subseteq Versions /\ {result, detail, lastSql} \subseteq Places
    /\ active \in Tables \cup {NoTable} /\ view \in {"data", "schema"}
    /\ error \in Handlers \cup {"none"}
    /\ notice \in [h : Handlers \cup {"none"}, db : Dbs \cup {NoDb}]
    /\ lastPath \in Dbs \cup {NoDb}
    /\ started \in 0..MaxStarts /\ launches \in 0..MaxLaunches

\* Every handler in flight waits for exactly one thing: a call not yet executed, a
\* reply not yet delivered, or its dialog.
EachAwaitsOne ==
    \A k \in DOMAIN tasks :
        Cardinality({i \in DOMAIN calls : calls[i].task = k})
          + Cardinality({i \in DOMAIN replies : replies[i].task = k})
          + (IF dialog = k THEN 1 ELSE 0) = 1

Quiet == launches > 0 /\ DOMAIN tasks = {}

\* When nothing is in flight, path and badges are those of the connection the shell has,
\* whatever opens, conversions and failures overlapped, the launch among them.  The one
\* exception is the launch's: its reopening fails after another handler opened a database,
\* and its catch shows the launcher over it.
PathShown == Quiet => info = conn \/ (hidden /\ info = NoConn)

\* When nothing is in flight, sidebar and completion list the connection's present
\* schema, or nothing after a listing failed.  Excepted is a change since the last listing
\* that was to be followed by none: by a text without the words the page looks for, by a
\* text that failed after it, by a conversion into the open file that failed, or could not
\* be opened, afterwards.
Listed == {tables, columns} \subseteq {Now, Empty}
SidebarFresh == Quiet /\ ~unseen => Listed

\* When nothing is in flight, the result on screen comes from the connection, and the
\* SQL an export would run is the SQL it came from.  The launch alone changes databases
\* under a result: reopening clears none, and another handler may have brought one.
ResultOfConn ==
    Quiet /\ result # Blank => (result.db = conn.db \/ orphan) /\ result = lastSql

\* Buttons are not left disabled: busy has a handler that will clear it.
HoldsBusy(t) ==
    \/ t.h \in {"run", "preview", "memory"}
    \/ t.h \in {"open", "newdb", "convert"} /\ t.at # "pick"
BusyHeld == busy => \E k \in DOMAIN tasks : HoldsBusy(tasks[k])

\* Every handler returns, whatever fails: its place is free again, and again.
HandlersReturn == \A k \in 1..MaxTasks : []<>(k \notin DOMAIN tasks)

\* App.tsx:727 says "Structure view for one table": the one it names.
SchemaOfActive ==
    view = "schema" /\ detail # Blank /\ active # NoTable => detail.table = active

\* README.md:31 says of Export "(result -> CSV/Parquet)".
ExportsResult ==
    [][Serves("query") /\ Head(calls).text = "copy" /\ calls' = Tail(calls)
         /\ replies'[Len(replies')].ok
       => Head(calls).src = conn.db]_vars

\* README.md:37 says "last-opened DB persist across launches".
ReopensDatabase == conn.db # Stray
=============================================================================
