# dbview in TLA+

dbview is a desktop database workbench: a React UI in a WebView, a native shell
that owns one database connection, a JSON dispatch surface, and a C engine over
SQLite and DuckDB. This directory holds TLA+ models of it, TLC configurations
that check them on small instances, and theorems checked by TLAPS.

Paths below are relative to the repository (`src/` in `PROJECT.json`'s `map`).

## 1. Inventory

| Component | Code | State | Operations | Talks to |
|---|---|---|---|---|
| UI workbench | `ui/src/App.tsx`, `ConvertPanel.tsx` | path, engine, badges, tables, columns, activeTable, viewMode, detail, result, lastSql, busy, error, notice, history | open, new DB, new in-memory, run, preview, toggle Schema, import, export, convert, relaunch | bridge (promises), localStorage |
| Bridge | `ui/src/bridge.ts`, `src/app/main.c` on_invoke | calls in flight | call, reply, error envelope | UI and shell, in order of arrival |
| Native shell | `src/app/main.c`, `file_dialog.m` | `app_ctx`: conn, path | app.current/open/new_memory/pick/write_file, title, exit | engine, dialogs |
| Dispatch | `src/api/api.c` | none between calls | schema.*, query.run, convert.* | engine |
| Catalog | `src/engine/engine.c` db_list_*, db_table_* | none; a statement each | list tables, list columns, columns, indexes, row count | the database, which others change |
| Grid | `ui/src/App.tsx` sortedRows, serializeResult, copyResult, exportResultCsv | result, sort | sort, copy as TSV, save as CSV | app.write_file, clipboard |
| Connection lifecycle | `src/engine/*.c` open/close, `dbe_snapshot_copy` | `db_conn` (ro, snapshot, temp_copy), static counter, temp files | ladder RW -> RO -> snapshot, close | DuckDB/SQLite, file system, other processes |
| Results | `materialize`, `dbe_result_ensure_row`, `db_result_free` | row buffer, capacity | grow, append cell, truncate, free | allocator |
| Conversion | `src/api/api.c` convert.database, `recreate_views` | throwaway DuckDB with src and dst attached | attach, list, copy tables, recreate views | both database files |
| SQL builders | `src/convert/convert.c` | none | quote, build import/export/attach/copy | dispatch |
| Error model | `src/support/db_error.*` | thread-local last error | set, trace, read | everything |
| Vendored cJSON, WebView, DuckDB, SQLite, dialogs | `src/vendor`, frameworks | | | modelled only as they are used |
| Test harness, build scripts, styles | `src/test`, `tests`, CMake, `styles.css` | | | not modelled |

Behaviours that are hard:

* another process takes or drops DuckDB's file lock, or commits, between two
  system calls of an open; dbview dies between two of them;
* a step of a sequence of C calls fails and earlier ones must be undone
  (snapshot file, connection, partial conversion, half-filled result);
* UI handlers are asynchronous: each `await` lets another handler run, and what
  was read before it may be stale after it; the `busy` flag is shared.

What makes each part correct is stated beside its module in section 3.

## 2. Plan

Every module keeps what recursion it has in functions or folds, declares its
constants with a named assumption and has one action per operation, so that it can
be both checked and proved about.

Done, in this order:

1. `Shell`, `Connection`, `ConnectionProofs`: what the shell promises of an open, the
   ladder, the snapshot copy, the swap, process ends.
2. `Conversion`, `ConvertDatabase`, `ConvertDatabaseProofs`: the abstract promise of
   convert.database, and the statements that keep it.
3. `Workbench`, `WorkbenchProofs`: UI handlers as asynchronous tasks over the FIFO bridge.
4. `Query`, `QueryProofs`: a query.run from the text to the freed result.
5. `BuildSql`, `BuildSqlProofs`: the folders and SQL texts of convert.*.
6. `Catalog`, `CatalogProofs`: the schema.* requests over a database that others change.
7. `Grid`, `GridProofs`: what is shown, copied and saved of a result.
8. `SequenceFolds`: folds and induction along sequences in the form the provers can use, for
   the proofs of the two modules about texts.

Left, in this order:

9. `Session`: what is remembered between launches, with the engine inferred from a path.
10. `Workbench` over `Shell`: the two agree on what an open may do (`Opens` is a `Grant` or a
    `Refuse` taken in one step), which is read off the modules and not proved, because the
    page's replies queue up where `Shell` keeps the last one.

## 3. Modules

A comment above every action names the C or TypeScript function it stands for, and
`PROJECT.json` has the lines. Operators marked `\* mutant` are the plausible bugs that
each property was tried against; no action uses them.

### 3.1 Shell and Connection (`engine_duckdb.c`, `engine_sqlite.c`, `engine.c`, `main.c`)

*State.* `conn` is `app_ctx.conn` with the fields of `db_conn`; `op` the locals of the
open in progress and its next system call; `counter` the static counter of
`dbe_snapshot_copy`; `tmp` the temp directory, which outlives the process; `lock` and `ver` another process's exclusive lock on a file and
what it committed. An error reply has its code, which travels as a return value, and not
its message, which is text (section 6). History variables record who left a snapshot behind.

*Actions.* One per system call of the ladder (`OpenReadWrite`, `OpenReadOnly`,
`CreateSnapshot`, `CopyChunk`, `OpenSnapshot`, `Connect`, `SqliteReadWrite`, ...), `Swap`
for what `open_db` does once the new connection is there, `CloseWindow` and `Terminate`
for the two ways to end, `Launch` with an old pid reused, and the other process.

*Run* `connection` interleaves all of it with two snapshots, two chunks and a commit: the
live snapshot is complete but for what an unchecked `fclose` lost (`SnapshotComplete`), not
older than its request and in order (`SnapshotFresh`), never written to or removed
(`SnapshotUntouched`); only named paths leak a copy, among them a failing
`duckdb_connect` (`StraysExplained`); it implements `Shell` (`KeepsPromise`), and every open
is answered (`RequestAnswered`).
`Shell` is what the page relies on, and all that `Workbench` has of an open: one answer to one
request; with a success the connection to the database asked for, in a mode it has (a copy
only of a DuckDB file and read-only, an in-memory database never read-only); with a failure,
at whatever step, the connection as it was.
One file and one pid suffice because files do not interact and a reused pid is the
case that matters; two snapshots make a copy beside the live one, two chunks a commit
between them. Constants are otherwise arbitrary in the proofs.

*Fairness.* `WF(Serve)`: the ladder is one synchronous call chain. Nothing is assumed
of the other process or of the user.

*Proved* for all constants: `TypeOK`, every safety property of the run, and that
`Connection` implements `Shell`, step by step: a step of the ladder that goes on is a
stutter (`GoesOn`), one that gives up a `Refuse`, `Swap` a `Grant`. That the grant is one
the request allows takes `GrantInv`, which follows engine and flags down both ladders. The
inductive invariant `IInv` adds `OpInv` (what the locals hold at each point of the chain:
the copy under construction is named `<<pid, counter>>` and is complete from "copied" on),
`ConnInv` (the live copy's number is at most `counter`, so the next name is another one:
`FreshName`) and `AgeInv` (every chunk written is at least as new as the request and as the
one before).

### 3.2 Conversion and ConvertDatabase (`api.c` convert.database, recreate_views)

`Conversion` is the promise: a target only grows, by objects that were not there, and
success means every table of the plan was copied by this very run. It does not say that
a failure leaves the target as it was, because the code does not do that.

`ConvertDatabase` has the statements: `AttachSource`, `AttachTarget`, `ListTables`
(ORDER BY name, `LIKE` with its wildcard), `CopyTable`, `EnterViews`, `QueryViews`,
`RecreateView`, the silent `SkipViews`, `StatementFails` at each, `Answer`. Tables and
views are numbers in name order; a view has what it reads and whether the other dialect
rejects it. A table of a SQLite source may be dropped while it runs.

*Runs.* `convert_database`: two conversions in a row into one target, over five sources
chosen for a case each (view on view in either order, one name in two schemas, a
look-alike of `sqlite_`, more tables than views) and three targets (empty, holding a
table, holding a reserved name): `KeepsPromise` (refinement), `ViewsAccounted`,
`SqliteViewsInOrder` (a view of a SQLite source is never reported for coming too early),
`NoInternalTable`, `IsAnswered`. `convert_skipped` (violation): a
user table `sqlitedata` matches `LIKE 'sqlite_%'` and is left out of a success.
Two runs are what a retry needs. *Fairness*: `WF(Step)`, one synchronous call.

`SqliteViewsInOrder` has a precondition, `ReadsOlder`: no view reads a younger one. The code
takes it for granted, and SQLite does not see to it, since a view may be dropped and created
again under one that reads it. The source `Recreated` is such a database.

*Proved*: every safety property of the run, and that `ConvertDatabase` implements
`Conversion` (safety). `IInv` adds `LoopInv` (before index i every table was made by this
run) and `PhaseInv` (what is listed and replied at each statement). `ViewsInOrder` needs one
invariant more, `OrderInv`: no listed row reads one that follows, and each view reported so
far is excused. A view made later could undo an excuse only if an earlier one read it.

### 3.3 Workbench (`App.tsx`, `bridge.ts`, `main.c` on_invoke)

*State.* A task is a handler and the one call it awaits; `calls` and `replies` are the
bridge, FIFO both ways, because `on_invoke` runs on the UI thread and executes calls in
order; `dialog` is the file panel. The rest are React states, under their own names
where that is possible. `menu` says that one of the three menus is open. A database is its
version: each change of its schema is a new one. What a text does to the schema and what the
page makes of it are two things: "ddl" holds one of the words App.tsx:244 looks for, "other"
none of them, and either may change the schema, succeed or fail after a change.

*Actions.* Clicks (one per handler that calls the shell), the shell executing the call
at the head (`Current`, `Opens`, `Lists`, `Queries`, `Converts`, `Builds`, `ShowDialog`),
and one action per `await` that returns, with its failure (`Opened`, `OpenFailed`,
`TablesListed`, `Ran`, `RunFailed`, `Detailed`, ...). `Launch` starts the page anew; only
`lastPath` (localStorage) survives. The user may act at any moment, the launch's included.
Buttons wait for `busy` (`OnPage`), and so does a menu before it opens; an item of an open
menu does not (`InMenu`), and a menu stays open over whatever sets `busy` meanwhile. The
three menus are one, so an item may be clicked that another menu has. `busy` is cleared by
whoever returns first, and by a conversion cancelled in its dialog (`Picked`: App.tsx:468
returns inside the `try`).

*History.* Three variables name what the properties except, each set by the very step that
loses it: `unseen`, a schema change that no listing follows; `hidden`, the launch's reopening
has failed and its catch shows the launcher over a connection opened meanwhile
(App.tsx:139-143); `orphan`, that reopening has succeeded under a result another handler had
brought, which it does not clear (App.tsx:136).

*Runs.* `workbench`: a launch and two handlers the user starts, up to three in flight
together, any call failing; when nothing is in flight, path and badges (`PathShown`), sidebar
and completion (`SidebarFresh`) and result (`ResultOfConn`) are those of the connection;
nobody's continuation is lost (`EachAwaitsOne`); `busy` has an owner (`BusyHeld`); every
handler returns (`HandlersReturn`). Violations: `workbench_schema` (the structure of one
table under the name of another), `workbench_export` (below), `workbench_reopen` (the label
of an in-memory database is remembered as a path, and a file of that name is created; two
launches).
Two handlers and the launch suffice for every race between a pair of them and for every race
of one with the launch; what an earlier session leaves is its path, and `lastPath` may be
any at the start. More handlers are beyond the time of a run, which is why the proofs, for
any number of them, matter here.

`workbench_export` goes this way: a SQLite file is open, its conversion is clicked and the
dialog closed, which sets `busy`. A text run from the keyboard meanwhile returns a result and
clears `busy`. The conversion opens the new file: the page shows the DuckDB connection, still
over the SQLite result, until its refresh has returned (App.tsx:473-475). In between the
Export menu opens and offers Parquet, and the result's SQL is run on the other database.

*Fairness*: both event loops run, and a modal dialog is closed in the end.

*Proved*, for any number of handlers, launches and databases: `TypeOK`,
`EachAwaitsOne`, `BusyHeld`, `PathShown`, `ResultOfConn` and `SidebarFresh`. They rest on
one another:

* `Wired` (`One`): the ids in `calls`, in `replies` and in `dialog` are distinct and together
  they are the tasks. A lemma for each way a message moves (`Executed`, `DialogUp`,
  `DialogDown`, `Finished`, `Continued`, `Begun`) says that it keeps this;
  `EachAwaitsOne` is the same counted.
* `BusyKept`: a handler that is resumed clears `busy` or goes on holding it, and a click
  that sets it starts a handler that does.
* `PathInv`: a reply moves the path if it answers an open, or the launch. The last such reply
  in `replies` carries the connection the shell has (`Pending`), or there is none and the
  path is right, or hidden by the launch (`Settled`). It needs that a call is the one its task awaits
  (`CallsMatch`), that an open names a database and SQL is of the
  kind its handler runs (`TasksRight`), and that the first call of a launch, what is open, is
  executed and answered before any other (`CurrentFirst`).
* `PageInv`: what is shown of result, tables and columns, and what each reply will put there
  (`Brings`), is of the connection as it is now (`OnTime`), unless something that renews the
  field comes after it (`Awaited`): a reply to an open or to SQL that changes the schema,
  a listing, the refresh of a conversion. `Follows(p)` says so of a field `p`; the shell's
  steps keep it (`ExecutesFollows`), save those that `unseen` names, and a handler that is
  resumed either sets the field, blanks it, or makes the call that renews it (`FieldStep`).
  With no handler in flight nothing is awaited: `ResultOfConn` and `SidebarFresh` follow.

### 3.4 Query (`engine.c` db_query, both `materialize`, `db_result`, `result_to_json`)

*State.* The text as statements with outcomes, the result under construction (`values`,
`cap`, `n_rows`, `col`, `truncated`), the reply. `Junk` is what `realloc` leaves in new
room: reading it would be undefined.

*Actions.* `Prepare` (SQLite, first statement), `Execute` (DuckDB, all of them), `Alloc`,
`NextRow` with `Grow`, `CopyCell`, `CellFails`, `RowDone`, `TooMany`, `StepFails`,
`NoMoreRows`, `ToJson`; `Run` starts a request and `NotOpen` refuses it. Any
allocation may fail.

*Run* `query`: zero to three columns, up to one row more than the cap of 4, texts of one
to three statements with each outcome, twice in a row. With room for one row at first the
array doubles twice. `StoresInBounds`, `ReplyExact` (exactly the first `MaxRows` rows, and
`truncated` exactly if there were more), `NoLeak`, `FreesStored`, `EffectKnown` (what a
reply says about which statements are in effect). `query_whole_text` (violation): a text of
two statements on SQLite is answered ok after the first.

*Proved* for any result, text, cap and first room: every property of the run. `IInv` adds
`PhaseInv` and, while a result is built, `RoomInv` (room for the current row), `CellsInv`
(every cell before the current one is the stored copy) and `EndInv`. `ProductGrows`,
`RowAfter` and `CellBeforeRow` are the arithmetic of `row * n_cols + col` that the solver
does not find alone. `EffectKnown` rests on `EffectInv`, which says at each point of the
chain whose rows are copied and what is in effect.

### 3.5 BuildSql (`api.c` ensure_parent_dir and convert.*, `convert.c`)

*State.* `fs`, a tree of files and folders that other processes change between any two
`mkdir`s; the call's method, arguments, buffer and position; the reply. Strings are
sequences of characters, because the properties are about characters: `QuoteWith` doubles
delimiters as the code does, and `Reads` is an independent reader of the text that comes
out. The fixed parts of a statement are one element each (`Fragments`), and any other
character may be in a name (`Char`, which holds the slash and both delimiters).

*Actions.* `Call` (which folders are needed is settled first), `MkdirMade`, `MkdirExists`
(`EEXIST` is success), `MkdirNowhere`, `MkdirDenied`, `BuildRefused`, `BuildOom`, `Build`,
`Return`; `OtherMakes`, `OtherRemoves`.

*Run* `build_sql`: six names and seven paths with delimiters at every kind of place, for
every initial tree of their folders. `NamesSurvive`: the text of an ok reply quotes exactly
what was asked for. `FolderReady`: an ok export finds its folders unless somebody removed
them. `FailureHasCause`: a race with another process that makes the same folder is no
error. `OnlyFoldersAbove`: a call makes folders above the path of an export, and nothing
else. Between calls nothing but `fs` remains, and it may be any tree at the start, so longer
sequences add nothing.

*Proved* for any characters, names, paths and trees: every property of the run. `IInv`:
while folders are made, the buffer is the export's path cut at its last slash, and the
position is before one of its slashes. That is all `OnlyFoldersAbove` needs; it holds for
every way to resolve a path. The rest takes two inductions along a text:

* `ResolveStep`: one character more leaves a path where it was or leads to a child. So every
  folder but the root is below another one on the way (`EarlierIsAbove`), `mkdir` finds it
  there, and the files stay a tree (`TypeCorrect`). `MadeInv`: everything before the position
  was made or met, and stays unless `removed`; at the end that is `FolderReady`.
* `QuotedMet`: whatever a name holds, a reader that meets it as `QuoteWith` writes it comes out
  again only after its last delimiter, with the name. `Says` puts quotations and fixed parts
  together, statement by statement (`ImportSays` ... `CopyTableSays`), and `SqlInv` keeps that
  for the reply.

### 3.6 Catalog (`engine.c` db_list_*, db_table_*, `api.c` schema.*, `App.tsx` refreshSchema)

*State.* `store` says what a name stands for in each place a query may look: the
connection's own main schema, another schema of the same database (DuckDB only), an attached
database's; 0 is nothing, and every change is a new version. `cols` and `idx` are the results
held by the call, `log` the stores since it began.

*Actions.* `Describe` with `NameMissing`, `TableColumns`, `TableIndexes`, `TableRowCount`;
`RefreshSchema` with `ListTables`, `ListColumns`; each query may fail, and both results are
freed on every way out. `OwnStatement` commits between two calls, those of a refresh
included: the page awaits the tables before it asks for the columns, and the shell may be
given a statement meanwhile. `OtherCommits` does so at any time: nothing spans the queries of
one request. Refreshes that overlap, and opens between the two lists, are `Workbench`'s. Two engines: SQLite falls through to attached
databases for a name it does not find, describes an unknown table as one without columns, and
lists by `LIKE`; DuckDB lists every schema called main and finds indexes by the table's name
alone.

*Run* `catalog`: two names, one that looks like SQLite's own, any initial store, two
requests and two commits at any point between their queries (two suffice for a table dropped
and made again inside a call). `DetailOfCall`: every part of a structure is of the named table
at a moment of its own call. `ListedDescribed`: clicking a listed name fails only for named
causes. `SidebarListed`: sidebar and completion list what was there during their refresh, the
second at a later moment than the first. `SidebarEmptied`: a refresh that fails at its second
list takes the tables of its first with it, and nothing but a listed broken view or a failing
resource makes it fail.

*Proved* for any names, versions and commits: all five. `IInv` follows the queries of a
call: what was read so far is what some entry of `log` holds, and `log` ends with `store`.

### 3.7 Grid (`App.tsx` sort, copy, CSV; `main.c` app.write_file)

*State.* `result`, `sort` and `order` (the rows as `sortedRows` shows them); `copying` and
`saving`, the handlers in flight, any number of each, with what the render they were clicked
in held; `file`, and `saved`, the table the page last said is in it; `clip`. Texts are sequences of characters, because quoting is about characters.

*Actions.* `QueryReturns` and `ResultGone` change the result at any time; `ToggleSort`,
`ClickCopy`, `Copied`, `ClickExport`, `Pick`, `WriteFile` with each way it fails: nothing
opened, a short write reported, a short write that only `fclose` would have reported.

*Run* `grid`: columns of numbers, of texts, of both, with NULLs; tables with each character
that CSV or TSV treats (`Char` holds them, and any others); two results and two clicks, so
that a result arrives between a click and its write. `RowsShown`: every row once, sorted by
a column the result has. `Sorted`: columns of one kind are in order, stably, NULLs last.
`SavedReadsBack`: an independent reader of CSV gets from a saved file the table that was on
screen at the click. `CopiedPastes`: the same of the TSV, line by line. `Array.sort` is
external: stable, and by an inconsistent comparator it may leave any order (`Consistent`);
`Number()` and `localeCompare` are constants, any functions.

*Proved* for any results, texts, collation and number of clicks: every property of the run.
`IInv`: the order on screen is one that the last click asks for. For the texts `TableInv` says
that a copy in flight or in the clipboard holds the serialized table of its click, and the
rest is induction along texts. A reader is followed through a cell whose text may be anything
(`DoubledRead`, `CsvCell`), through a line (`CsvLineRead`), through a table (`CsvTableRead`);
it ends with the table (`CsvReadsBack`). For TSV no cell holds a delimiter any more
(`TsvCell`), so splitting undoes joining (`SplitJoin`).

### 3.8 SequenceFolds (lemmas only)

The provers cannot apply an induction theorem to an operator, nor unfold a fold. Here an
induction hypothesis is a set of numbers (`Upward`: a set that holds 0 and, with each number
below a bound, the next one, holds them all), and a fold is a function that exists
(`FoldExists`: the library defines it by `CHOOSE`, so this has to be shown first, from the
least length at which it would fail). `Takes(F, s, text, t)` says that reading `text` takes the
reader `F` from state `s` to `t`; `TakesBoth` puts two texts one after the other and
`FoldTakes` says that `FoldLeft` ends there. The proofs about texts are written in it.

## 4. Proved, and only model-checked

Every invariant, action property and refinement that a passing run checks is a theorem, for
every value of the constants that their assumptions allow; `PROJECT.json` lists them under
`theorems`. What the provers rely on is in those assumptions and in the definitions marked
external: what a file system resolves, what a stable sort returns, in which order a bridge
delivers.

Liveness is only model-checked: `RequestAnswered`, `IsAnswered`, `HandlersReturn`. It needs
fairness and `ENABLED`, which are out of the prover's reach; so are the fairness
halves of the refinements of `Shell` and `Conversion`. The five runs that expect a violation show a
counterexample, and there is nothing to prove of them.

## 5. Not modelled, and why

cJSON (vendored; printing and parsing are taken as exact, so out of memory inside it is
left out), the WebView and AppKit dialogs (a dialog answers once, with a file or nothing),
DuckDB and SQLite themselves (a statement succeeds or fails; their locks are in
`Connection`, their catalogs in `Catalog`), traces and logging, the history list, settings,
theme and tab state (kept and shown by single handlers), the editor and its completion popup
(CodeMirror; the freshness of its columns is `SidebarFresh`), the sidebar's filter, tests,
build files, styles.

Hazards of the code that no property is about:

* reopening the file that is open holds two handles on it until the swap (main.c:85), and
  what DuckDB does then inside one process is DuckDB's;
* `db_open_sqlite` opens with CREATE, so the source of an attach that was removed meanwhile
  is made anew, empty (api.c:99);
* `n_rows * n_cols` is an `int` product that overflows from 21475 columns on at the cap of
  100000 rows (engine.c:95), beyond the limits of SQLite and of practice.

## 6. Disagreements met while modelling

Shown by a run: see the `convert_skipped`, `query_whole_text`, `workbench_schema`,
`workbench_export` and `workbench_reopen` entries of `PROJECT.json`.

Met, but shown by no run:

* The launch reads that nothing is open and reopens the last database after an await
  (App.tsx:132-143). A database opened meanwhile is replaced by it, whose result stays on
  screen if it had one (`orphan`), or is hidden behind the launcher if the reopening fails
  (`hidden`).
* SPEC.md:137 has a conversion all or nothing; a failed one leaves the tables it copied,
  and the next attempt at the same path fails on the first of them.
* SPEC.md:135 has views that cannot be recreated reported; when `recreate_views` gives up
  before it lists them, `views_failed` is empty.
* api.c:88 takes views in creation order, so that one built on another comes after it; the
  query for DuckDB sources has no order, and a SQLite view that was dropped and created again
  comes after those that read it, which are then reported as failed (`ReadsOlder`).
* api.c:16 likens `ensure_parent_dir` to `mkdir -p`; a file in the place of the last folder
  is accepted (`EEXIST`), and an argument error comes after the folders were made.
* engine_internal.h:19 has the snapshot removed with its connection; a failing
  `duckdb_connect` (engine_duckdb.c:104) drops it unremoved (`StraysExplained` names it).
* engine_duckdb.c:239 says "a copy is a valid, readable DB"; the result of `fclose(out)` is
  not looked at, so a full disk leaves a truncated copy that is opened as good, and the
  `.wal` beside the file is not copied.
* engine.c:172: one view of a SQLite database on something dropped since fails the listing
  of all columns, and App.tsx:102-105 empties the whole sidebar for it.
* api.c:163 promises "One table's structure"; DuckDB's indexes are looked up by name alone,
  so those of a namesake in another schema are among them, and the sidebar lists names of
  attached databases that have no structure (`DetailOfCall`, `ListedDescribed`).
* App.tsx: `previewTable` puts a name between quotes without doubling the ones in it (271).
* main.c app.write_file empties the old file before it writes and does not look at `fclose`.
* App.tsx: a CSV of a truncated result is saved without a word of it; a last row of one empty
  cell is lost in the text; integers above 2^53 sort as equal (`Number`); "Copied" is
  announced even when no clipboard took the text.
* engine_duckdb.c:95 means to keep the lock's error; the code is kept, the message is the
  failing copy's, which set the thread-local after it.
* App.tsx:498 speaks of a point-in-time snapshot; a commit between two buffers of the copy
  tears it (`SnapshotFresh` allows exactly that).
* engine.h:42: when the copy of a cell fails, `db_result_free` also frees the cells of that
  row that were never stored (`FreesStored` excepts exactly that).
* App.tsx: `activeTable` survives the opening of another database (51); a new database is
  announced though its open failed (187); DDL before a failing statement of a DuckDB text
  leaves the sidebar old, and so does a change made without one of the six words, a ROLLBACK
  say (244, the `unseen` of `SidebarFresh`); a trailing `--` comment in
  the last SQL breaks the export's COPY (407); the grid's comparator is not transitive on a
  column of numbers and texts (348).
* SPEC.md:60 has slow calls off the UI thread; `on_invoke` runs every call on it.
