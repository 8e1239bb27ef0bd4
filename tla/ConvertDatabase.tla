-------------------------- MODULE ConvertDatabase ---------------------------
(***************************************************************************)
(* convert.database (src/api/api.c): the open database is copied into a    *)
(* file of the other engine, one SQL statement after the other, on a       *)
(* throwaway in-memory DuckDB that has both files attached.                *)
(*                                                                         *)
(* Every statement is a step that may fail.  Tables and views are small    *)
(* numbers, compared the way ORDER BY table_name compares names.           *)
(***************************************************************************)
EXTENDS Naturals, Sequences, FiniteSets, Functions

CONSTANTS
    Objects,    \* names of tables and views
    LikeSqlite, \* names that match LIKE 'sqlite_%', where _ is any character
    Internal,   \* names SQLite reserves: those that begin with sqlite_
    Sources,    \* databases to convert
    Targets,    \* sets of objects the target file may hold before
    MaxRuns     \* bound: conversions started

\* One view of a source: the names it reads, and whether the target's dialect
\* rejects its definition.
Views == [name : Objects, reads : SUBSET Objects, quirk : BOOLEAN]

\* A source: base tables of the default schema and of others, and views in creation
\* order.
Databases == [engine : {"sqlite", "duckdb"}, main : SUBSET Objects,
              other : SUBSET Objects, views : Seq(Views)]

ASSUME ConstantsAssumption ==
    /\ Objects \subseteq Nat /\ IsFiniteSet(Objects)
    /\ Internal \subseteq LikeSqlite /\ LikeSqlite \subseteq Objects
    /\ Sources \subseteq Databases
    /\ Targets \subseteq SUBSET Objects
    /\ MaxRuns \in Nat

VARIABLES
    src,      \* the source database file
    dst,      \* its objects -> the run that made them, 0 if they were there
    run,      \* conversions started
    pc,       \* next statement of the running conversion
    tabs,     \* table_name column of the listing query
    views,    \* rows of the view query
    i,        \* loop index
    failed,   \* views_failed under construction
    reply,    \* result envelope
    hiccup    \* history: a view failed though its definition was fine

vars == <<src, dst, run, pc, tabs, views, i, failed, reply, hiccup>>

\* Objects the current run made, and the target with one more.
Made == {o \in DOMAIN dst : dst[o] = run}
Put(o) == [x \in DOMAIN dst \cup {o} |-> IF x = o THEN run ELSE dst[x]]

At(step) == pc = step
Goto(step) == pc' = step
NoReply == [kind |-> "none", failed |-> {}]

-----------------------------------------------------------------------------
(* The listings *)

\* Every order in which a query may return the members of a finite set.
Arrangements(S) == Injection(1..Cardinality(S), S)

\* information_schema.tables of src: base tables of every schema, LIKE-filtered,
\* ordered by name; a name that two schemas hold is listed twice.
AllTableRows ==                                                     \* mutant
    LET rows == ({"main"} \X src.main) \cup ({"other"} \X src.other)
        ordered == {f \in Arrangements(rows) :
                       \A j, k \in DOMAIN f : j < k => f[j][2] <= f[k][2]}
    IN  {[k \in DOMAIN f |-> f[k][2]] : f \in ordered}

TableRows ==
    LET rows == {"main"} \X (src.main \ LikeSqlite) \cup {"other"} \X (src.other \ LikeSqlite)
        ordered == {f \in Arrangements(rows) :
                       \A j, k \in DOMAIN f : j < k => f[j][2] <= f[k][2]}
    IN  {[k \in DOMAIN f |-> f[k][2]] : f \in ordered}

\* sqlite_master filters views like tables and orders them by creation;
\* duckdb_views() is read without a filter and without ORDER BY.
UnorderedViewRows ==                                                \* mutant
    LET kept == {k \in DOMAIN src.views : src.views[k].name \notin LikeSqlite}
    IN  {[k \in DOMAIN f |-> src.views[f[k]]] : f \in Arrangements(kept)}

ViewRows ==
    LET sqlite == src.engine = "sqlite"
        kept == {k \in DOMAIN src.views : sqlite => src.views[k].name \notin LikeSqlite}
        ordered == {f \in Arrangements(kept) :
                       sqlite => \A j, k \in DOMAIN f : j < k => f[j] < f[k]}
    IN  {[k \in DOMAIN f |-> src.views[f[k]]] : f \in ordered}

-----------------------------------------------------------------------------
(* api.c, method convert.database *)

Start ==
    /\ At("idle") /\ run < MaxRuns
    /\ run' = run + 1
    /\ Goto("prepare")
    /\ tabs' = << >> /\ views' = << >> /\ i' = 1 /\ failed' = {}
    /\ reply' = NoReply
    /\ hiccup' = FALSE
    /\ UNCHANGED <<src, dst>>

\* The parent directory, the in-memory DuckDB, the source attached read-only.
AttachSource ==
    /\ At("prepare") /\ Goto("attach")
    /\ UNCHANGED <<src, dst, run, tabs, views, i, failed, reply, hiccup>>

\* ATTACH of the target creates its file when there is none.
AttachTarget ==
    /\ At("attach") /\ Goto("list")
    /\ UNCHANGED <<src, dst, run, tabs, views, i, failed, reply, hiccup>>

ListTables ==
    /\ At("list") /\ Goto("use")
    /\ tabs' \in TableRows
    /\ UNCHANGED <<src, dst, run, views, i, failed, reply, hiccup>>

UseTarget ==
    /\ At("use") /\ Goto("copy")
    /\ UNCHANGED <<src, dst, run, tabs, views, i, failed, reply, hiccup>>

\* CREATE TABLE "t" AS SELECT * FROM "src"."t": the name is looked up in the
\* source's default schema and must be new in the target.
SkipFailedTable ==                                                  \* mutant
    /\ At("copy") /\ i <= Len(tabs)
    /\ \/ tabs[i] \in src.main \ DOMAIN dst /\ dst' = Put(tabs[i])
       \/ UNCHANGED dst
    /\ i' = i + 1
    /\ UNCHANGED <<src, run, pc, tabs, views, failed, reply, hiccup>>

CopyTable ==
    /\ At("copy") /\ i <= Len(tabs)
    /\ tabs[i] \in src.main \ DOMAIN dst
    /\ dst' = Put(tabs[i]) /\ i' = i + 1
    /\ UNCHANGED <<src, run, pc, tabs, views, failed, reply, hiccup>>

TablesDone ==
    /\ At("copy") /\ i > Len(tabs) /\ Goto("views_use")
    /\ UNCHANGED <<src, dst, run, tabs, views, i, failed, reply, hiccup>>

\* Any step up to the last table may fail: the loop stops and the error is
\* answered; what was written stays.
StatementFails ==
    /\ pc \in {"prepare", "attach", "list", "use"} \/ (At("copy") /\ i <= Len(tabs))
    /\ Goto("idle")
    /\ reply' = [kind |-> "error", failed |-> {}]
    /\ UNCHANGED <<src, dst, run, tabs, views, i, failed, hiccup>>

-----------------------------------------------------------------------------
(* api.c, recreate_views *)

\* USE dst; a SQLite source is then opened a second time, through SQLite.
EnterViews ==
    /\ \/ At("views_use") /\ Goto(IF src.engine = "sqlite" THEN "views_open" ELSE "views_query")
       \/ At("views_open") /\ Goto("views_query")
    /\ UNCHANGED <<src, dst, run, tabs, views, i, failed, reply, hiccup>>

QueryViewsKeepIndex ==                                              \* mutant
    /\ At("views_query") /\ Goto("view")
    /\ views' \in ViewRows /\ i' = i
    /\ UNCHANGED <<src, dst, run, tabs, failed, reply, hiccup>>

QueryViews ==
    /\ At("views_query") /\ Goto("view")
    /\ views' \in ViewRows /\ i' = 1
    /\ UNCHANGED <<src, dst, run, tabs, failed, reply, hiccup>>

\* A failing USE, open or query returns without a word.
SkipViews ==
    /\ pc \in {"views_use", "views_open", "views_query"} /\ Goto("answer")
    /\ UNCHANGED <<src, dst, run, tabs, views, i, failed, reply, hiccup>>

\* The definition is accepted: its name is new and not reserved, what it reads is
\* there, and the dialect allows it.
Acceptable(v) ==
    ~v.quirk /\ v.name \notin Internal \cup DOMAIN dst /\ v.reads \subseteq DOMAIN dst

ForgetFailedView ==                                                 \* mutant
    /\ At("view") /\ i <= Len(views)
    /\ \/ Acceptable(views[i]) /\ dst' = Put(views[i].name) /\ UNCHANGED hiccup
       \/ UNCHANGED dst /\ hiccup' = (hiccup \/ Acceptable(views[i]))
    /\ i' = i + 1
    /\ UNCHANGED <<src, run, pc, tabs, views, failed, reply>>

RetryFailedView ==                                                  \* mutant
    /\ At("view") /\ i <= Len(views)
    /\ \/ /\ Acceptable(views[i])
          /\ dst' = Put(views[i].name) /\ i' = i + 1 /\ UNCHANGED <<failed, hiccup>>
       \/ /\ failed' = failed \cup {views[i].name}
          /\ hiccup' = (hiccup \/ Acceptable(views[i])) /\ UNCHANGED <<dst, i>>
    /\ UNCHANGED <<src, run, pc, tabs, views, reply>>

RecreateView ==
    /\ At("view") /\ i <= Len(views)
    /\ \/ /\ Acceptable(views[i])
          /\ dst' = Put(views[i].name) /\ UNCHANGED <<failed, hiccup>>
       \/ /\ failed' = failed \cup {views[i].name}
          /\ hiccup' = (hiccup \/ Acceptable(views[i])) /\ UNCHANGED dst
    /\ i' = i + 1
    /\ UNCHANGED <<src, run, pc, tabs, views, reply>>

ViewsDone ==
    /\ At("view") /\ i > Len(views) /\ Goto("answer")
    /\ UNCHANGED <<src, dst, run, tabs, views, i, failed, reply, hiccup>>

Answer ==
    /\ At("answer") /\ Goto("idle")
    /\ reply' = [kind |-> "ok", failed |-> failed]
    /\ UNCHANGED <<src, dst, run, tabs, views, i, failed, hiccup>>

\* Another process drops a table of a SQLite source; DuckDB holds a lock on its own.
SourceDrops(t) ==
    /\ src.engine = "sqlite" /\ t \in src.main
    /\ src' = [src EXCEPT !.main = @ \ {t}]
    /\ UNCHANGED <<dst, run, pc, tabs, views, i, failed, reply, hiccup>>

-----------------------------------------------------------------------------
Init ==
    /\ src \in Sources
    /\ \E t \in Targets : dst = [o \in t |-> 0]
    /\ run = 0 /\ pc = "idle"
    /\ tabs = << >> /\ views = << >> /\ i = 1 /\ failed = {}
    /\ reply = NoReply /\ hiccup = FALSE

Step ==
    \/ AttachSource \/ AttachTarget \/ ListTables \/ UseTarget
    \/ CopyTable \/ TablesDone \/ StatementFails
    \/ EnterViews \/ QueryViews \/ SkipViews \/ RecreateView \/ ViewsDone \/ Answer

Next == Start \/ Step \/ \E t \in Objects : SourceDrops(t)

Spec == Init /\ [][Next]_vars

\* The dispatch is one synchronous C call.
FairSpec == Spec /\ WF_vars(Step)

-----------------------------------------------------------------------------
(* The abstract promise *)

TablesToCopy == {tabs[k] : k \in DOMAIN tabs}

Status ==
    IF pc \in {"prepare", "attach", "list"} THEN "listing"
    ELSE IF pc # "idle" THEN "writing"
    ELSE IF reply.kind = "none" THEN "idle" ELSE reply.kind

Promise == INSTANCE Conversion WITH
    target <- dst, plan <- TablesToCopy, status <- Status, failed <- reply.failed

-----------------------------------------------------------------------------
(* Properties *)

Steps == {"idle", "prepare", "attach", "list", "use", "copy",
          "views_use", "views_open", "views_query", "view", "answer"}

\* Values have the types of the C variables; the loop index stays within one past
\* the rows it walks.
TypeOK ==
    /\ src \in Databases
    /\ DOMAIN dst \subseteq Objects /\ \A o \in DOMAIN dst : dst[o] \in 0..run
    /\ run \in 0..MaxRuns
    /\ pc \in Steps
    /\ tabs \in Seq(Objects) /\ views \in Seq(Views)
    /\ i \in Nat \ {0} /\ failed \subseteq Objects
    /\ pc = "copy" => i <= Len(tabs) + 1
    /\ pc = "view" => i <= Len(views) + 1
    /\ reply \in [kind : {"none", "ok", "error"}, failed : SUBSET Objects]
    /\ hiccup \in BOOLEAN

\* convert.database keeps its abstract promise: the target only grows, by objects
\* that were not there, and success means that every listed table was copied by
\* this run, also when the target existed or an earlier run left its tables in it.
KeepsPromise == Promise!Spec

\* Every conversion is answered.
IsAnswered == Promise!Answered

\* Once the views were listed, a success accounts for each: recreated or reported.
ViewsAccounted ==
    reply.kind = "ok" => \A k \in DOMAIN views : views[k].name \in Made \cup reply.failed

\* Every view is younger than those it reads.  SQLite does not see to it: a view may be
\* dropped and created again under one that reads it.
ReadsOlder ==
    \A j, k \in DOMAIN src.views : j < k => src.views[k].name \notin src.views[j].reads

\* api.c:88: for such a SQLite source creation order is good enough: a view is reported
\* only for its own dialect, for a name the target had, for something it reads that did
\* not make it, or for a failure of the moment -- never for coming too early.
FailsForAReason ==
    reply.kind = "ok" /\ ~hiccup =>
        \A k \in DOMAIN views : views[k].name \in reply.failed =>
            \/ views[k].quirk \/ views[k].name \in Internal \cup DOMAIN dst
            \/ ~(views[k].reads \subseteq DOMAIN dst)
SqliteViewsInOrder == src.engine = "sqlite" /\ ReadsOlder => FailsForAReason

\* No conversion puts an object into the target whose name SQLite reserves.
NoInternalTable == run > 0 => Made \cap Internal = {}

\* README.md:33 says "copies every table and view, both directions, round-trip safe
\* (skips SQLite-internal sqlite_* tables)".
EveryTableCopied == reply.kind = "ok" => src.main \ Internal \subseteq Made
=============================================================================
