------------------------------- MODULE Query --------------------------------
(***************************************************************************)
(* Method query.run: db_query hands the text to the active engine, which   *)
(* runs it and materializes the rows into a db_result; api.c turns that    *)
(* into the reply and frees it (src/engine/engine.c, engine_sqlite.c,      *)
(* engine_duckdb.c, src/api/api.c).                                        *)
(*                                                                         *)
(* A text is a sequence of statements.  Cells are copied one at a time     *)
(* into an array that is grown a row at a time, and every allocation may   *)
(* fail.                                                                   *)
(***************************************************************************)
EXTENDS Integers, Sequences

CONSTANTS
    Null, Texts,   \* SQL NULL and the other values of a cell
    NoText,        \* values the engine gives no text for
    Empty,         \* the empty string
    Junk,          \* what realloc leaves in the part of an array it added
    Scripts,       \* texts the user may run
    MaxRows,       \* DB_RESULT_MAX_ROWS
    FirstRows,     \* rows the array first has room for
    MaxRequests    \* bound: requests made

Values == Texts \cup {Null}
Upto(n) == 0..(n - 1)

\* A statement: its result, and how it ends.
IsStatement(s) ==
    /\ s.cols \in Nat /\ s.total \in Nat
    /\ s.rows \in [Upto(s.total) -> [Upto(s.cols) -> Values]]
    /\ s.ends \in {"done", "fails", "syntax"}

ASSUME ConstantsAssumption ==
    /\ Empty \in Texts /\ NoText \subseteq Texts
    /\ Null \notin Texts /\ Junk \notin Texts /\ Junk # Null
    /\ \A s \in Scripts :
          Len(s) \in Nat \ {0} /\ DOMAIN s = 1..Len(s) /\ \A k \in DOMAIN s : IsStatement(s[k])
    /\ MaxRows \in Nat /\ FirstRows \in Nat \ {0} /\ MaxRequests \in Nat

VARIABLES
    engine,     \* engine of the active connection, "none" without one
    pc,
    script,     \* the text of the request
    inEffect,   \* history: its statements from the first that are in effect
    st,         \* the statement whose rows are materialized
    n_rows, truncated,
    values,     \* the array of cells: the malloc'd pointers, Null, or Junk
    cap,
    col,        \* loop index
    reply,
    leaked,     \* history: the db_result was freed without some text in it
    wild,       \* history: and with Junk among what was freed
    requests

vars == <<engine, pc, script, inEffect, st, n_rows, truncated, values, cap, col, reply,
          leaked, wild, requests>>

NoReply == [kind |-> "none"]
Error(code) == [kind |-> "error", code |-> code]
NoStatement == [cols |-> 0, total |-> 0, rows |-> [row \in {} |-> Null], ends |-> "done"]

At(step) == pc = step

\* The text of a cell; dbe_strdup makes the empty string of no text.
Cell(v) == IF v \in NoText THEN Empty ELSE v

\* db_result_free of n rows: what is in the rows is freed, the array is gone.
Free(n) ==
    /\ leaked' = (leaked \/ \E k \in DOMAIN values : k >= n * st.cols /\ values[k] \in Texts)
    /\ wild' = (wild \/ \E k \in DOMAIN values : k < n * st.cols /\ values[k] = Junk)
    /\ values' = << >> /\ cap' = 0 /\ n_rows' = 0 /\ truncated' = FALSE /\ col' = 0

Replies(r) == reply' = r /\ pc' = "idle"
Keep == UNCHANGED <<engine, script, st, requests>>
KeepResult == UNCHANGED <<n_rows, truncated, values, cap, col, leaked, wild>>

-----------------------------------------------------------------------------
(* db_query and the engines' query functions *)

Run(s, kind) ==
    /\ At("idle") /\ requests < MaxRequests
    /\ requests' = requests + 1
    /\ engine' = kind /\ script' = s /\ st' = NoStatement
    /\ inEffect' = 0 /\ reply' = NoReply /\ pc' = "query"
    /\ leaked' = FALSE /\ wild' = FALSE
    /\ UNCHANGED <<n_rows, truncated, values, cap, col>>

NotOpen ==
    /\ At("query") /\ engine = "none"
    /\ Replies(Error("invalid"))
    /\ UNCHANGED inEffect /\ Keep /\ KeepResult

\* sqlite3_prepare_v2 compiles the first statement; the rest of the text is not read.
Prepare ==
    /\ At("query") /\ engine = "sqlite"
    /\ IF script[1].ends = "syntax"
       THEN Replies(Error("sql")) /\ UNCHANGED st
       ELSE st' = script[1] /\ pc' = "alloc" /\ UNCHANGED reply
    /\ UNCHANGED <<engine, script, requests, inEffect>> /\ KeepResult

\* duckdb_query parses the text, then runs statement after statement up to one that
\* fails; the result is the last one's.
Bad(ends) == {k \in DOMAIN script : script[k].ends = ends}
Execute ==
    /\ At("query") /\ engine = "duckdb"
    /\ \/ /\ Bad("syntax") = {} /\ Bad("fails") = {}
          /\ inEffect' = Len(script)
          /\ st' = script[Len(script)] /\ pc' = "alloc" /\ UNCHANGED reply
       \/ /\ Bad("syntax") = {}
          /\ \E k \in Bad("fails") :
                (\A j \in Bad("fails") : k <= j) /\ inEffect' = k - 1
          /\ Replies(Error("sql")) /\ UNCHANGED st
       \/ /\ Bad("syntax") # {}
          /\ Replies(Error("sql")) /\ UNCHANGED <<st, inEffect>>
    /\ UNCHANGED <<engine, script, requests>> /\ KeepResult

-----------------------------------------------------------------------------
(* materialize *)

\* dbe_result_alloc and the column names.
Alloc ==
    /\ At("alloc")
    /\ \/ pc' = "row" /\ UNCHANGED reply
       \/ Replies(Error("oom"))
    /\ UNCHANGED inEffect /\ Keep /\ KeepResult

\* dbe_result_ensure_row
FitsFormerRow(rows) == (rows - 1) * st.cols <= cap                  \* mutant

Fits(rows) == rows * st.cols <= cap

Grow ==
    LET newcap == IF cap = 0 THEN (IF st.cols > 0 THEN st.cols ELSE 1) * FirstRows
                             ELSE cap * 2
    IN  /\ cap' = newcap
        /\ values' = [k \in Upto(newcap) |-> IF k < cap THEN values[k] ELSE Junk]

\* A step of SQLite's virtual machine takes effect as it succeeds; DuckDB's rows are
\* there already.
Stepped == inEffect' = IF engine = "sqlite" THEN 1 ELSE inEffect

NextRow ==
    /\ At("row") /\ n_rows < st.total /\ n_rows < MaxRows
    /\ \/ /\ Fits(n_rows + 1) /\ pc' = "cell"
          /\ UNCHANGED <<values, cap, n_rows, truncated, col, leaked, wild, reply>>
       \/ /\ ~Fits(n_rows + 1) /\ Grow /\ pc' = "cell"
          /\ UNCHANGED <<n_rows, truncated, col, leaked, wild, reply>>
       \/ /\ ~Fits(n_rows + 1) /\ Free(n_rows) /\ Replies(Error("oom"))
    /\ Stepped /\ Keep

TooManyUnsaid ==                                                    \* mutant
    /\ At("row") /\ n_rows < st.total /\ n_rows >= MaxRows
    /\ pc' = "json"
    /\ Stepped /\ UNCHANGED <<n_rows, truncated, values, cap, col, leaked, wild, reply>> /\ Keep

TooMany ==
    /\ At("row") /\ n_rows < st.total /\ n_rows >= MaxRows
    /\ truncated' = TRUE /\ pc' = "json"
    /\ Stepped /\ UNCHANGED <<n_rows, values, cap, col, leaked, wild, reply>> /\ Keep

Index == n_rows * st.cols + col
CopyCell ==
    /\ At("cell") /\ col < st.cols
    /\ values' = [values EXCEPT ![Index] = Cell(st.rows[n_rows][col])]
    /\ col' = col + 1
    /\ UNCHANGED <<pc, inEffect, n_rows, truncated, cap, reply, leaked, wild>> /\ Keep

CellFailsUncounted ==                                               \* mutant
    /\ At("cell") /\ col < st.cols /\ st.rows[n_rows][col] # Null
    /\ Free(n_rows)
    /\ Replies(Error("oom"))
    /\ UNCHANGED inEffect /\ Keep

\* The copy fails: the row is counted so that its cells are freed.
CellFails ==
    /\ At("cell") /\ col < st.cols /\ st.rows[n_rows][col] # Null
    /\ Free(n_rows + 1)
    /\ Replies(Error("oom"))
    /\ UNCHANGED inEffect /\ Keep

RowDoneKeepsCol ==                                                  \* mutant
    /\ At("cell") /\ col = st.cols
    /\ n_rows' = n_rows + 1 /\ pc' = "row"
    /\ UNCHANGED <<inEffect, truncated, values, cap, col, reply, leaked, wild>> /\ Keep

RowDone ==
    /\ At("cell") /\ col = st.cols
    /\ n_rows' = n_rows + 1 /\ col' = 0 /\ pc' = "row"
    /\ UNCHANGED <<inEffect, truncated, values, cap, reply, leaked, wild>> /\ Keep

StepFailsInEffect ==                                                \* mutant
    /\ At("row") /\ n_rows = st.total /\ st.ends = "fails"
    /\ Free(n_rows) /\ UNCHANGED inEffect
    /\ Replies(Error("sql")) /\ Keep

StepFailsCountsRow ==                                               \* mutant
    /\ At("row") /\ n_rows = st.total /\ st.ends = "fails"
    /\ Free(n_rows + 1) /\ inEffect' = 0
    /\ Replies(Error("sql")) /\ Keep

\* sqlite3_step reports an error after the last row: the statement is undone.
StepFails ==
    /\ At("row") /\ n_rows = st.total /\ st.ends = "fails"
    /\ Free(n_rows) /\ inEffect' = 0
    /\ Replies(Error("sql")) /\ Keep

NoMoreRows ==
    /\ At("row") /\ n_rows = st.total /\ st.ends = "done"
    /\ pc' = "json"
    /\ Stepped /\ UNCHANGED reply /\ Keep /\ KeepResult

-----------------------------------------------------------------------------
(* result_to_json, and db_result_free *)

ResultValue(row, c) ==
    IF row < n_rows /\ c < st.cols THEN values[row * st.cols + c] ELSE Null

ToJson ==
    /\ At("json")
    /\ Free(n_rows)
    /\ \/ Replies([kind |-> "ok", truncated |-> truncated, row_count |-> n_rows,
                   rows |-> [row \in Upto(n_rows) |->
                                [c \in Upto(st.cols) |-> ResultValue(row, c)]]])
       \/ Replies(Error("oom"))
    /\ UNCHANGED inEffect /\ Keep

-----------------------------------------------------------------------------
Init ==
    /\ engine = "none" /\ pc = "idle" /\ script = << >> /\ inEffect = 0 /\ st = NoStatement
    /\ n_rows = 0 /\ truncated = FALSE /\ values = << >> /\ cap = 0 /\ col = 0
    /\ reply = NoReply /\ leaked = FALSE /\ wild = FALSE /\ requests = 0

Step ==
    \/ NotOpen \/ Prepare \/ Execute \/ Alloc \/ NextRow \/ TooMany \/ CopyCell \/ CellFails
    \/ RowDone \/ StepFails \/ NoMoreRows \/ ToJson

Next == Step \/ \E s \in Scripts, kind \in {"none", "sqlite", "duckdb"} : Run(s, kind)

Spec == Init /\ [][Next]_vars

-----------------------------------------------------------------------------
(* Properties *)

InResult == pc \in {"row", "cell", "json"}

\* Values have the types of the C variables; outside a db_result nothing is left of it,
\* and the loop index is within the row that is copied.
TypeOK ==
    /\ engine \in {"none", "sqlite", "duckdb"}
    /\ pc \in {"idle", "query", "alloc", "row", "cell", "json"}
    /\ script \in Scripts \cup {<< >>} /\ inEffect \in 0..Len(script)
    /\ st \in {NoStatement} \cup {script[k] : k \in DOMAIN script}
    /\ n_rows \in Nat /\ truncated \in BOOLEAN /\ cap \in Nat
    /\ values \in [Upto(cap) -> Values \cup {Junk}]
    /\ col \in 0..st.cols /\ (pc # "cell" => col = 0)
    /\ ~InResult => n_rows = 0 /\ cap = 0 /\ ~truncated
    /\ reply.kind \in {"none", "ok", "error"} /\ (reply.kind = "none" \/ pc = "idle")
    /\ leaked \in BOOLEAN /\ wild \in BOOLEAN /\ requests \in 0..MaxRequests

\* The array has room for the cell about to be stored, however often it was grown.
StoresInBounds == pc = "cell" /\ col < st.cols => Index < cap

\* The reply has the first MaxRows rows of the statement, all of them, each cell where
\* it belongs, SQL NULL apart from every text; it says so when rows are missing.
ReplyExact ==
    reply.kind = "ok" =>
        /\ reply.row_count = IF st.total <= MaxRows THEN st.total ELSE MaxRows
        /\ reply.truncated = (st.total > MaxRows)
        /\ reply.rows = [row \in Upto(reply.row_count) |->
                            [c \in Upto(st.cols) |-> Cell(st.rows[row][c])]]

\* Whatever allocation fails, freeing the result frees every text copied into it.
NoLeak == ~leaked

\* It frees nothing but what was stored there -- except after the copy of a cell
\* failed, when the rest of that row was never stored.
FreesStored == wild => reply = Error("oom")

\* What a reply says of the statements: a failing DuckDB statement leaves those
\* before it in effect and no other, a failing SQLite one nothing.  The rows of an ok reply
\* are those of the last statement in effect, for DuckDB the last of the text; how much of
\* the text SQLite ran is WholeTextRun.
EffectKnown ==
    /\ reply = Error("sql") =>
          IF engine = "sqlite" THEN inEffect = 0
          ELSE \/ Bad("syntax") # {} /\ inEffect = 0
               \/ /\ inEffect + 1 \in Bad("fails")
                  /\ \A k \in Bad("fails") : inEffect < k
    /\ reply.kind = "ok" =>
          /\ inEffect # 0 /\ st = script[inEffect]
          /\ engine = "duckdb" => inEffect = Len(script)

\* docs/SPEC.md:112 says "Run one or many statements on the active connection": after an
\* ok reply all of them have run.
WholeTextRun == reply.kind = "ok" => inEffect = Len(script)
=============================================================================
