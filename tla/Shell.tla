-------------------------------- MODULE Shell --------------------------------
(***************************************************************************)
(* What the page may rely on when it asks the shell for a connection       *)
(* (app.open, app.new_memory), whatever the open ladder goes through: one  *)
(* request has one answer; a success names the connection that is open     *)
(* from then on, which is to the database that was asked for and in a mode *)
(* that its kind has; and after a refusal the connection is as before.     *)
(*                                                                         *)
(* Files, locks, snapshots and other processes are not seen here.          *)
(***************************************************************************)
CONSTANTS
    Paths,       \* database files
    InMemory,    \* stands for the path of an in-memory database
    Nil          \* "no value"

VARIABLES
    running,   \* the program runs
    conn,      \* the connection as app.current describes it
    asked,     \* the request being served
    reply      \* the answer to the last request

vars == <<running, conn, asked, reply>>

Engines == {"duckdb", "sqlite"}
Requests == [engine : Engines, path : Paths \cup {InMemory}]
OfFile == [engine : Engines, path : Paths]
NoRequest == [engine |-> "none", path |-> Nil]
NoConn == [engine |-> "none", path |-> Nil, ro |-> FALSE, snap |-> FALSE]
Answer(kind, c) == [kind |-> kind, conn |-> c]
NoAnswer == Answer("none", NoConn)

\* A file may turn out to be read-only, and one of DuckDB's to be read through a copy.
Grants(r) ==
    {c \in [engine : {r.engine}, path : {r.path}, ro : BOOLEAN, snap : BOOLEAN] :
        /\ c.snap => c.ro /\ c.engine = "duckdb"
        /\ c.path = InMemory => ~c.ro}

Init == running = FALSE /\ conn = NoConn /\ asked = NoRequest /\ reply = NoAnswer

\* The program starts, with or without a file to open.
Start(r) ==
    /\ ~running
    /\ running' = TRUE /\ asked' = r
    /\ UNCHANGED <<conn, reply>>

Ask(r) ==
    /\ running /\ asked = NoRequest
    /\ asked' = r /\ reply' = NoAnswer
    /\ UNCHANGED <<running, conn>>

Grant(c) ==
    /\ asked # NoRequest
    /\ conn' = c /\ reply' = Answer("ok", c) /\ asked' = NoRequest
    /\ UNCHANGED running

Refuse ==
    /\ asked # NoRequest
    /\ reply' = Answer("error", NoConn) /\ asked' = NoRequest
    /\ UNCHANGED <<running, conn>>

\* The program ends, be it while a request is served.
Stop ==
    /\ running
    /\ running' = FALSE /\ conn' = NoConn /\ asked' = NoRequest /\ reply' = NoAnswer

Next ==
    \/ \E r \in OfFile \cup {NoRequest} : Start(r)
    \/ \E r \in Requests : Ask(r)
    \/ \E c \in Grants(asked) : Grant(c)
    \/ Refuse \/ Stop

Spec == Init /\ [][Next]_vars

\* A request is answered, or the program ends.
Answered == (asked # NoRequest) ~> (asked = NoRequest)
=============================================================================
