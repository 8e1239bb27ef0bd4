----------------------------- MODULE Connection -----------------------------
(***************************************************************************)
(* The life of dbview's one database connection.                          *)
(*                                                                         *)
(* open_db (src/app/main.c) opens the new connection through the engine's  *)
(* fallback ladder -- read-write, read-only, snapshot copy for DuckDB;     *)
(* read-write, read-only for SQLite -- and only then closes the old one.   *)
(* Every system call of the ladder is a step of its own, because another   *)
(* process may take or drop DuckDB's exclusive lock, or commit, between    *)
(* any two of them, and because the process may die between any two.       *)
(*                                                                         *)
(* The temp directory outlives the process: a name is <<pid, n>>, where n  *)
(* is the static counter of dbe_snapshot_copy, and a pid may be reused.    *)
(***************************************************************************)
EXTENDS Naturals, Sequences

CONSTANTS
    Paths,       \* database files on disk
    DuckSuffix,  \* those whose name ends in .duckdb or .ddb
    Pids,        \* process ids the OS may give to dbview
    Nil,         \* "no value"
    InMemory,    \* stands for the path of an in-memory database
    NumChunks,   \* buffers fread returns for one database file
    MaxSnaps,    \* bound: snapshot copies attempted by one process
    MaxVer       \* bound: transactions committed by other processes to a file

ASSUME ConstantsAssumption ==
    /\ DuckSuffix \subseteq Paths
    /\ Nil \notin Paths /\ InMemory \notin Paths /\ Nil # InMemory
    /\ Nil \notin Pids
    /\ NumChunks \in Nat /\ MaxSnaps \in Nat /\ MaxVer \in Nat

VARIABLES
    lock,     \* lock[p]: another process holds DuckDB's exclusive lock on p
    ver,      \* ver[p]: version of p's bytes; DuckDB commits reach them at checkpoints
    tmp,      \* the temp directory: snapshot name -> sequence of copied chunks
    pid,      \* our process, Nil when it is not running
    counter,  \* the static counter of dbe_snapshot_copy
    conn,     \* app_ctx.conn
    op,       \* the open being served: local variables of the call chain
    reply,    \* the JSON envelope last handed to webview_return
    abandoned, \* history: snapshots left behind by a process that ended
    leaked,   \* history: snapshots dropped by a failing duckdb_connect
    cut       \* history: snapshots whose last buffer fclose could not write

vars == <<lock, ver, tmp, pid, counter, conn, op, reply, abandoned, leaked, cut>>

Engines == {"duckdb", "sqlite"}
Codes == {"DB_ERR_DUCKDB", "DB_ERR_SQLITE", "DB_ERR_OOM"}
Targets == Paths \cup {InMemory}

\* Name of a snapshot file, and the value of a NULL temp_copy.
Names == Pids \X (1..MaxSnaps)
NoName == <<Nil, 0>>

\* Fields of struct db_conn; `since` is a history field: the version the file
\* had when the request that opened the connection arrived.
Conns == [engine : Engines, path : Targets, ro : BOOLEAN, snap : BOOLEAN,
          tmp : Names \cup {NoName}, since : Nat]
NoConn == [engine |-> "none", path |-> Nil, ro |-> FALSE, snap |-> FALSE,
           tmp |-> NoName, since |-> 0]

\* Points of the call chain: the next system call.
Steps == {"alloc", "rw", "ro", "snap", "copy", "copied", "snapopen",
          "connect", "swap", "sqlite_rw", "sqlite_ro"}

NoOp == [pc |-> "idle", conn |-> NoConn]
NoReply == [ok |-> FALSE, code |-> "none", conn |-> NoConn]

-----------------------------------------------------------------------------
(* Helpers *)

\* main.c has_suffix and open_db: an explicit engine wins, else the suffix.
EngineOf(p, engine) ==
    IF engine # "none" THEN engine
    ELSE IF p \in DuckSuffix THEN "duckdb" ELSE "sqlite"

\* The snapshot file a connection (open, or under construction) owns.
TempOf(c) == {c.tmp} \ {NoName}

\* Snapshot files reachable from the running process's data.
Owned == TempOf(conn) \cup TempOf(op.conn)

\* The file a connection holds DuckDB's lock on.
Holds(c, p) == c.engine = "duckdb" /\ c.path = p /\ ~c.snap

\* remove() and fopen(.., "wb") on the temp directory.
Unlink(dir, names) == [n \in DOMAIN dir \ names |-> dir[n]]
AppendToIt(dir, name) ==                                            \* mutant
    [n \in DOMAIN dir \cup {name} |-> IF n \in DOMAIN dir THEN dir[n] ELSE << >>]
Truncate(dir, name) ==
    [n \in DOMAIN dir \cup {name} |-> IF n = name THEN << >> ELSE dir[n]]

WriteChunk(dir, name, v) == [dir EXCEPT ![name] = Append(@, v)]
LoseTail(dir, name) == [dir EXCEPT ![name] = SubSeq(@, 1, Len(@) - 1)]

\* engine.c:51-53: the pid and a pre-incremented counter.
ConstantName == <<pid, 1>>                                          \* mutant
PostIncrementName == <<pid, counter>>                               \* mutant
SnapshotName == <<pid, counter + 1>>

At(pc) == pid # Nil /\ op.pc = pc

RetryWhileLocked(step) ==                                           \* mutant
    op' = [pc |-> IF step = "snap" THEN "rw" ELSE step, conn |-> op.conn] /\ UNCHANGED reply

\* Control moves to the next system call.
Goto(step) == op' = [pc |-> step, conn |-> op.conn] /\ UNCHANGED reply

\* The ladder gives up: `code` is returned through open_db, which leaves c->conn alone,
\* and goes out in the envelope of json_err.  The message beside it is left out.
Fail(code) ==
    /\ op' = NoOp
    /\ reply' = [ok |-> FALSE, code |-> code, conn |-> NoConn]

Environment == <<lock, ver>>
History == <<abandoned, leaked, cut>>

-----------------------------------------------------------------------------
(* A request arrives (main.c shell_dispatch, or argv at startup) *)

Begin(p, engine) ==
    /\ op' = [pc |-> IF engine = "duckdb" THEN "alloc" ELSE "sqlite_rw",
              conn |-> [engine |-> engine, path |-> p, ro |-> FALSE,
                        snap |-> FALSE, tmp |-> NoName,
                        since |-> IF p = InMemory THEN 0 ELSE ver[p]]]
    /\ reply' = NoReply

\* app.open {path, engine}.
CloseThenOpen(p, engine) ==                                         \* mutant
    /\ At("idle") /\ counter < MaxSnaps
    /\ Begin(p, EngineOf(p, engine))
    /\ conn' = NoConn /\ tmp' = Unlink(tmp, TempOf(conn))
    /\ UNCHANGED <<Environment, pid, counter, History>>

Open(p, engine) ==
    /\ At("idle") /\ counter < MaxSnaps
    /\ Begin(p, EngineOf(p, engine))
    /\ UNCHANGED <<Environment, tmp, pid, counter, conn, History>>

\* app.new_memory {engine}.
NewMemory(engine) ==
    /\ At("idle")
    /\ Begin(InMemory, engine)
    /\ UNCHANGED <<Environment, tmp, pid, counter, conn, History>>

\* main: a new process, with or without a file named on the command line.
Launch(id) ==
    /\ pid = Nil
    /\ pid' = id /\ counter' = 0
    /\ \/ UNCHANGED <<op, reply>>
       \/ MaxSnaps > 0 /\ \E p \in Paths : Begin(p, EngineOf(p, "none"))
    /\ UNCHANGED <<Environment, tmp, conn, History>>

-----------------------------------------------------------------------------
(* The DuckDB ladder (engine_duckdb.c open_duckdb) *)

Alloc ==
    /\ At("alloc")
    /\ \/ Goto("rw")
       \/ Fail("DB_ERR_OOM")
    /\ UNCHANGED <<Environment, tmp, pid, counter, conn, History>>

\* duck_open(p, false): cannot succeed while another process holds the lock, and
\* may fail for other reasons.  An in-memory database has no fallback.
OpenReadWrite ==
    /\ At("rw")
    /\ \/ /\ op.conn.path \in Paths => ~lock[op.conn.path]
          /\ Goto("connect")
       \/ op.conn.path \in Paths /\ Goto("ro")
       \/ op.conn.path = InMemory /\ Fail("DB_ERR_DUCKDB")
    /\ UNCHANGED <<Environment, tmp, pid, counter, conn, History>>

\* duck_open(p, true): the exclusive lock blocks read-only opens as well.
OpenReadOnly ==
    /\ At("ro")
    /\ \/ /\ ~lock[op.conn.path]
          /\ op' = [pc |-> "connect", conn |-> [op.conn EXCEPT !.ro = TRUE]]
          /\ UNCHANGED reply
       \/ Goto("snap")
    /\ UNCHANGED <<Environment, tmp, pid, counter, conn, History>>

KeepSnapshot(code) ==                                       \* mutant
    /\ Fail(code)
    /\ UNCHANGED tmp

\* The snapshot copy fails after its file was created: remove(path).
DropSnapshot(code) ==
    /\ Fail(code)
    /\ tmp' = Unlink(tmp, TempOf(op.conn))

\* dbe_snapshot_copy up to fopen(path, "wb"), which truncates whatever an earlier
\* process with our pid left under that name.
CreateSnapshot ==
    /\ At("snap")
    /\ counter' = counter + 1
    /\ \/ /\ tmp' = Truncate(tmp, SnapshotName)
          /\ op' = [pc |-> "copy", conn |-> [op.conn EXCEPT !.tmp = SnapshotName]]
          /\ abandoned' = abandoned \ {SnapshotName}
          /\ leaked' = leaked \ {SnapshotName}
          /\ cut' = cut \ {SnapshotName}
          /\ UNCHANGED reply
       \/ Fail("DB_ERR_DUCKDB") /\ UNCHANGED <<tmp, History>>
    /\ UNCHANGED <<Environment, pid, conn>>

\* fread returned 0 and ferror(in) is not set.
ReadNothing == TRUE                                                 \* mutant
AtEof == Len(tmp[op.conn.tmp]) = NumChunks

\* One turn of the fread/fwrite loop, and after the last one fclose(out), whose result
\* nobody looks at: what it cannot write is missing from the copy.
CopyChunk ==
    /\ At("copy")
    /\ \/ /\ ~AtEof
          /\ tmp' = WriteChunk(tmp, op.conn.tmp, ver[op.conn.path])
          /\ UNCHANGED <<op, reply, cut>>
       \/ AtEof /\ Goto("copied") /\ UNCHANGED <<tmp, cut>>
       \/ /\ AtEof /\ NumChunks > 0 /\ Goto("copied")
          /\ tmp' = LoseTail(tmp, op.conn.tmp)
          /\ cut' = cut \cup {op.conn.tmp}
       \/ DropSnapshot("DB_ERR_DUCKDB") /\ UNCHANGED cut
    /\ UNCHANGED <<Environment, pid, counter, conn, abandoned, leaked>>

\* dbe_strdup(path), the copy's last step.
ReturnSnapshot ==
    /\ At("copied")
    /\ \/ Goto("snapopen") /\ UNCHANGED tmp
       \/ DropSnapshot("DB_ERR_DUCKDB")
    /\ UNCHANGED <<Environment, pid, counter, conn, History>>

OpenSnapshot ==
    /\ At("snapopen")
    /\ \/ /\ op' = [pc |-> "connect",
                    conn |-> [op.conn EXCEPT !.ro = TRUE, !.snap = TRUE]]
          /\ UNCHANGED <<tmp, reply>>
       \/ DropSnapshot("DB_ERR_DUCKDB")
    /\ UNCHANGED <<Environment, pid, counter, conn, History>>

\* duckdb_connect; its failure path closes the database but does not remove the
\* snapshot (engine_duckdb.c:104-108).
Connect ==
    /\ At("connect")
    /\ \/ Goto("swap") /\ UNCHANGED leaked
       \/ /\ Fail("DB_ERR_DUCKDB")
          /\ leaked' = leaked \cup TempOf(op.conn)
    /\ UNCHANGED <<Environment, tmp, pid, counter, conn, abandoned, cut>>

-----------------------------------------------------------------------------
(* The SQLite ladder (engine_sqlite.c db_open_sqlite, db_open_sqlite_memory) *)

SqliteErrors == {"DB_ERR_SQLITE", "DB_ERR_OOM"}

\* READWRITE|CREATE; SQLite may still report the file read-only.
SqliteReadWrite ==
    /\ At("sqlite_rw")
    /\ \/ \E ro \in BOOLEAN :
             /\ op.conn.path = InMemory => ~ro
             /\ op' = [pc |-> "swap", conn |-> [op.conn EXCEPT !.ro = ro]]
             /\ UNCHANGED reply
       \/ op.conn.path \in Paths /\ Goto("sqlite_ro")
       \/ op.conn.path = InMemory /\ \E code \in SqliteErrors : Fail(code)
    /\ UNCHANGED <<Environment, tmp, pid, counter, conn, History>>

SqliteReadOnly ==
    /\ At("sqlite_ro")
    /\ \/ /\ op' = [pc |-> "swap", conn |-> [op.conn EXCEPT !.ro = TRUE]]
          /\ UNCHANGED reply
       \/ \E code \in SqliteErrors : Fail(code)
    /\ UNCHANGED <<Environment, tmp, pid, counter, conn, History>>

-----------------------------------------------------------------------------
(* The new connection replaces the old one (main.c open_db, open_memory) *)

\* db_close(c->conn) unlinks the old connection's snapshot; then c->conn = nc and
\* current_json describes it.
Swap ==
    /\ At("swap")
    /\ tmp' = Unlink(tmp, TempOf(conn))
    /\ conn' = op.conn
    /\ op' = NoOp
    /\ reply' = [ok |-> TRUE, code |-> "none", conn |-> op.conn]
    /\ UNCHANGED <<Environment, pid, counter, History>>

\* The window is closed: webview_run returns and main closes the connection.
CloseWindow ==
    /\ At("idle")
    /\ tmp' = Unlink(tmp, TempOf(conn))
    /\ pid' = Nil /\ conn' = NoConn /\ reply' = NoReply
    /\ UNCHANGED <<Environment, counter, op, History>>

\* The process ends without returning to main: the Quit menu's terminate:
\* between two requests, or a crash at any step.
Terminate ==
    /\ pid # Nil
    /\ abandoned' = abandoned \cup Owned
    /\ pid' = Nil /\ conn' = NoConn /\ op' = NoOp /\ reply' = NoReply
    /\ UNCHANGED <<Environment, tmp, counter, leaked, cut>>

-----------------------------------------------------------------------------
(* Other processes using the same files *)

OtherLocks(p) ==
    /\ ~lock[p]
    /\ ~Holds(conn, p)
    /\ op.pc \in {"connect", "swap"} => ~Holds(op.conn, p)
    /\ lock' = [lock EXCEPT ![p] = TRUE]
    /\ UNCHANGED <<ver, tmp, pid, counter, conn, op, reply, History>>

OtherCommits(p) ==
    /\ lock[p] /\ ver[p] < MaxVer
    /\ ver' = [ver EXCEPT ![p] = @ + 1]
    /\ UNCHANGED <<lock, tmp, pid, counter, conn, op, reply, History>>

OtherUnlocks(p) ==
    /\ lock[p]
    /\ lock' = [lock EXCEPT ![p] = FALSE]
    /\ UNCHANGED <<ver, tmp, pid, counter, conn, op, reply, History>>

-----------------------------------------------------------------------------
Init ==
    /\ lock \in [Paths -> BOOLEAN]
    /\ ver = [p \in Paths |-> 0]
    /\ tmp = << >>
    /\ pid = Nil /\ counter = 0
    /\ conn = NoConn /\ op = NoOp
    /\ reply = NoReply
    /\ abandoned = {} /\ leaked = {} /\ cut = {}

\* The steps of one synchronous call of on_invoke.
Serve ==
    \/ Alloc \/ OpenReadWrite \/ OpenReadOnly
    \/ CreateSnapshot \/ CopyChunk \/ ReturnSnapshot \/ OpenSnapshot
    \/ Connect \/ SqliteReadWrite \/ SqliteReadOnly \/ Swap

Next ==
    \/ \E p \in Paths, engine \in Engines \cup {"none"} : Open(p, engine)
    \/ \E engine \in Engines : NewMemory(engine)
    \/ \E id \in Pids : Launch(id)
    \/ Serve
    \/ CloseWindow \/ Terminate
    \/ \E p \in Paths : OtherLocks(p) \/ OtherCommits(p) \/ OtherUnlocks(p)

Spec == Init /\ [][Next]_vars

\* on_invoke runs the whole ladder on one thread and no call in it waits for
\* another process, so a request being served keeps taking steps.
FairSpec == Spec /\ WF_vars(Serve)

-----------------------------------------------------------------------------
(* What the page sees of it *)

\* main.c current_json: the badges, without the file a snapshot is read from.
Described(c) == [engine |-> c.engine, path |-> c.path, ro |-> c.ro, snap |-> c.snap]

Promise == INSTANCE Shell WITH
    running <- pid # Nil,
    conn <- Described(conn),
    asked <- [engine |-> op.conn.engine, path |-> op.conn.path],
    reply <- [kind |-> IF reply.ok THEN "ok" ELSE IF reply.code = "none" THEN "none" ELSE "error",
              conn |-> Described(reply.conn)]

-----------------------------------------------------------------------------
(* Properties *)

\* Values have the types of the C declarations; snapshot names are numbered from
\* 1 because dbe_snapshot_copy increments its counter before it uses it.
TypeOK ==
    /\ lock \in [Paths -> BOOLEAN]
    /\ ver \in [Paths -> 0..MaxVer]
    /\ DOMAIN tmp \subseteq Names
    /\ \A n \in DOMAIN tmp : tmp[n] \in Seq(0..MaxVer)
    /\ pid \in Pids \cup {Nil}
    /\ counter \in 0..MaxSnaps
    /\ conn \in Conns \cup {NoConn}
    /\ op \in [pc : Steps, conn : Conns] \cup {NoOp}
    /\ reply \in [ok : BOOLEAN, code : Codes \cup {"none"}, conn : Conns \cup {NoConn}]
    /\ {abandoned, leaked, cut} \subseteq SUBSET Names

\* A connection shown as a snapshot is read-only and reads a copy that is still in the
\* temp directory and complete, unless the fclose nobody checks failed; any other
\* connection owns no copy.
Complete(name) == name \in DOMAIN tmp /\ (Len(tmp[name]) = NumChunks \/ name \in cut)
SnapshotComplete ==
    IF conn.snap THEN conn.ro /\ Complete(conn.tmp) ELSE conn.tmp = NoName

\* The file under the live snapshot connection never changes: reopening the same
\* locked database while its snapshot is on screen copies into another file.
SnapshotUntouched ==
    [][conn' = conn /\ conn.snap =>
          conn.tmp \in DOMAIN tmp' /\ tmp'[conn.tmp] = tmp[conn.tmp]]_vars

\* A snapshot holds nothing older than the request that asked for it, nothing the
\* other process has not committed, and no chunk older than the one before it.
InOrder(copy, oldest, newest) ==
    \A i, j \in DOMAIN copy :
        copy[i] \in oldest..newest /\ (i <= j => copy[i] <= copy[j])
SnapshotFresh == conn.snap => InOrder(tmp[conn.tmp], conn.since, ver[conn.path])

\* Every file in the temp directory belongs to the connection or to the open in
\* progress, except those of a process that ended without closing and those
\* dropped by a failing duckdb_connect: no other path of the ladder leaks one.
StraysExplained == DOMAIN tmp \subseteq Owned \cup abandoned \cup leaked

\* The open in progress never writes to the file the live connection reads.
CopiesDistinct == TempOf(conn) \cap TempOf(op.conn) = {}

\* The ladder keeps the shell's promise: each open ends in one answer, a success whose
\* reply is the connection from then on, to the database asked for and in a mode it has,
\* or a failure -- at whatever step -- that leaves the database on screen usable.
KeepsPromise == Promise!Spec

\* Every request is answered, or the process ends while serving it.
RequestAnswered == Promise!Answered
=============================================================================
