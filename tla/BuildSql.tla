------------------------------ MODULE BuildSql ------------------------------
(***************************************************************************)
(* Methods convert.*: dbview_api_call makes the folders an export needs,   *)
(* one mkdir at a time, builds the SQL text and replies with it            *)
(* (src/api/api.c, src/convert/convert.c).  Other processes make and       *)
(* remove files and folders between any two of these calls.                *)
(*                                                                         *)
(* A string is a sequence of characters.  Of the SQL only the quoted parts *)
(* are characters; what a format string puts between them is one element,  *)
(* a fragment.  One that is a single letter is written with the %s before  *)
(* it, to tell it from the character.                                      *)
(***************************************************************************)
EXTENDS Naturals, SequencesExt

CONSTANTS
    Char,      \* characters
    Names,     \* values of the arguments that name tables, schemas, aliases
    Paths,     \* values of the argument path
    PathMax    \* size of the buffer that ensure_parent_dir copies a path to

Slash == "/"
QI == "\""     \* delimits an identifier
QL == "'"      \* delimits a string literal

\* A path as the system resolves it: no slash is repeated or last.
Resolve(text) ==
    LET Add(s, c) == IF c = Slash /\ s # <<>> /\ Last(s) = Slash THEN s ELSE Append(s, c)
        once == FoldLeft(Add, <<>>, text)
    IN IF once # <<>> /\ Last(once) = Slash THEN Front(once) ELSE once

LastSlash(text) == SelectLastInSeq(text, LAMBDA c : c = Slash)
Upto(text, n) == SubSeq(text, 1, n)

\* The folders on the way to a path.
Above(path) == {Resolve(Upto(path, k - 1)) : k \in {i \in 2..Len(path) : path[i] = Slash}}

Root == <<>>
Nodes == {Root} \cup UNION {Above(path) \cup {Resolve(path)} : path \in Paths}
Kinds == {"none", "dir", "file"}

Fragments ==
    {"CREATE TABLE ", " AS SELECT * FROM ", "read_csv_auto(", "read_parquet(", ");",
     "COPY (SELECT * FROM ", ") TO ", " (FORMAT parquet);", " (HEADER, FORMAT csv);",
     "ATTACH ", " AS ", " (TYPE sqlite, READ_ONLY);", "%s.", "%s;"}

ASSUME ConstantsAssumption ==
    /\ {Slash, QI, QL} \subseteq Char /\ Fragments \cap Char = {}
    /\ <<>> \in Names \cap Paths /\ Names \cup Paths \subseteq Seq(Char)
    /\ PathMax \in Nat \ {0}
    \* the code leaves a folder named "/" to mkdir, whose answer systems differ on
    /\ \A path \in Paths : Len(path) > 1 => ~(path[1] = Slash /\ path[2] = Slash)

Exports == {"export_parquet", "export_csv"}
Methods ==
    Exports \cup {"import_csv", "import_parquet", "attach_sqlite", "copy_table", "other"}

\* The arguments of a method; one that is missing or no string is taken as empty.
ArgsOf(m) ==
    IF m = "copy_table" THEN [src_schema : Names, src : Names, dst : Names]
    ELSE IF m = "attach_sqlite" THEN [path : Paths, alias : Names]
    ELSE [path : Paths, table : Names]

VARIABLES
    fs,         \* what there is at each node; Root is the folder they all are in
    pc,
    method, args,
    buf,        \* ensure_parent_dir's buffer, once cut at the last slash
    p,          \* the next mkdir is of its first p characters
    reply,
    denied,     \* history: the system refused a mkdir of this call
    removed     \* history: another process removed something since this call began

vars == <<fs, pc, method, args, buf, p, reply, denied, removed>>
request == <<method, args, buf>>

NoReply == [kind |-> "none"]
Error(code) == [kind |-> "error", code |-> code]

Parent(node) == Upto(node, IF LastSlash(node) = 0 THEN 0 ELSE LastSlash(node) - 1)
IsDir(node) == fs[node] = "dir"
Exists(node) == fs[node] # "none"
IsTree == IsDir(Root) /\ \A node \in Nodes : Exists(node) => IsDir(Parent(node))

Init ==
    /\ fs \in [Nodes -> Kinds] /\ IsTree
    /\ pc = "idle" /\ method = "other" /\ args = <<>> /\ buf = <<>> /\ p = 0
    /\ reply = NoReply /\ denied = FALSE /\ removed = FALSE

-----------------------------------------------------------------------------
(* ensure_parent_dir *)

TooLong(path) == Len(path) >= PathMax
HasParent(path) == LastSlash(path) > 1
CutNothing(path) == path                                                \* mutant
Cut(path) == Upto(path, LastSlash(path) - 1)

\* The prefixes of text given to mkdir: up to each slash but the first character, then all.
Ends(text) == {i - 1 : i \in {j \in 2..Len(text) : text[j] = Slash}} \cup {Len(text)}
NextEnd(text, n) == CHOOSE i \in Ends(text) : i > n /\ \A j \in Ends(text) : j > n => i <= j

Made(node) == fs' = [fs EXCEPT ![node] = "dir"]
Advance ==
    IF p = Len(buf) THEN pc' = "build" /\ p' = p ELSE pc' = "mkdir" /\ p' = NextEnd(buf, p)

Reply(r) == pc' = "done" /\ reply' = r

\* A mkdir that makes its folder.
MkdirMade ==
    LET node == Resolve(Upto(buf, p)) IN
    /\ pc = "mkdir"
    /\ ~Exists(node) /\ IsDir(Parent(node))
    /\ Made(node) /\ Advance
    /\ UNCHANGED <<request, reply, denied, removed>>

MkdirExistsFails ==                                                     \* mutant
    /\ pc = "mkdir"
    /\ Exists(Resolve(Upto(buf, p)))
    /\ Reply(Error("DB_ERR_IO"))
    /\ UNCHANGED <<fs, request, p, denied, removed>>

\* A mkdir that finds something there, folder or not, and is taken for done.
MkdirExists ==
    /\ pc = "mkdir"
    /\ Exists(Resolve(Upto(buf, p)))
    /\ Advance
    /\ UNCHANGED <<fs, request, reply, denied, removed>>

MkdirNowhereIgnored ==                                                  \* mutant
    /\ pc = "mkdir"
    /\ ~Exists(Resolve(Upto(buf, p))) /\ ~IsDir(Parent(Resolve(Upto(buf, p))))
    /\ Advance
    /\ UNCHANGED <<fs, request, reply, denied, removed>>

\* A mkdir in what is no folder, or no longer there.
MkdirNowhere ==
    LET node == Resolve(Upto(buf, p)) IN
    /\ pc = "mkdir"
    /\ ~Exists(node) /\ ~IsDir(Parent(node))
    /\ Reply(Error("DB_ERR_IO"))
    /\ UNCHANGED <<fs, request, p, denied, removed>>

\* A mkdir the system refuses: no permission, no space.
MkdirDenied ==
    /\ pc = "mkdir"
    /\ denied' = TRUE /\ Reply(Error("DB_ERR_IO"))
    /\ UNCHANGED <<fs, request, p, removed>>

-----------------------------------------------------------------------------
(* The builders *)

QuoteOnce(s, q) == <<q>> \o s \o <<q>>                                  \* mutant

\* quote_with: delimit with q, doubling every q within.
QuoteWith(s, q) ==
    <<q>> \o FlattenSeq([i \in DOMAIN s |-> IF s[i] = q THEN <<q, q>> ELSE <<s[i]>>]) \o <<q>>

Qident(s) == QuoteWith(s, QI)
Qlit(s) == QuoteWith(s, QL)

Import(reader) ==
    <<"CREATE TABLE ">> \o Qident(args.table) \o <<" AS SELECT * FROM ", reader>>
        \o Qlit(args.path) \o <<");">>

Export(options) ==
    <<"COPY (SELECT * FROM ">> \o Qident(args.table) \o <<") TO ">> \o Qlit(args.path)
        \o <<options>>

Attach ==
    <<"ATTACH ">> \o Qlit(args.path) \o <<" AS ">> \o Qident(args.alias)
        \o <<" (TYPE sqlite, READ_ONLY);">>

CopyTable ==
    <<"CREATE TABLE ">> \o Qident(args.dst) \o <<" AS SELECT * FROM ">>
        \o (IF args.src_schema = <<>> THEN <<>> ELSE Qident(args.src_schema) \o <<"%s.">>)
        \o Qident(args.src) \o <<"%s;">>

Sql ==
    CASE method = "import_csv"     -> Import("read_csv_auto(")
      [] method = "import_parquet" -> Import("read_parquet(")
      [] method = "export_parquet" -> Export(" (FORMAT parquet);")
      [] method = "export_csv"     -> Export(" (HEADER, FORMAT csv);")
      [] method = "attach_sqlite"  -> Attach
      [] method = "copy_table"     -> CopyTable

Required == DOMAIN args \ {"src_schema"}
Missing == \E arg \in Required : args[arg] = <<>>

RefusedSilently ==                                                      \* mutant
    /\ pc = "build" /\ Missing
    /\ pc' = "done"
    /\ UNCHANGED <<fs, request, p, reply, denied, removed>>

BuildRefused ==
    /\ pc = "build" /\ Missing
    /\ Reply(Error("DB_ERR_INVALID_ARG"))
    /\ UNCHANGED <<fs, request, p, denied, removed>>

BuildOom ==
    /\ pc = "build" /\ ~Missing
    /\ Reply(Error("DB_ERR_OOM"))
    /\ UNCHANGED <<fs, request, p, denied, removed>>

Build ==
    /\ pc = "build" /\ ~Missing
    /\ Reply([kind |-> "ok", sql |-> Sql])
    /\ UNCHANGED <<fs, request, p, denied, removed>>

-----------------------------------------------------------------------------
\* A call: which folders to make is settled before the builder sees the arguments.
Call(m, a) ==
    /\ pc = "idle"
    /\ method' = m /\ args' = a
    /\ UNCHANGED <<fs, denied, removed>>
    /\ \/ /\ m = "other"
          /\ Reply(Error("DB_ERR_UNSUPPORTED")) /\ UNCHANGED <<buf, p>>
       \/ /\ m \in Exports /\ TooLong(a.path)
          /\ Reply(Error("DB_ERR_INVALID_ARG")) /\ UNCHANGED <<buf, p>>
       \/ /\ m \in Exports /\ ~TooLong(a.path) /\ HasParent(a.path)
          /\ pc' = "mkdir" /\ UNCHANGED reply
          /\ buf' = Cut(a.path) /\ p' = NextEnd(Cut(a.path), 0)
       \/ /\ m # "other" /\ (m \in Exports => ~TooLong(a.path) /\ ~HasParent(a.path))
          /\ pc' = "build" /\ UNCHANGED <<reply, buf, p>>

\* The reply is taken and the call's strings freed: nothing of it but its folders is left.
Return ==
    /\ pc = "done"
    /\ pc' = "idle" /\ method' = "other" /\ args' = <<>> /\ buf' = <<>> /\ p' = 0
    /\ reply' = NoReply /\ denied' = FALSE /\ removed' = FALSE
    /\ UNCHANGED fs

\* Other processes.
OtherMakes(node, kind) ==
    /\ ~Exists(node) /\ IsDir(Parent(node))
    /\ fs' = [fs EXCEPT ![node] = kind]
    /\ UNCHANGED <<pc, request, p, reply, denied, removed>>

OtherRemoves(node) ==
    /\ node # Root /\ Exists(node)
    /\ \A below \in Nodes : Parent(below) = node => ~Exists(below)
    /\ fs' = [fs EXCEPT ![node] = "none"]
    /\ removed' = TRUE
    /\ UNCHANGED <<pc, request, p, reply, denied>>

Step ==
    \/ MkdirMade \/ MkdirExists \/ MkdirNowhere \/ MkdirDenied
    \/ BuildRefused \/ BuildOom \/ Build

Next ==
    \/ Step \/ Return
    \/ \E m \in Methods : \E a \in ArgsOf(m) : Call(m, a)
    \/ \E node \in Nodes : OtherRemoves(node)
    \/ \E node \in Nodes, kind \in {"dir", "file"} : OtherMakes(node, kind)

Spec == Init /\ [][Next]_vars

-----------------------------------------------------------------------------
(* What the database reads in a text: the quoted parts, and what is between *)

\* within: the open delimiter, or "none"; half: a delimiter was read that ends the part
\* unless another follows.
Unread == [within |-> "none", half |-> FALSE, part |-> <<>>, quoted |-> <<>>, rest |-> <<>>]

Outside(s, x) ==
    IF x \in {QI, QL} THEN [s EXCEPT !.within = x, !.half = FALSE, !.part = <<>>]
    ELSE [s EXCEPT !.within = "none", !.half = FALSE, !.rest = Append(@, x)]

ReadNext(s, x) ==
    IF s.within = "none" THEN Outside(s, x)
    ELSE IF s.half /\ x # s.within
         THEN Outside([s EXCEPT !.quoted = Append(@, <<s.within, s.part>>)], x)
    ELSE IF x = s.within /\ ~s.half THEN [s EXCEPT !.half = TRUE]
    ELSE [s EXCEPT !.half = FALSE, !.part = Append(@, x)]

Reads(sql) == FoldLeft(ReadNext, Unread, sql)

\* What a request names, in the order of the statement it asks for.
Named ==
    CASE method \in Exports \cup {"import_csv", "import_parquet"} ->
            <<<<QI, args.table>>, <<QL, args.path>>>>
      [] method = "attach_sqlite" -> <<<<QL, args.path>>, <<QI, args.alias>>>>
      [] method = "copy_table" ->
            <<<<QI, args.dst>>>>
                \o (IF args.src_schema = <<>> THEN <<>> ELSE <<<<QI, args.src_schema>>>>)
                \o <<<<QI, args.src>>>>

-----------------------------------------------------------------------------
(* Properties *)

\* Every call is in a legal phase and every finished one has a reply, the next mkdir is
\* within the buffer, and the files stay a tree whatever is made and removed.
TypeOK ==
    /\ fs \in [Nodes -> Kinds] /\ IsTree
    /\ pc \in {"idle", "mkdir", "build", "done"}
    /\ method \in Methods /\ (pc # "idle" => args \in ArgsOf(method))
    /\ pc = "mkdir" => p \in 1..Len(buf)
    /\ reply # NoReply <=> pc = "done"
    /\ denied \in BOOLEAN /\ removed \in BOOLEAN

\* convert.h:10: "names/paths with spaces or quotes are safe".  The text of an ok reply
\* quotes exactly what the request named, character by character, and nothing of a name
\* or a path is read as SQL.
NamesSurvive ==
    reply.kind = "ok" =>
        LET read == Reads(reply.sql) IN
        /\ read.within = "none" /\ read.quoted = Named
        /\ Range(read.rest) \cap Char = {}

\* api.c:16: an export with an ok reply finds its folder: all on the way to the file is
\* there, folders all but the last for sure, unless another process removed some of it.
FolderReady ==
    reply.kind = "ok" /\ method \in Exports /\ ~removed =>
        \A node \in Above(args.path) :
            /\ Exists(node)
            /\ node # Resolve(Cut(args.path)) => IsDir(node)

\* A folder that is already there, or that another process makes first, is no error: an
\* export fails for the files only if it was refused, or a file is on the way, or
\* something was removed under it.
FailureHasCause ==
    reply = Error("DB_ERR_IO") =>
        denied \/ removed \/ \E node \in Above(args.path) : fs[node] = "file"

\* The builders "build (don't run)" (api.c:257): a call changes no file.  All it ever makes
\* are folders, one for each '/' of the path of an export that follows a name: those above
\* the file, or, if the path itself ends in '/', the folder it names.
OnlyFoldersAbove ==
    [][\A node \in Nodes :
          <<p, pc>>' # <<p, pc>> /\ fs'[node] # fs[node] =>
              /\ method \in Exports /\ fs[node] = "none" /\ fs'[node] = "dir"
              /\ node \in Above(args.path)]_vars
=============================================================================
