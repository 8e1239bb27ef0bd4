--------------------------- MODULE WorkbenchProofs ---------------------------
(***************************************************************************)
(* Proofs about the handlers of App.tsx over the bridge, for any number of *)
(* handlers in flight, launches, databases and versions.                   *)
(***************************************************************************)
EXTENDS Workbench, FiniteSetTheorems, TLAPS

TaskType == [h : Handlers, at : Methods, db : Dbs \cup {NoDb},
             table : Tables \cup {NoTable}, text : Texts, src : Dbs \cup {NoDb}]
CallType == [task : Nat, method : Methods, db : Dbs \cup {NoDb}, text : Texts,
             src : Dbs \cup {NoDb}]
ReplyType == [task : Nat, ok : BOOLEAN, conn : Conns, ver : 0..MaxVer]

\* The tasks that the messages of s are for; each for another one.
Ids(s) == {s[i].task : i \in DOMAIN s}
Apart(s) == \A i, j \in DOMAIN s : s[i].task = s[j].task => i = j

\* Each task of t awaits one thing: a call of cs, a reply of rs or the dialog d.
One(cs, rs, d, t) ==
    /\ Apart(cs) /\ Apart(rs)
    /\ Ids(cs) \cap Ids(rs) = {} /\ d \notin Ids(cs) \cup Ids(rs)
    /\ 0 \notin t /\ t = Ids(cs) \cup Ids(rs) \cup ({d} \ {0})

-----------------------------------------------------------------------------
(* The bridge *)

LEMMA TailFacts ==
    ASSUME NEW S, NEW s \in Seq(S), s # << >>
    PROVE  /\ Tail(s) \in Seq(S) /\ Len(s) \in Nat \ {0} /\ DOMAIN s = 1..Len(s)
           /\ Head(s) = s[1] /\ Head(s) \in S /\ DOMAIN Tail(s) = 1..(Len(s) - 1)
           /\ \A i \in 1..(Len(s) - 1) : Tail(s)[i] = s[i + 1]
PROOF OBVIOUS

LEMMA AppendFacts ==
    ASSUME NEW S, NEW s \in Seq(S), NEW e \in S
    PROVE  /\ Append(s, e) \in Seq(S) /\ Len(s) \in Nat /\ DOMAIN s = 1..Len(s)
           /\ DOMAIN Append(s, e) = 1..(Len(s) + 1)
           /\ \A i \in 1..Len(s) : Append(s, e)[i] = s[i]
           /\ Append(s, e)[Len(s) + 1] = e
PROOF OBVIOUS

\* Taking the first message away.
LEMMA Dropped ==
    ASSUME NEW S, NEW s \in Seq(S), s # << >>, Apart(s)
    PROVE  /\ Apart(Tail(s)) /\ Head(s).task \in Ids(s)
           /\ Ids(Tail(s)) = Ids(s) \ {Head(s).task}
PROOF
  <1> DEFINE tl == Tail(s)
             n == Len(s)
  <1>1. /\ n \in Nat \ {0} /\ DOMAIN s = 1..n /\ Head(s) = s[1]
        /\ DOMAIN tl = 1..(n - 1)
        /\ \A i \in 1..(n - 1) : tl[i] = s[i + 1]
    BY TailFacts
  <1> HIDE DEF tl, n
  <1>2. Apart(tl)
    <2> SUFFICES ASSUME NEW i \in 1..(n - 1), NEW j \in 1..(n - 1), tl[i].task = tl[j].task
                 PROVE  i = j
      BY <1>1 DEF Apart
    <2>1. i + 1 \in DOMAIN s /\ j + 1 \in DOMAIN s /\ s[i + 1].task = s[j + 1].task
      BY <1>1
    <2>2. i + 1 = j + 1
      BY <2>1 DEF Apart
    <2> QED
      BY <1>1, <2>2
  <1>3. ASSUME NEW i \in 1..n, s[i].task # s[1].task
        PROVE  i - 1 \in DOMAIN tl /\ tl[i - 1].task = s[i].task
    BY <1>1, <1>3
  <1>4. ASSUME NEW i \in DOMAIN tl
        PROVE  i + 1 \in 1..n /\ tl[i].task = s[i + 1].task /\ s[i + 1].task # s[1].task
    BY <1>1, <1>4 DEF Apart
  <1>5. Ids(tl) = Ids(s) \ {s[1].task}
    <2>1. ASSUME NEW k \in Ids(s) \ {s[1].task} PROVE k \in Ids(tl)
      <3>1. PICK i \in 1..n : k = s[i].task
        BY <1>1 DEF Ids
      <3>2. i - 1 \in DOMAIN tl /\ tl[i - 1].task = k
        BY <1>3, <3>1
      <3> QED
        BY <3>2 DEF Ids
    <2>2. ASSUME NEW k \in Ids(tl) PROVE k \in Ids(s) \ {s[1].task}
      <3>1. PICK i \in DOMAIN tl : k = tl[i].task
        BY DEF Ids
      <3> QED
        BY <1>1, <1>4, <3>1 DEF Ids
    <2> QED
      BY <2>1, <2>2
  <1>6. s[1].task \in Ids(s)
    BY <1>1 DEF Ids
  <1> QED
    BY <1>1, <1>2, <1>5, <1>6 DEF tl

\* Adding a message for another task.
LEMMA Added ==
    ASSUME NEW S, NEW s \in Seq(S), NEW e \in S, Apart(s), e.task \notin Ids(s)
    PROVE  Apart(Append(s, e)) /\ Ids(Append(s, e)) = Ids(s) \cup {e.task}
PROOF
  <1> DEFINE ap == Append(s, e)
             n == Len(s)
  <1>1. /\ n \in Nat /\ DOMAIN s = 1..n /\ DOMAIN ap = 1..(n + 1)
        /\ \A i \in 1..n : ap[i] = s[i]
        /\ ap[n + 1] = e
    BY AppendFacts
  <1> HIDE DEF ap, n
  <1>2. \A i \in 1..n : ap[i].task = s[i].task /\ ap[i].task # e.task
    BY <1>1 DEF Ids
  <1>3. Apart(ap)
    BY <1>1, <1>2 DEF Apart
  <1>4. DOMAIN ap = (DOMAIN s) \cup {n + 1}
    BY <1>1
  <1>5. Ids(ap) = Ids(s) \cup {e.task}
    BY <1>1, <1>2, <1>4 DEF Ids
  <1> QED
    BY <1>3, <1>5 DEF ap

\* The shell executes a call: its task awaits the reply instead.
LEMMA Executed ==
    ASSUME NEW C, NEW R, NEW cs \in Seq(C), NEW rs \in Seq(R), NEW d, NEW t, NEW r \in R,
           One(cs, rs, d, t), cs # << >>, r.task = Head(cs).task
    PROVE  One(Tail(cs), Append(rs, r), d, t)
PROOF BY Dropped, Added DEF One

\* A dialog comes up for a call, and goes with a reply.
LEMMA DialogUp ==
    ASSUME NEW C, NEW cs \in Seq(C), NEW rs, NEW t, One(cs, rs, 0, t), cs # << >>
    PROVE  One(Tail(cs), rs, Head(cs).task, t)
PROOF BY Dropped DEF One

LEMMA DialogDown ==
    ASSUME NEW cs, NEW R, NEW rs \in Seq(R), NEW d, NEW t, NEW r \in R,
           One(cs, rs, d, t), d # 0, r.task = d
    PROVE  One(cs, Append(rs, r), 0, t)
PROOF BY Added DEF One

\* A reply resumes its task: the handler returns, or makes its next call.
LEMMA Finished ==
    ASSUME NEW cs, NEW R, NEW rs \in Seq(R), NEW d, NEW t, One(cs, rs, d, t), rs # << >>
    PROVE  One(cs, Tail(rs), d, t \ {Head(rs).task})
PROOF BY Dropped DEF One

LEMMA Continued ==
    ASSUME NEW C, NEW R, NEW cs \in Seq(C), NEW rs \in Seq(R), NEW d, NEW t, NEW c \in C,
           One(cs, rs, d, t), rs # << >>, c.task = Head(rs).task
    PROVE  One(Append(cs, c), Tail(rs), d, t) /\ c.task \in t
PROOF BY Dropped, Added DEF One

\* A handler starts.
LEMMA Begun ==
    ASSUME NEW C, NEW cs \in Seq(C), NEW rs, NEW d, NEW t, NEW c \in C,
           One(cs, rs, d, t), c.task \notin t, c.task # 0
    PROVE  One(Append(cs, c), rs, d, t \cup {c.task})
PROOF BY Added DEF One

-----------------------------------------------------------------------------
(* Types of the bridge and of the tasks *)

Wired ==
    /\ DOMAIN tasks \subseteq 1..MaxTasks
    /\ \A k \in DOMAIN tasks : tasks[k] \in TaskType
    /\ calls \in Seq(CallType) /\ replies \in Seq(ReplyType)
    /\ One(calls, replies, dialog, DOMAIN tasks)

LEMMA OneLater ==
    One(calls, replies, dialog, DOMAIN tasks)' = One(calls', replies', dialog', DOMAIN tasks')
PROOF BY DEF One, Apart, Ids

LEMMA Bounds == /\ MaxTasks \in Nat \ {0} /\ MaxVer \in Nat \ {0}
                /\ MaxStarts \in Nat /\ MaxLaunches \in Nat
PROOF BY ConstantsAssumption

\* The shell replies to the call at the head.
LEMMA ServedWired ==
    ASSUME Wired, calls # << >>, NEW r \in ReplyType, r.task = Head(calls).task,
           calls' = Tail(calls), replies' = Append(replies, r), UNCHANGED <<tasks, dialog>>
    PROVE  Wired'
PROOF
  <1>1. One(calls, replies, dialog, DOMAIN tasks)' = One(calls', replies', dialog, DOMAIN tasks)
    BY OneLater
  <1>2. One(calls', replies', dialog, DOMAIN tasks)
    BY Executed DEF Wired
  <1>3. calls' \in Seq(CallType) /\ replies' \in Seq(ReplyType)
    BY TailFacts, AppendFacts DEF Wired
  <1> QED
    BY <1>1, <1>2, <1>3 DEF Wired

\* The task whose reply is at the head is in flight.
LEMMA HeadInFlight ==
    ASSUME Wired, replies # << >>
    PROVE  /\ Head(replies) \in ReplyType /\ Id \in DOMAIN tasks /\ Me \in TaskType
           /\ Id \in Nat \ {0}
PROOF
  <1>1. Head(replies) \in ReplyType
    BY TailFacts DEF Wired
  <1>2. Id \in DOMAIN tasks
    BY Dropped DEF Wired, One, Id
  <1> QED
    BY <1>1, <1>2, Bounds DEF Wired, Me

Resumed ==
    /\ replies # << >> /\ replies' = Tail(replies) /\ dialog' = dialog
    /\ Ends(Id) \/ \E t \in TaskType : Awaits(Id, t)

LEMMA ResumedWired ==
    ASSUME Wired, Resumed
    PROVE  Wired'
PROOF
  <1>1. Id \in DOMAIN tasks /\ Id \in Nat
    BY HeadInFlight DEF Resumed
  <1>2. replies' \in Seq(ReplyType)
    BY TailFacts DEF Wired, Resumed
  <1>3. CASE Ends(Id)
    <2>1. DOMAIN tasks' = DOMAIN tasks \ {Id} /\ calls' = calls
          /\ \A k \in DOMAIN tasks' : tasks'[k] = tasks[k]
      BY <1>3 DEF Ends
    <2>2. One(calls, Tail(replies), dialog, DOMAIN tasks \ {Id})
      BY Finished DEF Wired, Resumed, Id
    <2>3. One(calls, replies, dialog, DOMAIN tasks)'
      BY <2>1, <2>2, OneLater DEF Resumed
    <2> QED
      BY <1>2, <2>1, <2>3 DEF Wired
  <1>4. ASSUME NEW t \in TaskType, Awaits(Id, t) PROVE Wired'
    <2> DEFINE c == [task |-> Id, method |-> t.at, db |-> t.db, text |-> t.text,
                     src |-> t.src]
    <2>1. DOMAIN tasks' = DOMAIN tasks /\ calls' = Append(calls, c)
          /\ \A k \in DOMAIN tasks' : tasks'[k] \in TaskType
      BY <1>1, <1>4 DEF Awaits, Wired
    <2>2. c \in CallType /\ c.task = Head(replies).task
      BY <1>1 DEF CallType, TaskType, Id
    <2> HIDE DEF c
    <2>3. One(Append(calls, c), Tail(replies), dialog, DOMAIN tasks)
      BY <2>2, Continued DEF Wired, Resumed
    <2>4. One(calls, replies, dialog, DOMAIN tasks)'
      BY <2>1, <2>3, OneLater DEF Resumed
    <2>5. calls' \in Seq(CallType)
      BY <2>1, <2>2, AppendFacts DEF Wired
    <2> QED
      BY <1>2, <2>1, <2>4, <2>5 DEF Wired
  <1> QED
    BY <1>3, <1>4 DEF Resumed

\* While a task may start there is a number for it.
LEMMA FreeTask ==
    ASSUME Wired, Cardinality(DOMAIN tasks) < MaxTasks,
           NEW id, id = CHOOSE k \in 1..MaxTasks : k \notin DOMAIN tasks
    PROVE  id \in 1..MaxTasks /\ id \notin DOMAIN tasks
PROOF
  <1>1. IsFiniteSet(1..MaxTasks) /\ Cardinality(1..MaxTasks) = MaxTasks
    BY Bounds, FS_Interval
  <1>2. DOMAIN tasks # 1..MaxTasks
    BY <1>1, Bounds
  <1>3. \E k \in 1..MaxTasks : k \notin DOMAIN tasks
    BY <1>2 DEF Wired
  <1> QED
    BY <1>3

LEMMA StartsWired ==
    ASSUME Wired, NEW t \in TaskType, Starts(t)
    PROVE  /\ Wired'
           /\ \A k \in DOMAIN tasks : k \in DOMAIN tasks' /\ tasks'[k] = tasks[k]
           /\ \E k \in DOMAIN tasks' : k \notin DOMAIN tasks /\ tasks'[k] = t
PROOF
  <1> DEFINE id == CHOOSE k \in 1..MaxTasks : k \notin DOMAIN tasks
             c == [task |-> id, method |-> t.at, db |-> t.db, text |-> t.text,
                   src |-> t.src]
  <1>1. id \in 1..MaxTasks /\ id \notin DOMAIN tasks
    BY FreeTask DEF Starts
  <1>2. Awaits(id, t) /\ replies' = replies /\ dialog' = dialog
    BY DEF Starts
  <1> HIDE DEF id
  <1>3. /\ DOMAIN tasks' = DOMAIN tasks \cup {id} /\ calls' = Append(calls, c)
        /\ tasks'[id] = t
        /\ \A k \in DOMAIN tasks : tasks'[k] = tasks[k]
    BY <1>1, <1>2 DEF Awaits
  <1>4. c \in CallType /\ c.task = id /\ id # 0
    BY <1>1, Bounds DEF CallType, TaskType
  <1> HIDE DEF c
  <1>5. One(Append(calls, c), replies, dialog, DOMAIN tasks \cup {id})
    BY <1>1, <1>4, Begun DEF Wired
  <1>6. One(calls, replies, dialog, DOMAIN tasks)'
    BY <1>2, <1>3, <1>5, OneLater
  <1>7. calls' \in Seq(CallType)
    BY <1>3, <1>4, AppendFacts DEF Wired
  <1> QED
    BY <1>1, <1>2, <1>3, <1>6, <1>7 DEF Wired

-----------------------------------------------------------------------------
(* Types of the rest *)

Shell == conn \in Conns /\ ver \in [Dbs -> 1..MaxVer] /\ unseen \in BOOLEAN
Screen ==
    /\ info \in Conns /\ lastPath \in Dbs \cup {NoDb}
    /\ tables \in Versions /\ columns \in Versions
    /\ result \in Places /\ detail \in Places /\ lastSql \in Places
    /\ active \in Tables \cup {NoTable} /\ view \in {"data", "schema"}
    /\ busy \in BOOLEAN /\ error \in Handlers \cup {"none"}
    /\ notice \in [h : Handlers \cup {"none"}, db : Dbs \cup {NoDb}]
    /\ started \in 0..MaxStarts /\ launches \in 0..MaxLaunches
Typed == Wired /\ Shell /\ Screen
Marks == menu \in BOOLEAN /\ hidden \in BOOLEAN /\ orphan \in BOOLEAN

LEMMA Defaults ==
    /\ NoConn \in Conns /\ Empty \in Versions /\ Blank \in Places
    /\ NoNotice \in [h : Handlers \cup {"none"}, db : Dbs \cup {NoDb}]
PROOF BY Bounds DEF NoConn, Empty, Blank, NoNotice, Conns, Versions, Places

\* What the page does not read of the shell stays as it is while the shell executes.
LEMMA ScreenKept ==
    ASSUME Screen, UNCHANGED <<head, sidebar, pane, status, count>>
    PROVE  Screen'
PROOF BY DEF Screen, head, sidebar, pane, status, count

LEMMA AnswerWired ==
    ASSUME Wired, calls # << >>, NEW ok \in BOOLEAN, NEW k \in Conns, NEW v \in 0..MaxVer,
           Answer(Head(calls), ok, k, v), UNCHANGED <<tasks, dialog>>
    PROVE  Wired'
PROOF
  <1> DEFINE r == Reply(Head(calls), ok, k, v)
  <1>1. Head(calls) \in CallType
    BY TailFacts DEF Wired
  <1>2. r \in ReplyType /\ r.task = Head(calls).task
    BY <1>1 DEF Reply, ReplyType, CallType
  <1>3. calls' = Tail(calls) /\ replies' = Append(replies, r)
    BY DEF Answer
  <1> HIDE DEF r
  <1> QED
    BY <1>2, <1>3, ServedWired

\* A database gets a new version while the bound allows.
LEMMA NewVersion ==
    ASSUME Shell, NEW d, d \in Dbs => ver[d] < MaxVer
    PROVE  [ver EXCEPT ![d] = @ + 1] \in [Dbs -> 1..MaxVer]
PROOF
  <1>1. \A e \in Dbs : ver[e] \in 1..MaxVer
    BY DEF Shell
  <1>2. ASSUME d \in Dbs PROVE ver[d] + 1 \in 1..MaxVer
    BY <1>1, <1>2, Bounds
  <1> QED
    BY <1>2 DEF Shell

LEMMA ExecutesTyped == Typed /\ Executes => Typed'
PROOF
  <1> SUFFICES ASSUME Typed, Executes PROVE Typed'
    OBVIOUS
  <1>1. calls # << >>
    BY DEF Executes, Current, Opens, Lists, Queries, Converts, Builds, ShowDialog, Serves
  <1>2. Head(calls) \in CallType
    BY <1>1, TailFacts DEF Typed, Wired
  <1>3. Screen' /\ tasks' = tasks
    <2>1. UNCHANGED <<tasks, head, sidebar, pane, status, count>>
      BY DEF Executes, Current, Opens, Lists, Queries, Converts, Builds, ShowDialog,
             Untouched, count
    <2> QED
      BY <2>1, ScreenKept DEF Typed
  <1>4. 0 \in 0..MaxVer /\ conn \in Conns /\ Now.ver \in 0..MaxVer
    BY Bounds DEF Typed, Shell, Now, Conns
  <1>5. CASE Current
    BY <1>1, <1>3, <1>4, <1>5, AnswerWired DEF Current, Typed, Shell, shell
  <1>6. CASE Opens
    <2> DEFINE c == Head(calls)
               k(mode) == [db |-> c.db, mode |-> mode]
    <2>1. dialog' = dialog /\ unseen' \in BOOLEAN
      BY <1>6 DEF Opens, Typed, Shell
    <2>2. ASSUME NEW mode \in Modes, c.db = Mem => ver[Mem] < MaxVer, conn' = k(mode),
                 ver' = IF c.db = Mem THEN [ver EXCEPT ![Mem] = @ + 1] ELSE ver,
                 Answer(c, TRUE, k(mode), 0)
          PROVE  Typed'
      <3>1. k(mode) \in Conns
        BY <1>2 DEF CallType, Conns
      <3>2. ver' \in [Dbs -> 1..MaxVer]
        BY <2>2, NewVersion DEF Typed, Shell
      <3> QED
        BY <1>1, <1>3, <1>4, <2>1, <2>2, <3>1, <3>2, AnswerWired DEF Typed, Shell
    <2>3. ASSUME UNCHANGED <<conn, ver>>, Answer(c, FALSE, conn, 0) PROVE Typed'
      BY <1>1, <1>3, <1>4, <2>1, <2>3, AnswerWired DEF Typed, Shell
    <2> QED
      BY <1>6, <2>2, <2>3 DEF Opens
  <1>7. CASE Lists
    <2>1. /\ UNCHANGED <<conn, ver, dialog>> /\ unseen' \in BOOLEAN
          /\ \E ok \in BOOLEAN : Answer(Head(calls), ok, conn, Now.ver)
      BY <1>7 DEF Lists, Typed, Shell
    <2> QED
      BY <1>1, <1>3, <1>4, <2>1, AnswerWired DEF Typed, Shell
  <1>8. CASE Queries
    <2>1. dialog' = dialog /\ conn' = conn
      BY <1>8 DEF Queries
    <2>2. \E ok \in BOOLEAN : Answer(Head(calls), ok, conn, 0)
      BY <1>8 DEF Queries
    <2>3. Wired'
      BY <1>1, <1>3, <1>4, <2>1, <2>2, AnswerWired DEF Typed
    <2>4. /\ unseen' \in BOOLEAN
          /\ \/ ver' = ver
             \/ ver[conn.db] < MaxVer /\ ver' = [ver EXCEPT ![conn.db] = @ + 1]
      BY <1>8 DEF Queries, Typed, Shell
    <2>5. ver' \in [Dbs -> 1..MaxVer]
      BY <2>4, NewVersion DEF Typed, Shell
    <2> QED
      BY <1>3, <2>1, <2>3, <2>4, <2>5 DEF Typed, Shell
  <1>9. CASE Converts
    <2>1. dialog' = dialog /\ conn' = conn
      BY <1>9 DEF Converts
    <2>2. \E ok \in BOOLEAN : Answer(Head(calls), ok, conn, 0)
      BY <1>9 DEF Converts
    <2>3. Wired'
      BY <1>1, <1>3, <1>4, <2>1, <2>2, AnswerWired DEF Typed
    <2>4. /\ unseen' \in BOOLEAN
          /\ \/ ver' = ver
             \/ /\ ver[Head(calls).db] < MaxVer
                /\ ver' = [ver EXCEPT ![Head(calls).db] = @ + 1]
      BY <1>9 DEF Converts
    <2>5. ver' \in [Dbs -> 1..MaxVer]
      BY <2>4, NewVersion DEF Typed, Shell
    <2> QED
      BY <1>3, <2>1, <2>3, <2>4, <2>5 DEF Typed, Shell
  <1>10. CASE Builds
    BY <1>1, <1>3, <1>4, <1>10, AnswerWired DEF Builds, Typed, Shell, shell
  <1>11. CASE ShowDialog
    <2>1. calls' = Tail(calls) /\ dialog' = Head(calls).task /\ dialog = 0
          /\ replies' = replies
      BY <1>11 DEF ShowDialog
    <2>2. One(calls', replies, dialog', DOMAIN tasks)
      BY <1>1, <2>1, DialogUp DEF Typed, Wired
    <2>3. calls' \in Seq(CallType)
      BY <1>1, <2>1, TailFacts DEF Typed, Wired
    <2>4. Wired'
      BY <1>3, <2>1, <2>2, <2>3, OneLater DEF Typed, Wired
    <2> QED
      BY <1>3, <1>11, <2>4 DEF ShowDialog, Typed, Shell, shell
  <1> QED
    BY <1>5, <1>6, <1>7, <1>8, <1>9, <1>10, <1>11 DEF Executes

LEMMA CloseDialogTyped ==
    ASSUME Typed, NEW f \in Files \cup {NoDb}, CloseDialog(f)
    PROVE  Typed'
PROOF
  <1> DEFINE r == [task |-> dialog, ok |-> TRUE, conn |-> [NoConn EXCEPT !.db = f], ver |-> 0]
  <1>1. dialog \in DOMAIN tasks /\ dialog \in Nat /\ dialog # 0
    BY Bounds DEF CloseDialog, Typed, Wired, One
  <1>2. [NoConn EXCEPT !.db = f] \in Conns
    BY DEF NoConn, Conns, Dbs
  <1>3. r \in ReplyType /\ r.task = dialog
    BY <1>1, <1>2, Bounds DEF ReplyType
  <1>4. /\ replies' = Append(replies, r) /\ dialog' = 0 /\ calls' = calls /\ tasks' = tasks
        /\ UNCHANGED <<shell, head, sidebar, pane, status, count>>
    BY DEF CloseDialog, Untouched, count
  <1> HIDE DEF r
  <1>5. One(calls, replies', 0, DOMAIN tasks)
    BY <1>1, <1>3, <1>4, DialogDown DEF Typed, Wired
  <1>6. replies' \in Seq(ReplyType)
    BY <1>3, <1>4, AppendFacts DEF Typed, Wired
  <1>7. Wired'
    BY <1>4, <1>5, <1>6, OneLater DEF Typed, Wired
  <1> QED
    BY <1>4, <1>7, ScreenKept DEF Typed, Shell, shell

-----------------------------------------------------------------------------
(* The handlers *)

ArrivesOf(h, at, ok) ==
    /\ replies # << >> /\ replies' = Tail(replies) /\ dialog' = dialog
    /\ Head(replies).ok = ok /\ Me.h \in h /\ Me.at \in at
    /\ UNCHANGED <<shell, count>>

LEMMA Arrival ==
    ASSUME Typed, NEW h, NEW at, NEW ok, Arrives(h, at, ok)
    PROVE  /\ ArrivesOf(h, at, ok)
           /\ Head(replies) \in ReplyType /\ Me \in TaskType /\ Id \in DOMAIN tasks
           /\ Id \in Nat \ {0}
PROOF BY HeadInFlight DEF Arrives, ArrivesOf, Typed, Me, Id

LEMMA TaskIs ==
    ASSUME NEW h \in Handlers, NEW at \in Methods, NEW db \in Dbs \cup {NoDb}
    PROVE  Task(h, at, db) \in TaskType
PROOF BY DEF Task, TaskType, Texts

\* A handler that goes on is a task again.
LEMMA NextTask ==
    ASSUME NEW t \in TaskType, NEW at \in Methods
    PROVE  /\ [t EXCEPT !.at = at] \in TaskType
           /\ \A db \in Dbs \cup {NoDb} : [t EXCEPT !.at = at, !.db = db] \in TaskType
           /\ \A text \in Texts : [t EXCEPT !.at = at, !.text = text] \in TaskType
           /\ \A h \in Handlers, text \in Texts :
                 [t EXCEPT !.h = h, !.at = at, !.text = text] \in TaskType
PROOF BY DEF TaskType

Refreshers == {"launch", "open", "newdb", "memory", "convert", "import", "refresh"}

LEMMA AfterRefreshTyped ==
    ASSUME Typed, NEW at, NEW ok, ArrivesOf(Refreshers, at, ok),
           Me \in TaskType, NEW failed \in BOOLEAN, AfterRefresh(failed)
    PROVE  /\ Resumed
           /\ result' \in Places /\ detail' = detail /\ lastSql' = lastSql
           /\ active' \in Tables \cup {NoTable} /\ view' = view
           /\ busy' \in BOOLEAN /\ error' \in Handlers \cup {"none"}
           /\ notice' \in [h : Handlers \cup {"none"}, db : Dbs \cup {NoDb}]
PROOF
  <1>1. (IF failed THEN "refresh" ELSE error) \in Handlers \cup {"none"}
    BY DEF Typed, Screen, Handlers
  <1>2. [h |-> Me.h, db |-> Me.db] \in [h : Handlers \cup {"none"}, db : Dbs \cup {NoDb}]
    BY DEF TaskType
  <1>3. CASE Me.h \in {"launch", "refresh"}
    BY <1>1, <1>3 DEF AfterRefresh, ArrivesOf, Resumed, Typed, Screen, pane
  <1>4. CASE Me.h \in {"open", "memory"}
    BY <1>1, <1>4 DEF AfterRefresh, ArrivesOf, Resumed, Typed, Screen, pane
  <1>5. CASE Me.h = "newdb"
    BY <1>1, <1>2, <1>5 DEF AfterRefresh, ArrivesOf, Resumed, Typed, Screen, pane
  <1>6. CASE Me.h = "convert"
    BY <1>1, <1>2, <1>6, Defaults DEF AfterRefresh, ArrivesOf, Resumed, Typed, Screen, pane
  <1>7. CASE Me.h = "import"
    <2>1. [Me EXCEPT !.h = "preview", !.at = "query", !.text = "select"] \in TaskType
      BY NextTask DEF Handlers, Methods, Texts
    <2>2. /\ Awaits(Id, [Me EXCEPT !.h = "preview", !.at = "query", !.text = "select"])
          /\ busy' = TRUE /\ error' = "none" /\ notice' = NoNotice
          /\ UNCHANGED pane
      BY <1>7 DEF AfterRefresh
    <2> QED
      BY <2>1, <2>2, Defaults DEF ArrivesOf, Resumed, Typed, Screen, pane
  <1> QED
    BY <1>3, <1>4, <1>5, <1>6, <1>7 DEF ArrivesOf, Refreshers

LEMMA ResumesTyped == Typed /\ Resumes => Resumed /\ Typed'
PROOF
  <1> SUFFICES ASSUME Typed, Resumes PROVE Resumed /\ Screen' /\ UNCHANGED <<shell, count>>
    BY ResumedWired DEF Typed, Shell, shell
  <1> USE DEF head, sidebar, pane, status, count
  <1>1. Screen
    BY DEF Typed
  <1>2. CASE Picked
    <2>1. /\ ArrivesOf({"open", "newdb", "import", "export", "convert"}, {"pick"}, TRUE)
          /\ Me \in TaskType /\ Head(replies) \in ReplyType
      BY <1>2, Arrival DEF Picked
    <2> DEFINE db == Head(replies).conn.db
               next == [open |-> "open", newdb |-> "open", import |-> "build",
                        export |-> "query", convert |-> "convert"][Me.h]
    <2>2. next \in Methods /\ db \in Dbs \cup {NoDb}
      BY <2>1 DEF ArrivesOf, Methods, ReplyType, Conns
    <2>3. [Me EXCEPT !.at = next, !.db = db] \in TaskType
      BY <2>1, <2>2, NextTask
    <2>4. CASE db = NoDb
      <3>1. Ends(Id) /\ UNCHANGED <<error, notice, head, sidebar, pane>> /\ busy' \in BOOLEAN
        BY <1>1, <1>2, <2>4 DEF Picked, Screen
      <3> QED
        BY <1>1, <2>1, <3>1 DEF ArrivesOf, Resumed, Screen
    <2>5. CASE db # NoDb
      <3>1. /\ Awaits(Id, [Me EXCEPT !.at = next, !.db = db])
            /\ busy' \in BOOLEAN /\ error' \in {"none", error} /\ notice' \in {NoNotice, notice}
            /\ UNCHANGED <<head, sidebar, pane>>
        BY <1>2, <2>5 DEF Picked
      <3>2. UNCHANGED <<shell, count>> /\ Resumed
        BY <2>1, <2>3, <3>1 DEF ArrivesOf, Resumed
      <3>3. Screen'
        BY <1>1, <3>1, <3>2, Defaults DEF Screen
      <3> QED
        BY <3>2, <3>3
    <2> QED
      BY <2>4, <2>5
  <1>3. CASE Launched
    <2>1. /\ ArrivesOf({"launch"}, {"current"}, TRUE)
          /\ Me \in TaskType /\ Head(replies) \in ReplyType
      BY <1>3, Arrival DEF Launched
    <2> DEFINE k == Head(replies).conn
               last == IF lastPath = Mem THEN Stray ELSE lastPath
    <2>2. k \in Conns
      BY <2>1 DEF ReplyType
    <2>3. last \in Dbs \cup {NoDb}
      BY <1>1, ConstantsAssumption DEF Screen, Dbs
    <2>4. Task("launch", "open", last) \in TaskType
      BY <2>3, TaskIs DEF Handlers, Methods
    <2>5. [Me EXCEPT !.at = "tables"] \in TaskType
      BY <2>1, NextTask DEF Methods
    <2>6. Ends(Id) \/ \E t \in TaskType : Awaits(Id, t)
      BY <1>3, <2>4, <2>5 DEF Launched, Then
    <2>7. /\ UNCHANGED <<sidebar, pane, status>>
          /\ UNCHANGED head \/ Apply(k) \/ Apply(NoConn)
      BY <1>3 DEF Launched
    <2>8. info' \in Conns /\ lastPath' \in Dbs \cup {NoDb}
      BY <1>1, <2>2, <2>7, Defaults DEF Apply, Screen, Conns
    <2> QED
      BY <1>1, <2>1, <2>6, <2>7, <2>8 DEF ArrivesOf, Resumed, Screen
  <1>4. CASE Opened
    <2>1. /\ ArrivesOf({"open", "newdb", "memory", "launch", "convert"}, {"open", "memory"}, TRUE)
          /\ Me \in TaskType /\ Head(replies) \in ReplyType
      BY <1>4, Arrival DEF Opened
    <2>2. [Me EXCEPT !.at = "tables"] \in TaskType
      BY <2>1, NextTask DEF Methods
    <2>3. Awaits(Id, [Me EXCEPT !.at = "tables"]) /\ Apply(Head(replies).conn)
          /\ result' \in {result, Blank}
          /\ UNCHANGED <<sidebar, active, view, detail, lastSql, status>>
      BY <1>4 DEF Opened, Then
    <2>4. info' \in Conns /\ lastPath' \in Dbs \cup {NoDb}
      BY <1>1, <2>1, <2>3 DEF Apply, Screen, Conns, ReplyType
    <2> QED
      BY <1>1, <2>1, <2>2, <2>3, <2>4, Defaults DEF ArrivesOf, Resumed, Screen
  <1>5. CASE OpenFailed
    <2>1. /\ ArrivesOf({"open", "newdb", "memory", "convert"}, {"open", "memory", "convert"}, FALSE)
          /\ Me \in TaskType
      BY <1>5, Arrival DEF OpenFailed
    <2>2. [h |-> Me.h, db |-> Me.db] \in [h : Handlers \cup {"none"}, db : Dbs \cup {NoDb}]
      BY <2>1 DEF TaskType
    <2>3. Me.h \in Handlers
      BY <2>1 DEF TaskType
    <2> QED
      BY <1>1, <1>5, <2>1, <2>2, <2>3 DEF OpenFailed, ArrivesOf, Resumed, Screen
  <1>6. CASE LaunchFailed
    <2>1. ArrivesOf({"launch"}, {"open"}, FALSE)
      BY <1>6, Arrival DEF LaunchFailed
    <2>2. info' = NoConn /\ lastPath' = lastPath
      BY <1>6 DEF LaunchFailed, Apply, NoConn
    <2>3. Ends(Id) /\ UNCHANGED <<sidebar, pane, status>>
      BY <1>6 DEF LaunchFailed
    <2> QED
      BY <1>1, <2>1, <2>2, <2>3, Defaults DEF ArrivesOf, Resumed, Screen
  <1>7. CASE Converted
    <2>1. ArrivesOf({"convert"}, {"convert"}, TRUE) /\ Me \in TaskType
      BY <1>7, Arrival DEF Converted
    <2>2. [Me EXCEPT !.at = "open"] \in TaskType
      BY <2>1, NextTask DEF Methods
    <2> QED
      BY <1>1, <1>7, <2>1, <2>2 DEF Converted, Then, ArrivesOf, Resumed, Screen
  <1>8. CASE Built
    <2>1. ArrivesOf({"import"}, {"build"}, TRUE) /\ Me \in TaskType
      BY <1>8, Arrival DEF Built
    <2>2. [Me EXCEPT !.at = "query", !.text = "import"] \in TaskType
      BY <2>1, NextTask DEF Methods, Texts
    <2> QED
      BY <1>1, <1>8, <2>1, <2>2 DEF Built, ArrivesOf, Resumed, Screen
  <1>9. CASE Imported
    <2>1. ArrivesOf({"import"}, {"query"}, TRUE) /\ Me \in TaskType
      BY <1>9, Arrival DEF Imported
    <2>2. [Me EXCEPT !.at = "tables"] \in TaskType
      BY <2>1, NextTask DEF Methods
    <2> QED
      BY <1>1, <1>9, <2>1, <2>2 DEF Imported, Then, ArrivesOf, Resumed, Screen
  <1>10. CASE Exported
    <2>1. ArrivesOf({"export"}, {"query"}, TRUE) /\ Me \in TaskType
      BY <1>10, Arrival DEF Exported
    <2>2. [h |-> Me.h, db |-> Me.db] \in [h : Handlers \cup {"none"}, db : Dbs \cup {NoDb}]
      BY <2>1 DEF TaskType
    <2> QED
      BY <1>1, <1>10, <2>1, <2>2 DEF Exported, ArrivesOf, Resumed, Screen
  <1>11. CASE Failed
    <2>1. /\ ArrivesOf({"import", "export", "schema"}, {"build", "query", "detail"}, FALSE)
          /\ Me.h \in Handlers
      BY <1>11, Arrival DEF Failed, TaskType
    <2> QED
      BY <1>1, <1>11, <2>1 DEF Failed, ArrivesOf, Resumed, Screen
  <1>12. CASE TablesListed
    <2>1. /\ ArrivesOf(Refreshers, {"tables"}, TRUE)
          /\ Me \in TaskType /\ Head(replies) \in ReplyType
      BY <1>12, Arrival DEF TablesListed, Refreshers
    <2>2. [Me EXCEPT !.at = "columns"] \in TaskType
      BY <2>1, NextTask DEF Methods
    <2>3. [db |-> Head(replies).conn.db, ver |-> Head(replies).ver] \in Versions
      BY <2>1 DEF ReplyType, Conns, Versions
    <2> QED
      BY <1>1, <1>12, <2>1, <2>2, <2>3 DEF TablesListed, Then, ArrivesOf, Resumed, Screen
  <1>13. CASE ColumnsListed
    <2>1. /\ ArrivesOf(Refreshers, {"columns"}, TRUE)
          /\ Me \in TaskType /\ Head(replies) \in ReplyType
      BY <1>13, Arrival DEF ColumnsListed, Refreshers
    <2>2. [db |-> Head(replies).conn.db, ver |-> Head(replies).ver] \in Versions
      BY <2>1 DEF ReplyType, Conns, Versions
    <2>3. AfterRefresh(FALSE) /\ UNCHANGED <<head, tables>>
          /\ columns' = [db |-> Head(replies).conn.db, ver |-> Head(replies).ver]
      BY <1>13 DEF ColumnsListed
    <2> QED
      BY <1>1, <2>1, <2>2, <2>3, AfterRefreshTyped DEF ArrivesOf, Screen
  <1>14. CASE ListingFailed
    <2>1. ArrivesOf(Refreshers, {"tables", "columns"}, FALSE) /\ Me \in TaskType
      BY <1>14, Arrival DEF ListingFailed, Refreshers
    <2>2. AfterRefresh(TRUE) /\ tables' = Empty /\ columns' = Empty /\ UNCHANGED head
      BY <1>14 DEF ListingFailed
    <2> QED
      BY <1>1, <2>1, <2>2, AfterRefreshTyped, Defaults DEF ArrivesOf, Screen
  <1>15. CASE Ran
    <2>1. /\ ArrivesOf({"run", "preview"}, {"query"}, TRUE)
          /\ Me \in TaskType /\ Head(replies) \in ReplyType
      BY <1>15, Arrival DEF Ran
    <2> DEFINE shown == [db |-> Head(replies).conn.db, table |-> Me.table]
    <2>2. shown \in Places /\ Me.table \in Tables \cup {NoTable}
      BY <2>1 DEF ReplyType, Conns, TaskType, Places
    <2>3. Task("refresh", "tables", NoDb) \in TaskType
      BY TaskIs DEF Handlers, Methods
    <2>4. Ends(Id) \/ \E t \in TaskType : Awaits(Id, t)
      BY <1>15, <2>3 DEF Ran
    <2>5. /\ result' = shown /\ lastSql' = shown /\ active' = Me.table /\ view' = "data"
          /\ detail' = Blank /\ busy' = FALSE
          /\ notice' \in {notice, [h |-> "import", db |-> Me.db]}
          /\ UNCHANGED <<head, sidebar, error>>
      BY <1>15 DEF Ran
    <2>6. [h |-> "import", db |-> Me.db] \in [h : Handlers \cup {"none"}, db : Dbs \cup {NoDb}]
      BY <2>1 DEF TaskType, Handlers
    <2> QED
      BY <1>1, <2>1, <2>2, <2>4, <2>5, <2>6, Defaults DEF ArrivesOf, Resumed, Screen
  <1>16. CASE RunFailed
    <2>1. ArrivesOf({"run", "preview"}, {"query"}, FALSE) /\ Me \in TaskType
      BY <1>16, Arrival DEF RunFailed
    <2>2. [h |-> "import", db |-> Me.db] \in [h : Handlers \cup {"none"}, db : Dbs \cup {NoDb}]
      BY <2>1 DEF TaskType, Handlers
    <2>3. "run" \in Handlers
      BY DEF Handlers
    <2> QED
      BY <1>1, <1>16, <2>1, <2>2, <2>3, Defaults DEF RunFailed, ArrivesOf, Resumed, Screen
  <1>17. CASE Detailed
    <2>1. /\ ArrivesOf({"schema"}, {"detail"}, TRUE)
          /\ Me \in TaskType /\ Head(replies) \in ReplyType
      BY <1>17, Arrival DEF Detailed
    <2>2. [db |-> Head(replies).conn.db, table |-> Me.table] \in Places
      BY <2>1 DEF ReplyType, Conns, TaskType, Places
    <2> QED
      BY <1>1, <1>17, <2>1, <2>2 DEF Detailed, ArrivesOf, Resumed, Screen
  <1> QED
    BY <1>2, <1>3, <1>4, <1>5, <1>6, <1>7, <1>8, <1>9, <1>10, <1>11, <1>12, <1>13, <1>14,
       <1>15, <1>16, <1>17 DEF Resumes

\* A task that opens or writes a database names it, and SQL is of the kind its handler runs.
Right(t) ==
    /\ t.at \in {"open", "memory", "convert"} => t.db # NoDb
    /\ t.at = "query" => t.h \in {"run", "preview", "import", "export"}
    /\ t.at = "memory" => t.h = "memory"
    /\ t.h = "export" => t.text = "copy"
    /\ t.h = "run" => t.text \in {"select", "ddl", "other"}
    /\ t.h = "preview" => t.text = "select"
    /\ t.h = "import" /\ t.at = "query" => t.text = "import"

\* What a click does to tasks and screen.
Begins(t) ==
    /\ Starts(t)
    /\ busy' = busy \/ (busy' = TRUE /\ HoldsBusy(t))
    /\ error' \in {error, "none"} /\ notice' \in {notice, NoNotice}
    /\ t.at # "current" /\ t.h # "launch"
    /\ Right(t)

LEMMA BeginsTyped ==
    ASSUME Typed, NEW t \in TaskType, Begins(t)
    PROVE  Typed'
PROOF
  <1>1. Wired' /\ UNCHANGED <<shell, head, sidebar, pane, launches>>
    BY StartsWired DEF Begins, Starts, Typed
  <1>2. started' \in 0..MaxStarts
    BY Bounds DEF Begins, Starts, Typed, Screen
  <1> QED
    BY <1>1, <1>2, Defaults DEF Begins, Typed, Shell, Screen, shell, head, sidebar, pane

LEMMA ClicksBegin ==
    ASSUME Typed, Clicks
    PROVE  ClickData \/ ToggleMenu \/ \E t \in TaskType : Begins(t)
PROOF
  <1> USE DEF status, OnPage, InMenu
  <1>1. /\ NoDb \in Dbs \cup {NoDb} /\ Mem \in Dbs /\ NoTable \in Tables \cup {NoTable}
        /\ info.db \in Dbs \cup {NoDb} /\ lastSql.db \in Dbs \cup {NoDb}
        /\ active \in Tables \cup {NoTable}
    BY DEF Typed, Screen, Conns, Places, Dbs
  <1>2. CASE ClickOpen
    <2>1. Task("open", "pick", NoDb) \in TaskType
      BY TaskIs DEF Handlers, Methods
    <2> QED
      BY <1>2, <2>1 DEF ClickOpen, Begins, Task, Right
  <1>3. CASE ClickNewDb
    <2>1. Task("newdb", "pick", NoDb) \in TaskType
      BY TaskIs DEF Handlers, Methods
    <2> QED
      BY <1>3, <2>1 DEF ClickNewDb, Begins, Task, Right
  <1>4. CASE ClickRefresh
    <2>1. Task("refresh", "tables", NoDb) \in TaskType
      BY TaskIs DEF Handlers, Methods
    <2> QED
      BY <1>4, <2>1 DEF ClickRefresh, Begins, Task, Right
  <1>5. CASE ClickConvert
    <2> DEFINE t == [Task("convert", "pick", NoDb) EXCEPT !.src = info.db]
    <2>1. t \in TaskType /\ t.h # "launch" /\ t.at # "current" /\ Right(t)
      BY <1>1 DEF Task, TaskType, Right, Handlers, Methods, Texts
    <2> QED
      BY <1>5, <2>1 DEF ClickConvert, Begins
  <1>6. CASE ClickExport
    <2> DEFINE t == [Task("export", "pick", NoDb) EXCEPT !.text = "copy", !.src = lastSql.db]
    <2>1. t \in TaskType /\ t.h # "launch" /\ t.at # "current" /\ Right(t)
      BY <1>1 DEF Task, TaskType, Right, Handlers, Methods, Texts
    <2> QED
      BY <1>6, <2>1 DEF ClickExport, Begins
  <1>7. CASE ClickImport
    <2>1. Task("import", "pick", NoDb) \in TaskType
      BY TaskIs DEF Handlers, Methods
    <2> QED
      BY <1>7, <2>1 DEF ClickImport, Begins, Task, Right
  <1>8. CASE ClickMemory
    <2>1. Task("memory", "memory", Mem) \in TaskType
      BY <1>1, TaskIs DEF Handlers, Methods
    <2> QED
      BY <1>1, <1>8, <2>1, ConstantsAssumption DEF ClickMemory, Begins, Task, Right, HoldsBusy
  <1>9. CASE ClickSchema
    <2> DEFINE t == [Task("schema", "detail", NoDb) EXCEPT !.table = active]
    <2>1. t \in TaskType /\ t.h # "launch" /\ t.at # "current" /\ Right(t)
      BY <1>1 DEF Task, TaskType, Right, Handlers, Methods, Texts
    <2> QED
      BY <1>9, <2>1 DEF ClickSchema, Begins
  <1>10. ASSUME NEW text \in {"ddl", "other"}, RunSql(text)
         PROVE  \E t \in TaskType : Begins(t)
    <2> DEFINE t == [Task("run", "query", NoDb) EXCEPT !.text = text]
    <2>1. t \in TaskType /\ t.h # "launch" /\ t.at # "current" /\ Right(t)
      BY <1>1 DEF Task, TaskType, Right, Handlers, Methods, Texts
    <2>2. HoldsBusy(t)
      BY DEF Task, HoldsBusy
    <2> QED
      BY <1>10, <2>1, <2>2 DEF RunSql, Begins
  <1>11. ASSUME NEW table \in Tables, Preview(table)
         PROVE  \E t \in TaskType : Begins(t)
    <2> DEFINE t == [Task("run", "query", NoDb) EXCEPT !.text = "select", !.table = table]
    <2>1. t \in TaskType /\ t.h # "launch" /\ t.at # "current" /\ Right(t)
      BY <1>1 DEF Task, TaskType, Right, Handlers, Methods, Texts
    <2>2. HoldsBusy(t)
      BY DEF Task, HoldsBusy
    <2> QED
      BY <1>11, <2>1, <2>2 DEF Preview, Begins
  <1> QED
    BY <1>2, <1>3, <1>4, <1>5, <1>6, <1>7, <1>8, <1>9, <1>10, <1>11 DEF Clicks

LEMMA ClicksTyped == Typed /\ Clicks => Typed'
PROOF
  <1> SUFFICES ASSUME Typed, Clicks PROVE Typed'
    OBVIOUS
  <1>1. CASE ClickData \/ ToggleMenu
    <2>1. UNCHANGED <<calls, replies, dialog, tasks>>
      BY <1>1 DEF ClickData, ToggleMenu, wire
    <2>2. Wired'
      BY <2>1, OneLater DEF Typed, Wired
    <2> QED
      BY <1>1, <2>2 DEF ClickData, ToggleMenu, Typed, Shell, Screen, shell, head, sidebar,
                        pane, status, count
  <1>2. CASE \E t \in TaskType : Begins(t)
    BY <1>2, BeginsTyped
  <1> QED
    BY <1>1, <1>2, ClicksBegin

-----------------------------------------------------------------------------
(* Launches, and the invariant *)

LEMMA FirstPageTyped ==
    ASSUME Typed, NEW k \in Conns, FirstPage(k), UNCHANGED <<ver, lastPath>>,
           launches' \in 0..MaxLaunches
    PROVE  Typed'
PROOF
  <1> DEFINE c == [task |-> 1, method |-> "current", db |-> NoDb, text |-> "none",
                   src |-> NoDb]
  <1>1. /\ calls' = <<c>> /\ replies' = << >> /\ dialog' = 0 /\ DOMAIN tasks' = {1}
        /\ tasks'[1] = Task("launch", "current", NoDb)
    BY DEF FirstPage
  <1>2. c \in CallType /\ c.task = 1 /\ tasks'[1] \in TaskType
    BY <1>1, TaskIs DEF CallType, Methods, Texts, Handlers
  <1> HIDE DEF c
  <1>3. calls' \in Seq(CallType) /\ replies' \in Seq(ReplyType)
    BY <1>1, <1>2
  <1>4. One(<<c>>, << >>, 0, {1})
    BY <1>2 DEF One, Apart, Ids
  <1>5. Wired'
    BY <1>1, <1>2, <1>3, <1>4, OneLater, Bounds DEF Wired
  <1>6. Screen'
    <2>1. started' \in 0..MaxStarts
      BY Bounds DEF FirstPage
    <2>2. /\ info' = NoConn /\ tables' = Empty /\ columns' = Empty
          /\ result' = Blank /\ active' = NoTable /\ view' = "data" /\ detail' = Blank
          /\ lastSql' = Blank /\ busy' = FALSE /\ error' = "none" /\ notice' = NoNotice
      BY DEF FirstPage
    <2> QED
      BY <2>1, <2>2, Defaults DEF Typed, Screen
  <1> QED
    BY <1>5, <1>6 DEF FirstPage, Typed, Shell

LEMMA LaunchTyped == Typed /\ Launch => Typed'
PROOF
  <1> SUFFICES ASSUME Typed, Launch PROVE Typed'
    OBVIOUS
  <1>1. launches' \in 0..MaxLaunches
    BY Bounds DEF Launch, Typed, Screen
  <1>2. \E k \in Conns : FirstPage(k)
    <2>1. \A f \in Files, mode \in Modes : [db |-> f, mode |-> mode] \in Conns
      BY DEF Conns, Dbs
    <2> QED
      BY <2>1, Defaults DEF Launch
  <1> QED
    BY <1>1, <1>2, FirstPageTyped DEF Launch

LEMMA InitTyped == Init => Typed
PROOF
  <1> SUFFICES ASSUME Init PROVE Typed
    OBVIOUS
  <1>1. One(<< >>, << >>, 0, {})
    BY DEF One, Apart, Ids
  <1>2. Wired
    BY <1>1 DEF Init, Wired
  <1>3. Shell
    <2>1. 1 \in 1..MaxVer
      BY Bounds
    <2> QED
      BY <2>1, Defaults DEF Init, Shell
  <1>4. started \in 0..MaxStarts /\ launches \in 0..MaxLaunches
    BY Bounds DEF Init
  <1>5. Screen
    BY <1>4, Defaults DEF Init, Screen, Dbs
  <1> QED
    BY <1>2, <1>3, <1>5 DEF Typed

LEMMA NextTyped == Typed /\ [Next]_vars => Typed'
PROOF
  <1> SUFFICES ASSUME Typed, [Next]_vars PROVE Typed'
    OBVIOUS
  <1>1. CASE ClosesDialog
    BY <1>1, CloseDialogTyped DEF ClosesDialog
  <1>2. CASE UNCHANGED vars
    <2>1. UNCHANGED <<calls, replies, dialog, tasks>>
      BY <1>2 DEF vars, wire
    <2>2. Wired'
      BY <2>1, OneLater DEF Typed, Wired
    <2> QED
      BY <1>2, <2>2, ScreenKept DEF vars, Typed, Shell, shell
  <1> QED
    BY <1>1, <1>2, LaunchTyped, ExecutesTyped, ResumesTyped, ClicksTyped DEF Next

LEMMA AlwaysTyped == Spec => []Typed
PROOF BY InitTyped, NextTyped, PTL DEF Spec

LEMMA NextMarks == Marks /\ [Next]_vars => Marks'
PROOF
  <1> SUFFICES ASSUME Marks, [Next]_vars PROVE Marks'
    OBVIOUS
  <1>1. CASE UNCHANGED <<menu, late>>
    BY <1>1 DEF Marks, late
  <1>2. CASE Launch
    BY <1>2 DEF Launch, FirstPage, Marks
  <1>3. CASE Executes
    BY <1>1, <1>3 DEF Executes, Current, Opens, Lists, Queries, Converts, Builds, ShowDialog,
       Untouched
  <1>4. CASE Resumes
    <2>1. menu' = menu
      BY <1>4 DEF Resumes, Arrives, Picked, Launched, Opened, OpenFailed, LaunchFailed,
         Converted, Built, Imported, Exported, Failed, TablesListed, ColumnsListed,
         ListingFailed, Ran, RunFailed, Detailed
    <2>2. hidden' \in BOOLEAN /\ orphan' \in BOOLEAN
      BY <1>4 DEF Resumes, Remembers, Marks
    <2> QED
      BY <2>1, <2>2 DEF Marks
  <1>5. CASE ClosesDialog
    BY <1>1, <1>5 DEF ClosesDialog, CloseDialog, Untouched
  <1>6. CASE Clicks
    <2>1. late' = late /\ menu' \in BOOLEAN
      BY <1>6 DEF Clicks, ClickOpen, ClickNewDb, ClickRefresh, ClickConvert, ClickExport,
         ClickImport, ClickMemory, ClickSchema, ClickData, ToggleMenu, RunSql, Preview,
         OnPage, InMenu, Starts, Marks
    <2> QED
      BY <2>1 DEF Marks, late
  <1> QED
    BY <1>1, <1>2, <1>3, <1>4, <1>5, <1>6 DEF Next, vars

LEMMA AlwaysMarks == Spec => []Marks
PROOF
  <1>1. Init => Marks
    BY DEF Init, Marks
  <1> QED
    BY <1>1, NextMarks, PTL DEF Spec

\* Values have their types, a call or reply is for a handler in flight, and so is a
\* dialog (App.tsx, main.c on_invoke).
THEOREM TypeCorrect == Spec => []TypeOK
PROOF
  <1>1. Typed /\ Marks => TypeOK
    <2> SUFFICES ASSUME Typed, Marks PROVE TypeOK
      OBVIOUS
    <2> DEFINE Calls == [task : DOMAIN tasks, method : Methods, db : Dbs \cup {NoDb},
                         text : Texts, src : Dbs \cup {NoDb}]
               Replies == [task : DOMAIN tasks, ok : BOOLEAN, conn : Conns, ver : 0..MaxVer]
    <2>1. \A i \in DOMAIN calls : calls[i] \in CallType /\ calls[i].task \in DOMAIN tasks
      BY DEF Typed, Wired, One, Ids
    <2>2. \A i \in DOMAIN replies : replies[i] \in ReplyType /\ replies[i].task \in DOMAIN tasks
      BY DEF Typed, Wired, One, Ids
    <2>3. \A i \in DOMAIN calls : calls[i] \in Calls
      BY <2>1 DEF CallType
    <2>4. \A i \in DOMAIN replies : replies[i] \in Replies
      BY <2>2 DEF ReplyType
    <2> HIDE DEF Calls, Replies
    <2>5. calls \in Seq(Calls)
      BY <2>3 DEF Typed, Wired
    <2>6. replies \in Seq(Replies)
      BY <2>4 DEF Typed, Wired
    <2>7. \A k \in DOMAIN tasks : tasks[k] \in TaskType
      BY DEF Typed, Wired
    <2>8. DOMAIN tasks \subseteq 1..MaxTasks /\ (dialog # 0 => dialog \in DOMAIN tasks)
      BY DEF Typed, Wired, One
    <2> USE DEF Calls, Replies
    <2> QED
      BY <2>5, <2>6, <2>7, <2>8 DEF Typed, Shell, Screen, Marks, TypeOK, TaskType
  <1> QED
    BY <1>1, AlwaysTyped, AlwaysMarks, PTL

For(s, k) == {i \in DOMAIN s : s[i].task = k}

\* No handler is lost and none is resumed twice: each awaits one call, one reply or its
\* dialog, whatever fails and in whatever order dialogs and calls are answered.
THEOREM EachTaskAwaitsOne == Spec => []EachAwaitsOne
PROOF
  <1>1. Typed => EachAwaitsOne
    <2> SUFFICES ASSUME Typed, NEW k \in DOMAIN tasks
                 PROVE  Cardinality(For(calls, k)) + Cardinality(For(replies, k))
                          + (IF dialog = k THEN 1 ELSE 0) = 1
      BY DEF EachAwaitsOne, For
    <2> DEFINE cs == For(calls, k)
               rs == For(replies, k)
    <2>1. Cardinality({}) = 0 /\ \A x : Cardinality({x}) = 1
      BY FS_EmptySet, FS_Singleton
    <2>2. One(calls, replies, dialog, DOMAIN tasks)
      BY DEF Typed, Wired
    <2>3. CASE k \in Ids(calls)
      <3>1. PICK i \in DOMAIN calls : calls[i].task = k
        BY <2>3 DEF Ids
      <3>2. cs = {i}
        BY <2>2, <3>1 DEF One, Apart, For
      <3>3. rs = {} /\ dialog # k
        BY <2>2, <2>3 DEF One, Ids, For
      <3>4. Cardinality(cs) = 1 /\ Cardinality(rs) = 0 /\ dialog # k
        BY <2>1, <3>2, <3>3
      <3> QED
        BY <3>4
    <2>4. CASE k \in Ids(replies)
      <3>1. PICK i \in DOMAIN replies : replies[i].task = k
        BY <2>4 DEF Ids
      <3>2. rs = {i}
        BY <2>2, <3>1 DEF One, Apart, For
      <3>3. cs = {} /\ dialog # k
        BY <2>2, <2>4 DEF One, Ids, For
      <3>4. Cardinality(cs) = 0 /\ Cardinality(rs) = 1 /\ dialog # k
        BY <2>1, <3>2, <3>3
      <3> QED
        BY <3>4
    <2>5. CASE k = dialog
      <3>1. cs = {} /\ rs = {}
        BY <2>2, <2>5 DEF One, Ids, For
      <3>2. Cardinality(cs) = 0 /\ Cardinality(rs) = 0
        BY <2>1, <3>1
      <3> QED
        BY <2>5, <3>2
    <2> QED
      BY <2>2, <2>3, <2>4, <2>5 DEF One
  <1> QED
    BY <1>1, AlwaysTyped, PTL

-----------------------------------------------------------------------------
(* Busy *)

\* A handler that goes on keeps the duty to clear busy, one that returns has cleared it.
BusyKept ==
    \/ busy' = FALSE
    \/ Ends(Id) /\ busy' = busy /\ ~HoldsBusy(Me)
    \/ \E t \in TaskType : /\ Awaits(Id, t) /\ (HoldsBusy(Me) => HoldsBusy(t))
                           /\ busy' = busy \/ HoldsBusy(t)

LEMMA BusyKeptHeld ==
    ASSUME Typed, BusyHeld, Id \in DOMAIN tasks, BusyKept
    PROVE  BusyHeld'
PROOF
  <1> SUFFICES ASSUME busy' PROVE \E k \in DOMAIN tasks' : HoldsBusy(tasks'[k])
    BY DEF BusyHeld, HoldsBusy
  <1>1. CASE Ends(Id) /\ busy' = busy /\ ~HoldsBusy(Me)
    <2>1. PICK k \in DOMAIN tasks : HoldsBusy(tasks[k])
      BY <1>1 DEF BusyHeld
    <2>2. k # Id
      BY <1>1, <2>1 DEF Me
    <2>3. k \in DOMAIN tasks' /\ tasks'[k] = tasks[k]
      BY <1>1, <2>1, <2>2 DEF Ends
    <2> QED
      BY <2>1, <2>3
  <1>2. ASSUME NEW t \in TaskType, Awaits(Id, t), HoldsBusy(Me) => HoldsBusy(t),
               busy' = busy \/ HoldsBusy(t)
        PROVE  \E k \in DOMAIN tasks' : HoldsBusy(tasks'[k])
    <2>1. /\ Id \in DOMAIN tasks' /\ tasks'[Id] = t
          /\ \A k \in DOMAIN tasks : k # Id => k \in DOMAIN tasks' /\ tasks'[k] = tasks[k]
      BY <1>2 DEF Awaits
    <2>2. CASE HoldsBusy(t)
      BY <2>1, <2>2
    <2>3. CASE ~HoldsBusy(t)
      <3>1. PICK k \in DOMAIN tasks : HoldsBusy(tasks[k])
        BY <1>2, <2>3 DEF BusyHeld
      <3>2. k # Id
        BY <1>2, <2>3, <3>1 DEF Me
      <3> QED
        BY <2>1, <3>1, <3>2
    <2> QED
      BY <2>2, <2>3
  <1> QED
    BY <1>1, <1>2 DEF BusyKept

LEMMA ResumesKeepBusy == Typed /\ Resumes => Id \in DOMAIN tasks /\ BusyKept
PROOF
  <1> SUFFICES ASSUME Typed, Resumes PROVE Id \in DOMAIN tasks /\ BusyKept
    OBVIOUS
  <1>1. replies # << >> /\ Id \in DOMAIN tasks /\ Me \in TaskType
    <2>1. Resumed
      BY ResumesTyped
    <2> QED
      BY <2>1, HeadInFlight DEF Resumed, Typed
  <1> USE DEF status
  <1>2. \A at \in Methods : /\ [Me EXCEPT !.at = at] \in TaskType
                            /\ at # "pick" /\ HoldsBusy(Me) => HoldsBusy([Me EXCEPT !.at = at])
    BY <1>1 DEF TaskType, HoldsBusy
  <1>3. {"tables", "columns", "open", "query"} \subseteq Methods
    BY DEF Methods
  <1>4. CASE Picked
    <2>1. Me.h \in {"open", "newdb", "import", "export", "convert"} /\ Me.at = "pick"
          /\ Head(replies) \in ReplyType
      BY <1>4, Arrival DEF Picked, ArrivesOf
    <2> DEFINE db == Head(replies).conn.db
               next == [open |-> "open", newdb |-> "open", import |-> "build",
                        export |-> "query", convert |-> "convert"][Me.h]
               t == [Me EXCEPT !.at = next, !.db = db]
    <2>2. ~HoldsBusy(Me)
      BY <2>1 DEF HoldsBusy
    <2>3. next \in Methods /\ db \in Dbs \cup {NoDb} /\ next # "pick"
      BY <2>1 DEF Methods, ReplyType, Conns
    <2>4. t \in TaskType /\ t.h = Me.h /\ t.at # "pick"
      BY <1>1, <2>3 DEF TaskType
    <2>5. CASE db = NoDb
      <3>1. Ends(Id) /\ busy' \in {busy, FALSE}
        BY <1>4, <2>5 DEF Picked, Typed, Screen
      <3> QED
        BY <1>1, <2>2, <3>1 DEF BusyKept
    <2>6. CASE db # NoDb
      <3>1. Awaits(Id, t) /\ busy' = (busy \/ Me.h \in {"open", "newdb", "convert"})
        BY <1>4, <2>6 DEF Picked
      <3>2. Me.h \in {"open", "newdb", "convert"} => HoldsBusy(t)
        BY <2>4 DEF HoldsBusy
      <3>3. busy' = busy \/ HoldsBusy(t)
        BY <3>1, <3>2 DEF Typed, Screen
      <3> HIDE DEF t
      <3> QED
        BY <1>1, <2>2, <2>4, <3>1, <3>3 DEF BusyKept
    <2> QED
      BY <1>1, <2>5, <2>6
  <1>5. CASE Launched
    <2>1. ~HoldsBusy(Me)
      <3>1. ArrivesOf({"launch"}, {"current"}, TRUE)
        BY <1>5, Arrival DEF Launched
      <3> QED
        BY <3>1 DEF ArrivesOf, HoldsBusy
    <2>2. Resumed /\ busy' = busy
      BY <1>5, ResumesTyped DEF Launched
    <2> QED
      BY <1>1, <2>1, <2>2 DEF Resumed, BusyKept
  <1>6. CASE Opened
    BY <1>1, <1>2, <1>3, <1>6 DEF Opened, Then, BusyKept
  <1>7. CASE OpenFailed
    BY <1>1, <1>7 DEF OpenFailed, BusyKept
  <1>8. CASE LaunchFailed
    <2>1. ~HoldsBusy(Me)
      <3>1. ArrivesOf({"launch"}, {"open"}, FALSE)
        BY <1>8, Arrival DEF LaunchFailed
      <3> QED
        BY <3>1 DEF ArrivesOf, HoldsBusy
    <2> QED
      BY <1>1, <1>8, <2>1 DEF LaunchFailed, BusyKept
  <1>9. CASE Converted
    BY <1>1, <1>2, <1>3, <1>9 DEF Converted, Then, BusyKept
  <1>10. CASE Built
    <2>1. ~HoldsBusy(Me)
      <3>1. ArrivesOf({"import"}, {"build"}, TRUE)
        BY <1>10, Arrival DEF Built
      <3> QED
        BY <3>1 DEF ArrivesOf, HoldsBusy
    <2>2. Resumed /\ busy' = busy
      BY <1>10, ResumesTyped DEF Built
    <2> QED
      BY <1>1, <2>1, <2>2 DEF Resumed, BusyKept
  <1>11. CASE Imported
    BY <1>1, <1>2, <1>3, <1>11 DEF Imported, Then, BusyKept
  <1>12. CASE Exported
    <2>1. ~HoldsBusy(Me)
      <3>1. ArrivesOf({"export"}, {"query"}, TRUE)
        BY <1>12, Arrival DEF Exported
      <3> QED
        BY <3>1 DEF ArrivesOf, HoldsBusy
    <2> QED
      BY <1>1, <1>12, <2>1 DEF Exported, BusyKept
  <1>13. CASE Failed
    <2>1. ~HoldsBusy(Me)
      <3>1. ArrivesOf({"import", "export", "schema"}, {"build", "query", "detail"}, FALSE)
        BY <1>13, Arrival DEF Failed
      <3> QED
        BY <3>1 DEF ArrivesOf, HoldsBusy
    <2> QED
      BY <1>1, <1>13, <2>1 DEF Failed, BusyKept
  <1>14. CASE TablesListed
    BY <1>1, <1>2, <1>3, <1>14 DEF TablesListed, Then, BusyKept
  <1>15. ASSUME NEW failed, AfterRefresh(failed), Me.h \in Refreshers PROVE BusyKept
    <2>1. CASE Me.h \in {"launch", "refresh"}
      BY <1>15, <2>1 DEF AfterRefresh, BusyKept, HoldsBusy
    <2>2. CASE Me.h \in {"open", "memory"}
      BY <1>15, <2>2 DEF AfterRefresh, BusyKept
    <2>3. CASE Me.h = "newdb"
      BY <1>15, <2>3 DEF AfterRefresh, BusyKept
    <2>4. CASE Me.h = "convert"
      BY <1>15, <2>4 DEF AfterRefresh, BusyKept
    <2>5. CASE Me.h = "import"
      <3> DEFINE t == [Me EXCEPT !.h = "preview", !.at = "query", !.text = "select"]
      <3>1. t \in TaskType
        BY <1>1, NextTask, ZenonT(60) DEF Handlers, Methods, Texts
      <3>2. HoldsBusy(t)
        BY <1>1 DEF TaskType, HoldsBusy
      <3>3. Awaits(Id, t)
        BY <1>15, <2>5 DEF AfterRefresh
      <3> QED
        BY <3>1, <3>2, <3>3 DEF BusyKept
    <2> QED
      BY <1>15, <2>1, <2>2, <2>3, <2>4, <2>5 DEF Refreshers
  <1>16. CASE ColumnsListed
    BY <1>1, <1>15, <1>16, Arrival DEF ColumnsListed, ArrivesOf, Refreshers
  <1>17. CASE ListingFailed
    BY <1>1, <1>15, <1>17, Arrival DEF ListingFailed, ArrivesOf, Refreshers
  <1>18. CASE Ran
    BY <1>1, <1>18 DEF Ran, BusyKept
  <1>19. CASE RunFailed
    BY <1>1, <1>19 DEF RunFailed, BusyKept
  <1>20. CASE Detailed
    <2>1. ~HoldsBusy(Me)
      <3>1. ArrivesOf({"schema"}, {"detail"}, TRUE)
        BY <1>20, Arrival DEF Detailed
      <3> QED
        BY <3>1 DEF ArrivesOf, HoldsBusy
    <2> QED
      BY <1>1, <1>20, <2>1 DEF Detailed, BusyKept
  <1> QED
    BY <1>4, <1>5, <1>6, <1>7, <1>8, <1>9, <1>10, <1>11, <1>12, <1>13, <1>14, <1>16,
       <1>17, <1>18, <1>19, <1>20 DEF Resumes

LEMMA NextBusyHeld == Typed /\ BusyHeld /\ [Next]_vars => BusyHeld'
PROOF
  <1> SUFFICES ASSUME Typed, BusyHeld, [Next]_vars PROVE BusyHeld'
    OBVIOUS
  <1>1. ASSUME UNCHANGED <<busy, tasks>> PROVE BusyHeld'
    BY <1>1 DEF BusyHeld, HoldsBusy
  <1>2. CASE Launch
    BY <1>2 DEF Launch, FirstPage, BusyHeld
  <1>3. CASE Executes
    BY <1>1, <1>3 DEF Executes, Current, Opens, Lists, Queries, Converts, Builds, ShowDialog,
       Untouched, status
  <1>4. CASE Resumes
    BY <1>4, ResumesKeepBusy, BusyKeptHeld
  <1>5. CASE ClosesDialog
    BY <1>1, <1>5 DEF ClosesDialog, CloseDialog, Untouched, status
  <1>6. CASE ClickData \/ ToggleMenu
    BY <1>1, <1>6 DEF ClickData, ToggleMenu, status
  <1>7. ASSUME NEW t \in TaskType, Begins(t) PROVE BusyHeld'
    <2>1. /\ \A k \in DOMAIN tasks : k \in DOMAIN tasks' /\ tasks'[k] = tasks[k]
          /\ \E k \in DOMAIN tasks' : tasks'[k] = t
      BY <1>7, StartsWired DEF Begins, Typed
    <2>2. busy' => \E k \in DOMAIN tasks' : HoldsBusy(tasks'[k])
      BY <1>7, <2>1 DEF Begins, BusyHeld
    <2> QED
      BY <2>2 DEF BusyHeld, HoldsBusy
  <1>8. CASE UNCHANGED vars
    BY <1>1, <1>8 DEF vars, status
  <1> QED
    BY <1>2, <1>3, <1>4, <1>5, <1>6, <1>7, <1>8, ClicksBegin DEF Next

\* Buttons are never left disabled: whichever handlers overlap and fail, busy is set only
\* while one is in flight that clears it (withBusy's and runQuery's finally).
THEOREM BusyIsHeld == Spec => []BusyHeld
PROOF
  <1>1. Init => BusyHeld
    BY DEF Init, BusyHeld
  <1> QED
    BY <1>1, AlwaysTyped, NextBusyHeld, PTL DEF Spec

-----------------------------------------------------------------------------
(* The path *)

\* A call is the one its task awaits.
CallsMatch ==
    \A i \in DOMAIN calls : /\ calls[i].method = tasks[calls[i].task].at
                            /\ calls[i].db = tasks[calls[i].task].db
                            /\ calls[i].text = tasks[calls[i].task].text
TasksRight == \A k \in DOMAIN tasks : Right(tasks[k])
DialogPicks == dialog # 0 => tasks[dialog].at = "pick"
ConnWhole == conn.db = NoDb => conn = NoConn

\* What is open is the launch's first call; nothing is resumed before its answer.
CurrentFirst ==
    \A k \in DOMAIN tasks : tasks[k].at = "current" =>
        /\ tasks[k].h = "launch" /\ info = NoConn
        /\ k \in Ids(calls) => calls[1].task = k /\ replies = << >> /\ dialog = 0
        /\ k \in Ids(replies) => replies[1].task = k

\* The last reply that moves the path moves it to the connection; if none is left to
\* come it is there, or was until the launch hid it.
Moves(ts, r) == r.ok /\ ts[r.task].at \in {"current", "open", "memory"}
Settled ==
    /\ \A i \in DOMAIN replies : ~Moves(tasks, replies[i])
    /\ \/ info = conn
       \/ hidden /\ info = NoConn
       \/ \E k \in Ids(calls) : tasks[k].at = "current"
Pending ==
    \E i \in DOMAIN replies :
        /\ Moves(tasks, replies[i]) /\ replies[i].conn = conn
        /\ \A j \in DOMAIN replies : j > i => ~Moves(tasks, replies[j])

Guards == CallsMatch /\ TasksRight /\ DialogPicks /\ ConnWhole /\ CurrentFirst
PathInv == Guards /\ (Settled \/ Pending)

\* Both queues hold messages for tasks in flight.
LEMMA Messages ==
    ASSUME Typed
    PROVE  /\ \A i \in DOMAIN calls : /\ calls[i].task \in DOMAIN tasks
                                      /\ calls[i].task \in Ids(calls) /\ calls[i] \in CallType
           /\ \A i \in DOMAIN replies : /\ replies[i].task \in DOMAIN tasks
                                        /\ replies[i].task \in Ids(replies)
                                        /\ replies[i] \in ReplyType
           /\ Ids(calls) \cap Ids(replies) = {}
           /\ Ids(calls) \cup Ids(replies) \subseteq DOMAIN tasks
           /\ dialog \notin Ids(calls) \cup Ids(replies)
           /\ \A k \in DOMAIN tasks : k \in Ids(calls) \cup Ids(replies) \/ k = dialog
PROOF
  <1>1. One(calls, replies, dialog, DOMAIN tasks)
    BY DEF Typed, Wired
  <1>2. /\ Ids(calls) \cap Ids(replies) = {} /\ Ids(calls) \cup Ids(replies) \subseteq DOMAIN tasks
        /\ dialog \notin Ids(calls) \cup Ids(replies)
        /\ \A k \in DOMAIN tasks : k \in Ids(calls) \cup Ids(replies) \/ k = dialog
    BY <1>1 DEF One
  <1>3. ASSUME NEW i \in DOMAIN calls PROVE calls[i].task \in Ids(calls) /\ calls[i] \in CallType
    <2>1. calls[i].task \in Ids(calls)
      BY DEF Ids
    <2>2. calls \in Seq(CallType)
      BY DEF Typed, Wired
    <2> QED
      BY <2>1, <2>2
  <1>4. ASSUME NEW i \in DOMAIN replies
        PROVE  replies[i].task \in Ids(replies) /\ replies[i] \in ReplyType
    <2>1. replies[i].task \in Ids(replies)
      BY DEF Ids
    <2>2. replies \in Seq(ReplyType)
      BY DEF Typed, Wired
    <2> QED
      BY <2>1, <2>2
  <1> QED
    BY <1>2, <1>3, <1>4

\* A call leaves the queue: what held of the others holds.
LEMMA CallTaken ==
    ASSUME Typed, PathInv, calls # << >>, calls' = Tail(calls), tasks' = tasks
    PROVE  /\ CallsMatch' /\ TasksRight'
           /\ \A k \in DOMAIN tasks : tasks[k].at = "current" => k \notin Ids(calls)'
PROOF
  <1>1. /\ Len(calls) \in Nat \ {0} /\ DOMAIN calls = 1..Len(calls)
        /\ DOMAIN calls' = 1..(Len(calls) - 1)
        /\ \A i \in 1..(Len(calls) - 1) : calls'[i] = calls[i + 1]
    BY TailFacts DEF Typed, Wired
  <1>2. Ids(calls)' = Ids(calls') /\ Ids(calls') = Ids(calls) \ {calls[1].task}
    <2>1. Ids(calls') = Ids(calls) \ {Head(calls).task}
      BY Dropped DEF Typed, Wired, One
    <2>2. Head(calls) = calls[1]
      BY TailFacts DEF Typed, Wired
    <2>3. Ids(calls)' = Ids(calls')
      BY DEF Ids
    <2> QED
      BY <2>1, <2>2, <2>3
  <1>3. CallsMatch'
    <2> SUFFICES ASSUME NEW i \in DOMAIN calls'
                 PROVE  /\ calls'[i].method = tasks'[calls'[i].task].at
                        /\ calls'[i].db = tasks'[calls'[i].task].db
                        /\ calls'[i].text = tasks'[calls'[i].task].text
      BY DEF CallsMatch
    <2>1. i + 1 \in DOMAIN calls /\ calls'[i] = calls[i + 1]
      BY <1>1
    <2> QED
      BY <2>1 DEF PathInv, Guards, CallsMatch
  <1>4. TasksRight'
    BY DEF PathInv, Guards, TasksRight
  <1>5. ASSUME NEW k \in DOMAIN tasks, tasks[k].at = "current" PROVE k \notin Ids(calls)'
    BY <1>2, <1>5 DEF PathInv, Guards, CurrentFirst
  <1> QED
    BY <1>3, <1>4, <1>5

\* The launch's question stays first.
LEMMA CurrentAnswered ==
    ASSUME Typed, PathInv, calls # << >>, NEW r \in ReplyType, r.task = Head(calls).task,
           calls' = Tail(calls), replies' = Append(replies, r),
           UNCHANGED <<tasks, dialog, info>>
    PROVE  CurrentFirst'
PROOF
  <1> SUFFICES ASSUME NEW k \in DOMAIN tasks, tasks[k].at = "current"
               PROVE  /\ tasks[k].h = "launch" /\ info' = NoConn
                      /\ k \notin Ids(calls)'
                      /\ k \in Ids(replies)' => replies'[1].task = k
    BY DEF CurrentFirst
  <1> DEFINE n == Len(replies)
  <1>1. /\ n \in Nat /\ DOMAIN replies = 1..n /\ DOMAIN replies' = 1..(n + 1)
        /\ \A i \in 1..n : replies'[i] = replies[i]
        /\ replies'[n + 1] = r
    BY AppendFacts DEF Typed, Wired
  <1>2. replies = << >> => n = 0
    OBVIOUS
  <1> HIDE DEF n
  <1>3. k \notin Ids(calls)'
    BY CallTaken
  <1>4. /\ tasks[k].h = "launch" /\ info = NoConn
        /\ k \in Ids(calls) => calls[1].task = k /\ replies = << >>
        /\ k \in Ids(replies) => replies[1].task = k
    BY DEF PathInv, Guards, CurrentFirst
  <1>5. k \in Ids(calls) => replies'[1].task = k
    <2>1. Head(calls) = calls[1]
      BY TailFacts DEF Typed, Wired
    <2> QED
      BY <1>1, <1>2, <1>4, <2>1
  <1>6. k \in Ids(replies) => replies'[1].task = k
    <2>1. k \in Ids(replies) => 1 \in 1..n
      BY <1>1 DEF Ids
    <2> QED
      BY <1>1, <1>4, <2>1
  <1>7. k \in Ids(calls) \/ k \in Ids(replies) \/ k = dialog
    BY Messages
  <1>8. k # dialog \/ dialog = 0
    BY DEF PathInv, Guards, DialogPicks
  <1>9. k # 0
    BY Bounds DEF Typed, Wired
  <1> QED
    BY <1>3, <1>4, <1>5, <1>6, <1>7, <1>8, <1>9

\* The shell replies: the connection is as it was, or moves with the reply.
LEMMA AnswerPath ==
    ASSUME Typed, PathInv, calls # << >>, NEW r \in ReplyType, r.task = Head(calls).task,
           calls' = Tail(calls), replies' = Append(replies, r),
           UNCHANGED <<tasks, dialog, info, hidden>>,
           ConnWhole', tasks[r.task].at = "current" => r.ok,
           IF Moves(tasks, r) THEN r.conn = conn' ELSE conn' = conn
    PROVE  PathInv'
PROOF
  <1> DEFINE n == Len(replies)
  <1>1. Guards'
    BY CallTaken, CurrentAnswered DEF PathInv, Guards, DialogPicks
  <1>2. /\ n \in Nat /\ DOMAIN replies = 1..n /\ DOMAIN replies' = 1..(n + 1)
        /\ \A i \in 1..n : replies'[i] = replies[i]
        /\ replies'[n + 1] = r
    BY AppendFacts DEF Typed, Wired
  <1> HIDE DEF n
  <1>3. CASE Moves(tasks, r)
    <2>1. n + 1 \in DOMAIN replies' /\ \A j \in DOMAIN replies' : ~(j > n + 1)
      BY <1>2
    <2>2. Moves(tasks', replies'[n + 1]) /\ replies'[n + 1].conn = conn'
      BY <1>2, <1>3
    <2> QED
      BY <1>1, <2>1, <2>2 DEF PathInv, Pending, Moves
  <1>4. CASE ~Moves(tasks, r) /\ Settled
    <2>1. \A i \in DOMAIN replies' : ~Moves(tasks, replies'[i])
      <3>1. \A i \in DOMAIN replies' : i \in 1..n \/ i = n + 1
        BY <1>2
      <3> QED
        BY <1>2, <1>4, <3>1 DEF Settled
    <2>2. info' = conn' \/ (hidden' /\ info' = NoConn)
      <3> SUFFICES ASSUME NEW k \in Ids(calls), tasks[k].at = "current" PROVE FALSE
        BY <1>4 DEF Settled
      <3>1. k \in DOMAIN tasks
        BY Messages
      <3>2. calls[1].task = k
        BY <3>1 DEF PathInv, Guards, CurrentFirst
      <3>3. Head(calls) = calls[1]
        BY TailFacts DEF Typed, Wired
      <3> QED
        BY <1>4, <3>2, <3>3 DEF Moves
    <2> QED
      BY <1>1, <2>1, <2>2 DEF PathInv, Settled, Moves
  <1>5. CASE ~Moves(tasks, r) /\ Pending
    <2>1. PICK i \in DOMAIN replies :
              /\ Moves(tasks, replies[i]) /\ replies[i].conn = conn
              /\ \A j \in DOMAIN replies : j > i => ~Moves(tasks, replies[j])
      BY <1>5 DEF Pending
    <2>2. i \in DOMAIN replies' /\ replies'[i] = replies[i] /\ conn' = conn
      BY <1>2, <1>5
    <2>3. \A j \in DOMAIN replies' : j > i => ~Moves(tasks, replies'[j])
      <3>1. \A j \in DOMAIN replies' : j \in 1..n \/ j = n + 1
        BY <1>2
      <3> QED
        BY <1>2, <1>5, <2>1, <3>1
    <2> QED
      BY <1>1, <2>1, <2>2, <2>3 DEF PathInv, Pending, Moves
  <1> QED
    BY <1>3, <1>4, <1>5 DEF PathInv

\* The call at the head is the one its task awaits.
LEMMA HeadMatches ==
    ASSUME Typed, PathInv, calls # << >>
    PROVE  /\ Head(calls) = calls[1] /\ Head(calls) \in CallType
           /\ Head(calls).task \in Ids(calls) /\ Head(calls).task \in DOMAIN tasks
           /\ Head(calls).method = tasks[Head(calls).task].at
           /\ Head(calls).db = tasks[Head(calls).task].db
           /\ Head(calls).text = tasks[Head(calls).task].text
PROOF
  <1>1. Head(calls) = calls[1] /\ 1 \in DOMAIN calls
    BY TailFacts DEF Typed, Wired
  <1> QED
    BY <1>1, Messages DEF PathInv, Guards, CallsMatch

LEMMA AnsweredPath ==
    ASSUME Typed, PathInv, calls # << >>,
           NEW ok \in BOOLEAN, NEW k \in Conns, NEW v \in 0..MaxVer,
           Answer(Head(calls), ok, k, v), UNCHANGED <<tasks, dialog, info, hidden>>, ConnWhole',
           Head(calls).method = "current" => ok,
           IF Head(calls).method \in {"current", "open", "memory"} /\ ok
           THEN conn' = k ELSE conn' = conn
    PROVE  PathInv'
PROOF
  <1> DEFINE r == Reply(Head(calls), ok, k, v)
  <1>1. r \in ReplyType /\ r.task = Head(calls).task /\ r.ok = ok /\ r.conn = k
    BY HeadMatches DEF Reply, ReplyType, CallType
  <1>2. calls' = Tail(calls) /\ replies' = Append(replies, r)
    BY DEF Answer
  <1> HIDE DEF r
  <1>3. /\ IF Moves(tasks, r) THEN r.conn = conn' ELSE conn' = conn
        /\ tasks[r.task].at = "current" => r.ok
    BY <1>1, HeadMatches DEF Moves
  <1> QED
    BY <1>1, <1>2, <1>3, AnswerPath

LEMMA ExecutesPath == Typed /\ PathInv /\ Executes => PathInv'
PROOF
  <1> SUFFICES ASSUME Typed, PathInv, Executes PROVE PathInv'
    OBVIOUS
  <1> DEFINE c == Head(calls)
  <1>1. calls # << >>
    BY DEF Executes, Current, Opens, Lists, Queries, Converts, Builds, ShowDialog, Serves
  <1>2. tasks' = tasks /\ info' = info /\ hidden' = hidden
    BY DEF Executes, Current, Opens, Lists, Queries, Converts, Builds, ShowDialog,
           Untouched, head, late
  <1>3. 0 \in 0..MaxVer /\ conn \in Conns /\ Now.ver \in 0..MaxVer
    BY Bounds DEF Typed, Shell, Now, Conns
  <1>4. ConnWhole
    BY DEF PathInv, Guards
  <1>5. ASSUME NEW ok \in BOOLEAN, NEW v \in 0..MaxVer, Answer(c, ok, conn, v),
               UNCHANGED <<conn, dialog>>,
               c.method \notin {"current", "open", "memory"}
        PROVE  PathInv'
    <2>1. ConnWhole'
      BY <1>4, <1>5 DEF ConnWhole
    <2> QED
      BY <1>1, <1>2, <1>3, <1>5, <2>1, AnsweredPath
  <1>6. CASE Current
    <2>1. Answer(c, TRUE, conn, 0) /\ UNCHANGED <<conn, dialog>>
      BY <1>6 DEF Current, shell
    <2>2. ConnWhole'
      BY <1>4, <2>1 DEF ConnWhole
    <2> QED
      BY <1>1, <1>2, <1>3, <2>1, <2>2, AnsweredPath
  <1>7. CASE Opens
    <2>1. /\ c.method \in {"open", "memory"} /\ dialog' = dialog
          /\ \/ \E mode \in Modes :
                   /\ conn' = [db |-> c.db, mode |-> mode]
                   /\ Answer(c, TRUE, [db |-> c.db, mode |-> mode], 0)
             \/ conn' = conn /\ Answer(c, FALSE, conn, 0)
      BY <1>7 DEF Opens, Serves
    <2>2. c.db # NoDb /\ c \in CallType
      BY <1>1, <2>1, HeadMatches DEF PathInv, Guards, TasksRight, Right
    <2>3. ASSUME NEW mode \in Modes, conn' = [db |-> c.db, mode |-> mode],
                 Answer(c, TRUE, [db |-> c.db, mode |-> mode], 0)
          PROVE  PathInv'
      <3>1. conn' \in Conns /\ Answer(c, TRUE, conn', 0)
        BY <2>2, <2>3 DEF CallType, Conns
      <3>2. ConnWhole'
        BY <2>2, <2>3 DEF ConnWhole
      <3> QED
        BY <1>1, <1>2, <1>3, <2>1, <3>1, <3>2, AnsweredPath
    <2>4. ASSUME conn' = conn, Answer(c, FALSE, conn, 0) PROVE PathInv'
      <3>1. ConnWhole'
        BY <1>4, <2>4 DEF ConnWhole
      <3> QED
        BY <1>1, <1>2, <1>3, <2>1, <2>4, <3>1, AnsweredPath
    <2> QED
      BY <2>1, <2>3, <2>4
  <1>8. CASE Lists
    <2>1. /\ c.method \in {"tables", "columns", "detail"} /\ UNCHANGED <<conn, dialog>>
          /\ \E ok \in BOOLEAN : Answer(c, ok, conn, Now.ver)
      BY <1>8 DEF Lists, Serves
    <2> QED
      BY <1>3, <1>5, <2>1
  <1>9. CASE Queries
    <2>1. /\ c.method = "query" /\ UNCHANGED <<conn, dialog>>
          /\ \E ok \in BOOLEAN : Answer(c, ok, conn, 0)
      BY <1>9 DEF Queries, Serves
    <2> QED
      BY <1>3, <1>5, <2>1
  <1>10. CASE Converts
    <2>1. /\ c.method = "convert" /\ UNCHANGED <<conn, dialog>>
          /\ \E ok \in BOOLEAN : Answer(c, ok, conn, 0)
      BY <1>10 DEF Converts, Serves
    <2> QED
      BY <1>3, <1>5, <2>1
  <1>11. CASE Builds
    BY <1>3, <1>5, <1>11 DEF Builds, Serves, shell
  <1>12. CASE ShowDialog
    <2>1. /\ calls' = Tail(calls) /\ replies' = replies /\ dialog' = c.task
          /\ c.method = "pick" /\ conn' = conn
      BY <1>12 DEF ShowDialog, Serves, shell
    <2>2. /\ CallsMatch' /\ TasksRight'
          /\ \A k \in DOMAIN tasks : tasks[k].at = "current" => k \notin Ids(calls)'
      BY <1>1, <1>2, <2>1, CallTaken
    <2>3. DialogPicks' /\ ConnWhole' /\ CurrentFirst'
      <3>1. DialogPicks' /\ ConnWhole'
        BY <1>1, <1>2, <1>4, <2>1, HeadMatches DEF DialogPicks, ConnWhole
      <3>2. Ids(replies)' = Ids(replies)
        BY <2>1 DEF Ids
      <3>3. CurrentFirst'
        BY <1>2, <2>1, <2>2, <3>2 DEF PathInv, Guards, CurrentFirst
      <3> QED
        BY <3>1, <3>3
    <2>4. ASSUME Settled PROVE Settled'
      <3>1. ASSUME NEW k \in Ids(calls), tasks[k].at = "current" PROVE k \in Ids(calls')
        <4>1. Ids(calls') = Ids(calls) \ {c.task}
          BY <1>1, <2>1, Dropped DEF Typed, Wired, One
        <4> QED
          BY <1>1, <2>1, <3>1, <4>1, HeadMatches
      <3>2. \/ info' = conn' \/ (hidden' /\ info' = NoConn)
            \/ \E k \in Ids(calls') : tasks'[k].at = "current"
        BY <1>2, <2>1, <2>4, <3>1 DEF Settled
      <3>3. \A i \in DOMAIN replies' : ~Moves(tasks', replies'[i])
        BY <1>2, <2>1, <2>4 DEF Settled
      <3> QED
        BY <3>2, <3>3 DEF Settled, Moves, Ids
    <2>5. ASSUME Pending PROVE Pending'
      BY <1>2, <2>1, <2>5 DEF Pending, Moves
    <2> QED
      BY <2>2, <2>3, <2>4, <2>5 DEF PathInv, Guards
  <1> QED
    BY <1>6, <1>7, <1>8, <1>9, <1>10, <1>11, <1>12 DEF Executes

LEMMA AddedReply ==
    ASSUME Typed, NEW r \in ReplyType, replies' = Append(replies, r), ~Moves(tasks, r),
           UNCHANGED <<tasks, conn>>
    PROVE  /\ Pending => Pending'
           /\ (\A i \in DOMAIN replies : ~Moves(tasks, replies[i]))
                => \A i \in DOMAIN replies' : ~Moves(tasks', replies'[i])
PROOF
  <1> DEFINE n == Len(replies)
  <1>1. /\ n \in Nat /\ DOMAIN replies = 1..n /\ DOMAIN replies' = 1..(n + 1)
        /\ \A i \in 1..n : replies'[i] = replies[i]
        /\ replies'[n + 1] = r
    BY AppendFacts DEF Typed, Wired
  <1> HIDE DEF n
  <1>2. \A i \in DOMAIN replies' : i \in DOMAIN replies \/ replies'[i] = r
    BY <1>1
  <1>3. \A i \in DOMAIN replies : i \in DOMAIN replies' /\ replies'[i] = replies[i]
    BY <1>1
  <1> QED
    BY <1>2, <1>3 DEF Pending, Moves

LEMMA CloseDialogPath ==
    ASSUME Typed, PathInv, NEW f \in Files \cup {NoDb}, CloseDialog(f)
    PROVE  PathInv'
PROOF
  <1> DEFINE r == [task |-> dialog, ok |-> TRUE, conn |-> [NoConn EXCEPT !.db = f], ver |-> 0]
  <1>1. dialog \in Nat /\ dialog # 0 /\ tasks[dialog].at = "pick"
    BY Bounds DEF CloseDialog, Typed, Wired, One, PathInv, Guards, DialogPicks
  <1>2. [NoConn EXCEPT !.db = f] \in Conns
    BY DEF NoConn, Conns, Dbs
  <1>3. r \in ReplyType /\ r.task = dialog
    BY <1>1, <1>2, Bounds DEF ReplyType
  <1>4. /\ replies' = Append(replies, r) /\ dialog' = 0
        /\ UNCHANGED <<calls, tasks, info, hidden, conn>>
    BY DEF CloseDialog, Untouched, shell, head, late
  <1> HIDE DEF r
  <1>5. ~Moves(tasks, r)
    BY <1>1, <1>3 DEF Moves
  <1>6. Guards'
    <2>1. CallsMatch' /\ TasksRight' /\ DialogPicks' /\ ConnWhole'
      BY <1>4 DEF PathInv, Guards, CallsMatch, TasksRight, DialogPicks, ConnWhole
    <2>2. Ids(calls)' = Ids(calls)
      BY <1>4 DEF Ids
    <2>3. /\ DOMAIN replies = 1..Len(replies) /\ Len(replies) \in Nat
          /\ \A i \in DOMAIN replies : replies'[i] = replies[i]
      BY <1>3, <1>4, AppendFacts DEF Typed, Wired
    <2>4. CurrentFirst'
      <3> SUFFICES ASSUME NEW k \in DOMAIN tasks, tasks[k].at = "current"
                   PROVE  /\ tasks[k].h = "launch" /\ info = NoConn
                          /\ k \notin Ids(calls) /\ replies'[1].task = k
        BY <1>4, <2>2 DEF CurrentFirst
      <3>1. k \in Ids(calls) \cup Ids(replies)
        BY <1>1, Messages
      <3>2. /\ tasks[k].h = "launch" /\ info = NoConn /\ k \notin Ids(calls)
            /\ replies[1].task = k
        BY <1>1, <3>1 DEF PathInv, Guards, CurrentFirst
      <3>3. 1 \in DOMAIN replies
        BY <2>3, <3>1, <3>2 DEF Ids
      <3> QED
        BY <2>3, <3>2, <3>3
    <2> QED
      BY <2>1, <2>4 DEF Guards
  <1>7. Pending => Pending'
    BY <1>3, <1>4, <1>5, AddedReply
  <1>8. Settled => Settled'
    <2>1. ASSUME Settled PROVE \A i \in DOMAIN replies' : ~Moves(tasks', replies'[i])
      BY <1>3, <1>4, <1>5, <2>1, AddedReply DEF Settled
    <2>2. Settled => \/ info' = conn' \/ (hidden' /\ info' = NoConn)
                     \/ \E k \in Ids(calls)' : tasks'[k].at = "current"
      BY <1>4 DEF Settled, Ids
    <2> QED
      BY <2>1, <2>2 DEF Settled, Moves
  <1> QED
    BY <1>6, <1>7, <1>8 DEF PathInv

-----------------------------------------------------------------------------
(* The path: the handlers *)

\* A task makes a call.
LEMMA AwaitsCall ==
    ASSUME Typed, CallsMatch, NEW id \in Nat, id \notin Ids(calls), NEW t \in TaskType,
           Awaits(id, t)
    PROVE  /\ CallsMatch'
           /\ DOMAIN tasks' = DOMAIN tasks \cup {id} /\ tasks'[id] = t
           /\ \A k \in DOMAIN tasks : k # id => tasks'[k] = tasks[k]
           /\ Ids(calls)' = Ids(calls) \cup {id}
           /\ calls # << >> => calls'[1] = calls[1]
           /\ calls = << >> => calls'[1].task = id
PROOF
  <1> DEFINE c == [task |-> id, method |-> t.at, db |-> t.db, text |-> t.text,
                   src |-> t.src]
             n == Len(calls)
  <1>1. /\ DOMAIN tasks' = DOMAIN tasks \cup {id} /\ tasks'[id] = t
        /\ \A k \in DOMAIN tasks : k # id => tasks'[k] = tasks[k]
        /\ calls' = Append(calls, c)
    BY DEF Awaits
  <1>2. c \in CallType /\ c.task = id /\ c.method = t.at /\ c.db = t.db /\ c.text = t.text
    BY DEF CallType, TaskType
  <1> HIDE DEF c
  <1>3. /\ n \in Nat /\ DOMAIN calls = 1..n /\ DOMAIN calls' = 1..(n + 1)
        /\ \A i \in 1..n : calls'[i] = calls[i]
        /\ calls'[n + 1] = c
    BY <1>1, <1>2, AppendFacts DEF Typed, Wired
  <1>4. n = 0 <=> calls = << >>
    BY DEF Typed, Wired
  <1> HIDE DEF n
  <1>5. CallsMatch'
    <2> SUFFICES ASSUME NEW i \in DOMAIN calls'
                 PROVE  /\ calls'[i].method = tasks'[calls'[i].task].at
                        /\ calls'[i].db = tasks'[calls'[i].task].db
                        /\ calls'[i].text = tasks'[calls'[i].task].text
      BY DEF CallsMatch
    <2>1. CASE i = n + 1
      BY <1>1, <1>2, <1>3, <2>1
    <2>2. CASE i \in 1..n
      <3>1. i \in DOMAIN calls /\ calls'[i] = calls[i]
        BY <1>3, <2>2
      <3>2. calls[i].task \in DOMAIN tasks /\ calls[i].task # id
        BY <3>1, Messages
      <3> QED
        BY <1>1, <3>1, <3>2 DEF CallsMatch
    <2> QED
      BY <1>3, <2>1, <2>2
  <1>6. Ids(calls)' = Ids(calls) \cup {id}
    <2>1. Ids(calls') = Ids(calls) \cup {id}
      BY <1>1, <1>2, Added DEF Typed, Wired, One
    <2>2. Ids(calls)' = Ids(calls')
      BY DEF Ids
    <2> QED
      BY <2>1, <2>2
  <1> QED
    BY <1>1, <1>2, <1>3, <1>4, <1>5, <1>6

LEMMA BeginsPath ==
    ASSUME Typed, PathInv, NEW t \in TaskType, Begins(t)
    PROVE  PathInv'
PROOF
  <1> DEFINE id == CHOOSE k \in 1..MaxTasks : k \notin DOMAIN tasks
  <1>1. id \in 1..MaxTasks /\ id \notin DOMAIN tasks
    BY FreeTask DEF Begins, Starts, Typed
  <1>2. /\ Awaits(id, t) /\ UNCHANGED <<replies, dialog, conn, info, hidden>> /\ dialog = 0
        /\ t.at # "current" /\ t.h # "launch"
        /\ Right(t)
    BY DEF Begins, Starts, shell, head, late
  <1> HIDE DEF id
  <1>3. id \in Nat /\ id \notin Ids(calls)
    BY <1>1, Bounds, Messages
  <1>4. Guards
    BY DEF PathInv
  <1>5. /\ CallsMatch'
        /\ DOMAIN tasks' = DOMAIN tasks \cup {id} /\ tasks'[id] = t
        /\ \A k \in DOMAIN tasks : k # id => tasks'[k] = tasks[k]
        /\ Ids(calls)' = Ids(calls) \cup {id}
        /\ calls # << >> => calls'[1] = calls[1]
    BY <1>2, <1>3, <1>4, AwaitsCall DEF Guards
  <1>6. TasksRight'
    BY <1>2, <1>4, <1>5 DEF Guards, TasksRight
  <1>7. DialogPicks' /\ ConnWhole'
    BY <1>2, <1>4 DEF Guards, DialogPicks, ConnWhole
  <1>8. CurrentFirst'
    <2> SUFFICES ASSUME NEW k \in DOMAIN tasks', tasks'[k].at = "current"
                 PROVE  /\ tasks'[k].h = "launch" /\ info' = NoConn
                        /\ k \in Ids(calls)' => /\ calls'[1].task = k /\ replies' = << >>
                                                /\ dialog' = 0
                        /\ k \in Ids(replies)' => replies'[1].task = k
      BY DEF CurrentFirst
    <2>1. k # id /\ k \in DOMAIN tasks /\ tasks'[k] = tasks[k]
      BY <1>2, <1>5
    <2>2. Ids(replies)' = Ids(replies)
      BY <1>2 DEF Ids
    <2>3. k \in Ids(calls)' => k \in Ids(calls)
      BY <1>5, <2>1
    <2>4. k \in Ids(calls) => calls # << >>
      BY DEF Ids
    <2> QED
      BY <1>2, <1>4, <1>5, <2>1, <2>2, <2>3, <2>4 DEF Guards, CurrentFirst
  <1>10. \A i \in DOMAIN replies : tasks'[replies[i].task] = tasks[replies[i].task]
    BY <1>1, <1>5, Messages
  <1>11. Pending => Pending'
    BY <1>2, <1>10 DEF Pending, Moves
  <1>12. Settled => Settled'
    <2>1. \A k \in Ids(calls) : k \in Ids(calls)' /\ tasks'[k] = tasks[k]
      BY <1>1, <1>5, Messages
    <2> QED
      BY <1>2, <1>10, <2>1 DEF Settled, Moves
  <1> QED
    BY <1>5, <1>6, <1>7, <1>8, <1>11, <1>12 DEF PathInv, Guards

\* The launch was told that nothing is open.
Asked == Me.at = "current" /\ Head(replies).ok /\ Head(replies).conn.db = NoDb

\* What a handler that is resumed does to the path and what it may call next.
GoesOn(t) == t.at # "current" /\ Right(t)
PathStep ==
    /\ UNCHANGED conn
    /\ IF Moves(tasks, Head(replies))
       THEN info' = Head(replies).conn \/ (Asked /\ info' \in {info, NoConn})
       ELSE \/ UNCHANGED <<info, hidden>>
            \/ info' = NoConn /\ hidden'
    /\ Ends(Id) \/ \E t \in TaskType : Awaits(Id, t) /\ GoesOn(t)

\* No handler but the one resumed now has asked what is open.
LEMMA OnlyCurrent ==
    ASSUME Typed, PathInv, replies # << >>, NEW k \in DOMAIN tasks, tasks[k].at = "current"
    PROVE  k = Id /\ k \notin Ids(calls) /\ info = NoConn
PROOF
  <1>1. k \in Ids(calls) \cup Ids(replies) \/ k = dialog
    BY Messages
  <1>2. k # 0
    BY Bounds DEF Typed, Wired
  <1>3. k # dialog
    BY <1>2 DEF PathInv, Guards, DialogPicks
  <1>4. /\ info = NoConn /\ k \notin Ids(calls)
        /\ k \in Ids(replies) => replies[1].task = k
    BY DEF PathInv, Guards, CurrentFirst
  <1>5. Head(replies) = replies[1]
    BY TailFacts DEF Typed, Wired
  <1> QED
    BY <1>1, <1>3, <1>4, <1>5 DEF Id

\* The handler that returns or goes on leaves the guards in place.
LEMMA ResumedGuards ==
    ASSUME Typed, PathInv, Resumed, PathStep
    PROVE  /\ Guards'
           /\ \A k \in DOMAIN tasks : k # Id => tasks'[k] = tasks[k]
PROOF
  <1>1. Guards /\ Id \in Nat /\ Id \in DOMAIN tasks /\ replies # << >>
    BY HeadInFlight DEF PathInv, Resumed, Typed
  <1>2. Id \notin Ids(calls) /\ dialog # Id
    <2>1. Id \in Ids(replies)
      BY <1>1, Dropped DEF Typed, Wired, One, Id
    <2> QED
      BY <2>1, Messages
  <1>3. dialog' = dialog /\ conn' = conn
    BY DEF Resumed, PathStep
  <1>4. dialog # 0 => dialog \in DOMAIN tasks
    BY DEF Typed, Wired, One
  <1>5. ConnWhole'
    BY <1>1, <1>3 DEF Guards, ConnWhole
  <1>6. CASE Ends(Id)
    <2>1. /\ DOMAIN tasks' = DOMAIN tasks \ {Id} /\ calls' = calls
          /\ \A k \in DOMAIN tasks : k # Id => tasks'[k] = tasks[k]
      BY <1>6 DEF Ends
    <2>2. \A k \in DOMAIN tasks' : k \in DOMAIN tasks /\ tasks'[k] = tasks[k]
      BY <2>1
    <2>3. Ids(calls)' = Ids(calls)
      BY <2>1 DEF Ids
    <2>4. CallsMatch'
      BY <1>1, <1>2, <2>1, Messages DEF Guards, CallsMatch
    <2>5. TasksRight' /\ DialogPicks'
      BY <1>1, <1>2, <1>3, <1>4, <2>1, <2>2 DEF Guards, TasksRight, DialogPicks
    <2>6. CurrentFirst'
      BY <1>1, <2>1, <2>2, OnlyCurrent DEF CurrentFirst
    <2> QED
      BY <1>5, <2>1, <2>4, <2>5, <2>6 DEF Guards
  <1>7. ASSUME NEW t \in TaskType, Awaits(Id, t), GoesOn(t)
        PROVE  Guards' /\ \A k \in DOMAIN tasks : k # Id => tasks'[k] = tasks[k]
    <2>1. /\ CallsMatch'
          /\ DOMAIN tasks' = DOMAIN tasks \cup {Id} /\ tasks'[Id] = t
          /\ \A k \in DOMAIN tasks : k # Id => tasks'[k] = tasks[k]
          /\ Ids(calls)' = Ids(calls) \cup {Id}
          /\ calls # << >> => calls'[1] = calls[1]
          /\ calls = << >> => calls'[1].task = Id
      BY <1>1, <1>2, <1>7, AwaitsCall DEF Guards
    <2>2. DOMAIN tasks' = DOMAIN tasks
      BY <1>1, <2>1
    <2>3. TasksRight' /\ DialogPicks'
      BY <1>1, <1>2, <1>3, <1>4, <1>7, <2>1, <2>2 DEF Guards, TasksRight, DialogPicks, GoesOn
    <2>4. CurrentFirst'
      <3> SUFFICES ASSUME NEW k \in DOMAIN tasks, tasks'[k].at = "current" PROVE FALSE
        BY <2>2 DEF CurrentFirst
      <3>1. k # Id /\ tasks[k].at = "current"
        BY <1>7, <2>1 DEF GoesOn
      <3> QED
        BY <1>1, <3>1, OnlyCurrent
    <2> QED
      BY <1>5, <2>1, <2>3, <2>4 DEF Guards
  <1> QED
    BY <1>6, <1>7 DEF PathStep

\* A reply leaves the queue: the others move up, and their tasks are as they were.
LEMMA ReplyTaken ==
    ASSUME Typed, Resumed
    PROVE  /\ \A i \in DOMAIN replies : i # 1 =>
                 /\ i - 1 \in DOMAIN replies' /\ replies'[i - 1] = replies[i]
                 /\ tasks'[replies[i].task] = tasks[replies[i].task]
           /\ \A i \in DOMAIN replies' :
                 /\ i + 1 \in DOMAIN replies /\ i + 1 # 1 /\ replies'[i] = replies[i + 1]
                 /\ tasks'[replies'[i].task] = tasks[replies[i + 1].task]
PROOF
  <1> DEFINE n == Len(replies)
  <1>1. /\ n \in Nat \ {0} /\ DOMAIN replies = 1..n /\ Head(replies) = replies[1]
        /\ DOMAIN replies' = 1..(n - 1)
        /\ \A i \in 1..(n - 1) : replies'[i] = replies[i + 1]
    BY TailFacts DEF Typed, Wired, Resumed
  <1> HIDE DEF n
  <1>2. \A k \in DOMAIN tasks : k # Id => tasks'[k] = tasks[k]
    BY DEF Resumed, Ends, Awaits
  <1>3. ASSUME NEW i \in DOMAIN replies, i # 1
        PROVE  /\ i - 1 \in DOMAIN replies' /\ replies'[i - 1] = replies[i]
               /\ tasks'[replies[i].task] = tasks[replies[i].task]
    <2>1. i - 1 \in 1..(n - 1) /\ (i - 1) + 1 = i
      BY <1>1, <1>3
    <2>2. replies[i].task # Id
      BY <1>1, <1>3 DEF Typed, Wired, One, Apart, Id
    <2>3. replies[i].task \in DOMAIN tasks
      BY Messages
    <2> QED
      BY <1>1, <1>2, <2>1, <2>2, <2>3
  <1>4. ASSUME NEW i \in DOMAIN replies'
        PROVE  /\ i + 1 \in DOMAIN replies /\ i + 1 # 1 /\ replies'[i] = replies[i + 1]
               /\ tasks'[replies'[i].task] = tasks[replies[i + 1].task]
    <2>1. i + 1 \in DOMAIN replies /\ i + 1 # 1 /\ replies'[i] = replies[i + 1]
      BY <1>1
    <2> QED
      BY <1>3, <2>1
  <1> QED
    BY <1>3, <1>4

LEMMA PathStepKeeps ==
    ASSUME Typed, PathInv, Resumed, PathStep
    PROVE  PathInv'
PROOF
  <1> DEFINE n == Len(replies)
  <1>1. /\ n \in Nat \ {0} /\ DOMAIN replies = 1..n /\ Head(replies) = replies[1]
        /\ DOMAIN replies' = 1..(n - 1)
        /\ \A i \in 1..(n - 1) : replies'[i] = replies[i + 1]
    BY TailFacts DEF Typed, Wired, Resumed
  <1> HIDE DEF n
  <1>2. Guards' /\ \A k \in DOMAIN tasks : k # Id => tasks'[k] = tasks[k]
    BY ResumedGuards
  <1>3. /\ \A i \in DOMAIN replies : i # 1 =>
              /\ i - 1 \in DOMAIN replies' /\ replies'[i - 1] = replies[i]
              /\ tasks'[replies[i].task] = tasks[replies[i].task]
        /\ \A i \in DOMAIN replies' :
              /\ i + 1 \in DOMAIN replies /\ i + 1 # 1 /\ replies'[i] = replies[i + 1]
              /\ tasks'[replies'[i].task] = tasks[replies[i + 1].task]
    BY ReplyTaken
  <1>5. conn' = conn
    BY DEF PathStep
  <1>6. CASE Settled
    <2>1. ~Moves(tasks, Head(replies))
      BY <1>1, <1>6 DEF Settled
    <2>2. UNCHANGED <<info, hidden>> \/ (info' = NoConn /\ hidden')
      BY <2>1 DEF PathStep
    <2>3. info = conn \/ (hidden /\ info = NoConn)
      <3>1. replies # << >>
        BY DEF Resumed
      <3> SUFFICES ASSUME NEW k \in Ids(calls), tasks[k].at = "current" PROVE FALSE
        BY <1>6 DEF Settled
      <3> QED
        BY <3>1, Messages, OnlyCurrent
    <2>4. \A i \in DOMAIN replies' : ~Moves(tasks', replies'[i])
      BY <1>3, <1>6 DEF Settled, Moves
    <2> QED
      BY <1>2, <1>5, <2>2, <2>3, <2>4 DEF PathInv, Settled, Moves
  <1>7. CASE Pending
    <2>1. PICK i \in DOMAIN replies :
              /\ Moves(tasks, replies[i]) /\ replies[i].conn = conn
              /\ \A j \in DOMAIN replies : j > i => ~Moves(tasks, replies[j])
      BY <1>7 DEF Pending
    <2>2. CASE i = 1
      <3>1. \A j \in DOMAIN replies' : ~Moves(tasks', replies'[j])
        <4>1. \A j \in DOMAIN replies' : j + 1 > i
          BY <1>1, <2>2
        <4> QED
          BY <1>3, <2>1, <4>1 DEF Moves
      <3>2. info' = conn
        <4>1. info' = Head(replies).conn \/ (Asked /\ info' \in {info, NoConn})
          BY <1>1, <2>1, <2>2 DEF PathStep
        <4>2. Asked => info = NoConn /\ conn = NoConn
          <5>1. replies # << >> /\ Id \in DOMAIN tasks
            BY HeadInFlight DEF Typed, Resumed
          <5>2. Asked => info = NoConn
            BY <5>1, OnlyCurrent DEF Asked, Me
          <5>3. Asked => conn = NoConn
            BY <1>1, <2>1, <2>2 DEF Asked, PathInv, Guards, ConnWhole
          <5> QED
            BY <5>2, <5>3
        <4> QED
          BY <1>1, <2>1, <2>2, <4>1, <4>2
      <3> QED
        BY <1>2, <1>5, <3>1, <3>2 DEF PathInv, Settled, Moves
    <2>3. CASE i # 1
      <3>1. /\ i - 1 \in DOMAIN replies' /\ replies'[i - 1] = replies[i]
            /\ tasks'[replies[i].task] = tasks[replies[i].task]
        BY <1>3, <2>3
      <3>2. \A j \in DOMAIN replies' : j > i - 1 => j + 1 > i
        BY <1>1
      <3>3. \A j \in DOMAIN replies' : j > i - 1 => ~Moves(tasks', replies'[j])
        BY <1>3, <2>1, <3>2 DEF Moves
      <3> QED
        BY <1>2, <1>5, <2>1, <3>1, <3>3 DEF PathInv, Pending, Moves
    <2> QED
      BY <2>2, <2>3
  <1> QED
    BY <1>6, <1>7 DEF PathInv

\* A reply to anything but an open or the launch's question leaves the path.
Elsewhere == {"pick", "tables", "columns", "detail", "query", "convert", "build"}

LEMMA ElsewhereStep ==
    ASSUME Me.at \in Elsewhere, UNCHANGED <<conn, info>>, Remembers,
           Ends(Id) \/ \E t \in TaskType : Awaits(Id, t) /\ GoesOn(t)
    PROVE  PathStep
PROOF BY DEF Elsewhere, PathStep, Moves, Me, Id, Remembers

LEMMA GoesOnTo ==
    ASSUME Me \in TaskType, Right(Me), NEW at \in Elsewhere, Then(at),
           at \notin {"convert", "query"}
    PROVE  \E t \in TaskType : Awaits(Id, t) /\ GoesOn(t)
PROOF
  <1> DEFINE t == [Me EXCEPT !.at = at]
  <1>1. t \in TaskType /\ t.at = at /\ t.h = Me.h /\ t.text = Me.text
    BY DEF Elsewhere, Methods, TaskType
  <1>2. GoesOn(t)
    BY <1>1 DEF GoesOn, Right, Elsewhere
  <1>3. Awaits(Id, t)
    BY DEF Then
  <1> HIDE DEF t
  <1> QED
    BY <1>1, <1>2, <1>3

LEMMA AfterRefreshStep ==
    ASSUME Me \in TaskType, Me.h \in Refreshers, NEW failed, AfterRefresh(failed)
    PROVE  Ends(Id) \/ \E t \in TaskType : Awaits(Id, t) /\ GoesOn(t)
PROOF
  <1>1. CASE Me.h = "import"
    <2> DEFINE t == [Me EXCEPT !.h = "preview", !.at = "query", !.text = "select"]
    <2>1. Awaits(Id, t)
      BY <1>1 DEF AfterRefresh
    <2>2. t \in TaskType /\ t.at = "query" /\ t.h = "preview" /\ t.text = "select"
      BY ZenonT(60) DEF Handlers, Methods, Texts, TaskType
    <2>3. GoesOn(t)
      BY <2>2 DEF GoesOn, Right
    <2> HIDE DEF t
    <2> QED
      BY <2>1, <2>2, <2>3
  <1>2. CASE Me.h \in {"launch", "refresh"}
    BY <1>2 DEF AfterRefresh
  <1>3. CASE Me.h \in {"open", "memory"}
    BY <1>3 DEF AfterRefresh
  <1>4. CASE Me.h = "newdb"
    BY <1>4 DEF AfterRefresh
  <1>5. CASE Me.h = "convert"
    BY <1>5 DEF AfterRefresh
  <1> QED
    BY <1>1, <1>2, <1>3, <1>4, <1>5 DEF Refreshers

LEMMA ResumesPath ==
    ASSUME Typed, TasksRight, Resumes
    PROVE  PathStep
PROOF
  <1>0. Remembers
    BY DEF Resumes
  <1>1. Me \in TaskType /\ Right(Me)
    <2>1. Me \in TaskType /\ Id \in DOMAIN tasks
      BY Arrival DEF Resumes, Picked, Launched, Opened, OpenFailed, LaunchFailed, Converted,
         Built, Imported, Exported, Failed, TablesListed, ColumnsListed, ListingFailed, Ran,
         RunFailed, Detailed
    <2> QED
      BY <2>1 DEF TasksRight, Me
  <1>2. CASE Picked
    <2>1. /\ ArrivesOf({"open", "newdb", "import", "export", "convert"}, {"pick"}, TRUE)
          /\ Head(replies) \in ReplyType
      BY <1>2, Arrival DEF Picked
    <2> DEFINE db == Head(replies).conn.db
               next == [open |-> "open", newdb |-> "open", import |-> "build",
                        export |-> "query", convert |-> "convert"][Me.h]
               t == [Me EXCEPT !.at = next, !.db = db]
    <2>2. next \in Methods \ {"current"} /\ db \in Dbs \cup {NoDb} /\ Me.h # "launch"
      BY <2>1 DEF ArrivesOf, Methods, ReplyType, Conns
    <2>3. t \in TaskType /\ t.at = next /\ t.db = db /\ t.h = Me.h /\ t.text = Me.text
      BY <1>1, <2>2 DEF TaskType
    <2>4. Ends(Id) \/ (db # NoDb /\ Awaits(Id, t))
      BY <1>2 DEF Picked
    <2>5. db # NoDb => GoesOn(t)
      <3>1. (next = "query" => Me.h = "export") /\ next # "memory"
        BY <2>1 DEF ArrivesOf
      <3>2. db # NoDb => Right(t)
        BY <1>1, <2>3, <3>1 DEF Right
      <3> HIDE DEF t
      <3> QED
        BY <2>2, <2>3, <3>2 DEF GoesOn
    <2>6. UNCHANGED <<conn, info>> /\ Me.at \in Elsewhere
      BY <1>2, <2>1 DEF Picked, ArrivesOf, shell, head, Elsewhere
    <2> HIDE DEF t
    <2> QED
      BY <1>0, <2>3, <2>4, <2>5, <2>6, ElsewhereStep
  <1>3. CASE Launched
    <2>1. ArrivesOf({"launch"}, {"current"}, TRUE) /\ Head(replies) \in ReplyType
      BY <1>3, Arrival DEF Launched
    <2> DEFINE k == Head(replies).conn
               last == IF lastPath = Mem THEN Stray ELSE lastPath
    <2>2. Moves(tasks, Head(replies)) /\ conn' = conn /\ (Asked <=> k.db = NoDb)
      BY <2>1 DEF ArrivesOf, Moves, Asked, Me, Id, shell
    <2>3. CASE k.db # NoDb
      <3>1. info' = k /\ Then("tables")
        BY <1>3, <2>3 DEF Launched, Apply
      <3>2. \E t \in TaskType : Awaits(Id, t) /\ GoesOn(t)
        BY <1>1, <3>1, GoesOnTo DEF Elsewhere
      <3> QED
        BY <2>2, <3>1, <3>2 DEF PathStep
    <2>4. CASE k.db = NoDb /\ lastPath # NoDb
      <3>1. Awaits(Id, Task("launch", "open", last)) /\ info' = info
        BY <1>3, <2>4 DEF Launched, head
      <3>2. last \in Dbs /\ last # NoDb
        BY <2>4, ConstantsAssumption DEF Typed, Screen, Dbs
      <3>3. Task("launch", "open", last) \in TaskType
        BY <3>2, TaskIs DEF Handlers, Methods
      <3>4. GoesOn(Task("launch", "open", last))
        BY <3>2 DEF GoesOn, Right, Task
      <3> QED
        BY <2>2, <2>4, <3>1, <3>3, <3>4 DEF PathStep
    <2>5. CASE k.db = NoDb /\ lastPath = NoDb
      <3>1. Ends(Id) /\ info' = NoConn
        BY <1>3, <2>5 DEF Launched, Apply
      <3> QED
        BY <2>2, <2>5, <3>1 DEF PathStep
    <2> QED
      BY <2>3, <2>4, <2>5
  <1>4. CASE Opened
    <2>1. ArrivesOf({"open", "newdb", "memory", "launch", "convert"}, {"open", "memory"}, TRUE)
      BY <1>4, Arrival DEF Opened
    <2>2. Moves(tasks, Head(replies)) /\ conn' = conn
      BY <2>1 DEF ArrivesOf, Moves, Me, Id, shell
    <2>3. info' = Head(replies).conn /\ Then("tables")
      BY <1>4 DEF Opened, Apply
    <2>4. \E t \in TaskType : Awaits(Id, t) /\ GoesOn(t)
      BY <1>1, <2>3, GoesOnTo DEF Elsewhere
    <2> QED
      BY <2>2, <2>3, <2>4 DEF PathStep
  <1>5. CASE OpenFailed
    <2>1. ArrivesOf({"open", "newdb", "memory", "convert"}, {"open", "memory", "convert"}, FALSE)
      BY <1>5, Arrival DEF OpenFailed
    <2>2. ~Moves(tasks, Head(replies)) /\ conn' = conn
      BY <2>1 DEF ArrivesOf, Moves, Me, Id, shell
    <2>3. Ends(Id) /\ UNCHANGED <<info, hidden>>
      BY <1>0, <1>5 DEF OpenFailed, head, Remembers
    <2> QED
      BY <2>2, <2>3 DEF PathStep
  <1>6. CASE LaunchFailed
    <2>1. ArrivesOf({"launch"}, {"open"}, FALSE)
      BY <1>6, Arrival DEF LaunchFailed
    <2>2. ~Moves(tasks, Head(replies)) /\ conn' = conn
      BY <2>1 DEF ArrivesOf, Moves, Me, Id, shell
    <2>3. Ends(Id) /\ info' = NoConn /\ NoConn.db = NoDb
      BY <1>6 DEF LaunchFailed, Apply, NoConn
    <2>4. info' = info => hidden' = hidden
      BY <1>0 DEF Remembers
    <2>5. info' # info => hidden'
      BY <1>0, <2>1, <2>3 DEF Remembers, ArrivesOf
    <2> QED
      BY <2>2, <2>3, <2>4, <2>5 DEF PathStep
  <1>7. CASE Converted
    <2>1. ArrivesOf({"convert"}, {"convert"}, TRUE)
      BY <1>7, Arrival DEF Converted
    <2>2. UNCHANGED <<conn, info>> /\ Me.at \in Elsewhere
      BY <1>7, <2>1 DEF Converted, ArrivesOf, shell, head, Elsewhere
    <2> DEFINE t == [Me EXCEPT !.at = "open"]
    <2>3. Awaits(Id, t)
      BY <1>7 DEF Converted, Then
    <2>4. t \in TaskType /\ t.at = "open" /\ t.h = "convert" /\ t.db = Me.db
      BY <1>1, <2>1 DEF ArrivesOf, TaskType, Methods
    <2>5. Me.db # NoDb
      BY <1>1, <2>1 DEF ArrivesOf, Right
    <2>6. GoesOn(t)
      BY <2>4, <2>5 DEF GoesOn, Right
    <2> HIDE DEF t
    <2> QED
      BY <1>0, <2>2, <2>3, <2>4, <2>6, ElsewhereStep
  <1>8. CASE Built
    <2>1. ArrivesOf({"import"}, {"build"}, TRUE)
      BY <1>8, Arrival DEF Built
    <2>2. UNCHANGED <<conn, info>> /\ Me.at \in Elsewhere
      BY <1>8, <2>1 DEF Built, ArrivesOf, shell, head, Elsewhere
    <2> DEFINE t == [Me EXCEPT !.at = "query", !.text = "import"]
    <2>3. Awaits(Id, t)
      BY <1>8 DEF Built
    <2>4. t \in TaskType /\ t.at = "query" /\ t.h = "import" /\ t.text = "import"
      BY <1>1, <2>1 DEF ArrivesOf, Methods, Texts, TaskType
    <2>5. GoesOn(t)
      BY <2>4 DEF GoesOn, Right
    <2> HIDE DEF t
    <2> QED
      BY <1>0, <2>2, <2>3, <2>4, <2>5, ElsewhereStep
  <1>9. CASE Imported
    <2>1. ArrivesOf({"import"}, {"query"}, TRUE)
      BY <1>9, Arrival DEF Imported
    <2>2. UNCHANGED <<conn, info>> /\ Me.at \in Elsewhere /\ Then("tables")
      BY <1>9, <2>1 DEF Imported, ArrivesOf, shell, head, Elsewhere
    <2>3. \E t \in TaskType : Awaits(Id, t) /\ GoesOn(t)
      BY <1>1, <2>2, GoesOnTo DEF Elsewhere
    <2> QED
      BY <1>0, <2>2, <2>3, ElsewhereStep
  <1>10. CASE Exported
    <2>1. ArrivesOf({"export"}, {"query"}, TRUE)
      BY <1>10, Arrival DEF Exported
    <2>2. UNCHANGED <<conn, info>> /\ Me.at \in Elsewhere /\ Ends(Id)
      BY <1>10, <2>1 DEF Exported, ArrivesOf, shell, head, Elsewhere
    <2> QED
      BY <1>0, <2>2, ElsewhereStep
  <1>11. CASE Failed
    <2>1. ArrivesOf({"import", "export", "schema"}, {"build", "query", "detail"}, FALSE)
      BY <1>11, Arrival DEF Failed
    <2>2. UNCHANGED <<conn, info>> /\ Me.at \in Elsewhere /\ Ends(Id)
      BY <1>11, <2>1 DEF Failed, ArrivesOf, shell, head, Elsewhere
    <2> QED
      BY <1>0, <2>2, ElsewhereStep
  <1>12. CASE TablesListed
    <2>1. ArrivesOf(Refreshers, {"tables"}, TRUE)
      BY <1>12, Arrival DEF TablesListed, Refreshers
    <2>2. UNCHANGED <<conn, info>> /\ Me.at \in Elsewhere /\ Then("columns")
      BY <1>12, <2>1 DEF TablesListed, ArrivesOf, shell, head, Elsewhere
    <2>3. \E t \in TaskType : Awaits(Id, t) /\ GoesOn(t)
      BY <1>1, <2>2, GoesOnTo DEF Elsewhere
    <2> QED
      BY <1>0, <2>2, <2>3, ElsewhereStep
  <1>13. CASE ColumnsListed
    <2>1. ArrivesOf(Refreshers, {"columns"}, TRUE)
      BY <1>13, Arrival DEF ColumnsListed, Refreshers
    <2>2. /\ UNCHANGED <<conn, info>> /\ Me.at \in Elsewhere /\ AfterRefresh(FALSE)
          /\ Me.h \in Refreshers
      BY <1>13, <2>1 DEF ColumnsListed, ArrivesOf, shell, head, Elsewhere
    <2>3. Ends(Id) \/ \E t \in TaskType : Awaits(Id, t) /\ GoesOn(t)
      BY <1>1, <2>2, AfterRefreshStep
    <2> QED
      BY <1>0, <2>2, <2>3, ElsewhereStep
  <1>14. CASE ListingFailed
    <2>1. ArrivesOf(Refreshers, {"tables", "columns"}, FALSE)
      BY <1>14, Arrival DEF ListingFailed, Refreshers
    <2>2. /\ UNCHANGED <<conn, info>> /\ Me.at \in Elsewhere /\ AfterRefresh(TRUE)
          /\ Me.h \in Refreshers
      BY <1>14, <2>1 DEF ListingFailed, ArrivesOf, shell, head, Elsewhere
    <2>3. Ends(Id) \/ \E t \in TaskType : Awaits(Id, t) /\ GoesOn(t)
      BY <1>1, <2>2, AfterRefreshStep
    <2> QED
      BY <1>0, <2>2, <2>3, ElsewhereStep
  <1>15. CASE Ran
    <2>1. ArrivesOf({"run", "preview"}, {"query"}, TRUE)
      BY <1>15, Arrival DEF Ran
    <2>2. UNCHANGED <<conn, info>> /\ Me.at \in Elsewhere
      BY <1>15, <2>1 DEF Ran, ArrivesOf, shell, head, Elsewhere
    <2>3. Ends(Id) \/ Awaits(Id, Task("refresh", "tables", NoDb))
      BY <1>15 DEF Ran
    <2>4. Task("refresh", "tables", NoDb) \in TaskType
      BY TaskIs DEF Handlers, Methods
    <2>5. GoesOn(Task("refresh", "tables", NoDb))
      BY DEF GoesOn, Right, Task
    <2> QED
      BY <1>0, <2>2, <2>3, <2>4, <2>5, ElsewhereStep
  <1>16. CASE RunFailed
    <2>1. ArrivesOf({"run", "preview"}, {"query"}, FALSE)
      BY <1>16, Arrival DEF RunFailed
    <2>2. UNCHANGED <<conn, info>> /\ Me.at \in Elsewhere /\ Ends(Id)
      BY <1>16, <2>1 DEF RunFailed, ArrivesOf, shell, head, Elsewhere
    <2> QED
      BY <1>0, <2>2, ElsewhereStep
  <1>17. CASE Detailed
    <2>1. ArrivesOf({"schema"}, {"detail"}, TRUE)
      BY <1>17, Arrival DEF Detailed
    <2>2. UNCHANGED <<conn, info>> /\ Me.at \in Elsewhere /\ Ends(Id)
      BY <1>17, <2>1 DEF Detailed, ArrivesOf, shell, head, Elsewhere
    <2> QED
      BY <1>0, <2>2, ElsewhereStep
  <1> QED
    BY <1>2, <1>3, <1>4, <1>5, <1>6, <1>7, <1>8, <1>9, <1>10, <1>11, <1>12, <1>13, <1>14,
       <1>15, <1>16, <1>17 DEF Resumes

LEMMA FirstPagePath ==
    ASSUME NEW k \in Conns, k.db = NoDb => k = NoConn, FirstPage(k)
    PROVE  PathInv'
PROOF
  <1>1. /\ conn' = k /\ DOMAIN calls' = {1} /\ calls'[1].task = 1 /\ Ids(calls)' = {1}
        /\ calls'[1].method = "current" /\ calls'[1].db = NoDb /\ calls'[1].text = "none"
        /\ tasks' = [i \in {1} |-> Task("launch", "current", NoDb)]
        /\ DOMAIN replies' = {} /\ replies' = << >> /\ Ids(replies)' = {}
        /\ dialog' = 0 /\ info' = NoConn
    BY DEF FirstPage, Ids
  <1>2. /\ DOMAIN tasks' = {1} /\ tasks'[1].at = "current" /\ tasks'[1].h = "launch"
        /\ tasks'[1].db = NoDb /\ tasks'[1].text = "none"
    BY <1>1 DEF Task
  <1>3. Guards'
    <2>1. TasksRight'
      BY <1>2 DEF TasksRight, Right
    <2> QED
      BY <1>1, <1>2, <2>1 DEF Guards, CallsMatch, DialogPicks, ConnWhole, CurrentFirst
  <1>4. Settled'
    BY <1>1, <1>2 DEF Settled
  <1> QED
    BY <1>3, <1>4 DEF PathInv

LEMMA InitPath == Init => PathInv
PROOF
  <1> SUFFICES ASSUME Init PROVE PathInv
    OBVIOUS
  <1>1. /\ conn = NoConn /\ info = NoConn /\ calls = << >> /\ replies = << >> /\ dialog = 0
        /\ DOMAIN tasks = {}
    BY DEF Init
  <1>2. DOMAIN calls = {} /\ DOMAIN replies = {} /\ Ids(calls) = {}
    BY <1>1 DEF Ids
  <1>3. Guards
    BY <1>1, <1>2 DEF Guards, CallsMatch, TasksRight, DialogPicks, ConnWhole, CurrentFirst
  <1> QED
    BY <1>1, <1>2, <1>3 DEF PathInv, Settled

LEMMA NextPath == Typed /\ PathInv /\ [Next]_vars => PathInv'
PROOF
  <1> SUFFICES ASSUME Typed, PathInv, [Next]_vars PROVE PathInv'
    OBVIOUS
  <1>1. ASSUME UNCHANGED <<conn, calls, replies, dialog, tasks, info, hidden>> PROVE PathInv'
    <2>1. CallsMatch' /\ TasksRight' /\ DialogPicks' /\ ConnWhole'
      BY <1>1 DEF PathInv, Guards, CallsMatch, TasksRight, DialogPicks, ConnWhole
    <2>2. Ids(calls)' = Ids(calls) /\ Ids(replies)' = Ids(replies)
      BY <1>1 DEF Ids
    <2>3. CurrentFirst'
      BY <1>1, <2>2 DEF PathInv, Guards, CurrentFirst
    <2>4. (Settled => Settled') /\ (Pending => Pending')
      BY <1>1, <2>2 DEF Settled, Pending, Moves
    <2> QED
      BY <2>1, <2>3, <2>4 DEF PathInv, Guards
  <1>2. CASE Launch
    <2>1. NoConn \in Conns
      BY Defaults
    <2>2. \A f \in Files \ {Stray}, mode \in Modes :
              [db |-> f, mode |-> mode] \in Conns /\ f # NoDb
      BY ConstantsAssumption DEF Conns, Dbs
    <2>3. FirstPage(NoConn) \/ \E f \in Files \ {Stray}, mode \in Modes :
                                   FirstPage([db |-> f, mode |-> mode])
      BY <1>2 DEF Launch
    <2> QED
      BY <2>1, <2>2, <2>3, FirstPagePath
  <1>3. CASE Executes
    BY <1>3, ExecutesPath
  <1>4. CASE Resumes
    BY <1>4, ResumesTyped, ResumesPath, PathStepKeeps DEF PathInv, Guards
  <1>5. CASE ClosesDialog
    BY <1>5, CloseDialogPath DEF ClosesDialog
  <1>6. CASE ClickData \/ ToggleMenu
    BY <1>1, <1>6 DEF ClickData, ToggleMenu, shell, wire, head, late
  <1>7. CASE Clicks
    BY <1>6, <1>7, ClicksBegin, BeginsPath
  <1>8. CASE UNCHANGED vars
    BY <1>1, <1>8 DEF vars, shell, wire, head, late
  <1> QED
    BY <1>2, <1>3, <1>4, <1>5, <1>7, <1>8 DEF Next

LEMMA PathInvShows == Typed /\ PathInv => PathShown
PROOF
  <1> SUFFICES ASSUME Typed, PathInv, DOMAIN tasks = {}
               PROVE  info = conn \/ (hidden /\ info = NoConn)
    BY DEF PathShown, Quiet
  <1>1. Ids(calls) = {} /\ DOMAIN replies = {}
    BY Messages
  <1> QED
    BY <1>1 DEF PathInv, Settled, Pending

\* When every handler has returned, the top bar shows the path and badges of the
\* connection the shell has (applyConn after open, memory and the launch), however opens,
\* failures and replies overlapped; or none, where the launch's failed reopening hid the
\* connection another handler had opened meanwhile (App.tsx:139-142).
THEOREM PathIsShown == Spec => []PathShown
PROOF BY AlwaysTyped, InitPath, NextPath, PathInvShows, PTL DEF Spec

-----------------------------------------------------------------------------
(* What the page shows: its result, its tables, its columns *)

Fields == {"result", "tables", "columns"}
Field(p) == IF p = "result" THEN result ELSE IF p = "tables" THEN tables ELSE columns

\* What is shown is of the connection, or nothing; what a reply puts there.
OnTime(p, v) == IF p = "result" THEN v.db \in {conn.db, NoDb} ELSE v \in {Now, Empty}
Brings(p, r) ==
    IF p = "result" THEN r.conn
    ELSE IF r.ok THEN [db |-> r.conn.db, ver |-> r.ver] ELSE Empty
Fit(p, v) == p = "result" => v.db # NoDb

\* A reply that sets the field; a task about to set or blank it; a reply after which it is
\* set or blanked.
Sets(p, ts, r) ==
    IF p = "result" THEN r.ok /\ ts[r.task].at = "query"
    ELSE ts[r.task].at = p \/ (~r.ok /\ ts[r.task].at \in {"tables", "columns"})
Leads(p, t) ==
    IF p = "result" THEN t.h = "convert" /\ t.at \in {"tables", "columns"}
    ELSE t.at \in {"tables", p}
Refreshes(t) == t.at \in {"open", "memory"} \/ (t.at = "query" /\ t.text \in {"ddl", "import"})
Renews(p, ts, r) ==
    \/ Leads(p, ts[r.task])
    \/ IF p = "result"
       THEN r.ok /\ ts[r.task].at \in {"open", "memory"}
       ELSE Sets(p, ts, r) \/ (r.ok /\ Refreshes(ts[r.task]))

\* After the i-th reply something is still to come that renews the field.
Awaited(p, i) ==
    \/ \E j \in DOMAIN replies : j > i /\ Renews(p, tasks, replies[j])
    \/ \E k \in Ids(calls) : Leads(p, tasks[k])

\* What is shown, or on its way to be, is of the connection or is renewed after that; the
\* launch leaves its result shown.
Shown(p) == OnTime(p, Field(p)) \/ Awaited(p, 0) \/ (p = "result" /\ orphan)
OnItsWay(p) ==
    \A i \in DOMAIN replies : Sets(p, tasks, replies[i]) =>
        /\ Fit(p, Brings(p, replies[i]))
        /\ OnTime(p, Brings(p, replies[i])) \/ Awaited(p, i)
Follows(p) == Shown(p) /\ OnItsWay(p)

Stays(p) == \A v : OnTime(p, v) => OnTime(p, v)'

LEMMA AnsweredFollows ==
    ASSUME Typed, NEW p \in Fields, calls # << >>,
           NEW r \in ReplyType, r.task = Head(calls).task,
           Follows(p) \/ (p # "result" /\ Renews(p, tasks, r)),
           calls' = Tail(calls), replies' = Append(replies, r),
           tasks' = tasks, Field(p)' = Field(p), orphan' = orphan,
           Stays(p) \/ Renews(p, tasks, r),
           Sets(p, tasks, r) => Fit(p, Brings(p, r)) /\ OnTime(p, Brings(p, r))'
    PROVE  Follows(p)'
PROOF
  <1> DEFINE n == Len(replies)
  <1>1. /\ n \in Nat /\ DOMAIN replies = 1..n /\ DOMAIN replies' = 1..(n + 1)
        /\ \A i \in 1..n : replies'[i] = replies[i]
        /\ replies'[n + 1] = r
    BY AppendFacts DEF Typed, Wired
  <1> HIDE DEF n
  <1>2. Ids(calls)' = Ids(calls) \ {r.task}
    <2>1. Ids(calls') = Ids(calls) \ {r.task}
      BY Dropped DEF Typed, Wired, One
    <2>2. Ids(calls)' = Ids(calls')
      BY DEF Ids
    <2> QED
      BY <2>1, <2>2
  <1>3. ASSUME NEW i \in 0..n, Renews(p, tasks, r) PROVE Awaited(p, i)'
    <2>1. n + 1 \in DOMAIN replies' /\ n + 1 > i
      BY <1>1
    <2>2. Renews(p, tasks', replies'[n + 1])
      BY <1>1, <1>3
    <2> QED
      BY <2>1, <2>2 DEF Awaited, Renews, Sets, Leads, Refreshes
  <1>4. ASSUME NEW i \in 0..n, Awaited(p, i) PROVE Awaited(p, i)'
    <2>1. ASSUME NEW j \in DOMAIN replies, j > i, Renews(p, tasks, replies[j])
          PROVE  Awaited(p, i)'
      <3>1. j \in DOMAIN replies' /\ replies'[j] = replies[j]
        BY <1>1
      <3>2. Renews(p, tasks', replies'[j])
        BY <2>1, <3>1
      <3> QED
        BY <2>1, <3>1, <3>2 DEF Awaited, Renews, Sets, Leads, Refreshes
    <2>2. ASSUME NEW k \in Ids(calls), Leads(p, tasks[k]) PROVE Awaited(p, i)'
      <3>1. CASE k = r.task
        BY <1>3, <2>2, <3>1 DEF Renews
      <3>2. CASE k # r.task
        BY <1>2, <2>2, <3>2 DEF Awaited, Leads
      <3> QED
        BY <3>1, <3>2
    <2> QED
      BY <1>4, <2>1, <2>2 DEF Awaited
  <1>5. ASSUME NEW v, NEW i \in 0..n, OnTime(p, v) \/ Awaited(p, i)
        PROVE  OnTime(p, v)' \/ Awaited(p, i)'
    BY <1>3, <1>4, <1>5 DEF Stays
  <1>6. Shown(p)'
    <2>1. 0 \in 0..n
      BY <1>1
    <2>2. Renews(p, tasks, r) \/ OnTime(p, Field(p)) \/ Awaited(p, 0)
            \/ (p = "result" /\ orphan)
      BY DEF Follows, Shown
    <2>5. CASE p = "result" /\ orphan
      BY <2>5 DEF Shown
    <2>3. CASE OnTime(p, Field(p)) /\ Stays(p)
      <3>1. OnTime(p, Field(p))'
        BY <2>3 DEF Stays, OnTime
      <3> QED
        BY <3>1 DEF Shown
    <2>4. CASE Renews(p, tasks, r) \/ Awaited(p, 0)
      BY <1>3, <1>4, <2>1, <2>4 DEF Shown
    <2> QED
      BY <2>2, <2>3, <2>4, <2>5
  <1>7. OnItsWay(p)'
    <2> SUFFICES ASSUME NEW i \in DOMAIN replies', Sets(p, tasks, replies'[i])
                 PROVE  /\ Fit(p, Brings(p, replies'[i]))
                        /\ OnTime(p, Brings(p, replies[i]))' \/ Awaited(p, i)'
      BY DEF OnItsWay, Sets, Fit, Brings
    <2>1. CASE i = n + 1
      BY <1>1, <2>1 DEF OnTime, Brings
    <2>2. CASE i \in 1..n
      <3>1. i \in 0..n /\ i \in DOMAIN replies /\ replies'[i] = replies[i]
        BY <1>1, <2>2
      <3>2. /\ Fit(p, Brings(p, replies[i]))
            /\ \/ Renews(p, tasks, r)
               \/ OnTime(p, Brings(p, replies[i])) \/ Awaited(p, i)
        BY <2>2, <3>1 DEF Follows, OnItsWay, Fit
      <3>3. CASE OnTime(p, Brings(p, replies[i])) /\ Stays(p)
        BY <3>1, <3>2, <3>3 DEF Stays, OnTime, Brings
      <3>4. CASE Renews(p, tasks, r) \/ Awaited(p, i)
        BY <1>3, <1>4, <3>1, <3>2, <3>4
      <3> QED
        BY <3>2, <3>3, <3>4
    <2> QED
      BY <1>1, <2>1, <2>2
  <1> QED
    BY <1>6, <1>7 DEF Follows

\* The shell's reply to the call at the head.
LEMMA ReplyFollows ==
    ASSUME Typed, PathInv, NEW p \in Fields, calls # << >>,
           NEW ok \in BOOLEAN, NEW k \in Conns, NEW v \in 0..MaxVer,
           Answer(Head(calls), ok, k, v), tasks' = tasks, Field(p)' = Field(p),
           orphan' = orphan,
           \/ Follows(p)
           \/ p # "result" /\ Head(calls).method = "tables"
           \/ p # "result" /\ ok /\ Refreshes(tasks[Head(calls).task]),
           \/ Stays(p)
           \/ ok /\ Head(calls).method \in {"open", "memory"}
           \/ p # "result" /\ ok /\ Refreshes(tasks[Head(calls).task]),
           p = "result" /\ ok /\ Head(calls).method = "query"
             => k.db # NoDb /\ k.db = conn'.db,
           p # "result" /\ ok /\ Head(calls).method = p
             => [db |-> k.db, ver |-> v] = Now'
    PROVE  Follows(p)'
PROOF
  <1> DEFINE c == Head(calls)
  <1>1. PICK r \in ReplyType : /\ r = Reply(c, ok, k, v) /\ r.task = c.task
                               /\ r.ok = ok /\ r.conn = k /\ r.ver = v
    <2> DEFINE s == Reply(c, ok, k, v)
    <2>1. s \in ReplyType /\ s.task = c.task /\ s.ok = ok /\ s.conn = k /\ s.ver = v
      BY HeadMatches DEF Reply, ReplyType, CallType
    <2> HIDE DEF s
    <2>2. \E x \in ReplyType : x = s
      BY <2>1
    <2> QED
      BY <2>1, <2>2 DEF s
  <1>2. calls' = Tail(calls) /\ replies' = Append(replies, r)
    BY <1>1 DEF Answer
  <1>3. c.method = tasks[c.task].at
    BY HeadMatches
  <1>4. /\ Stays(p) \/ Renews(p, tasks, r)
        /\ Follows(p) \/ (p # "result" /\ Renews(p, tasks, r))
    BY <1>1, <1>3 DEF Renews, Refreshes, Leads
  <1>5. ASSUME Sets(p, tasks, r) PROVE Fit(p, Brings(p, r)) /\ OnTime(p, Brings(p, r))'
    <2>1. CASE p = "result"
      <3>1. k.db # NoDb /\ k.db = conn'.db
        BY <1>1, <1>3, <1>5, <2>1 DEF Sets
      <3> QED
        BY <1>1, <2>1, <3>1 DEF Fit, Brings, OnTime
    <2>2. CASE p # "result" /\ ok
      <3>1. [db |-> k.db, ver |-> v] = Now'
        BY <1>1, <1>3, <1>5, <2>2 DEF Sets
      <3> QED
        BY <1>1, <2>2, <3>1 DEF Fit, Brings, OnTime
    <2>3. CASE p # "result" /\ ~ok
      BY <1>1, <2>3 DEF Fit, Brings, OnTime, Empty
    <2> QED
      BY <2>1, <2>2, <2>3
  <1> QED
    BY <1>1, <1>2, <1>4, <1>5, AnsweredFollows

\* Replies that set nothing and calls may be added.
LEMMA AddedFollows ==
    ASSUME Typed, NEW p \in Fields, Follows(p), Field(p)' = Field(p), Stays(p),
           orphan' = orphan,
           \A i \in DOMAIN replies :
               /\ i \in DOMAIN replies' /\ replies'[i] = replies[i]
               /\ tasks'[replies[i].task] = tasks[replies[i].task],
           \A i \in DOMAIN replies' : i \in DOMAIN replies \/ ~Sets(p, tasks', replies'[i]),
           \A k \in Ids(calls) : Leads(p, tasks[k]) =>
               k \in Ids(calls)' /\ tasks'[k] = tasks[k]
    PROVE  Follows(p)'
PROOF
  <1>1. \A j \in DOMAIN replies : Renews(p, tasks, replies[j]) => Renews(p, tasks', replies'[j])
    BY DEF Renews, Sets
  <1>2. \A i : Awaited(p, i) => Awaited(p, i)'
    BY <1>1 DEF Awaited, Renews, Sets, Leads, Refreshes
  <1>3. \A v : OnTime(p, v) => OnTime(p, v)'
    BY DEF Stays
  <1>4. Shown(p)'
    BY <1>2, <1>3 DEF Follows, Shown
  <1>5. OnItsWay(p)'
    <2> SUFFICES ASSUME NEW i \in DOMAIN replies', Sets(p, tasks', replies'[i])
                 PROVE  /\ Fit(p, Brings(p, replies'[i]))
                        /\ OnTime(p, Brings(p, replies[i]))' \/ Awaited(p, i)'
      BY DEF OnItsWay, Sets, Fit, Brings
    <2>1. i \in DOMAIN replies /\ replies'[i] = replies[i] /\ Sets(p, tasks, replies[i])
      BY DEF Sets
    <2>2. /\ Fit(p, Brings(p, replies[i]))
          /\ OnTime(p, Brings(p, replies[i])) \/ Awaited(p, i)
      BY <2>1 DEF Follows, OnItsWay
    <2>3. CASE OnTime(p, Brings(p, replies[i]))
      BY <2>1, <2>2, <2>3, <1>3 DEF OnTime, Brings
    <2>4. CASE Awaited(p, i)
      BY <1>2, <2>1, <2>2, <2>4
    <2> QED
      BY <2>2, <2>3, <2>4
  <1> QED
    BY <1>4, <1>5 DEF Follows

LEMMA ExecutesFollows ==
    ASSUME Typed, PathInv, Executes, NEW p \in Fields,
           Follows(p) \/ (p # "result" /\ unseen)
    PROVE  Follows(p)' \/ (p # "result" /\ unseen')
PROOF
  <1> DEFINE c == Head(calls)
  <1>1. calls # << >>
    BY DEF Executes, Current, Opens, Lists, Queries, Converts, Builds, ShowDialog, Serves
  <1>2. tasks' = tasks /\ Field(p)' = Field(p) /\ orphan' = orphan
    BY DEF Executes, Current, Opens, Lists, Queries, Converts, Builds, ShowDialog,
           Untouched, sidebar, pane, late, Field
  <1>3. 0 \in 0..MaxVer /\ conn \in Conns /\ Now.ver \in 0..MaxVer
    BY Bounds DEF Typed, Shell, Now, Conns
  <1>4. ASSUME conn' = conn, p = "result" \/ Now' = Now PROVE Stays(p)
    BY <1>4 DEF Stays, OnTime
  <1>5. ASSUME UNCHANGED <<conn, ver>> PROVE Now' = Now /\ Stays(p)
    BY <1>4, <1>5 DEF Now
  <1>6. p = "result" \/ p \in {"tables", "columns"}
    BY DEF Fields
  <1>14. ASSUME ~Opens, ~(Lists /\ c.method = "tables"), ~Follows(p)
         PROVE  p # "result" /\ unseen'
    <2>1. p # "result" /\ unseen
      BY <1>14
    <2>2. CASE Current \/ Builds \/ ShowDialog
      BY <2>1, <2>2 DEF Current, Builds, ShowDialog, shell
    <2>3. CASE Lists
      BY <1>14, <2>1, <2>3 DEF Lists, Serves
    <2>4. CASE Queries
      BY <2>1, <2>4 DEF Queries
    <2>5. CASE Converts
      BY <2>1, <2>5 DEF Converts
    <2> QED
      BY <1>14, <2>1, <2>2, <2>3, <2>4, <2>5 DEF Executes
  <1>7. CASE Current /\ Follows(p)
    BY <1>1, <1>2, <1>3, <1>5, <1>6, <1>7, ReplyFollows DEF Current, Serves, shell
  <1>8. CASE Opens
    <2>1. /\ c.method \in {"open", "memory"} /\ c.db # NoDb
          /\ \/ \E mode \in Modes :
                   /\ conn' = [db |-> c.db, mode |-> mode]
                   /\ Answer(c, TRUE, [db |-> c.db, mode |-> mode], 0)
             \/ UNCHANGED <<conn, ver, unseen>> /\ Answer(c, FALSE, conn, 0)
      <3>1. c.method \in {"open", "memory"}
        BY <1>8 DEF Opens, Serves
      <3>2. c.db # NoDb
        BY <1>1, <3>1, HeadMatches DEF PathInv, Guards, TasksRight, Right
      <3> QED
        BY <1>8, <3>1, <3>2 DEF Opens
    <2>2. c \in CallType /\ c.method = tasks[c.task].at
      BY <1>1, HeadMatches
    <2>3. ASSUME NEW mode \in Modes, conn' = [db |-> c.db, mode |-> mode],
                 Answer(c, TRUE, [db |-> c.db, mode |-> mode], 0)
          PROVE  Follows(p)'
      <3>1. conn' \in Conns /\ Answer(c, TRUE, conn', 0)
        BY <2>2, <2>3 DEF CallType, Conns
      <3>2. p # "result" => Refreshes(tasks[c.task])
        BY <2>1, <2>2 DEF Refreshes
      <3> QED
        BY <1>1, <1>2, <1>3, <1>6, <2>1, <3>1, <3>2, ReplyFollows
    <2>4. ASSUME UNCHANGED <<conn, ver, unseen>>, Answer(c, FALSE, conn, 0)
          PROVE  Follows(p)' \/ (p # "result" /\ unseen')
      BY <1>1, <1>2, <1>3, <1>5, <2>4, ReplyFollows
    <2> QED
      BY <2>1, <2>3, <2>4
  <1>9. CASE Lists /\ (Follows(p) \/ c.method = "tables")
    <2>1. /\ c.method \in {"tables", "columns", "detail"} /\ UNCHANGED <<conn, ver>>
          /\ \E ok \in BOOLEAN : Answer(c, ok, conn, Now.ver)
      BY <1>9 DEF Lists, Serves, shell
    <2>2. [db |-> conn.db, ver |-> Now.ver] = Now'
      BY <1>5, <2>1 DEF Now
    <2> QED
      BY <1>1, <1>2, <1>3, <1>5, <1>9, <2>1, <2>2, ReplyFollows
  <1>10. CASE Queries /\ Follows(p)
    <2>1. /\ c.method = "query" /\ conn' = conn
          /\ \/ conn.db # NoDb /\ Answer(c, TRUE, conn, 0)
                /\ (c.text \in {"ddl", "import"} \/ ver' = ver \/ unseen')
             \/ UNCHANGED ver /\ Answer(c, FALSE, conn, 0)
             \/ unseen' = TRUE /\ Answer(c, FALSE, conn, 0)
      BY <1>10 DEF Queries, Serves, Changing
    <2>2. c.method = tasks[c.task].at /\ c.text = tasks[c.task].text
      BY <1>1, HeadMatches
    <2>3. ASSUME conn.db # NoDb, Answer(c, TRUE, conn, 0),
                 c.text \in {"ddl", "import"} \/ ver' = ver \/ p = "result"
          PROVE  Follows(p)'
      <3>1. Stays(p) \/ (p # "result" /\ Refreshes(tasks[c.task]))
        BY <1>4, <1>5, <2>1, <2>2, <2>3 DEF Refreshes
      <3> QED
        BY <1>1, <1>2, <1>3, <1>6, <1>10, <2>1, <2>3, <3>1, ReplyFollows
    <2>4. ASSUME ver' = ver \/ p = "result", Answer(c, FALSE, conn, 0) PROVE Follows(p)'
      BY <1>1, <1>2, <1>3, <1>4, <1>5, <1>10, <2>1, <2>4, ReplyFollows
    <2> QED
      BY <2>1, <2>3, <2>4
  <1>11. CASE Converts /\ Follows(p)
    <2>1. /\ c.method = "convert" /\ conn' = conn
          /\ \E ok \in BOOLEAN : Answer(c, ok, conn, 0)
          /\ \/ ver' = ver
             \/ ver' = [ver EXCEPT ![c.db] = @ + 1] /\ (unseen' \/ conn.db # c.db)
      BY <1>11 DEF Converts, Serves
    <2>2. unseen' \/ Now' = Now
      <3>1. conn.db = NoDb \/ conn.db \in Dbs
        BY DEF Typed, Shell, Conns
      <3>2. ASSUME ver' = [ver EXCEPT ![c.db] = @ + 1], conn.db # c.db, conn.db \in Dbs
            PROVE  ver'[conn.db] = ver[conn.db]
        BY <3>2 DEF Typed, Shell
      <3> QED
        BY <2>1, <3>1, <3>2 DEF Now
    <2>3. ASSUME Now' = Now \/ p = "result" PROVE Follows(p)'
      BY <1>1, <1>2, <1>3, <1>4, <1>6, <1>11, <2>1, <2>3, ReplyFollows
    <2> QED
      BY <2>2, <2>3
  <1>12. CASE Builds /\ Follows(p)
    <2>1. /\ c.method = "build" /\ UNCHANGED <<conn, ver>>
          /\ \E ok \in BOOLEAN : Answer(c, ok, conn, 0)
      BY <1>12 DEF Builds, Serves, shell
    <2> QED
      BY <1>1, <1>2, <1>3, <1>5, <1>6, <1>12, <2>1, ReplyFollows
  <1>13. CASE ShowDialog /\ Follows(p)
    <2>1. /\ calls' = Tail(calls) /\ replies' = replies /\ UNCHANGED <<conn, ver>>
          /\ c.method = "pick"
      BY <1>13 DEF ShowDialog, Serves, shell
    <2>2. tasks[c.task].at = "pick"
      BY <1>1, <2>1, HeadMatches
    <2>3. Ids(calls') = Ids(calls) \ {c.task}
      BY <1>1, <2>1, Dropped DEF Typed, Wired, One
    <2>4. Ids(calls)' = Ids(calls')
      BY DEF Ids
    <2>5. \A k \in Ids(calls) : Leads(p, tasks[k]) => k \in Ids(calls)'
      BY <1>6, <2>2, <2>3, <2>4 DEF Leads
    <2> QED
      BY <1>2, <1>5, <1>13, <2>1, <2>5, AddedFollows
  <1> QED
    BY <1>7, <1>8, <1>9, <1>10, <1>11, <1>12, <1>13, <1>14 DEF Executes

LEMMA BeginsFollows ==
    ASSUME Typed, NEW p \in Fields, Follows(p), NEW t \in TaskType, Begins(t)
    PROVE  Follows(p)'
PROOF
  <1>1. UNCHANGED <<replies, conn, ver, orphan>> /\ Field(p)' = Field(p)
    BY DEF Begins, Starts, shell, sidebar, pane, late, Field
  <1>2. \A k \in DOMAIN tasks : tasks'[k] = tasks[k]
    BY StartsWired DEF Begins, Typed
  <1>3. \A k \in Ids(calls) : k \in Ids(calls)' /\ tasks'[k] = tasks[k]
    <2> DEFINE id == CHOOSE k \in 1..MaxTasks : k \notin DOMAIN tasks
               c == [task |-> id, method |-> t.at, db |-> t.db, text |-> t.text,
                     src |-> t.src]
    <2>1. id \in 1..MaxTasks /\ id \notin DOMAIN tasks
      BY FreeTask DEF Begins, Starts, Typed
    <2>2. calls' = Append(calls, c)
      BY DEF Begins, Starts, Awaits
    <2> HIDE DEF id
    <2>3. c \in CallType /\ c.task = id
      BY <2>1, Bounds DEF CallType, TaskType
    <2> HIDE DEF c
    <2>4. Ids(Append(calls, c)) = Ids(calls) \cup {id}
      BY <2>1, <2>3, Messages, Added DEF Typed, Wired, One
    <2>5. Ids(calls)' = Ids(calls')
      BY DEF Ids
    <2> QED
      BY <1>2, <2>2, <2>4, <2>5, Messages
  <1>4. \A i \in DOMAIN replies : tasks'[replies[i].task] = tasks[replies[i].task]
    BY <1>2, Messages
  <1>5. Stays(p)
    BY <1>1 DEF Stays, OnTime, Now
  <1> QED
    BY <1>1, <1>3, <1>4, <1>5, AddedFollows

LEMMA CloseDialogFollows ==
    ASSUME Typed, PathInv, NEW p \in Fields, Follows(p),
           NEW f \in Files \cup {NoDb}, CloseDialog(f)
    PROVE  Follows(p)'
PROOF
  <1> DEFINE r == [task |-> dialog, ok |-> TRUE, conn |-> [NoConn EXCEPT !.db = f], ver |-> 0]
             n == Len(replies)
  <1>1. dialog \in Nat /\ dialog # 0 /\ tasks[dialog].at = "pick"
    BY Bounds DEF CloseDialog, Typed, Wired, One, PathInv, Guards, DialogPicks
  <1>2. [NoConn EXCEPT !.db = f] \in Conns
    BY DEF NoConn, Conns, Dbs
  <1>3. r \in ReplyType /\ r.task = dialog
    BY <1>1, <1>2, Bounds DEF ReplyType
  <1>4. /\ replies' = Append(replies, r) /\ Field(p)' = Field(p)
        /\ UNCHANGED <<calls, tasks, conn, ver, orphan>>
    BY DEF CloseDialog, Untouched, shell, sidebar, pane, late, Field
  <1>5. r.ok
    OBVIOUS
  <1> HIDE DEF r
  <1>6. /\ n \in Nat /\ DOMAIN replies = 1..n /\ DOMAIN replies' = 1..(n + 1)
        /\ \A i \in 1..n : replies'[i] = replies[i]
        /\ replies'[n + 1] = r
    BY <1>3, <1>4, AppendFacts DEF Typed, Wired
  <1> HIDE DEF n
  <1>7. ~Sets(p, tasks', r)
    BY <1>1, <1>3, <1>4, <1>5 DEF Sets, Fields
  <1>8. Ids(calls)' = Ids(calls)
    BY <1>4 DEF Ids
  <1>9. \A i \in DOMAIN replies : i \in DOMAIN replies' /\ replies'[i] = replies[i]
    BY <1>6
  <1>10. \A i \in DOMAIN replies' : i \in DOMAIN replies \/ replies'[i] = r
    BY <1>6
  <1>11. Stays(p)
    BY <1>4 DEF Stays, OnTime, Now
  <1> QED
    BY <1>4, <1>7, <1>8, <1>9, <1>10, <1>11, AddedFollows

\* What a handler that is resumed does to the field.
FieldStep(p) ==
    /\ UNCHANGED <<conn, ver>>
    /\ \/ Field(p)' = IF p = "result" THEN Blank ELSE Empty
       \/ /\ Field(p)' = Field(p)
          /\ p = "result" /\ orphan => result = Blank \/ orphan'
          /\ Renews(p, tasks, Head(replies)) =>
                 \/ \E t \in TaskType : Awaits(Id, t) /\ Leads(p, t)
                 \/ p = "result" /\ (result = Blank \/ orphan')
       \/ /\ Sets(p, tasks, Head(replies))
          /\ IF p = "result" THEN result'.db = Head(replies).conn.db
             ELSE Field(p)' = Brings(p, Head(replies))

LEMMA FieldStepKeeps ==
    ASSUME Typed, NEW p \in Fields, Follows(p), Resumed, FieldStep(p)
    PROVE  Follows(p)'
PROOF
  <1> DEFINE n == Len(replies)
  <1>1. /\ n \in Nat \ {0} /\ DOMAIN replies = 1..n /\ Head(replies) = replies[1]
        /\ DOMAIN replies' = 1..(n - 1)
    BY TailFacts DEF Typed, Wired, Resumed
  <1> HIDE DEF n
  <1>2. /\ \A i \in DOMAIN replies : i # 1 =>
              /\ i - 1 \in DOMAIN replies' /\ replies'[i - 1] = replies[i]
              /\ tasks'[replies[i].task] = tasks[replies[i].task]
        /\ \A i \in DOMAIN replies' :
              /\ i + 1 \in DOMAIN replies /\ i + 1 # 1 /\ replies'[i] = replies[i + 1]
              /\ tasks'[replies'[i].task] = tasks[replies[i + 1].task]
    BY ReplyTaken
  <1>3. Id \in Nat /\ Id \notin Ids(calls) /\ UNCHANGED <<conn, ver>>
    <2>1. Id \in Ids(replies)
      BY Dropped DEF Typed, Wired, One, Id, Resumed
    <2> QED
      BY <2>1, HeadInFlight, Messages DEF Typed, Resumed, FieldStep
  <1>4. ASSUME NEW t \in TaskType, Awaits(Id, t)
        PROVE  Ids(calls)' = Ids(calls) \cup {Id} /\ tasks'[Id] = t
    <2> DEFINE c == [task |-> Id, method |-> t.at, db |-> t.db, text |-> t.text,
                     src |-> t.src]
    <2>1. calls' = Append(calls, c) /\ tasks'[Id] = t
      BY <1>4 DEF Awaits
    <2>2. c \in CallType /\ c.task = Id
      BY <1>3 DEF CallType, TaskType
    <2> HIDE DEF c
    <2>3. Ids(calls') = Ids(calls) \cup {Id}
      BY <1>3, <2>1, <2>2, Added DEF Typed, Wired, One
    <2>4. Ids(calls)' = Ids(calls')
      BY DEF Ids
    <2> QED
      BY <2>1, <2>3, <2>4
  <1>5. \A k \in Ids(calls) : k \in Ids(calls)' /\ tasks'[k] = tasks[k]
    <2>1. \A k \in DOMAIN tasks : k # Id => tasks'[k] = tasks[k]
      BY DEF Resumed, Ends, Awaits
    <2>2. Ids(calls) \subseteq Ids(calls)'
      <3>1. CASE Ends(Id)
        BY <3>1 DEF Ends, Ids
      <3>2. CASE \E t \in TaskType : Awaits(Id, t)
        BY <1>4, <3>2
      <3> QED
        BY <3>1, <3>2 DEF Resumed
    <2> QED
      BY <1>3, <2>1, <2>2, Messages
  <1>6. ASSUME NEW i \in 0..n, NEW j \in DOMAIN replies, j > i, j # 1,
               Renews(p, tasks, replies[j])
        PROVE  Awaited(p, i - 1)'
    <2>1. j - 1 \in DOMAIN replies' /\ replies'[j - 1] = replies[j] /\ j - 1 > i - 1
      BY <1>1, <1>2, <1>6
    <2>2. Renews(p, tasks', replies'[j - 1])
      BY <1>2, <1>6, <2>1 DEF Renews, Sets
    <2> QED
      BY <2>1, <2>2 DEF Awaited, Renews, Sets, Leads, Refreshes
  <1>7. ASSUME NEW k \in Ids(calls), Leads(p, tasks[k]) PROVE \A i : Awaited(p, i)'
    BY <1>5, <1>7 DEF Awaited, Leads
  <1>8. ASSUME NEW i \in 1..n, Awaited(p, i) PROVE Awaited(p, i - 1)'
    <2>1. i \in 0..n /\ \A j \in DOMAIN replies : j > i => j # 1
      BY <1>1
    <2> QED
      BY <1>6, <1>7, <1>8, <2>1 DEF Awaited
  <1>9. \A v : OnTime(p, v) => OnTime(p, v)'
    BY <1>3 DEF OnTime, Now
  <1>10. Awaited(p, 1) => Awaited(p, 0)'
    <2>1. 1 \in 1..n /\ 1 - 1 = 0
      BY <1>1
    <2>2. Awaited(p, 1) => Awaited(p, 1 - 1)'
      BY <1>8, <2>1
    <2> QED
      BY <2>1, <2>2
  <1>11. ASSUME Awaited(p, 0), Renews(p, tasks, Head(replies)) =>
                                   \E t \in TaskType : Awaits(Id, t) /\ Leads(p, t)
         PROVE  Awaited(p, 0)'
    <2>1. CASE Renews(p, tasks, Head(replies))
      <3>1. \E k \in Ids(calls)' : Leads(p, tasks'[k])
        BY <1>4, <1>11, <2>1
      <3> QED
        BY <3>1 DEF Awaited, Leads
    <2>2. ASSUME NEW j \in DOMAIN replies, Renews(p, tasks, replies[j]),
                 ~Renews(p, tasks, Head(replies))
          PROVE  Awaited(p, 0)'
      <3>1. j # 1 /\ j > 1
        BY <1>1, <2>2
      <3>2. Awaited(p, 1)
        BY <2>2, <3>1 DEF Awaited
      <3> QED
        BY <1>10, <3>2
    <2> QED
      BY <1>7, <1>11, <2>1, <2>2 DEF Awaited
  <1>12. OnItsWay(p)'
    <2> SUFFICES ASSUME NEW i \in DOMAIN replies', Sets(p, tasks', replies'[i])
                 PROVE  /\ Fit(p, Brings(p, replies'[i]))
                        /\ OnTime(p, Brings(p, replies[i]))' \/ Awaited(p, i)'
      BY DEF OnItsWay, Sets, Fit, Brings
    <2>1. /\ i + 1 \in DOMAIN replies /\ replies'[i] = replies[i + 1]
          /\ i + 1 \in 1..n /\ (i + 1) - 1 = i
      BY <1>1, <1>2
    <2>2. Sets(p, tasks, replies[i + 1])
      BY <1>2, <2>1 DEF Sets
    <2>3. /\ Fit(p, Brings(p, replies[i + 1]))
          /\ OnTime(p, Brings(p, replies[i + 1])) \/ Awaited(p, i + 1)
      BY <2>1, <2>2 DEF Follows, OnItsWay
    <2>4. Awaited(p, i + 1) => Awaited(p, (i + 1) - 1)'
      BY <1>8, <2>1
    <2>5. Awaited(p, i + 1) => Awaited(p, i)'
      BY <2>1, <2>4
    <2>6. OnTime(p, Brings(p, replies[i + 1])) => OnTime(p, Brings(p, replies[i]))'
      BY <1>9, <2>1 DEF OnTime, Brings
    <2> QED
      BY <2>1, <2>3, <2>5, <2>6
  <1>13. Shown(p)'
    <2>1. CASE Field(p)' = IF p = "result" THEN Blank ELSE Empty
      <3>1. OnTime(p, Field(p))'
        BY <2>1 DEF OnTime, Blank, Empty
      <3> QED
        BY <3>1 DEF Shown
    <2>2. CASE /\ Field(p)' = Field(p)
               /\ p = "result" /\ orphan => result = Blank \/ orphan'
               /\ Renews(p, tasks, Head(replies)) =>
                      \/ \E t \in TaskType : Awaits(Id, t) /\ Leads(p, t)
                      \/ p = "result" /\ (result = Blank \/ orphan')
      <3>1. OnTime(p, Field(p)) => OnTime(p, Field(p))'
        BY <1>9, <2>2 DEF OnTime
      <3>2. ASSUME p = "result", result = Blank \/ orphan' PROVE Shown(p)'
        BY <2>2, <3>2 DEF Shown, OnTime, Field, Blank
      <3> QED
        BY <1>11, <2>2, <3>1, <3>2 DEF Follows, Shown
    <2>3. CASE /\ Sets(p, tasks, Head(replies))
               /\ IF p = "result" THEN result'.db = Head(replies).conn.db
                  ELSE Field(p)' = Brings(p, Head(replies))
      <3>1. OnTime(p, Brings(p, Head(replies))) \/ Awaited(p, 1)
        BY <1>1, <2>3 DEF Follows, OnItsWay
      <3>2. OnTime(p, Brings(p, Head(replies))) => OnTime(p, Field(p))'
        BY <1>3, <2>3 DEF OnTime, Field, Brings, Now
      <3> QED
        BY <1>10, <3>1, <3>2 DEF Shown
    <2> QED
      BY <2>1, <2>2, <2>3 DEF FieldStep
  <1> QED
    BY <1>12, <1>13 DEF Follows

\* A handler that goes on to list the schema renews it, and the conversion its result.
LEMMA LeadsTo ==
    ASSUME Me \in TaskType, NEW at \in {"tables", "columns"}, Then(at), NEW p \in Fields,
           p = "result" => Me.h = "convert", p = "tables" => at = "tables"
    PROVE  \E t \in TaskType : Awaits(Id, t) /\ Leads(p, t)
PROOF
  <1> DEFINE t == [Me EXCEPT !.at = at]
  <1>1. t \in TaskType /\ t.at = at /\ t.h = Me.h
    BY DEF Methods, TaskType
  <1>2. Awaits(Id, t)
    BY DEF Then
  <1> HIDE DEF t
  <1> QED
    BY <1>1, <1>2 DEF Leads, Fields

\* The result and the SQL it came from.
ResultSql == result # Blank => result.db # NoDb /\ result = lastSql
ResultStep ==
    \/ result' = Blank
    \/ UNCHANGED <<result, lastSql>>
    \/ Sets("result", tasks, Head(replies)) /\ result'.db = Head(replies).conn.db
       /\ lastSql' = result'

LEMMA AfterRefreshResult ==
    ASSUME Me.h \in Refreshers, NEW failed, AfterRefresh(failed)
    PROVE  result' = Blank \/ (Me.h # "convert" /\ UNCHANGED <<result, lastSql>>)
PROOF
  <1>1. CASE Me.h = "convert"
    BY <1>1 DEF AfterRefresh
  <1>2. CASE Me.h \in {"launch", "refresh"}
    BY <1>2 DEF AfterRefresh, pane
  <1>3. CASE Me.h \in {"open", "memory"}
    BY <1>3 DEF AfterRefresh, pane
  <1>4. CASE Me.h = "newdb"
    BY <1>4 DEF AfterRefresh, pane
  <1>5. CASE Me.h = "import"
    BY <1>5 DEF AfterRefresh, pane
  <1> QED
    BY <1>1, <1>2, <1>3, <1>4, <1>5 DEF Refreshers

LEMMA ResumesResult ==
    ASSUME Typed, TasksRight, Resumes
    PROVE  FieldStep("result") /\ ResultStep
PROOF
  <1> USE DEF Field
  <1>1. Me \in TaskType /\ tasks[Head(replies).task] = Me /\ UNCHANGED <<conn, ver>>
    BY Arrival DEF Resumes, Picked, Launched, Opened, OpenFailed, LaunchFailed, Converted,
       Built, Imported, Exported, Failed, TablesListed, ColumnsListed, ListingFailed, Ran,
       RunFailed, Detailed, Me, Id, ArrivesOf, shell
  <1>0. result' = result => (result = Blank \/
            (orphan' <=> orphan \/ (Me.h = "launch" /\ Me.at = "open" /\ Head(replies).ok)))
    BY DEF Resumes, Remembers
  <1>2. ASSUME UNCHANGED <<result, lastSql>>,
               \/ Me.at \notin {"open", "memory", "tables", "columns"}
               \/ Me.h # "convert" /\ (~Head(replies).ok \/ (Me.h = "launch" /\ Me.at = "open")
                                         \/ Me.at \notin {"open", "memory"})
               \/ Me.at \notin {"tables", "columns"} /\ ~Head(replies).ok
               \/ Then("tables") /\ Me.h = "convert"
               \/ Then("columns") /\ Me.h = "convert"
        PROVE  FieldStep("result") /\ ResultStep
    <2>1. \/ ~Renews("result", tasks, Head(replies))
          \/ Me.h = "convert" /\ (Then("tables") \/ Then("columns"))
          \/ Me.h = "launch" /\ Me.at = "open" /\ Head(replies).ok
      BY <1>1, <1>2 DEF Renews, Leads
    <2>2. Me.h = "convert" /\ (Then("tables") \/ Then("columns")) =>
              \E t \in TaskType : Awaits(Id, t) /\ Leads("result", t)
      BY <1>1, LeadsTo DEF Fields
    <2> QED
      BY <1>0, <1>1, <1>2, <2>1, <2>2 DEF FieldStep, ResultStep
  <1>3. ASSUME result' = Blank PROVE FieldStep("result") /\ ResultStep
    BY <1>1, <1>3 DEF FieldStep, ResultStep
  <1>4. CASE Picked
    <2>1. ArrivesOf({"open", "newdb", "import", "export", "convert"}, {"pick"}, TRUE)
      BY <1>4, Arrival DEF Picked
    <2> QED
      BY <1>2, <1>4, <2>1 DEF Picked, ArrivesOf, pane
  <1>5. CASE Launched
    <2>1. ArrivesOf({"launch"}, {"current"}, TRUE)
      BY <1>5, Arrival DEF Launched
    <2> QED
      BY <1>2, <1>5, <2>1 DEF Launched, ArrivesOf, pane
  <1>6. CASE Opened
    <2>1. ArrivesOf({"open", "newdb", "memory", "launch", "convert"}, {"open", "memory"}, TRUE)
      BY <1>6, Arrival DEF Opened
    <2>2. lastSql' = lastSql /\ Then("tables")
          /\ result' = IF Me.h \in {"launch", "convert"} THEN result ELSE Blank
      BY <1>6 DEF Opened
    <2>3. Me.h = "launch" => Me.at = "open"
      BY <2>1, HeadInFlight DEF ArrivesOf, TasksRight, Right, Me, Typed
    <2> QED
      BY <1>2, <1>3, <2>2, <2>3
  <1>7. CASE OpenFailed
    <2>1. ArrivesOf({"open", "newdb", "memory", "convert"}, {"open", "memory", "convert"}, FALSE)
      BY <1>7, Arrival DEF OpenFailed
    <2> QED
      BY <1>2, <1>7, <2>1 DEF OpenFailed, ArrivesOf, pane
  <1>8. CASE LaunchFailed
    <2>1. ArrivesOf({"launch"}, {"open"}, FALSE)
      BY <1>8, Arrival DEF LaunchFailed
    <2> QED
      BY <1>2, <1>8, <2>1 DEF LaunchFailed, ArrivesOf, pane
  <1>9. CASE Converted
    <2>1. ArrivesOf({"convert"}, {"convert"}, TRUE)
      BY <1>9, Arrival DEF Converted
    <2> QED
      BY <1>2, <1>9, <2>1 DEF Converted, ArrivesOf, pane
  <1>10. CASE Built
    <2>1. ArrivesOf({"import"}, {"build"}, TRUE)
      BY <1>10, Arrival DEF Built
    <2> QED
      BY <1>2, <1>10, <2>1 DEF Built, ArrivesOf, pane
  <1>11. CASE Imported
    <2>1. ArrivesOf({"import"}, {"query"}, TRUE)
      BY <1>11, Arrival DEF Imported
    <2> QED
      BY <1>2, <1>11, <2>1 DEF Imported, ArrivesOf, pane
  <1>12. CASE Exported
    <2>1. ArrivesOf({"export"}, {"query"}, TRUE)
      BY <1>12, Arrival DEF Exported
    <2> QED
      BY <1>2, <1>12, <2>1 DEF Exported, ArrivesOf, pane
  <1>13. CASE Failed
    <2>1. ArrivesOf({"import", "export", "schema"}, {"build", "query", "detail"}, FALSE)
      BY <1>13, Arrival DEF Failed
    <2> QED
      BY <1>2, <1>13, <2>1 DEF Failed, ArrivesOf, pane
  <1>14. CASE TablesListed
    <2>1. ArrivesOf(Refreshers, {"tables"}, TRUE)
      BY <1>14, Arrival DEF TablesListed, Refreshers
    <2>2. UNCHANGED <<result, lastSql>> /\ Then("columns")
      BY <1>14 DEF TablesListed, pane
    <2> QED
      BY <1>2, <2>1, <2>2 DEF ArrivesOf
  <1>15. ASSUME ArrivesOf(Refreshers, {"tables", "columns"}, Head(replies).ok), NEW failed,
                AfterRefresh(failed)
         PROVE  FieldStep("result") /\ ResultStep
    <2>1. Me.at \in {"tables", "columns"} /\ Me.h \in Refreshers
      BY <1>15 DEF ArrivesOf
    <2> QED
      BY <1>2, <1>3, <1>15, <2>1, AfterRefreshResult
  <1>16. CASE ColumnsListed
    <2>1. ArrivesOf(Refreshers, {"columns"}, TRUE) /\ AfterRefresh(FALSE)
      BY <1>16, Arrival DEF ColumnsListed, Refreshers
    <2> QED
      BY <1>15, <2>1 DEF ArrivesOf
  <1>17. CASE ListingFailed
    <2>1. ArrivesOf(Refreshers, {"tables", "columns"}, FALSE) /\ AfterRefresh(TRUE)
      BY <1>17, Arrival DEF ListingFailed, Refreshers
    <2> QED
      BY <1>15, <2>1 DEF ArrivesOf
  <1>18. CASE Ran
    <2>1. ArrivesOf({"run", "preview"}, {"query"}, TRUE)
      BY <1>18, Arrival DEF Ran
    <2>2. Sets("result", tasks, Head(replies))
      BY <1>1, <2>1 DEF ArrivesOf, Sets
    <2>3. result'.db = Head(replies).conn.db /\ lastSql' = result'
      BY <1>18 DEF Ran
    <2> QED
      BY <1>1, <2>2, <2>3 DEF FieldStep, ResultStep
  <1>19. CASE RunFailed
    BY <1>3, <1>19 DEF RunFailed
  <1>20. CASE Detailed
    <2>1. ArrivesOf({"schema"}, {"detail"}, TRUE)
      BY <1>20, Arrival DEF Detailed
    <2> QED
      BY <1>2, <1>20, <2>1 DEF Detailed, ArrivesOf
  <1> QED
    BY <1>4, <1>5, <1>6, <1>7, <1>8, <1>9, <1>10, <1>11, <1>12, <1>13, <1>14, <1>16, <1>17,
       <1>18, <1>19, <1>20 DEF Resumes

\* SQL that changes the schema leads to a refresh.
LEMMA ResumesLists ==
    ASSUME Typed, TasksRight, Resumes, NEW p \in {"tables", "columns"}
    PROVE  FieldStep(p)
PROOF
  <1> USE DEF Field, sidebar
  <1>1. /\ Me \in TaskType /\ tasks[Head(replies).task] = Me /\ UNCHANGED <<conn, ver>>
        /\ Right(Me)
    <2>1. /\ Me \in TaskType /\ Id \in DOMAIN tasks /\ UNCHANGED shell
      BY Arrival DEF Resumes, Picked, Launched, Opened, OpenFailed, LaunchFailed, Converted,
         Built, Imported, Exported, Failed, TablesListed, ColumnsListed, ListingFailed, Ran,
         RunFailed, Detailed, ArrivesOf
    <2> QED
      BY <2>1 DEF TasksRight, Me, Id, shell
  <1>2. ASSUME UNCHANGED <<tables, columns>>, Me.at \notin {"tables", "columns"},
               ~Head(replies).ok \/ ~Refreshes(Me) \/ Then("tables")
        PROVE  FieldStep(p)
    <2>1. Renews(p, tasks, Head(replies)) => Then("tables")
      BY <1>1, <1>2 DEF Renews, Leads, Sets
    <2>2. Then("tables") => \E t \in TaskType : Awaits(Id, t) /\ Leads(p, t)
      BY <1>1, LeadsTo DEF Fields
    <2> QED
      BY <1>1, <1>2, <2>1, <2>2 DEF FieldStep
  <1>3. CASE Picked
    <2>1. ArrivesOf({"open", "newdb", "import", "export", "convert"}, {"pick"}, TRUE)
      BY <1>3, Arrival DEF Picked
    <2> QED
      BY <1>2, <1>3, <2>1 DEF Picked, ArrivesOf, Refreshes
  <1>4. CASE Launched
    <2>1. ArrivesOf({"launch"}, {"current"}, TRUE)
      BY <1>4, Arrival DEF Launched
    <2> QED
      BY <1>2, <1>4, <2>1 DEF Launched, ArrivesOf, Refreshes
  <1>5. CASE Opened
    <2>1. ArrivesOf({"open", "newdb", "memory", "launch", "convert"}, {"open", "memory"}, TRUE)
      BY <1>5, Arrival DEF Opened
    <2> QED
      BY <1>2, <1>5, <2>1 DEF Opened, ArrivesOf
  <1>6. CASE OpenFailed
    <2>1. ArrivesOf({"open", "newdb", "memory", "convert"}, {"open", "memory", "convert"}, FALSE)
      BY <1>6, Arrival DEF OpenFailed
    <2> QED
      BY <1>2, <1>6, <2>1 DEF OpenFailed, ArrivesOf
  <1>7. CASE LaunchFailed
    <2>1. ArrivesOf({"launch"}, {"open"}, FALSE)
      BY <1>7, Arrival DEF LaunchFailed
    <2> QED
      BY <1>2, <1>7, <2>1 DEF LaunchFailed, ArrivesOf
  <1>8. CASE Converted
    <2>1. ArrivesOf({"convert"}, {"convert"}, TRUE)
      BY <1>8, Arrival DEF Converted
    <2> QED
      BY <1>2, <1>8, <2>1 DEF Converted, ArrivesOf, Refreshes
  <1>9. CASE Built
    <2>1. ArrivesOf({"import"}, {"build"}, TRUE)
      BY <1>9, Arrival DEF Built
    <2> QED
      BY <1>2, <1>9, <2>1 DEF Built, ArrivesOf, Refreshes
  <1>10. CASE Imported
    <2>1. ArrivesOf({"import"}, {"query"}, TRUE)
      BY <1>10, Arrival DEF Imported
    <2> QED
      BY <1>2, <1>10, <2>1 DEF Imported, ArrivesOf
  <1>11. CASE Exported
    <2>1. ArrivesOf({"export"}, {"query"}, TRUE)
      BY <1>11, Arrival DEF Exported
    <2>2. ~Refreshes(Me)
      BY <1>1, <2>1 DEF ArrivesOf, Refreshes, Right
    <2> QED
      BY <1>2, <1>11, <2>1, <2>2 DEF Exported, ArrivesOf
  <1>12. CASE Failed
    <2>1. ArrivesOf({"import", "export", "schema"}, {"build", "query", "detail"}, FALSE)
      BY <1>12, Arrival DEF Failed
    <2> QED
      BY <1>2, <1>12, <2>1 DEF Failed, ArrivesOf
  <1>13. CASE TablesListed
    <2>1. ArrivesOf(Refreshers, {"tables"}, TRUE)
      BY <1>13, Arrival DEF TablesListed, Refreshers
    <2>2. /\ tables' = [db |-> Head(replies).conn.db, ver |-> Head(replies).ver]
          /\ columns' = columns /\ Then("columns")
      BY <1>13 DEF TablesListed
    <2>3. CASE p = "tables"
      BY <1>1, <2>1, <2>2, <2>3 DEF ArrivesOf, FieldStep, Sets, Brings
    <2>4. CASE p = "columns"
      <3>1. \E t \in TaskType : Awaits(Id, t) /\ Leads(p, t)
        BY <1>1, <2>2, <2>4, LeadsTo DEF Fields
      <3> QED
        BY <1>1, <2>2, <2>4, <3>1 DEF FieldStep
    <2> QED
      BY <2>3, <2>4
  <1>14. CASE ColumnsListed
    <2>1. ArrivesOf(Refreshers, {"columns"}, TRUE)
      BY <1>14, Arrival DEF ColumnsListed, Refreshers
    <2>2. /\ columns' = [db |-> Head(replies).conn.db, ver |-> Head(replies).ver]
          /\ tables' = tables
      BY <1>14 DEF ColumnsListed
    <2>3. CASE p = "columns"
      BY <1>1, <2>1, <2>2, <2>3 DEF ArrivesOf, FieldStep, Sets, Brings
    <2>4. CASE p = "tables"
      <3>1. ~Renews(p, tasks, Head(replies))
        BY <1>1, <2>1, <2>4 DEF ArrivesOf, Renews, Leads, Sets, Refreshes
      <3> QED
        BY <1>1, <2>2, <2>4, <3>1 DEF FieldStep
    <2> QED
      BY <2>3, <2>4
  <1>15. CASE ListingFailed
    BY <1>1, <1>15 DEF ListingFailed, FieldStep
  <1>16. CASE Ran
    <2>1. ArrivesOf({"run", "preview"}, {"query"}, TRUE)
      BY <1>16, Arrival DEF Ran
    <2>2. UNCHANGED <<tables, columns>>
      BY <1>16 DEF Ran
    <2>3. CASE Me.text = "ddl"
      <3> DEFINE t == Task("refresh", "tables", NoDb)
      <3>1. Awaits(Id, t)
        BY <1>16, <2>3 DEF Ran
      <3>2. t \in TaskType /\ Leads(p, t)
        BY TaskIs DEF Handlers, Methods, Leads, Task
      <3> QED
        BY <1>1, <2>2, <3>1, <3>2 DEF FieldStep
    <2>4. CASE Me.text # "ddl"
      <3>1. ~Refreshes(Me)
        BY <1>1, <2>1, <2>4 DEF ArrivesOf, Refreshes, Right
      <3> QED
        BY <1>2, <2>1, <2>2, <3>1 DEF ArrivesOf
    <2> QED
      BY <2>3, <2>4
  <1>17. CASE RunFailed
    <2>1. ArrivesOf({"run", "preview"}, {"query"}, FALSE)
      BY <1>17, Arrival DEF RunFailed
    <2> QED
      BY <1>2, <1>17, <2>1 DEF RunFailed, ArrivesOf
  <1>18. CASE Detailed
    <2>1. ArrivesOf({"schema"}, {"detail"}, TRUE)
      BY <1>18, Arrival DEF Detailed
    <2> QED
      BY <1>2, <1>18, <2>1 DEF Detailed, ArrivesOf, Refreshes
  <1> QED
    BY <1>3, <1>4, <1>5, <1>6, <1>7, <1>8, <1>9, <1>10, <1>11, <1>12, <1>13, <1>14, <1>15,
       <1>16, <1>17, <1>18 DEF Resumes

-----------------------------------------------------------------------------
(* What the page shows: the invariant *)

\* The result always follows the connection; tables and columns do until a change that
\* unseen names.
PageInv ==
    /\ Follows("result") /\ ResultSql
    /\ unseen \/ (Follows("tables") /\ Follows("columns"))

LEMMA UntouchedFollows ==
    ASSUME UNCHANGED <<conn, ver, calls, replies, tasks, result, tables, columns, orphan>>,
           NEW p, Follows(p)
    PROVE  Follows(p)'
PROOF
  <1>1. Ids(calls)' = Ids(calls)
    BY DEF Ids
  <1>2. \A i : Awaited(p, i) => Awaited(p, i)'
    BY <1>1 DEF Awaited, Renews, Sets, Leads, Refreshes
  <1> QED
    BY <1>2 DEF Follows, Shown, OnItsWay, OnTime, Now, Field, Sets, Fit, Brings

LEMMA ResumesPage == Typed /\ PathInv /\ PageInv /\ Resumes => PageInv'
PROOF
  <1> SUFFICES ASSUME Typed, PathInv, PageInv, Resumes PROVE PageInv'
    OBVIOUS
  <1>1. Resumed /\ unseen' = unseen
    <2>1. UNCHANGED shell
      BY Arrival DEF Resumes, Picked, Launched, Opened, OpenFailed, LaunchFailed, Converted,
         Built, Imported, Exported, Failed, TablesListed, ColumnsListed, ListingFailed, Ran,
         RunFailed, Detailed, ArrivesOf
    <2> QED
      BY <2>1, ResumesTyped DEF shell
  <1>2. {"result", "tables", "columns"} \subseteq Fields
    BY DEF Fields
  <1>3. FieldStep("result") /\ ResultStep
    BY ResumesResult DEF PathInv, Guards
  <1>4. Follows("result")'
    BY <1>1, <1>2, <1>3, FieldStepKeeps DEF PageInv
  <1>5. FieldStep("tables") /\ FieldStep("columns")
    BY ResumesLists DEF PathInv, Guards
  <1>6. Follows("tables") /\ Follows("columns") => Follows("tables")' /\ Follows("columns")'
    BY <1>1, <1>2, <1>5, FieldStepKeeps
  <1>7. ResultSql'
    <2>1. CASE result' = Blank
      BY <2>1 DEF ResultSql, Blank
    <2>2. CASE UNCHANGED <<result, lastSql>>
      BY <2>2 DEF PageInv, ResultSql, Blank
    <2>3. CASE /\ Sets("result", tasks, Head(replies)) /\ result'.db = Head(replies).conn.db
               /\ lastSql' = result'
      <3>1. 1 \in DOMAIN replies /\ Head(replies) = replies[1]
        BY <1>1, TailFacts DEF Typed, Wired, Resumed
      <3>2. Head(replies).conn.db # NoDb
        BY <2>3, <3>1 DEF PageInv, Follows, OnItsWay, Fit, Brings
      <3> QED
        BY <2>3, <3>2 DEF ResultSql
    <2> QED
      BY <1>3, <2>1, <2>2, <2>3 DEF ResultStep
  <1> QED
    BY <1>1, <1>4, <1>6, <1>7 DEF PageInv

LEMMA NextPage == Typed /\ PathInv /\ PageInv /\ [Next]_vars => PageInv'
PROOF
  <1> SUFFICES ASSUME Typed, PathInv, PageInv, [Next]_vars PROVE PageInv'
    OBVIOUS
  <1>1. {"result", "tables", "columns"} \subseteq Fields
    BY DEF Fields
  <1>2. ASSUME UNCHANGED <<result, lastSql>> PROVE ResultSql'
    BY <1>2 DEF PageInv, ResultSql, Blank
  <1>3. ASSUME UNCHANGED <<shell, calls, replies, tasks, result, lastSql, sidebar, orphan>>
        PROVE  PageInv'
    BY <1>2, <1>3, UntouchedFollows DEF PageInv, shell, sidebar
  <1>4. CASE Launch
    <2>1. /\ result' = Blank /\ tables' = Empty /\ columns' = Empty /\ DOMAIN replies' = {}
      BY <1>4 DEF Launch, FirstPage
    <2>2. \A p \in Fields : Follows(p)'
      BY <2>1 DEF Follows, Shown, OnItsWay, OnTime, Field, Fields, Blank, Empty
    <2> QED
      BY <1>1, <2>1, <2>2 DEF PageInv, ResultSql, Blank
  <1>5. CASE Executes
    <2>1. /\ UNCHANGED <<result, lastSql>>
      BY <1>5 DEF Executes, Current, Opens, Lists, Queries, Converts, Builds, ShowDialog,
         Untouched, pane
    <2>3. Follows("result")'
      BY <1>1, <1>5, ExecutesFollows DEF PageInv
    <2>4. unseen' \/ (Follows("tables")' /\ Follows("columns")')
      BY <1>1, <1>5, ExecutesFollows DEF PageInv
    <2> QED
      BY <1>2, <2>1, <2>3, <2>4 DEF PageInv
  <1>6. CASE Resumes
    BY <1>6, ResumesPage
  <1>7. CASE ClosesDialog
    <2>1. UNCHANGED <<result, lastSql, unseen>>
      BY <1>7 DEF ClosesDialog, CloseDialog, Untouched, shell, pane
    <2>2. \A p \in Fields : Follows(p) => Follows(p)'
      BY <1>7, CloseDialogFollows DEF ClosesDialog
    <2> QED
      BY <1>1, <1>2, <2>1, <2>2 DEF PageInv
  <1>8. CASE ClickData \/ ToggleMenu
    BY <1>3, <1>8 DEF ClickData, ToggleMenu, wire, pane, late
  <1>9. ASSUME NEW t \in TaskType, Begins(t) PROVE PageInv'
    <2>1. UNCHANGED <<result, lastSql, unseen>>
      BY <1>9 DEF Begins, Starts, shell, pane
    <2>2. \A p \in Fields : Follows(p) => Follows(p)'
      BY <1>9, BeginsFollows
    <2> QED
      BY <1>1, <1>2, <2>1, <2>2 DEF PageInv
  <1>10. CASE UNCHANGED vars
    BY <1>3, <1>10 DEF vars, wire, pane, late
  <1> QED
    BY <1>4, <1>5, <1>6, <1>7, <1>8, <1>9, <1>10, ClicksBegin DEF Next

LEMMA InitPage == Init => PageInv
PROOF
  <1> SUFFICES ASSUME Init PROVE PageInv
    OBVIOUS
  <1>1. result = Blank /\ tables = Empty /\ columns = Empty /\ DOMAIN replies = {}
    BY DEF Init
  <1>2. \A p \in Fields : Follows(p)
    BY <1>1 DEF Follows, Shown, OnItsWay, OnTime, Field, Fields, Blank, Empty
  <1> QED
    BY <1>1, <1>2 DEF PageInv, ResultSql, Fields

LEMMA AlwaysPage == Spec => []PageInv
PROOF BY AlwaysTyped, InitPath, NextPath, InitPage, NextPage, PTL DEF Spec

\* With no handler in flight nothing is still to come.
LEMMA QuietShows ==
    ASSUME Typed, Quiet, NEW p, Follows(p)
    PROVE  OnTime(p, Field(p)) \/ (p = "result" /\ orphan)
PROOF
  <1>1. Ids(calls) = {} /\ DOMAIN replies = {}
    BY Messages DEF Quiet
  <1> QED
    BY <1>1 DEF Follows, Shown, Awaited

\* When every handler has returned, a result on screen comes from the connection and lastSql
\* is the SQL it came from, although a query, an open and a conversion may overlap
\* (runQuery, openDatabase, convertDatabase).  Only the launch's late reopening leaves a
\* result of the database that was open before (App.tsx:135-137).
THEOREM ResultIsOfConn == Spec => []ResultOfConn
PROOF
  <1>1. Typed /\ PageInv => ResultOfConn
    BY QuietShows DEF PageInv, ResultSql, ResultOfConn, OnTime, Field
  <1> QED
    BY <1>1, AlwaysTyped, AlwaysPage, PTL

\* When every handler has returned, sidebar and completion list the present schema of the
\* connection, or nothing after a listing failed (refreshSchema), however opens, DDL,
\* imports, conversions and refreshes overlapped.  unseen excepts a change that no listing
\* followed: by a text in which the page finds none of its words (App.tsx:244), by a failing
\* text, or by a conversion into the open file.
THEOREM SidebarIsFresh == Spec => []SidebarFresh
PROOF
  <1>1. Typed /\ PageInv => SidebarFresh
    <2> SUFFICES ASSUME Typed, PageInv, Quiet, ~unseen PROVE Listed
      BY DEF SidebarFresh
    <2>1. OnTime("tables", tables) /\ OnTime("columns", columns)
      BY QuietShows DEF PageInv, Field
    <2> QED
      BY <2>1 DEF Listed, OnTime
  <1> QED
    BY <1>1, AlwaysTyped, AlwaysPage, PTL
=============================================================================
