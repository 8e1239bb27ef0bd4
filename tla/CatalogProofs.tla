--------------------------- MODULE CatalogProofs ----------------------------
(***************************************************************************)
(* Proofs, for any names, versions and number of commits and requests,     *)
(* that a structure is made of moments of its own call, in order, and that *)
(* the sidebar lists what is there.                                        *)
(***************************************************************************)
EXTENDS Catalog, TLAPS

\* No structure can be made of table in this store: it is nowhere, or a broken view.
Undescribed(at) ==
    LET v == at[IF kind = "sqlite" /\ at[Own][table] = 0 THEN Attached ELSE Own][table]
    IN  v = 0 \/ v \in Broken

\* What the lists contain of this store.
InLists(at) == {n \in Names : (\E s \in ListedSpaces : at[s][n] # 0)
                              /\ (kind = "sqlite" => n \notin SqliteLike)}

\* During a call: nothing is answered yet, and each result is of a moment of the call.
CallInv ==
    /\ pc # "idle" => reply = NoReply
    /\ pc \in {"tables", "names"} => table = NoName
    /\ pc \in {"indexes", "count"} => table \in Names
    /\ pc = "indexes" => \E i \in DOMAIN log : cols = Found(log[i])
    /\ pc = "count" => \E i, j \in DOMAIN log :
                          i <= j /\ cols = Found(log[i]) /\ IndexesOf(idx, log[j])
    /\ pc = "names" => \E i \in DOMAIN log : sidebar.tables = InLists(log[i])

\* After it: both lists are of moments of the call.
ListInv ==
    reply.kind = "lists" =>
        \E i, j \in DOMAIN log :
            /\ i <= j /\ sidebar.tables = InLists(log[i]) /\ sidebar.columns = InLists(log[j])

\* A call that failed for no want of resources met a name it could not describe.
ErrorInv ==
    reply = Error("sql") /\ ~trouble /\ table \in Names =>
        \E i \in DOMAIN log : Undescribed(log[i])

\* The sidebar shows names of the store it was listed from.
ShownInv == sidebar.tables \subseteq InLists(shown)

\* The inductive invariant.
IInv ==
    /\ TypeOK /\ CallInv
    /\ DetailOfCall /\ ListInv /\ ErrorInv /\ ShownInv /\ SidebarEmptied

-----------------------------------------------------------------------------
(* Steps that leave the call's results alone *)

LEMMA InitHolds == Init => IInv
PROOF
  <1> SUFFICES ASSUME Init PROVE IInv
    OBVIOUS
  <1>1. store \in Stores
    BY ConstantsAssumption DEF Init, Stores
  <1>2. TypeOK
    <2>1. NoReply \in Replied /\ log \in Seq(Stores)
      BY DEF Init, NoReply, Replied
    <2>2. sidebar \in [tables : SUBSET Names, columns : SUBSET Names]
      BY DEF Init, NoSidebar
    <2>3. commits \in 0..MaxCommits /\ requests \in 0..MaxRequests
      BY ConstantsAssumption DEF Init
    <2> QED
      BY <1>1, <2>1, <2>2, <2>3, Zenon DEF Init, TypeOK
  <1> QED
    BY <1>2 DEF Init, IInv, CallInv, DetailOfCall, ListInv, ErrorInv, ShownInv,
                SidebarEmptied, NoReply, NoSidebar, Error

LEMMA BeginsHolds ==
    ASSUME IInv, NEW step \in {"columns", "tables"}, NEW t \in Names \cup {NoName},
           Begins(step, t), step = "tables" => t = NoName
    PROVE  IInv'
PROOF
  <1> USE DEF Begins, At
  <1>1. TypeOK'
    <2>1. store \in Stores
      BY DEF IInv, TypeOK
    <2>2. log' = <<store>> /\ store' = store
      OBVIOUS
    <2>3. log' \in Seq(Stores) /\ log'[Len(log')] = store' /\ log' # << >>
      BY <2>1, <2>2
    <2>4. NoReply \in Replied
      BY DEF NoReply, Replied
    <2>5. requests' \in 0..MaxRequests
      BY ConstantsAssumption DEF IInv, TypeOK
    <2>6. Replied' = Replied /\ Stores' = Stores /\ Objects' = Objects
      OBVIOUS
    <2> QED
      BY <2>1, <2>3, <2>4, <2>5, <2>6 DEF IInv, TypeOK
  <1>2. CallInv'
    BY DEF CallInv
  <1>3. DetailOfCall' /\ ListInv' /\ ErrorInv' /\ SidebarEmptied'
    BY DEF DetailOfCall, ListInv, ErrorInv, SidebarEmptied, NoReply, Error
  <1>4. ShownInv'
    BY DEF IInv, ShownInv, InLists, ListedSpaces
  <1> QED
    BY <1>1, <1>2, <1>3, <1>4 DEF IInv

\* The log grows; what it had stays where it was.
LEMMA LogKept ==
    ASSUME log \in Seq(Stores), store' \in Stores, log' = Append(log, store')
    PROVE  /\ Len(log') = Len(log) + 1 /\ log'[Len(log')] = store' /\ log' # << >>
           /\ \A i \in DOMAIN log : i \in DOMAIN log' /\ log'[i] = log[i]
           /\ log' \in Seq(Stores)
PROOF OBVIOUS

-----------------------------------------------------------------------------
(* The end of a call *)

LEMMA ReplyTypes ==
    /\ NoReply \in Replied /\ [kind |-> "lists"] \in Replied
    /\ Error("sql") \in Replied /\ Error("oom") \in Replied /\ Error("invalid") \in Replied
    /\ \A c \in SUBSET Objects, x \in SUBSET Objects, o \in Objects :
          [kind |-> "detail", columns |-> c, indexes |-> x, row_count |-> o] \in Replied
PROOF BY DEF NoReply, Replied, Error

\* During a call the log ends with the present.
LEMMA PresentLogged ==
    ASSUME TypeOK, pc # "idle"
    PROVE  /\ Len(log) \in DOMAIN log /\ log[Len(log)] = store
           /\ \A i \in DOMAIN log : i <= Len(log)
PROOF
  <1>1. log \in Seq(Stores) /\ log # << >> /\ log[Len(log)] = store
    BY DEF TypeOK
  <1> HIDE DEF Stores
  <1> QED
    BY <1>1

\* A reply that only says the call is over keeps the types.
LEMMA RepliesTyped ==
    ASSUME TypeOK, NEW r \in Replied, Replies(r), trouble' \in BOOLEAN, shown' = shown,
           sidebar' \in [tables : SUBSET Names, columns : SUBSET Names]
    PROVE  TypeOK'
PROOF
  <1>1. Replied' = Replied /\ Stores' = Stores /\ Objects' = Objects
    OBVIOUS
  <1> QED
    BY <1>1 DEF TypeOK, Replies

\* A view that cannot be described is where the lists look.
BrokenListed(at) == \E s \in ListedSpaces, n \in Names : at[s][n] \in Broken

\* A statement is refused only if its table, or for a list some view, cannot be described;
\* a refused list empties the sidebar.
LEMMA RefusedHolds ==
    ASSUME IInv, pc # "idle", NEW refuses, Refused(refuses),
           refuses /\ table \in Names => Undescribed(store),
           refuses /\ table = NoName => BrokenListed(store),
           shown' = shown, sidebar' = sidebar \/ sidebar' = NoSidebar,
           table = NoName => sidebar' = NoSidebar
    PROVE  IInv'
PROOF
  <1>1. PICK code \in {"sql", "oom"} :
            /\ Replies(Error(code))
            /\ (code = "sql" /\ refuses /\ trouble' = trouble) \/ trouble' = TRUE
    BY DEF Refused
  <1>2. sidebar' \in [tables : SUBSET Names, columns : SUBSET Names] /\ trouble' \in BOOLEAN
    <2>1. NoSidebar \in [tables : SUBSET Names, columns : SUBSET Names]
      BY DEF NoSidebar
    <2>2. sidebar \in [tables : SUBSET Names, columns : SUBSET Names] /\ trouble \in BOOLEAN
      BY DEF IInv, TypeOK
    <2> QED
      BY <1>1, <2>1, <2>2
  <1>3. Error(code) \in Replied
    BY ReplyTypes
  <1>4. TypeOK'
    BY <1>1, <1>2, <1>3, RepliesTyped DEF IInv
  <1>5. /\ pc' = "idle" /\ reply' = Error(code) /\ log' = log /\ kind' = kind /\ table' = table
        /\ store' = store
    BY <1>1 DEF Replies
  <1>6. CallInv' /\ DetailOfCall' /\ ListInv'
    BY <1>5 DEF CallInv, DetailOfCall, ListInv, Error
  <1>7. ShownInv'
    BY <1>5 DEF IInv, ShownInv, InLists, ListedSpaces, NoSidebar
  <1>8. ErrorInv'
    <2>1. ASSUME ~trouble', table' \in Names PROVE \E i \in DOMAIN log : Undescribed(log[i])
      <3>1. Undescribed(store)
        BY <1>1, <1>5, <2>1
      <3> QED
        BY <3>1, PresentLogged DEF IInv
    <2> QED
      BY <2>1, <1>5 DEF ErrorInv, Undescribed
  <1>9. SidebarEmptied'
    <2>1. log[Len(log)] = store
      BY PresentLogged DEF IInv
    <2>2. ASSUME table' = NoName
          PROVE  /\ sidebar' = NoSidebar
                 /\ trouble' \/ BrokenListed(log[Len(log)])
      BY <1>1, <1>5, <2>1, <2>2
    <2>3. BrokenListed(log[Len(log)])
             = (\E s \in ListedSpaces, n \in Names : log[Len(log)][s][n] \in Broken)'
      BY <1>5 DEF BrokenListed, ListedSpaces
    <2> QED
      BY <2>2, <2>3 DEF SidebarEmptied
  <1> QED
    BY <1>4, <1>6, <1>7, <1>8, <1>9 DEF IInv

-----------------------------------------------------------------------------
(* What the queries see of a store *)

\* The table in the store as it is: it is found where its name is looked up.
LEMMA FoundNow ==
    ASSUME TypeOK, table \in Names
    PROVE  /\ Found(store) = IF There(table) THEN {Object(Place(table), table)} ELSE {}
           /\ There(table) => Object(Place(table), table) \in Objects
           /\ ~There(table) \/ IsBroken(table) => Undescribed(store)
           /\ Indexed(table) \subseteq Objects /\ IndexesOf(Indexed(table), store)
PROOF
  <1> USE DEF Place, There, Object
  <1>1. \A s \in Spaces : store[s][table] \in 0..MaxVer
    BY DEF TypeOK, Stores
  <1>2. Place(table) \in Spaces /\ Spaces = {Own, Other, Attached}
    BY DEF Spaces
  <1>3. \A s \in Spaces : \A o : o \in Named(store, s) <=>
            o = [space |-> s, ver |-> store[s][table]] /\ store[s][table] # 0
    BY DEF Named
  <1>4. \A s \in Spaces : store[s][table] # 0 =>
            [space |-> s, ver |-> store[s][table]] \in Objects
    BY <1>1, ConstantsAssumption DEF Objects
  <1>5. Found(store) = Named(store, Place(table))
    BY DEF Found
  <1>6. Found(store) = IF There(table) THEN {Object(Place(table), table)} ELSE {}
    BY <1>2, <1>3, <1>5
  <1>7. There(table) => Object(Place(table), table) \in Objects
    BY <1>2, <1>4
  <1>8. ~There(table) \/ IsBroken(table) => Undescribed(store)
    BY DEF IsBroken, Undescribed
  <1>9. Indexed(table) = IF kind = "duckdb" THEN UNION {Named(store, s) : s \in Spaces}
                                            ELSE Named(store, Place(table))
    BY <1>2, <1>3 DEF Indexed
  <1>10. Indexed(table) \subseteq Objects
    BY <1>2, <1>3, <1>4, <1>9
  <1>11. IndexesOf(Indexed(table), store)
    BY <1>2, <1>5, <1>9 DEF IndexesOf
  <1> QED
    BY <1>6, <1>7, <1>8, <1>10, <1>11

\* The lists as they are made now.
LEMMA ListedNow == ASSUME TypeOK PROVE Listed = InLists(store) /\ Listed \subseteq Names
PROOF BY DEF Listed, InLists

-----------------------------------------------------------------------------
(* The queries *)

LEMMA NameMissingHolds == IInv /\ NameMissing => IInv'
PROOF
  <1> SUFFICES ASSUME IInv, NameMissing PROVE IInv'
    OBVIOUS
  <1>1. Replies(Error("invalid")) /\ UNCHANGED <<sidebar, shown, trouble>>
    BY DEF NameMissing
  <1>2. TypeOK'
    BY <1>1, RepliesTyped, ReplyTypes DEF IInv, TypeOK
  <1>3. pc' = "idle" /\ reply' = Error("invalid") /\ kind' = kind
    BY <1>1 DEF Replies
  <1>4. CallInv' /\ DetailOfCall' /\ ListInv' /\ ErrorInv' /\ SidebarEmptied'
    BY <1>3 DEF CallInv, DetailOfCall, ListInv, ErrorInv, SidebarEmptied, Error
  <1>5. ShownInv'
    BY <1>1, <1>3 DEF IInv, ShownInv, InLists, ListedSpaces
  <1> QED
    BY <1>2, <1>4, <1>5 DEF IInv

\* What a query that succeeds leaves: no reply, and the sidebar as it was shown.
LEMMA QuerySucceeds ==
    ASSUME IInv, pc # "idle", NEW next, Succeeds(next), next # "idle"
    PROVE  /\ reply' = NoReply
           /\ DetailOfCall' /\ ListInv' /\ ErrorInv' /\ SidebarEmptied'
           /\ sidebar' = sidebar /\ shown' = shown => ShownInv'
PROOF
  <1>1. reply' = NoReply /\ kind' = kind
    BY DEF IInv, CallInv, Succeeds
  <1>2. DetailOfCall' /\ ListInv' /\ ErrorInv' /\ SidebarEmptied'
    BY <1>1 DEF DetailOfCall, ListInv, ErrorInv, SidebarEmptied, NoReply, Error
  <1> QED
    BY <1>1, <1>2 DEF IInv, ShownInv, InLists, ListedSpaces

LEMMA TableColumnsHolds == IInv /\ TableColumns => IInv'
PROOF
  <1> SUFFICES ASSUME IInv, TableColumns PROVE IInv'
    OBVIOUS
  <1>1. /\ pc = "columns" /\ table \in Names /\ table # NoName
        /\ UNCHANGED <<sidebar, shown>>
    BY DEF TableColumns, At, IInv, TypeOK
  <1>2. CASE Refused(IsBroken(table) \/ (kind = "duckdb" /\ ~There(table)))
    BY <1>1, <1>2, FoundNow, RefusedHolds DEF IInv
  <1>3. CASE /\ cols' = IF There(table) THEN {Object(Place(table), table)} ELSE {}
             /\ Succeeds("indexes") /\ UNCHANGED idx
    <2>1. cols' = Found(store) /\ cols' \subseteq Objects
      BY <1>1, <1>3, FoundNow DEF IInv
    <2>2. TypeOK'
      <3>1. Replied' = Replied /\ Stores' = Stores /\ Objects' = Objects
        OBVIOUS
      <3> QED
        BY <1>1, <1>3, <2>1, <3>1 DEF IInv, TypeOK, Succeeds, At
    <2>3. /\ DetailOfCall' /\ ListInv' /\ ErrorInv' /\ ShownInv' /\ SidebarEmptied'
          /\ reply' = NoReply
      BY <1>1, <1>3, QuerySucceeds
    <2>4. CallInv'
      <3>1. \E i \in DOMAIN log : cols' = Found(log[i])
        BY <1>1, <2>1, PresentLogged DEF IInv
      <3>2. (\E i \in DOMAIN log : cols = Found(log[i]))'
        BY <1>3, <3>1 DEF Succeeds, Found, Named
      <3> QED
        BY <1>1, <1>3, <2>3, <3>2 DEF CallInv, Succeeds
    <2> QED
      BY <2>2, <2>3, <2>4 DEF IInv
  <1> QED
    BY <1>2, <1>3 DEF TableColumns

LEMMA TableIndexesHolds == IInv /\ TableIndexes => IInv'
PROOF
  <1> SUFFICES ASSUME IInv, TableIndexes PROVE IInv'
    OBVIOUS
  <1>1. /\ pc = "indexes" /\ table \in Names /\ table # NoName
        /\ UNCHANGED <<sidebar, shown>>
    BY ConstantsAssumption DEF TableIndexes, At, IInv, CallInv
  <1>2. CASE Refused(FALSE)
    BY <1>1, <1>2, RefusedHolds
  <1>3. CASE /\ idx' = Indexed(table)
             /\ Succeeds("count") /\ UNCHANGED cols
    <2>1. IndexesOf(idx', store) /\ idx' \subseteq Objects
      BY <1>1, <1>3, FoundNow DEF IInv
    <2>2. TypeOK'
      <3>1. Replied' = Replied /\ Stores' = Stores /\ Objects' = Objects
        OBVIOUS
      <3> QED
        BY <1>1, <1>3, <2>1, <3>1 DEF IInv, TypeOK, Succeeds, At
    <2>3. /\ DetailOfCall' /\ ListInv' /\ ErrorInv' /\ ShownInv' /\ SidebarEmptied'
          /\ reply' = NoReply
      BY <1>1, <1>3, QuerySucceeds
    <2>4. CallInv'
      <3>1. PICK i \in DOMAIN log : cols = Found(log[i])
        BY <1>1 DEF IInv, CallInv
      <3>2. \E j \in DOMAIN log : i <= j /\ IndexesOf(idx', log[j])
        BY <1>1, <2>1, PresentLogged DEF IInv
      <3>3. PICK j \in DOMAIN log : i <= j /\ IndexesOf(idx', log[j])
        BY <3>2
      <3>4. /\ (cols = Found(log[i]))' /\ IndexesOf(idx, log[j])'
            /\ i \in DOMAIN log' /\ j \in DOMAIN log'
        BY <1>3, <3>1, <3>3 DEF Succeeds, Found, Named, IndexesOf
      <3>5. (\E m, n \in DOMAIN log : m <= n /\ cols = Found(log[m]) /\ IndexesOf(idx, log[n]))'
        BY <3>3, <3>4
      <3> QED
        BY <1>1, <1>3, <2>3, <3>5 DEF CallInv, Succeeds
    <2> QED
      BY <2>2, <2>3, <2>4 DEF IInv
  <1> QED
    BY <1>2, <1>3 DEF TableIndexes

LEMMA TableRowCountHolds == IInv /\ TableRowCount => IInv'
PROOF
  <1> SUFFICES ASSUME IInv, TableRowCount PROVE IInv'
    OBVIOUS
  <1>1. /\ pc = "count" /\ table \in Names /\ table # NoName
        /\ UNCHANGED <<sidebar, shown>>
    BY ConstantsAssumption DEF TableRowCount, At, IInv, CallInv
  <1>2. CASE Refused(~There(table) \/ IsBroken(table))
    BY <1>1, <1>2, FoundNow, RefusedHolds DEF IInv
  <1>3. CASE /\ There(table) /\ ~IsBroken(table) /\ UNCHANGED trouble
             /\ Replies([kind |-> "detail", columns |-> cols, indexes |-> idx,
                         row_count |-> Object(Place(table), table)])
    <2>1. /\ {Object(Place(table), table)} = Found(store)
          /\ Object(Place(table), table) \in Objects
      BY <1>1, <1>3, FoundNow DEF IInv
    <2>2. TypeOK'
      BY <1>1, <1>3, <2>1, RepliesTyped, ReplyTypes DEF IInv, TypeOK
    <2>3. /\ pc' = "idle" /\ log' = log /\ kind' = kind /\ table' = table /\ store' = store
          /\ reply' = [kind |-> "detail", columns |-> cols, indexes |-> idx,
                       row_count |-> Object(Place(table), table)]
      BY <1>3 DEF Replies
    <2>4. reply'.kind = "detail" /\ reply'.columns = cols /\ reply'.indexes = idx
          /\ reply'.row_count = Object(Place(table), table)
      BY <2>3
    <2>5. CallInv' /\ ListInv' /\ ErrorInv' /\ ShownInv' /\ SidebarEmptied'
      BY <1>1, <2>3, <2>4
        DEF CallInv, ListInv, ErrorInv, IInv, ShownInv, InLists, ListedSpaces,
            SidebarEmptied, Error
    <2>6. DetailOfCall'
      <3>1. PICK i \in DOMAIN log, j \in DOMAIN log :
                i <= j /\ cols = Found(log[i]) /\ IndexesOf(idx, log[j])
        BY <1>1 DEF IInv, CallInv
      <3>2. PICK k \in DOMAIN log : j <= k /\ {reply'.row_count} = Found(log[k])
        BY <1>1, <2>1, <2>4, PresentLogged DEF IInv
      <3>3. /\ (reply.columns = Found(log[i]))' /\ IndexesOf(reply.indexes, log[j])'
            /\ ({reply.row_count} = Found(log[k]))'
        BY <2>3, <2>4, <3>1, <3>2 DEF Found, Named, IndexesOf
      <3> QED
        BY <2>3, <3>1, <3>2, <3>3 DEF DetailOfCall
    <2> QED
      BY <2>2, <2>5, <2>6 DEF IInv
  <1> QED
    BY <1>2, <1>3 DEF TableRowCount

LEMMA ListTablesHolds == IInv /\ ListTables => IInv'
PROOF
  <1> SUFFICES ASSUME IInv, ListTables PROVE IInv'
    OBVIOUS
  <1>1. pc = "tables" /\ table = NoName
    BY DEF ListTables, At, IInv, CallInv
  <1>2. CASE Refused(FALSE) /\ ClearSidebar
    BY <1>1, <1>2, RefusedHolds DEF ClearSidebar
  <1>3. CASE /\ sidebar' = [sidebar EXCEPT !.tables = Listed] /\ shown' = store
             /\ Succeeds("names") /\ UNCHANGED <<cols, idx>>
    <2>1. sidebar \in [tables : SUBSET Names, columns : SUBSET Names] /\ Listed \subseteq Names
      BY ListedNow DEF IInv, TypeOK
    <2>2. /\ sidebar' \in [tables : SUBSET Names, columns : SUBSET Names]
          /\ sidebar'.tables = InLists(store)
      BY <1>3, <2>1, ListedNow DEF IInv
    <2>3. TypeOK'
      <3>1. Replied' = Replied /\ Stores' = Stores /\ Objects' = Objects
        OBVIOUS
      <3> QED
        BY <1>1, <1>3, <2>2, <3>1 DEF IInv, TypeOK, Succeeds, At
    <2>4. DetailOfCall' /\ ListInv' /\ ErrorInv' /\ SidebarEmptied' /\ reply' = NoReply
      BY <1>1, <1>3, QuerySucceeds
    <2>5. ShownInv'
      BY <1>3, <2>2 DEF ShownInv, InLists, ListedSpaces, Succeeds
    <2>6. CallInv'
      <3>1. \E i \in DOMAIN log : sidebar'.tables = InLists(log[i])
        BY <1>1, <2>2, PresentLogged DEF IInv
      <3>2. (\E i \in DOMAIN log : sidebar.tables = InLists(log[i]))'
        BY <1>3, <3>1 DEF Succeeds, InLists, ListedSpaces
      <3> QED
        BY <1>1, <1>3, <2>4, <3>2 DEF CallInv, Succeeds
    <2> QED
      BY <2>3, <2>4, <2>5, <2>6 DEF IInv
  <1> QED
    BY <1>2, <1>3 DEF ListTables

LEMMA ListColumnsHolds == IInv /\ ListColumns => IInv'
PROOF
  <1> SUFFICES ASSUME IInv, ListColumns PROVE IInv'
    OBVIOUS
  <1>1. pc = "names" /\ table = NoName
    BY DEF ListColumns, At, IInv, CallInv
  <1>2. CASE /\ Refused(\E n \in Listed : \E s \in ListedSpaces : store[s][n] \in Broken)
             /\ ClearSidebar
    <2>1. (\E n \in Listed : \E s \in ListedSpaces : store[s][n] \in Broken)
             => BrokenListed(store)
      BY DEF BrokenListed, Listed
    <2>2. table \notin Names /\ pc # "idle" /\ sidebar' = NoSidebar /\ shown' = shown
      BY <1>1, <1>2, ConstantsAssumption DEF ClearSidebar
    <2> QED
      BY <1>2, <2>1, <2>2, RefusedHolds
  <1>3. CASE /\ sidebar' = [sidebar EXCEPT !.columns = Listed]
             /\ Replies([kind |-> "lists"]) /\ UNCHANGED <<shown, trouble>>
    <2>1. sidebar \in [tables : SUBSET Names, columns : SUBSET Names] /\ Listed \subseteq Names
      BY ListedNow DEF IInv, TypeOK
    <2>2. /\ sidebar' \in [tables : SUBSET Names, columns : SUBSET Names]
          /\ sidebar'.tables = sidebar.tables /\ sidebar'.columns = InLists(store)
      BY <1>3, <2>1, ListedNow DEF IInv
    <2>3. TypeOK'
      BY <1>3, <2>2, RepliesTyped, ReplyTypes DEF IInv, TypeOK
    <2>4. /\ pc' = "idle" /\ log' = log /\ kind' = kind /\ store' = store
          /\ reply'.kind = "lists" /\ reply' # Error("sql")
      BY <1>3 DEF Replies, Error
    <2>5. CallInv' /\ DetailOfCall' /\ ErrorInv' /\ SidebarEmptied'
      BY <2>4 DEF CallInv, DetailOfCall, ErrorInv, SidebarEmptied, Error
    <2>6. ShownInv'
      BY <1>3, <2>2, <2>4 DEF IInv, ShownInv, InLists, ListedSpaces
    <2>7. ListInv'
      <3>1. PICK i \in DOMAIN log : sidebar.tables = InLists(log[i])
        BY <1>1 DEF IInv, CallInv
      <3>2. PICK j \in DOMAIN log : i <= j /\ sidebar'.columns = InLists(log[j])
        BY <1>1, <2>2, PresentLogged DEF IInv
      <3>3. (sidebar.tables = InLists(log[i]))' /\ (sidebar.columns = InLists(log[j]))'
        BY <2>2, <2>4, <3>1, <3>2 DEF InLists, ListedSpaces
      <3> QED
        BY <2>4, <3>2, <3>3 DEF ListInv
    <2> QED
      BY <2>3, <2>5, <2>6, <2>7 DEF IInv
  <1> QED
    BY <1>2, <1>3 DEF ListColumns

-----------------------------------------------------------------------------
(* Commits: what was said of the store at some moment of the call stays said *)

LEMMA CommitsHolds ==
    ASSUME IInv, NEW s \in Spaces, NEW n \in Names, NEW v \in 0..MaxVer, Commits(s, n, v)
    PROVE  IInv'
PROOF
  <1>1. store' \in Stores /\ log \in Seq(Stores)
    BY DEF Commits, IInv, TypeOK, Stores
  <1>2. /\ \A i \in DOMAIN log : i \in DOMAIN log' /\ log'[i] = log[i]
        /\ log' \in Seq(Stores)
        /\ pc # "idle" => log' # << >> /\ log'[Len(log')] = store'
    <2>1. CASE pc = "idle"
      BY <1>1, <2>1 DEF Commits
    <2>2. CASE pc # "idle"
      BY <1>1, <2>2, LogKept DEF Commits
    <2> QED
      BY <2>1, <2>2
  <1>3. UNCHANGED <<kind, pc, table, cols, idx, reply, sidebar, shown, trouble>>
    BY DEF Commits
  <1>4. TypeOK'
    <2>1. commits' \in 0..MaxCommits /\ requests' \in 0..MaxRequests
      BY ConstantsAssumption DEF Commits, IInv, TypeOK
    <2>2. Replied' = Replied /\ Stores' = Stores /\ Objects' = Objects
      OBVIOUS
    <2> QED
      BY <1>1, <1>2, <1>3, <2>1, <2>2 DEF IInv, TypeOK, At
  <1>5. CallInv'
    <2>1. ASSUME pc = "indexes" PROVE (\E i \in DOMAIN log : cols = Found(log[i]))'
      <3>1. PICK i \in DOMAIN log : cols = Found(log[i])
        BY <2>1 DEF IInv, CallInv
      <3>2. i \in DOMAIN log' /\ (cols = Found(log[i]))'
        BY <1>2, <1>3, <3>1 DEF Found, Named
      <3> QED
        BY <3>2
    <2>2. ASSUME pc = "count"
          PROVE (\E i, j \in DOMAIN log :
                    i <= j /\ cols = Found(log[i]) /\ IndexesOf(idx, log[j]))'
      <3>1. PICK i \in DOMAIN log, j \in DOMAIN log :
                i <= j /\ cols = Found(log[i]) /\ IndexesOf(idx, log[j])
        BY <2>2 DEF IInv, CallInv
      <3>2. (cols = Found(log[i]))' /\ IndexesOf(idx, log[j])'
        BY <1>2, <1>3, <3>1 DEF Found, Named, IndexesOf
      <3> QED
        BY <1>2, <3>1, <3>2
    <2>3. ASSUME pc = "names" PROVE (\E i \in DOMAIN log : sidebar.tables = InLists(log[i]))'
      <3>1. PICK i \in DOMAIN log : sidebar.tables = InLists(log[i])
        BY <2>3 DEF IInv, CallInv
      <3>2. i \in DOMAIN log' /\ (sidebar.tables = InLists(log[i]))'
        BY <1>2, <1>3, <3>1 DEF InLists, ListedSpaces
      <3> QED
        BY <3>2
    <2> QED
      BY <1>3, <2>1, <2>2, <2>3 DEF IInv, CallInv
  <1>6. DetailOfCall'
    <2>1. SUFFICES ASSUME reply.kind = "detail" PROVE DetailOfCall'
      BY <1>3 DEF DetailOfCall
    <2>2. PICK i \in DOMAIN log, j \in DOMAIN log, k \in DOMAIN log :
              /\ i <= j /\ j <= k
              /\ reply.columns = Found(log[i]) /\ IndexesOf(reply.indexes, log[j])
              /\ {reply.row_count} = Found(log[k])
      BY <2>1 DEF IInv, DetailOfCall
    <2>3. /\ (reply.columns = Found(log[i]))' /\ IndexesOf(reply.indexes, log[j])'
          /\ ({reply.row_count} = Found(log[k]))'
      BY <1>2, <1>3, <2>2 DEF Found, Named, IndexesOf
    <2> QED
      BY <1>2, <2>2, <2>3 DEF DetailOfCall
  <1>7. ListInv'
    <2>1. SUFFICES ASSUME reply.kind = "lists" PROVE ListInv'
      BY <1>3 DEF ListInv
    <2>2. PICK i \in DOMAIN log, j \in DOMAIN log :
              /\ i <= j /\ sidebar.tables = InLists(log[i])
              /\ sidebar.columns = InLists(log[j])
      BY <2>1 DEF IInv, ListInv
    <2>3. (sidebar.tables = InLists(log[i]))' /\ (sidebar.columns = InLists(log[j]))'
      BY <1>2, <1>3, <2>2 DEF InLists, ListedSpaces
    <2> QED
      BY <1>2, <2>2, <2>3 DEF ListInv
  <1>8. ErrorInv'
    <2>1. ASSUME reply = Error("sql"), ~trouble, table \in Names
          PROVE (\E i \in DOMAIN log : Undescribed(log[i]))'
      <3>1. PICK i \in DOMAIN log : Undescribed(log[i])
        BY <2>1 DEF IInv, ErrorInv
      <3>2. Undescribed(log[i])'
        BY <1>2, <1>3, <3>1 DEF Undescribed
      <3> QED
        BY <1>2, <3>2
    <2> QED
      BY <1>3, <2>1 DEF ErrorInv, Error
  <1>9. ShownInv'
    BY <1>3 DEF IInv, ShownInv, InLists, ListedSpaces
  <1>10. SidebarEmptied'
    <2>1. CASE pc = "idle"
      BY <1>3, <2>1 DEF Commits, IInv, SidebarEmptied, ListedSpaces, Error
    <2>2. CASE pc # "idle"
      BY <1>3, <2>2 DEF IInv, CallInv, SidebarEmptied, NoReply, Error
    <2> QED
      BY <2>1, <2>2
  <1> QED
    BY <1>4, <1>5, <1>6, <1>7, <1>8, <1>9, <1>10 DEF IInv

-----------------------------------------------------------------------------
(* The invariant, and what follows from it *)

LEMMA NextHolds == IInv /\ [Next]_vars => IInv'
PROOF
  <1> SUFFICES ASSUME IInv, [Next]_vars PROVE IInv'
    OBVIOUS
  <1>1. CASE Step
    BY <1>1, NameMissingHolds, TableColumnsHolds, TableIndexesHolds, TableRowCountHolds,
       ListTablesHolds, ListColumnsHolds DEF Step
  <1>2. CASE RefreshSchema
    BY <1>2, BeginsHolds DEF RefreshSchema
  <1>3. CASE \E n \in Names \cup {NoName} : Describe(n)
    BY <1>3, BeginsHolds DEF Describe
  <1>4. CASE \E s \in Spaces, n \in Names, v \in 0..MaxVer :
                OwnStatement(s, n, v) \/ OtherCommits(s, n, v)
    BY <1>4, CommitsHolds DEF OwnStatement, OtherCommits
  <1>5. CASE UNCHANGED vars
    <2> USE <1>5 DEF vars
    <2>1. TypeOK'
      BY DEF IInv, TypeOK, At, Replied, Stores, Objects
    <2>2. CallInv'
      BY DEF IInv, CallInv, Found, Named, IndexesOf, InLists, ListedSpaces
    <2>3. DetailOfCall' /\ ShownInv'
      BY DEF IInv, DetailOfCall, ShownInv, Found, Named, IndexesOf, InLists, ListedSpaces
    <2>4. ListInv' /\ ErrorInv' /\ SidebarEmptied'
      BY DEF IInv, ListInv, ErrorInv, InLists, ListedSpaces, Undescribed, Error,
             SidebarEmptied
    <2> QED
      BY <2>1, <2>2, <2>3, <2>4 DEF IInv
  <1> QED
    BY <1>1, <1>2, <1>3, <1>4, <1>5 DEF Next

LEMMA Invariant == Spec => []IInv
PROOF BY InitHolds, NextHolds, PTL DEF Spec

\* The types of the model's variables, for every number of names, commits and requests.
THEOREM Typing == Spec => []TypeOK
PROOF
  <1>1. IInv => TypeOK
    BY DEF IInv
  <1> QED
    BY <1>1, Invariant, PTL

\* A structure shown by the Schema view (schema.table_detail) is of the table named, each
\* part as of a moment of the call, in the order of the three queries.
THEOREM DetailIsOfItsCall == Spec => []DetailOfCall
PROOF
  <1>1. IInv => DetailOfCall
    BY DEF IInv
  <1> QED
    BY <1>1, Invariant, PTL

\* A name that a list of this store contains is one the sidebar may show.
LEMMA InListsLists == ASSUME NEW at PROVE Lists(InLists(at), at)
PROOF
  <1>1. Own \in ListedSpaces /\ (kind = "duckdb" => ListedSpaces = {Own, Attached})
        /\ (kind # "duckdb" => ListedSpaces = {Own})
    BY DEF ListedSpaces
  <1> QED
    BY <1>1 DEF Lists, InLists

\* The sidebar and the completion (refreshSchema) show what was there, the second list
\* later than the first, and the same if nobody committed in between -- no other process,
\* and no statement run from the page between the two calls.
THEOREM SidebarIsListed == Spec => []SidebarListed
PROOF
  <1>1. IInv => SidebarListed
    <2> SUFFICES ASSUME IInv, reply.kind = "lists" PROVE SidebarListed
      BY DEF SidebarListed
    <2>1. PICK i \in DOMAIN log, j \in DOMAIN log :
              /\ i <= j /\ sidebar.tables = InLists(log[i])
              /\ sidebar.columns = InLists(log[j])
      BY DEF IInv, ListInv
    <2>2. Lists(sidebar.tables, log[i]) /\ Lists(sidebar.columns, log[j])
      BY <2>1, InListsLists
    <2>3. Len(log) = 1 => i = 1 /\ j = 1
      BY DEF IInv, TypeOK
    <2> QED
      BY <2>1, <2>2, <2>3 DEF SidebarListed
  <1> QED
    BY <1>1, Invariant, PTL

\* A refresh that fails, at either call, leaves an empty sidebar, and fails without a
\* resource failing only over a listed view that cannot be described (refreshSchema's catch).
THEOREM SidebarIsEmptied == Spec => []SidebarEmptied
PROOF
  <1>1. IInv => SidebarEmptied
    BY DEF IInv
  <1> QED
    BY <1>1, Invariant, PTL

\* A name the sidebar shows can be described, but for broken views and attached names.
THEOREM ListedIsDescribed == Spec => []ListedDescribed
PROOF
  <1>1. IInv => ListedDescribed
    <2> SUFFICES ASSUME IInv, reply = Error("sql"), ~trouble,
                        table \in sidebar.tables, log = <<shown>>
                 PROVE  \/ shown[Own][table] \in Broken
                        \/ /\ kind = "duckdb"
                           /\ shown[Own][table] = 0 /\ shown[Attached][table] # 0
      BY DEF ListedDescribed
    <2>1. table \in InLists(shown) /\ table \in Names
      BY DEF IInv, ShownInv, InLists
    <2>2. PICK i \in DOMAIN log : Undescribed(log[i])
      BY <2>1 DEF IInv, ErrorInv
    <2>3. log[i] = shown
      BY <2>2
    <2>4. kind = "sqlite" \/ kind = "duckdb"
      BY DEF IInv, TypeOK
    <2>5. Undescribed(shown)
      BY <2>2, <2>3
    <2> QED
      BY <2>1, <2>4, <2>5 DEF Undescribed, InLists, ListedSpaces
  <1> QED
    BY <1>1, Invariant, PTL
=============================================================================
