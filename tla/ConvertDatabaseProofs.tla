----------------------- MODULE ConvertDatabaseProofs ------------------------
(***************************************************************************)
(* Proofs, for every set of sources, targets and bounds, that              *)
(* convert.database keeps the promise of Conversion, accounts for every    *)
(* view it listed, and never writes an object SQLite reserves.             *)
(***************************************************************************)
EXTENDS ConvertDatabase, FiniteSetTheorems, TLAPS

\* How far the two loops have come.
LoopInv ==
    /\ pc = "copy" => \A k \in 1..(i-1) : tabs[k] \in Made
    /\ pc \in {"views_use", "views_open", "views_query", "view", "answer"}
          => \A k \in DOMAIN tabs : tabs[k] \in Made
    /\ pc = "view" => \A k \in 1..(i-1) : views[k].name \in Made \cup failed
    /\ pc = "answer" => \A k \in DOMAIN views : views[k].name \in Made \cup failed

\* What has not happened yet: no reply while the call runs, no view before its
\* query, no table before the target is attached.
PhaseInv ==
    /\ pc # "idle" => reply = NoReply /\ run > 0
    /\ pc \notin {"idle", "view", "answer"} => views = << >>
    /\ pc \in {"prepare", "attach", "list"} => tabs = << >>
    /\ pc \in {"prepare", "attach", "list", "use"} => i = 1
    /\ \A k \in DOMAIN tabs : tabs[k] \notin Internal

\* The inductive invariant.
IInv == TypeOK /\ LoopInv /\ PhaseInv /\ ViewsAccounted /\ NoInternalTable

-----------------------------------------------------------------------------
(* The listings *)

\* A function over 1..n is a sequence.
LEMMA FunctionSeq ==
    ASSUME NEW S, NEW n \in Nat, NEW q \in [1..n -> S]
    PROVE  q \in Seq(S)
PROOF OBVIOUS

\* An arrangement of a finite set is a sequence of its members.
LEMMA ArrangementSeq ==
    ASSUME NEW S, IsFiniteSet(S), NEW f \in Arrangements(S)
    PROVE  /\ Cardinality(S) \in Nat
           /\ DOMAIN f = 1..Cardinality(S)
           /\ \A k \in DOMAIN f : f[k] \in S
PROOF
  <1>1. Cardinality(S) \in Nat
    BY FS_CardinalityType
  <1>2. f \in [1..Cardinality(S) -> S]
    BY DEF Arrangements, Injection
  <1> QED BY <1>1, <1>2

\* The listing of tables is a sequence of names, none of them reserved.
LEMMA TableRowsSeq ==
    ASSUME TypeOK, NEW rows \in TableRows
    PROVE  rows \in Seq(Objects) /\ \A k \in DOMAIN rows : rows[k] \notin Internal
PROOF
  <1> DEFINE main == {"main"} \X (src.main \ LikeSqlite)
             other == {"other"} \X (src.other \ LikeSqlite)
             all == main \cup other
  <1>1. src.main \subseteq Objects /\ src.other \subseteq Objects
    BY DEF TypeOK, Databases
  <1>2. IsFiniteSet(src.main \ LikeSqlite) /\ IsFiniteSet(src.other \ LikeSqlite)
    BY <1>1, FS_Subset, ConstantsAssumption
  <1>3. IsFiniteSet({"main"}) /\ IsFiniteSet({"other"})
    BY FS_Singleton
  <1>4. IsFiniteSet(main) /\ IsFiniteSet(other)
    BY <1>2, <1>3, FS_Product
  <1>5. IsFiniteSet(all)
    BY <1>4, FS_Union
  <1>6. PICK f \in Arrangements(all) : rows = [k \in DOMAIN f |-> f[k][2]]
    BY DEF TableRows
  <1>7. /\ Cardinality(all) \in Nat
        /\ DOMAIN f = 1..Cardinality(all)
        /\ \A k \in DOMAIN f : f[k] \in all
    BY <1>5, ArrangementSeq
  <1>8. \A p \in all : p[2] \in Objects \ LikeSqlite
    BY <1>1
  <1>9. \A k \in DOMAIN rows : rows[k] \in Objects \ LikeSqlite
    BY <1>6, <1>7, <1>8
  <1>10. rows \in Seq(Objects)
    <2> HIDE DEF all
    <2>1. rows \in [1..Cardinality(all) -> Objects]
      BY <1>6, <1>7, <1>9
    <2> QED BY <2>1, <1>7, FunctionSeq
  <1> QED BY <1>9, <1>10, ConstantsAssumption

\* The listing of views is a sequence of views of the source.
LEMMA ViewRowsSeq ==
    ASSUME TypeOK, NEW rows \in ViewRows
    PROVE  rows \in Seq(Views)
PROOF
  <1>1. PICK kept \in SUBSET DOMAIN src.views : \E f \in Arrangements(kept) :
            rows = [k \in DOMAIN f |-> src.views[f[k]]]
    <2> DEFINE seen == {k \in DOMAIN src.views :
                          src.engine = "sqlite" => src.views[k].name \notin LikeSqlite}
    <2>1. \E f \in Arrangements(seen) : rows = [k \in DOMAIN f |-> src.views[f[k]]]
      BY DEF ViewRows
    <2> QED BY <2>1
  <1>0. PICK f \in Arrangements(kept) : rows = [k \in DOMAIN f |-> src.views[f[k]]]
    BY <1>1
  <1>2. src.views \in Seq(Views)
    BY DEF TypeOK, Databases
  <1>3. DOMAIN src.views = 1..Len(src.views) /\ Len(src.views) \in Nat
    BY <1>2
  <1>4. IsFiniteSet(kept)
    <2>1. IsFiniteSet(1..Len(src.views))
      BY <1>3, FS_Interval
    <2> QED BY <2>1, <1>3, FS_Subset
  <1>5. /\ Cardinality(kept) \in Nat
        /\ DOMAIN f = 1..Cardinality(kept)
        /\ \A k \in DOMAIN f : f[k] \in kept
    BY <1>4, ArrangementSeq
  <1>6. \A k \in DOMAIN rows : rows[k] \in Views
    BY <1>0, <1>2, <1>3, <1>5
  <1>7. rows \in [1..Cardinality(kept) -> Views]
    BY <1>0, <1>5, <1>6
  <1> QED BY <1>7, <1>5, FunctionSeq

\* A source stays a source when a table is dropped from it.
LEMMA DropsType ==
    ASSUME TypeOK, NEW t, SourceDrops(t)
    PROVE  src' \in Databases
PROOF
  <1>1. src' = [src EXCEPT !.main = @ \ {t}]
    BY DEF SourceDrops
  <1>2. ASSUME NEW s \in Databases
        PROVE  [s EXCEPT !.main = @ \ {t}] \in Databases
    BY DEF Databases
  <1>3. src \in Databases
    BY DEF TypeOK
  <1> QED BY <1>1, <1>2, <1>3, Zenon

-----------------------------------------------------------------------------
(* Putting one object into the target *)

\* Put adds the object as this run's and keeps all others.
LEMMA PutAdds ==
    ASSUME TypeOK, run > 0, NEW o \in Objects \ DOMAIN dst, dst' = Put(o), run' = run
    PROVE  /\ DOMAIN dst' = DOMAIN dst \cup {o}
           /\ DOMAIN dst' \subseteq Objects
           /\ \A x \in DOMAIN dst' : dst'[x] \in 0..run'
           /\ Made' = Made \cup {o}
PROOF
  <1>1. DOMAIN dst' = DOMAIN dst \cup {o}
    BY DEF Put
  <1>2. \A x \in DOMAIN dst' : dst'[x] = IF x = o THEN run ELSE dst[x]
    BY DEF Put
  <1>3. DOMAIN dst' \subseteq Objects /\ run \in Nat
    BY <1>1, ConstantsAssumption DEF TypeOK
  <1>4. \A x \in DOMAIN dst' : dst'[x] \in 0..run'
    BY <1>1, <1>2, <1>3 DEF TypeOK
  <1>5. Made' = Made \cup {o}
    BY <1>1, <1>2 DEF Made
  <1> QED BY <1>1, <1>3, <1>4, <1>5

-----------------------------------------------------------------------------
(* Inductiveness *)

\* No reply is a reply; no rows are rows.
LEMMA NothingType ==
    /\ NoReply \in [kind : {"none", "ok", "error"}, failed : SUBSET Objects]
    /\ << >> \in Seq(Objects) /\ << >> \in Seq(Views)
PROOF BY DEF NoReply

\* Initially the target holds what it held and nothing was asked.
LEMMA InitInv == Init => IInv
PROOF
  <1> SUFFICES ASSUME Init PROVE IInv
    OBVIOUS
  <1>1. src \in Databases
    BY ConstantsAssumption DEF Init
  <1>2. DOMAIN dst \subseteq Objects /\ \A o \in DOMAIN dst : dst[o] = 0
    BY ConstantsAssumption DEF Init
  <1>3. TypeOK
    <2>1. /\ run = 0 /\ pc = "idle" /\ i = 1 /\ failed = {} /\ hiccup = FALSE
          /\ tabs = << >> /\ views = << >> /\ reply = NoReply
      BY DEF Init
    <2>2. \A o \in DOMAIN dst : dst[o] \in 0..run
      BY <2>1, <1>2
    <2>3. run \in 0..MaxRuns
      BY <2>1, ConstantsAssumption
    <2>4. /\ tabs \in Seq(Objects) /\ views \in Seq(Views)
          /\ reply \in [kind : {"none", "ok", "error"}, failed : SUBSET Objects]
      BY <2>1, NothingType, Zenon
    <2>5. hiccup \in BOOLEAN
      BY <2>1
    <2>6. pc \in Steps /\ pc # "copy" /\ pc # "view"
      BY <2>1 DEF Steps
    <2>7. i \in Nat \ {0} /\ failed \subseteq Objects
      BY <2>1
    <2> QED BY <1>1, <1>2, <2>1, <2>2, <2>3, <2>4, <2>5, <2>6, <2>7, Zenon DEF TypeOK
  <1> QED BY <1>3 DEF Init, IInv, LoopInv, PhaseInv, ViewsAccounted, NoInternalTable, NoReply

\* A new conversion: what the target holds was made by others.
LEMMA StartInv == ASSUME IInv, Start PROVE IInv'
PROOF
  <1> USE DEF At, Goto
  <1>1. TypeOK'
    <2>1. /\ run' = run + 1 /\ run < MaxRuns /\ pc' = "prepare" /\ i' = 1 /\ failed' = {}
          /\ tabs' = << >> /\ views' = << >> /\ reply' = NoReply /\ hiccup' = FALSE
          /\ UNCHANGED <<src, dst>>
      BY DEF Start
    <2>2. \A o \in DOMAIN dst : dst'[o] \in 0..run'
      BY <2>1, ConstantsAssumption DEF IInv, TypeOK
    <2>3. run' \in 0..MaxRuns
      BY <2>1, ConstantsAssumption DEF IInv, TypeOK
    <2>4. /\ tabs' \in Seq(Objects) /\ views' \in Seq(Views)
          /\ reply' \in [kind : {"none", "ok", "error"}, failed : SUBSET Objects]
      BY <2>1, NothingType, Zenon
    <2>5. hiccup' \in BOOLEAN
      BY <2>1 DEF IInv, TypeOK
    <2>6. pc' \in Steps /\ pc' # "copy" /\ pc' # "view"
      BY <2>1 DEF Steps
    <2>7. i' \in Nat \ {0} /\ failed' \subseteq Objects
      BY <2>1
    <2>8. src' \in Databases /\ DOMAIN dst' \subseteq Objects
      BY <2>1 DEF IInv, TypeOK
    <2> QED BY <2>1, <2>2, <2>3, <2>4, <2>5, <2>6, <2>7, <2>8, Zenon DEF TypeOK
  <1>2. Made' = {}
    BY DEF IInv, TypeOK, Start, Made
  <1> QED
    BY <1>1, <1>2
    DEF Start, IInv, TypeOK, LoopInv, PhaseInv, ViewsAccounted, NoInternalTable, NoReply

\* The statements that change neither the target nor a listing.
LEMMA MoveInv ==
    ASSUME IInv,
           \/ AttachSource \/ AttachTarget \/ UseTarget \/ TablesDone \/ StatementFails
           \/ EnterViews \/ SkipViews \/ ViewsDone \/ Answer
    PROVE  IInv'
PROOF
  <1> USE DEF At, Goto
  <1>1. UNCHANGED <<src, dst, run, tabs, views, i, failed, hiccup>>
    BY DEF AttachSource, AttachTarget, UseTarget, TablesDone, StatementFails,
           EnterViews, SkipViews, ViewsDone, Answer
  <1>2. Made' = Made
    BY <1>1 DEF Made
  <1>3. CASE AttachSource
    BY <1>1, <1>2, <1>3
      DEF AttachSource, IInv, TypeOK, Steps, LoopInv, PhaseInv, ViewsAccounted, NoInternalTable
  <1>4. CASE AttachTarget
    BY <1>1, <1>2, <1>4
      DEF AttachTarget, IInv, TypeOK, Steps, LoopInv, PhaseInv, ViewsAccounted, NoInternalTable
  <1>5. CASE UseTarget
    BY <1>1, <1>2, <1>5
      DEF UseTarget, IInv, TypeOK, Steps, LoopInv, PhaseInv, ViewsAccounted, NoInternalTable
  <1>6. CASE TablesDone
    BY <1>1, <1>2, <1>6
      DEF TablesDone, IInv, TypeOK, Steps, LoopInv, PhaseInv, ViewsAccounted, NoInternalTable
  <1>7. CASE StatementFails
    BY <1>1, <1>2, <1>7
      DEF StatementFails, IInv, TypeOK, Steps, LoopInv, PhaseInv, ViewsAccounted, NoInternalTable
  <1>8. CASE EnterViews
    BY <1>1, <1>2, <1>8
      DEF EnterViews, IInv, TypeOK, Steps, LoopInv, PhaseInv, ViewsAccounted, NoInternalTable
  <1>9. CASE SkipViews
    BY <1>1, <1>2, <1>9
      DEF SkipViews, IInv, TypeOK, Steps, LoopInv, PhaseInv, ViewsAccounted, NoInternalTable
  <1>10. CASE ViewsDone
    BY <1>1, <1>2, <1>10
      DEF ViewsDone, IInv, TypeOK, Steps, LoopInv, PhaseInv, ViewsAccounted, NoInternalTable
  <1>11. CASE Answer
    BY <1>1, <1>2, <1>11
      DEF Answer, IInv, TypeOK, Steps, LoopInv, PhaseInv, ViewsAccounted, NoInternalTable
  <1> QED BY <1>3, <1>4, <1>5, <1>6, <1>7, <1>8, <1>9, <1>10, <1>11

\* The two listings.
LEMMA ListInv == ASSUME IInv, ListTables \/ QueryViews PROVE IInv'
PROOF
  <1> USE DEF At, Goto
  <1>1. UNCHANGED <<src, dst, run, failed, hiccup, reply>>
    BY DEF ListTables, QueryViews
  <1>2. Made' = Made
    BY <1>1 DEF Made
  <1>3. CASE ListTables
    <2>1. tabs' \in Seq(Objects) /\ \A k \in DOMAIN tabs' : tabs'[k] \notin Internal
      BY <1>3, TableRowsSeq DEF ListTables, IInv
    <2> QED
      BY <1>1, <1>2, <1>3, <2>1
      DEF ListTables, IInv, TypeOK, Steps, LoopInv, PhaseInv, ViewsAccounted,
          NoInternalTable, NoReply
  <1>4. CASE QueryViews
    <2>1. views' \in Seq(Views)
      BY <1>4, ViewRowsSeq DEF QueryViews, IInv
    <2> QED
      BY <1>1, <1>2, <1>4, <2>1
      DEF QueryViews, IInv, TypeOK, Steps, LoopInv, PhaseInv, ViewsAccounted,
          NoInternalTable, NoReply
  <1> QED BY <1>3, <1>4

\* A copied table: the loop has come one row further.
LEMMA CopyInv == ASSUME IInv, CopyTable PROVE IInv'
PROOF
  <1> USE DEF At, Goto
  <1>1. /\ tabs[i] \in Objects \ DOMAIN dst /\ tabs[i] \notin Internal
        /\ run > 0 /\ i \in 1..Len(tabs)
    BY DEF IInv, TypeOK, PhaseInv, CopyTable
  <1>2. /\ DOMAIN dst' \subseteq Objects
        /\ \A x \in DOMAIN dst' : dst'[x] \in 0..run'
        /\ Made' = Made \cup {tabs[i]}
    BY <1>1, PutAdds DEF IInv, CopyTable
  <1>3. TypeOK'
    BY <1>1, <1>2 DEF IInv, TypeOK, CopyTable
  <1>4. LoopInv'
    BY <1>1, <1>2 DEF IInv, TypeOK, LoopInv, CopyTable
  <1> QED
    BY <1>1, <1>2, <1>3, <1>4
    DEF IInv, TypeOK, PhaseInv, ViewsAccounted, NoInternalTable, CopyTable, NoReply

\* A view recreated or reported.
LEMMA ViewInv == ASSUME IInv, RecreateView PROVE IInv'
PROOF
  <1> USE DEF At, Goto
  <1> DEFINE v == views[i]
  <1>1. v \in Views /\ run > 0 /\ i \in 1..Len(views) /\ reply = NoReply
    BY DEF IInv, TypeOK, PhaseInv, RecreateView
  <1>2. v.name \in Objects
    BY <1>1 DEF Views
  <1>3. CASE Acceptable(v) /\ dst' = Put(v.name) /\ UNCHANGED <<failed, hiccup>>
    <2>1. v.name \in Objects \ DOMAIN dst /\ v.name \notin Internal
      BY <1>2, <1>3 DEF Acceptable
    <2> HIDE DEF v
    <2>2. /\ DOMAIN dst' \subseteq Objects
          /\ \A x \in DOMAIN dst' : dst'[x] \in 0..run'
          /\ Made' = Made \cup {v.name}
      BY <1>1, <1>3, <2>1, PutAdds DEF IInv, RecreateView
    <2> USE DEF v
    <2>3. TypeOK'
      BY <1>1, <1>3, <2>2 DEF IInv, TypeOK, RecreateView
    <2>4. LoopInv'
      BY <1>1, <1>3, <2>2 DEF IInv, TypeOK, LoopInv, RecreateView
    <2> QED
      BY <1>1, <1>3, <2>1, <2>2, <2>3, <2>4
      DEF IInv, TypeOK, PhaseInv, ViewsAccounted, NoInternalTable, RecreateView, NoReply
  <1>4. CASE failed' = failed \cup {v.name} /\ UNCHANGED dst /\ hiccup' = (hiccup \/ Acceptable(v))
    <2>1. Made' = Made
      BY <1>4 DEF Made, RecreateView
    <2>2. hiccup' \in BOOLEAN
      BY <1>4 DEF IInv, TypeOK
    <2>3. TypeOK'
      BY <1>1, <1>2, <1>4, <2>2 DEF IInv, TypeOK, RecreateView
    <2>4. LoopInv'
      BY <1>1, <1>4, <2>1 DEF IInv, TypeOK, LoopInv, RecreateView
    <2> QED
      BY <1>1, <1>4, <2>1, <2>3, <2>4
      DEF IInv, PhaseInv, ViewsAccounted, NoInternalTable, RecreateView, NoReply
  <1> QED BY <1>3, <1>4 DEF RecreateView

\* A dropped table disturbs nothing of this.
LEMMA DropsInv == ASSUME IInv, NEW t \in Objects, SourceDrops(t) PROVE IInv'
PROOF
  <1>1. UNCHANGED <<dst, run, pc, tabs, views, i, failed, reply, hiccup>>
    BY DEF SourceDrops
  <1>2. Made' = Made
    BY <1>1 DEF Made
  <1>3. src' \in Databases
    BY DropsType DEF IInv
  <1>4. TypeOK'
    BY <1>1, <1>3 DEF IInv, TypeOK
  <1> QED
    BY <1>1, <1>2, <1>4 DEF IInv, LoopInv, PhaseInv, ViewsAccounted, NoInternalTable

\* Nothing changes in a stuttering step.
LEMMA StutterInv == ASSUME IInv, UNCHANGED vars PROVE IInv'
PROOF
  <1>1. Made' = Made
    BY DEF vars, Made
  <1> QED BY <1>1 DEF vars, IInv, TypeOK, LoopInv, PhaseInv, ViewsAccounted, NoInternalTable

\* The invariant holds throughout every run of the specification.
THEOREM Inductive == Spec => []IInv
PROOF
  <1>1. IInv /\ [Next]_vars => IInv'
    <2> SUFFICES ASSUME IInv, [Next]_vars PROVE IInv'
      OBVIOUS
    <2>1. CASE Step
      BY <2>1, MoveInv, ListInv, CopyInv, ViewInv DEF Step
    <2> QED BY <2>1, StartInv, DropsInv, StutterInv DEF Next
  <1> QED BY <1>1, InitInv, PTL DEF Spec

\* Values keep their types and the loop indices their range, whatever the sources,
\* the targets and the failures.
THEOREM TypeCorrect == Spec => []TypeOK
PROOF BY Inductive, PTL DEF IInv

\* Every view a successful conversion listed was recreated or is reported.
THEOREM EveryViewAccounted == Spec => []ViewsAccounted
PROOF BY Inductive, PTL DEF IInv

\* No conversion writes an object SQLite reserves.
THEOREM NoReservedName == Spec => []NoInternalTable
PROOF BY Inductive, PTL DEF IInv

-----------------------------------------------------------------------------
(* convert.database implements Conversion *)

\* The initial state is an initial state of the promise.
LEMMA PromiseInit == Init => Promise!Init
PROOF
  <1> SUFFICES ASSUME Init PROVE Promise!Init
    OBVIOUS
  <1>1. \E S \in SUBSET Objects : dst = [o \in S |-> 0]
    BY ConstantsAssumption DEF Init
  <1>2. run = 0 /\ TablesToCopy = {} /\ Status = "idle" /\ reply.failed = {}
    BY DEF Init, TablesToCopy, Status, NoReply
  <1> QED BY <1>1, <1>2 DEF Promise!Init

\* A step that touches neither target, listing nor reply, and stays in its phase, is
\* not seen.
LEMMA Unseen ==
    ASSUME UNCHANGED <<dst, run, tabs, reply>>, Status' = Status
    PROVE  UNCHANGED Promise!vars
PROOF BY DEF Promise!vars, TablesToCopy

\* Every step of the code is a step of the promise, or is not seen.
LEMMA PromiseStep == ASSUME IInv, [Next]_vars PROVE [Promise!Next]_(Promise!vars)
PROOF
  <1> USE DEF At, Goto
  <1>1. CASE Start
    <2>1. /\ UNCHANGED dst /\ run' = run + 1 /\ TablesToCopy' = {}
          /\ reply'.failed = {} /\ Status' = "listing"
      BY <1>1 DEF Start, TablesToCopy, Status, NoReply
    <2>2. ~Promise!Running
      BY <1>1 DEF Start, Status, IInv, TypeOK, Promise!Running
    <2> QED BY <2>1, <2>2 DEF Promise!Start, Promise!Next
  <1>2. CASE AttachSource \/ AttachTarget \/ UseTarget \/ TablesDone \/ EnterViews \/ SkipViews
             \/ QueryViews \/ ViewsDone
    <2>1. UNCHANGED <<dst, run, tabs, reply>>
      BY <1>2 DEF AttachSource, AttachTarget, UseTarget, TablesDone, EnterViews, SkipViews,
                  QueryViews, ViewsDone
    <2>2. Status' = Status
      BY <1>2 DEF AttachSource, AttachTarget, UseTarget, TablesDone, EnterViews, SkipViews,
                  QueryViews, ViewsDone, Status
    <2> QED BY <2>1, <2>2, Unseen
  <1>3. CASE ListTables
    <2>1. TablesToCopy' \in SUBSET Objects
      <3>1. tabs' \in Seq(Objects)
        BY <1>3, TableRowsSeq DEF ListTables, IInv
      <3> QED BY <3>1 DEF TablesToCopy
    <2>2. Status = "listing" /\ Status' = "writing" /\ UNCHANGED <<dst, run, reply>>
      BY <1>3 DEF ListTables, Status
    <2>3. Promise!List(TablesToCopy')
      BY <2>2 DEF Promise!List
    <2> QED BY <2>1, <2>3 DEF Promise!Next
  <1>4. CASE CopyTable
    <2>1. tabs[i] \in Objects \ DOMAIN dst /\ dst' = Put(tabs[i])
      BY <1>4 DEF CopyTable, IInv, TypeOK
    <2>2. Status = "writing" /\ Status' = "writing" /\ TablesToCopy' = TablesToCopy
          /\ UNCHANGED <<run, reply>>
      BY <1>4 DEF CopyTable, Status, TablesToCopy
    <2>3. Promise!Create(tabs[i])
      BY <2>1, <2>2 DEF Promise!Create, Put
    <2> QED BY <2>1, <2>3 DEF Promise!Next
  <1>5. CASE RecreateView
    <2>1. Status = "writing" /\ Status' = "writing" /\ TablesToCopy' = TablesToCopy
          /\ UNCHANGED <<run, reply, tabs>>
      BY <1>5 DEF RecreateView, Status, TablesToCopy
    <2>2. CASE UNCHANGED dst
      BY <2>1, <2>2, Unseen
    <2>3. CASE Acceptable(views[i]) /\ dst' = Put(views[i].name)
      <3>1. views[i].name \in Objects \ DOMAIN dst
        <4>1. views \in Seq(Views) /\ i \in 1..Len(views)
          BY <1>5 DEF RecreateView, IInv, TypeOK
        <4>2. views[i].name \in Objects
          <5>1. views[i] \in Views
            BY <4>1
          <5> QED BY <5>1 DEF Views
        <4> QED BY <2>3, <4>2 DEF Acceptable
      <3>2. Promise!Create(views[i].name)
        BY <2>1, <2>3, <3>1 DEF Promise!Create, Put
      <3> QED BY <3>1, <3>2 DEF Promise!Next
    <2> QED BY <1>5, <2>2, <2>3 DEF RecreateView
  <1>6. CASE StatementFails
    <2>1. reply = NoReply /\ reply' = [kind |-> "error", failed |-> {}] /\ pc # "idle" /\ pc' = "idle"
      BY <1>6 DEF StatementFails, IInv, PhaseInv
    <2>2. /\ Status' = "error" /\ Status \in {"listing", "writing"}
          /\ reply'.failed = reply.failed
      BY <2>1 DEF Status, NoReply
    <2>3. UNCHANGED <<dst, run>> /\ TablesToCopy' = TablesToCopy
      BY <1>6 DEF StatementFails, TablesToCopy
    <2> QED BY <2>2, <2>3 DEF Promise!GiveUp, Promise!Running, Promise!Next
  <1>7. CASE Answer
    <2>1. /\ Status = "writing" /\ Status' = "ok" /\ reply'.failed = failed
          /\ UNCHANGED <<dst, run>> /\ TablesToCopy' = TablesToCopy
      BY <1>7 DEF Answer, Status, TablesToCopy
    <2>2. TablesToCopy \subseteq Promise!Made
      BY <1>7 DEF Answer, IInv, LoopInv, TablesToCopy, Made, Promise!Made
    <2>3. failed \in SUBSET Objects
      BY DEF IInv, TypeOK
    <2>4. Promise!Succeed(failed)
      BY <2>1, <2>2 DEF Promise!Succeed
    <2> QED BY <2>3, <2>4 DEF Promise!Next
  <1>8. CASE \E t \in Objects : SourceDrops(t)
    <2>1. UNCHANGED <<dst, run, tabs, reply, pc>>
      BY <1>8 DEF SourceDrops
    <2> QED BY <2>1, Unseen DEF Status
  <1>9. CASE UNCHANGED vars
    <2>1. UNCHANGED <<dst, run, tabs, reply, pc>>
      BY <1>9 DEF vars
    <2> QED BY <2>1, Unseen DEF Status
  <1> QED BY <1>1, <1>2, <1>3, <1>4, <1>5, <1>6, <1>7, <1>8, <1>9 DEF Next, Step

\* convert.database implements the promise of Conversion, for every source, target
\* and number of conversions, whatever statements fail.
THEOREM Implements == Spec => KeepsPromise
PROOF
  <1>1. Init => Promise!Init
    BY PromiseInit
  <1>2. IInv /\ [Next]_vars => [Promise!Next]_(Promise!vars)
    BY PromiseStep
  <1> QED BY <1>1, <1>2, Inductive, PTL DEF Spec, KeepsPromise, Promise!Spec

-----------------------------------------------------------------------------
(* Views come in the order they were created *)

\* What explains that a view is missing.
Excused(v) ==
    \/ v.quirk \/ v.name \in Internal \cup DOMAIN dst
    \/ ~(v.reads \subseteq DOMAIN dst)

\* The sources of which the order of creation promises something.
InOrder == src.engine = "sqlite" /\ ReadsOlder

\* Rows that were listed read none that follow, and those reported so far are excused: what
\* excused them, no later view takes away.
OrderInv ==
    InOrder =>
        /\ pc \in {"view", "answer"} =>
              \A j, k \in DOMAIN views : j < k => views[k].name \notin views[j].reads
        /\ pc = "view" /\ ~hiccup =>
              \A k \in 1..(i - 1) : views[k].name \in failed => Excused(views[k])
        /\ pc = "answer" /\ ~hiccup =>
              \A k \in DOMAIN views : views[k].name \in failed => Excused(views[k])
        /\ FailsForAReason

\* The rows of a SQLite source come in the order its views were created.
LEMMA ViewRowsInOrder ==
    ASSUME TypeOK, InOrder, NEW rows \in ViewRows
    PROVE  \A j, k \in DOMAIN rows : j < k => rows[k].name \notin rows[j].reads
PROOF
  <1>1. PICK kept \in SUBSET DOMAIN src.views : \E f \in Arrangements(kept) :
            /\ rows = [k \in DOMAIN f |-> src.views[f[k]]]
            /\ \A j, k \in DOMAIN f : j < k => f[j] < f[k]
    <2> DEFINE seen == {k \in DOMAIN src.views :
                          src.engine = "sqlite" => src.views[k].name \notin LikeSqlite}
    <2>1. \E f \in Arrangements(seen) :
            /\ rows = [k \in DOMAIN f |-> src.views[f[k]]]
            /\ \A j, k \in DOMAIN f : j < k => f[j] < f[k]
      BY DEF ViewRows, InOrder
    <2> QED BY <2>1
  <1>2. PICK f \in Arrangements(kept) :
            /\ rows = [k \in DOMAIN f |-> src.views[f[k]]]
            /\ \A j, k \in DOMAIN f : j < k => f[j] < f[k]
    BY <1>1
  <1>3. src.views \in Seq(Views)
    BY DEF TypeOK, Databases
  <1>4. DOMAIN src.views = 1..Len(src.views) /\ Len(src.views) \in Nat
    BY <1>3
  <1>5. IsFiniteSet(kept)
    <2>1. IsFiniteSet(1..Len(src.views))
      BY <1>4, FS_Interval
    <2> QED BY <2>1, <1>4, FS_Subset
  <1>6. DOMAIN rows = DOMAIN f /\ \A k \in DOMAIN f : f[k] \in DOMAIN src.views
    BY <1>2, <1>5, ArrangementSeq
  <1>7. ASSUME NEW j \in DOMAIN rows, NEW k \in DOMAIN rows, j < k
        PROVE  rows[k].name \notin rows[j].reads
    <2>1. f[j] < f[k] /\ rows[j] = src.views[f[j]] /\ rows[k] = src.views[f[k]]
      BY <1>2, <1>6, <1>7
    <2> QED BY <1>6, <2>1 DEF InOrder, ReadsOlder
  <1> QED BY <1>7

\* A step that leaves rows, target and report alone, and neither enters nor leaves the loop.
LEMMA QuietOrder ==
    ASSUME IInv, OrderInv, UNCHANGED <<dst, views, i, failed, hiccup>>,
           src'.engine = src.engine, src'.views = src.views,
           \/ UNCHANGED <<pc, reply>>
           \/ pc' \notin {"view", "answer"} /\ UNCHANGED reply
           \/ pc' \notin {"view", "answer"} /\ reply'.kind # "ok"
    PROVE  OrderInv'
PROOF
  <1>1. InOrder' <=> InOrder
    BY DEF InOrder, ReadsOlder
  <1>2. \A v : Excused(v)' <=> Excused(v)
    BY DEF Excused
  <1>3. ASSUME InOrder PROVE FailsForAReason'
    BY <1>3 DEF OrderInv, FailsForAReason
  <1> QED
    BY <1>1, <1>2, <1>3 DEF OrderInv, Excused

LEMMA EnterOrder == ASSUME IInv, OrderInv, QueryViews PROVE OrderInv'
PROOF
  <1>1. /\ views' \in ViewRows /\ i' = 1 /\ pc' = "view"
        /\ UNCHANGED <<src, dst, run, tabs, failed, reply, hiccup>>
    BY DEF QueryViews, Goto
  <1>2. reply'.kind # "ok"
    BY <1>1 DEF QueryViews, At, IInv, PhaseInv, NoReply
  <1>3. InOrder' <=> InOrder
    BY <1>1 DEF InOrder, ReadsOlder
  <1>4. ASSUME InOrder
        PROVE  \A j, k \in DOMAIN views' : j < k => views'[k].name \notin views'[j].reads
    BY <1>1, <1>4, ViewRowsInOrder DEF IInv
  <1>5. FailsForAReason'
    BY <1>2 DEF FailsForAReason
  <1>6. 1..(i' - 1) = {}
    BY <1>1
  <1> QED
    BY <1>1, <1>3, <1>4, <1>5, <1>6 DEF OrderInv

LEMMA LeaveOrder == ASSUME IInv, OrderInv, SkipViews \/ ViewsDone PROVE OrderInv'
PROOF
  <1>1. /\ pc' = "answer"
        /\ UNCHANGED <<src, dst, run, tabs, views, i, failed, reply, hiccup>>
    BY DEF SkipViews, ViewsDone, Goto
  <1>2. reply'.kind # "ok"
    BY <1>1 DEF SkipViews, ViewsDone, At, IInv, PhaseInv, NoReply
  <1>3. InOrder' <=> InOrder
    BY <1>1 DEF InOrder, ReadsOlder
  <1>4. \A v : Excused(v)' <=> Excused(v)
    BY <1>1 DEF Excused
  <1>5. FailsForAReason'
    BY <1>2 DEF FailsForAReason
  <1>6. CASE SkipViews
    <2>1. DOMAIN views' = {}
      BY <1>1, <1>6 DEF SkipViews, IInv, PhaseInv
    <2> QED
      BY <1>1, <1>5, <2>1 DEF OrderInv
  <1>7. CASE ViewsDone
    <2>1. pc = "view" /\ i > Len(views) /\ i \in Nat /\ DOMAIN views = 1..Len(views)
          /\ Len(views) \in Nat
      BY <1>7 DEF ViewsDone, At, IInv, TypeOK
    <2>2. \A k \in DOMAIN views : k \in 1..(i - 1)
      BY <2>1
    <2> QED
      BY <1>1, <1>3, <1>5, <2>1, <2>2 DEF OrderInv, Excused
  <1> QED
    BY <1>6, <1>7

LEMMA AnswerOrder == ASSUME IInv, OrderInv, Answer PROVE OrderInv'
PROOF
  <1>1. /\ pc = "answer" /\ pc' = "idle" /\ reply' = [kind |-> "ok", failed |-> failed]
        /\ UNCHANGED <<src, dst, run, tabs, views, i, failed, hiccup>>
    BY DEF Answer, At, Goto
  <1>2. InOrder' <=> InOrder
    BY <1>1 DEF InOrder, ReadsOlder
  <1>3. ASSUME InOrder PROVE FailsForAReason'
    BY <1>1, <1>3 DEF OrderInv, FailsForAReason, Excused
  <1> QED
    BY <1>1, <1>2, <1>3 DEF OrderInv

\* One view further: a view that was recreated is read by none before it, so what these
\* lacked they still lack.
LEMMA ViewOrder == ASSUME IInv, OrderInv, RecreateView PROVE OrderInv'
PROOF
  <1>1. /\ pc = "view" /\ pc' = "view" /\ i \in 1..Len(views) /\ i' = i + 1 /\ views \in Seq(Views)
        /\ UNCHANGED <<src, run, tabs, views, reply>>
    BY DEF RecreateView, At, IInv, TypeOK
  <1>2. reply'.kind # "ok" /\ (InOrder' <=> InOrder)
    BY <1>1 DEF IInv, PhaseInv, NoReply, InOrder, ReadsOlder
  <1>3. FailsForAReason'
    BY <1>2 DEF FailsForAReason
  <1>4. ASSUME InOrder, ~hiccup', NEW k \in 1..i, views[k].name \in failed'
        PROVE  Excused(views[k])'
    <2>1. k \in DOMAIN views /\ i \in DOMAIN views /\ (k = i \/ (k \in 1..(i - 1) /\ k < i))
      <3>1. DOMAIN views = 1..Len(views) /\ Len(views) \in Nat /\ i \in 1..Len(views)
        BY <1>1
      <3>2. k \in 1..i /\ k \in Nat
        BY <1>1, <1>4, <3>1
      <3>3. k \in DOMAIN views /\ i \in DOMAIN views
        BY <3>1, <3>2
      <3> QED
        BY <3>1, <3>2, <3>3
    <2>2. CASE Acceptable(views[i]) /\ dst' = Put(views[i].name) /\ UNCHANGED <<failed, hiccup>>
      <3>1. DOMAIN dst' = DOMAIN dst \cup {views[i].name}
        BY <2>2 DEF Put
      <3>2. CASE k = i
        BY <1>1, <3>1, <3>2 DEF Excused
      <3>3. CASE k \in 1..(i - 1) /\ k < i
        <4>1. Excused(views[k])
          BY <1>1, <1>4, <2>2, <3>3 DEF OrderInv
        <4>2. views[i].name \notin views[k].reads
          BY <1>1, <1>4, <2>1, <3>3 DEF OrderInv
        <4> QED
          BY <1>1, <3>1, <4>1, <4>2 DEF Excused
      <3> QED
        BY <2>1, <3>2, <3>3
    <2>3. CASE /\ failed' = failed \cup {views[i].name} /\ UNCHANGED dst
               /\ hiccup' = (hiccup \/ Acceptable(views[i]))
      <3>1. ~hiccup /\ ~Acceptable(views[i])
        BY <1>4, <2>3
      <3>2. CASE k = i
        BY <1>1, <2>3, <3>1, <3>2 DEF Acceptable, Excused
      <3>3. CASE k \in 1..(i - 1)
        <4>1. CASE views[k].name \in failed
          <5>1. Excused(views[k])
            BY <1>1, <1>4, <3>1, <3>3, <4>1 DEF OrderInv
          <5> QED
            BY <1>1, <2>3, <5>1 DEF Excused
        <4>2. CASE views[k].name \in Made
          BY <1>1, <2>3, <4>2 DEF Made, Excused
        <4> QED
          BY <1>1, <3>3, <4>1, <4>2 DEF IInv, LoopInv
      <3> QED
        BY <2>1, <3>2, <3>3
    <2> QED
      BY <2>2, <2>3 DEF RecreateView
  <1>5. 1..(i' - 1) = 1..i
    BY <1>1
  <1> QED
    BY <1>1, <1>2, <1>3, <1>4, <1>5 DEF OrderInv, Excused

\* Of a SQLite source in which every view is younger than those it reads, a success reports
\* no view for having come too early.
THEOREM ViewsInOrder == Spec => []SqliteViewsInOrder
PROOF
  <1>1. Init => OrderInv
    BY DEF Init, OrderInv, FailsForAReason, NoReply
  <1>2. ASSUME IInv, OrderInv, [Next]_vars PROVE OrderInv'
    <2>1. CASE Start
      <3>1. pc' = "prepare" /\ reply' = NoReply
        BY <2>1 DEF Start, Goto
      <3>2. FailsForAReason'
        BY <3>1 DEF FailsForAReason, NoReply
      <3> QED
        BY <3>1, <3>2 DEF OrderInv
    <2>2. CASE CopyTable
      <3>1. pc' = "copy" /\ UNCHANGED reply /\ reply = NoReply
        BY <1>2, <2>2 DEF CopyTable, At, IInv, PhaseInv
      <3>2. FailsForAReason'
        BY <3>1 DEF FailsForAReason, NoReply
      <3> QED
        BY <3>1, <3>2 DEF OrderInv
    <2>3. CASE AttachSource \/ AttachTarget \/ ListTables \/ UseTarget \/ TablesDone \/ EnterViews
      BY <1>2, <2>3, QuietOrder
      DEF AttachSource, AttachTarget, ListTables, UseTarget, TablesDone, EnterViews, Goto
    <2>4. CASE StatementFails
      BY <1>2, <2>4, QuietOrder DEF StatementFails, Goto
    <2>5. CASE \E t \in Objects : SourceDrops(t)
      <3>1. PICK t \in Objects : SourceDrops(t)
        BY <2>5
      <3>2. src'.engine = src.engine /\ src'.views = src.views
        <4>1. src \in Databases /\ src' = [src EXCEPT !.main = @ \ {t}]
          BY <1>2, <3>1 DEF SourceDrops, IInv, TypeOK
        <4> QED
          BY <4>1 DEF Databases
      <3> QED
        BY <1>2, <3>1, <3>2, QuietOrder DEF SourceDrops
    <2>6. CASE UNCHANGED vars
      BY <1>2, <2>6, QuietOrder DEF vars
    <2> QED
      BY <1>2, <2>1, <2>2, <2>3, <2>4, <2>5, <2>6, EnterOrder, LeaveOrder, AnswerOrder, ViewOrder
      DEF Next, Step
  <1>3. OrderInv => SqliteViewsInOrder
    BY DEF OrderInv, InOrder, SqliteViewsInOrder
  <1> QED
    BY <1>1, <1>2, <1>3, Inductive, PTL DEF Spec
=============================================================================
