--------------------------- MODULE BuildSqlProofs ---------------------------
(***************************************************************************)
(* For every set of names and paths:                                       *)
(*  - ensure_parent_dir makes no folder but those above the file to be     *)
(*    written, leaves none of them out when it succeeds, and fails only    *)
(*    for a reason;                                                        *)
(*  - a statement quotes what the request named, and a database that reads *)
(*    it reads nothing of a name or a path as SQL.                         *)
(*                                                                         *)
(* Both are inductions: along the characters of a path, as Resolve folds   *)
(* them, and along those of a text, as Reads does.  The first theorem      *)
(* needs neither: it holds for every way a system may resolve a path.      *)
(***************************************************************************)
EXTENDS BuildSql, SequenceFolds

\* While folders are made, the buffer is the path of an export cut at its last slash,
\* and the next mkdir is of what comes before one of its slashes, or of all of it.
MkdirInv ==
    pc = "mkdir" =>
        /\ method \in Exports
        /\ args.path \in Paths /\ HasParent(args.path) /\ buf = Cut(args.path)
        /\ p \in Ends(buf)

IInv == fs \in [Nodes -> Kinds] /\ MkdirInv

\* Where a path has a folder, its last slash is a slash after the first character.
LEMMA LastSlashIs ==
    ASSUME NEW text \in Seq(Char), HasParent(text)
    PROVE  LastSlash(text) \in 2..Len(text) /\ text[LastSlash(text)] = Slash
PROOF
  <1> DEFINE I == {i \in 1..Len(text) : text[i] = Slash}
  <1>1. LastSlash(text) = IF I # {} THEN Max(I) ELSE 0
    BY DEF LastSlash, SelectLastInSeq
  <1>2. I # {} /\ LastSlash(text) = Max(I)
    BY <1>1 DEF HasParent
  <1>3. I \in SUBSET (0..Len(text)) /\ Len(text) \in Nat
    OBVIOUS
  <1>4. Max(I) \in I
    <2> HIDE DEF I
    <2> QED
      BY <1>2, <1>3, Greatest
  <1> QED
    BY <1>2, <1>4 DEF HasParent

\* What is cut off is the file: every mkdir's argument ends before a slash of the path.
LEMMA EndsAtSlash ==
    ASSUME NEW path \in Seq(Char), HasParent(path), NEW e \in Ends(Cut(path))
    PROVE  /\ e \in 1..Len(Cut(path))
           /\ e + 1 \in 2..Len(path) /\ path[e + 1] = Slash
           /\ Upto(Cut(path), e) = Upto(path, e)
PROOF
  <1> DEFINE l == LastSlash(path)
  <1>1. l \in 2..Len(path) /\ path[l] = Slash
    BY LastSlashIs
  <1> HIDE DEF l
  <1>2. Cut(path) = SubSeq(path, 1, l - 1)
    BY DEF Cut, Upto, l
  <1>3. /\ Len(Cut(path)) = l - 1 /\ Cut(path) \in Seq(Char)
        /\ \A i \in 1..(l - 1) : Cut(path)[i] = path[i]
    BY <1>1, <1>2
  <1>4. e \in 1..(l - 1) /\ path[e + 1] = Slash
    BY <1>1, <1>3 DEF Ends
  <1>5. Upto(Cut(path), e) = Upto(path, e)
    <2>1. /\ Upto(Cut(path), e) \in Seq(Char) /\ Len(Upto(Cut(path), e)) = e
          /\ \A i \in 1..e : Upto(Cut(path), e)[i] = Cut(path)[i]
      BY <1>1, <1>3, <1>4 DEF Upto
    <2>2. /\ Upto(path, e) \in Seq(Char) /\ Len(Upto(path, e)) = e
          /\ \A i \in 1..e : Upto(path, e)[i] = path[i]
      BY <1>1, <1>4 DEF Upto
    <2>3. /\ Len(Upto(Cut(path), e)) = Len(Upto(path, e))
          /\ \A i \in 1..Len(Upto(Cut(path), e)) : Upto(Cut(path), e)[i] = Upto(path, e)[i]
      BY <1>1, <1>3, <1>4, <2>1, <2>2
    <2> QED
      BY <2>1, <2>2, <2>3, SeqEqual, Zenon
  <1> QED
    BY <1>1, <1>3, <1>4, <1>5

\* There is a next end as long as the last was not reached.
LEMMA NextEndIs ==
    ASSUME NEW path \in Seq(Char), HasParent(path), NEW n \in 0..(Len(Cut(path)) - 1)
    PROVE  /\ NextEnd(Cut(path), n) \in Ends(Cut(path))
           /\ \A j \in Ends(Cut(path)) : j > n => NextEnd(Cut(path), n) <= j
PROOF
  <1> DEFINE E == Ends(Cut(path))
             Later == {e \in E : e > n}
  <1>1. \A e \in E : e \in Nat
    BY EndsAtSlash
  <1>2. Len(Cut(path)) \in Later
    <2>1. Len(Cut(path)) \in Nat
      BY <1>1 DEF Ends
    <2> QED
      BY <2>1 DEF Ends
  <1> HIDE DEF E
  <1>3. PICK e \in Later : \A j \in Later : e <= j
    BY <1>1, <1>2, Least
  <1>4. \E i \in E : i > n /\ \A j \in E : j > n => i <= j
    BY <1>3
  <1> QED
    BY <1>4 DEF NextEnd, E

LEMMA PathIsText == ASSUME NEW path \in Paths PROVE path \in Seq(Char)
PROOF
  BY ConstantsAssumption DEF ConstantsAssumption

LEMMA AdvanceStep ==
    ASSUME IInv, pc = "mkdir", Advance, UNCHANGED request
    PROVE  MkdirInv'
PROOF
  <1>1. /\ method \in Exports /\ args.path \in Paths /\ args.path \in Seq(Char)
        /\ HasParent(args.path) /\ buf = Cut(args.path) /\ p \in Ends(Cut(args.path))
    BY PathIsText DEF IInv, MkdirInv
  <1>2. UNCHANGED <<method, args, buf>>
    BY DEF request
  <1>3. CASE p = Len(buf)
    BY <1>3 DEF Advance, MkdirInv
  <1>4. CASE p # Len(buf)
    <2>1. p \in 1..Len(Cut(args.path))
      BY <1>1, EndsAtSlash
    <2>2. Len(Cut(args.path)) \in Ends(Cut(args.path))
      BY DEF Ends
    <2>3. Len(Cut(args.path)) \in Nat
      BY <1>1, <2>2, EndsAtSlash
    <2>4. p \in 0..(Len(Cut(args.path)) - 1)
      BY <1>1, <1>4, <2>1, <2>3
    <2>5. NextEnd(Cut(args.path), p) \in Ends(Cut(args.path))
      BY <1>1, <2>4, NextEndIs
    <2>6. p' = NextEnd(Cut(args.path), p)
      BY <1>1, <1>4 DEF Advance
    <2> QED
      BY <1>1, <1>2, <2>5, <2>6 DEF MkdirInv
  <1> QED
    BY <1>3, <1>4

LEMMA CallStep ==
    ASSUME IInv, NEW m \in Methods, NEW a \in ArgsOf(m), Call(m, a)
    PROVE  IInv'
PROOF
  <1>1. fs' = fs /\ method' = m /\ args' = a
    BY DEF Call
  <1>2. CASE pc' = "mkdir"
    <2>1. /\ m \in Exports /\ HasParent(a.path)
          /\ buf' = Cut(a.path) /\ p' = NextEnd(Cut(a.path), 0)
      BY <1>2 DEF Call, Reply
    <2>2. a.path \in Paths /\ a.path \in Seq(Char)
      BY <2>1, PathIsText DEF ArgsOf, Exports
    <2>3. Len(Cut(a.path)) \in Ends(Cut(a.path))
      BY DEF Ends
    <2>4. Len(Cut(a.path)) \in Nat \ {0}
      BY <2>1, <2>2, <2>3, EndsAtSlash
    <2>5. NextEnd(Cut(a.path), 0) \in Ends(Cut(a.path))
      BY <2>1, <2>2, <2>4, NextEndIs
    <2> QED
      BY <1>1, <2>1, <2>2, <2>5 DEF IInv, MkdirInv
  <1>3. CASE pc' # "mkdir"
    BY <1>1, <1>3 DEF IInv, MkdirInv
  <1> QED
    BY <1>2, <1>3

\* Every step keeps the invariant.
LEMMA NextStep == ASSUME IInv, [Next]_vars PROVE IInv'
PROOF
  <1>1. CASE MkdirMade
    <2>1. fs' \in [Nodes -> Kinds]
      BY <1>1 DEF MkdirMade, Made, IInv, Kinds
    <2>2. pc = "mkdir" /\ Advance /\ UNCHANGED request
      BY <1>1 DEF MkdirMade
    <2> QED
      BY <2>1, <2>2, AdvanceStep DEF IInv
  <1>2. CASE MkdirExists
    BY <1>2, AdvanceStep DEF MkdirExists, IInv
  <1>3. CASE MkdirNowhere \/ MkdirDenied \/ BuildRefused \/ BuildOom \/ Build
    BY <1>3 DEF MkdirNowhere, MkdirDenied, BuildRefused, BuildOom, Build, Reply, IInv, MkdirInv
  <1>4. CASE \E m \in Methods : \E a \in ArgsOf(m) : Call(m, a)
    BY <1>4, CallStep
  <1>5. CASE Return
    BY <1>5 DEF Return, IInv, MkdirInv
  <1>6. CASE \E node \in Nodes : OtherRemoves(node)
    <2>1. PICK node \in Nodes : OtherRemoves(node)
      BY <1>6
    <2>2. fs' \in [Nodes -> Kinds]
      BY <2>1 DEF OtherRemoves, IInv, Kinds
    <2> QED
      BY <2>1, <2>2 DEF OtherRemoves, IInv, MkdirInv, request
  <1>7. CASE \E node \in Nodes : \E kind \in {"dir", "file"} : OtherMakes(node, kind)
    <2>1. PICK node \in Nodes, kind \in {"dir", "file"} : OtherMakes(node, kind)
      BY <1>7
    <2>2. fs' \in [Nodes -> Kinds]
      BY <2>1 DEF OtherMakes, IInv, Kinds
    <2> QED
      BY <2>1, <2>2 DEF OtherMakes, IInv, MkdirInv, request
  <1>8. CASE UNCHANGED vars
    BY <1>8 DEF vars, IInv, MkdirInv
  <1> QED
    BY <1>1, <1>2, <1>3, <1>4, <1>5, <1>6, <1>7, <1>8 DEF Next, Step

\* In every state the buffer, the position and the files are as IInv says.
THEOREM Inductive == Spec => []IInv
PROOF
  <1>1. Init => IInv
    BY DEF Init, IInv, MkdirInv
  <1> QED
    BY <1>1, NextStep, PTL DEF Spec

\* A mkdir that succeeds makes a folder above the path.
LEMMA MadeIsAbove ==
    ASSUME IInv, MkdirMade, NEW n \in Nodes, fs'[n] # fs[n]
    PROVE  /\ method \in Exports /\ fs[n] = "none" /\ fs'[n] = "dir"
           /\ n \in Above(args.path)
PROOF
  <1> DEFINE node == Resolve(Upto(buf, p))
  <1>1. /\ method \in Exports /\ args.path \in Seq(Char)
        /\ HasParent(args.path) /\ buf = Cut(args.path) /\ p \in Ends(Cut(args.path))
    BY PathIsText DEF IInv, MkdirInv, MkdirMade
  <1>2. fs[node] = "none" /\ fs' = [fs EXCEPT ![node] = "dir"]
    BY DEF MkdirMade, Made, Exists
  <1>3. /\ p \in 1..Len(Cut(args.path)) /\ p + 1 \in 2..Len(args.path)
        /\ args.path[p + 1] = Slash /\ Upto(buf, p) = Upto(args.path, p)
    BY <1>1, EndsAtSlash
  <1>4. node = Resolve(Upto(args.path, (p + 1) - 1))
    <2>1. (p + 1) - 1 = p
      BY <1>3
    <2> QED
      BY <1>3, <2>1
  <1>5. node \in Above(args.path)
    <2>1. p + 1 \in {i \in 2..Len(args.path) : args.path[i] = Slash}
      BY <1>3
    <2> QED
      BY <1>4, <2>1, Zenon DEF Above
  <1>6. n = node /\ fs'[n] = "dir"
    <2> HIDE DEF node
    <2> QED
      BY <1>2 DEF IInv
  <1> QED
    BY <1>1, <1>2, <1>5, <1>6

\* Whatever the paths and whatever other processes do meanwhile, a call makes no folder
\* but those above the path of an export, and changes nothing that was there.
THEOREM OnlyFoldersAboveAreMade == Spec => OnlyFoldersAbove
PROOF
  <1> DEFINE Kept ==
        \A node \in Nodes :
          <<p, pc>>' # <<p, pc>> /\ fs'[node] # fs[node] =>
              /\ method \in Exports /\ fs[node] = "none" /\ fs'[node] = "dir"
              /\ node \in Above(args.path)
  <1>1. ASSUME IInv, [Next]_vars PROVE Kept
    <2>1. CASE MkdirMade
      BY <1>1, <2>1, MadeIsAbove
    <2>2. CASE UNCHANGED fs
      BY <2>2
    <2>3. CASE UNCHANGED <<pc, p>>
      BY <2>3
    <2>4. MkdirMade \/ UNCHANGED fs \/ UNCHANGED <<pc, p>>
      BY <1>1 DEF Next, Step, MkdirExists, MkdirNowhere, MkdirDenied, BuildRefused, BuildOom,
                  Build, Call, Return, OtherMakes, OtherRemoves, vars
    <2> QED
      BY <2>1, <2>2, <2>3, <2>4
  <1>2. IInv /\ [Next]_vars => [Kept]_vars
    BY <1>1
  <1> QED
    BY <1>2, Inductive, PTL DEF Spec, OnlyFoldersAbove

-----------------------------------------------------------------------------
(* Paths, types and folders *)

\* One character more of a path, without a slash after a slash; and without a last slash.
OneSlash(s, c) == IF c = Slash /\ s # <<>> /\ Last(s) = Slash THEN s ELSE Append(s, c)
Strip(s) == IF s # <<>> /\ Last(s) = Slash THEN Front(s) ELSE s

\* g is the path with its repeated slashes dropped, as far as its first characters go.
Collapses(g, text) ==
    g[0] = <<>> /\ \A k \in 1..Len(text) : g[k] = OneSlash(g[k - 1], text[k])

LEMMA ResolveRuns ==
    ASSUME NEW text \in Seq(Char)
    PROVE  \E g : Collapses(g, text) /\ Resolve(text) = Strip(g[Len(text)])
PROOF
  <1> DEFINE n == Len(text)
             F == [x \in Seq(Char) \X (1..n) |-> OneSlash(x[1], text[x[2]])]
             iter == CHOOSE iter : iter = [s \in SUBSET (1..n) |->
                        IF s = {} THEN <<>> ELSE OneSlash(iter[s \ {Max(s)}], text[Max(s)])]
  <1>1. n \in Nat /\ DOMAIN text = 1..n /\ <<>> \in Seq(Char)
    OBVIOUS
  <1>2. F \in [Seq(Char) \X (1..n) -> Seq(Char)]
    <2>1. ASSUME NEW s \in Seq(Char), NEW i \in 1..n PROVE OneSlash(s, text[i]) \in Seq(Char)
      <3>1. text[i] \in Char
        BY <1>1
      <3> QED
        BY <3>1 DEF OneSlash
    <2> QED
      BY <2>1
  <1>3. Resolve(text) = Strip(iter[1..n])
    BY <1>1 DEF Resolve, FoldLeft, MapThenFoldSet, OneSlash, Strip
  <1>4. iter = [s \in SUBSET (1..n) |->
                  IF s = {} THEN <<>> ELSE OneSlash(iter[s \ {Max(s)}], text[Max(s)])]
    <2> HIDE DEF n, F
    <2>1. PICK it \in [SUBSET (1..n) -> Seq(Char)] : Folded(it, F, <<>>, n)
      BY <1>1, <1>2, FoldExists
    <2>2. ASSUME NEW s \in SUBSET (1..n)
          PROVE  it[s] = IF s = {} THEN <<>> ELSE OneSlash(it[s \ {Max(s)}], text[Max(s)])
      <3>1. CASE s # {}
        <4>1. Max(s) \in s
          <5>1. s \in SUBSET (0..n)
            BY <1>1
          <5> QED
            BY <1>1, <3>1, <5>1, Greatest
        <4>2. s \ {Max(s)} \in SUBSET (1..n) /\ Max(s) \in 1..n
          BY <4>1
        <4>3. it[s \ {Max(s)}] \in Seq(Char)
          BY <2>1, <4>2
        <4>4. F[<<it[s \ {Max(s)}], Max(s)>>] = OneSlash(it[s \ {Max(s)}], text[Max(s)])
          BY <4>2, <4>3 DEF F
        <4> QED
          BY <2>1, <3>1, <4>4 DEF Folded
      <3>2. CASE s = {}
        BY <2>1, <3>2 DEF Folded
      <3> QED
        BY <3>1, <3>2
    <2>3. it = [s \in SUBSET (1..n) |->
                  IF s = {} THEN <<>> ELSE OneSlash(it[s \ {Max(s)}], text[Max(s)])]
      BY <2>1, <2>2
    <2> QED
      BY <2>3
  <1> HIDE DEF iter, F, n
  <1>5. PICK g : /\ DOMAIN g = 0..n /\ \A k \in 0..n : g[k] = iter[1..k]
                 /\ \A k \in 1..n : /\ Max(1..k) = k /\ (1..k) \ {k} = 1..(k - 1)
                                    /\ 1..k # {} /\ 1..k \in SUBSET (1..n)
    BY <1>1, FoldSteps, ZenonT(60)
  <1>6. g[0] = <<>> /\ g[n] = iter[1..n]
    <2>1. 1..0 = {} /\ {} \in SUBSET (1..n) /\ 0 \in 0..n /\ n \in 0..n
      BY <1>1
    <2>2. iter[{}] = <<>>
      BY <1>4, <2>1
    <2> QED
      BY <1>5, <2>1, <2>2
  <1>7. ASSUME NEW k \in 1..n PROVE g[k] = OneSlash(g[k - 1], text[k])
    <2>1. k \in 0..n /\ k - 1 \in 0..n
      BY <1>1
    <2>2. iter[1..k] = OneSlash(iter[1..(k - 1)], text[k])
      <3>1. \A s \in SUBSET (1..n) :
               s # {} => iter[s] = OneSlash(iter[s \ {Max(s)}], text[Max(s)])
        BY <1>4
      <3>2. /\ Max(1..k) = k /\ (1..k) \ {k} = 1..(k - 1)
            /\ 1..k # {} /\ 1..k \in SUBSET (1..n)
        BY <1>5
      <3>3. iter[1..k] = OneSlash(iter[(1..k) \ {Max(1..k)}], text[Max(1..k)])
        BY <3>1, <3>2
      <3> QED
        BY <3>2, <3>3
    <2> QED
      BY <1>5, <2>1, <2>2
  <1> QED
    BY <1>3, <1>6, <1>7 DEF Collapses, n

\* It stays a path, and ends in the character last read.
LEMMA CollapsesType ==
    ASSUME NEW text \in Seq(Char), NEW g, Collapses(g, text), NEW k \in 0..Len(text)
    PROVE  g[k] \in Seq(Char) /\ (k # 0 => g[k] # <<>> /\ Last(g[k]) = text[k])
PROOF
  <1> DEFINE S == {i \in 0..Len(text) :
                     g[i] \in Seq(Char) /\ (i # 0 => g[i] # <<>> /\ Last(g[i]) = text[i])}
  <1>1. Len(text) \in Nat
    OBVIOUS
  <1>2. 0 \in S
    <2>1. g[0] = <<>> /\ <<>> \in Seq(Char) /\ 0 \in 0..Len(text)
      BY <1>1 DEF Collapses
    <2> QED
      BY <2>1
  <1>3. ASSUME NEW i \in 1..Len(text), i - 1 \in S PROVE i \in S
    <2>1. g[i - 1] \in Seq(Char) /\ g[i] = OneSlash(g[i - 1], text[i]) /\ text[i] \in Char
      BY <1>3 DEF Collapses
    <2>2. CASE text[i] = Slash /\ g[i - 1] # <<>> /\ Last(g[i - 1]) = Slash
      BY <2>1, <2>2 DEF OneSlash
    <2>3. CASE ~(text[i] = Slash /\ g[i - 1] # <<>> /\ Last(g[i - 1]) = Slash)
      <3>1. g[i] = Append(g[i - 1], text[i])
        BY <2>1, <2>3 DEF OneSlash
      <3>2. /\ Append(g[i - 1], text[i]) \in Seq(Char)
            /\ Len(Append(g[i - 1], text[i])) = Len(g[i - 1]) + 1
            /\ Append(g[i - 1], text[i])[Len(g[i - 1]) + 1] = text[i]
        BY <2>1
      <3> HIDE DEF S
      <3>3. Len(g[i]) = Len(g[i - 1]) + 1 /\ Len(g[i - 1]) \in Nat /\ g[i] \in Seq(Char)
        BY <2>1, <3>1, <3>2
      <3>4. g[i][Len(g[i])] = text[i] /\ g[i] # <<>>
        BY <3>1, <3>2, <3>3, SMTT(60)
      <3>5. Last(g[i]) = text[i]
        BY <3>4 DEF Last
      <3> QED
        BY <1>1, <3>3, <3>4, <3>5 DEF S
    <2> QED
      BY <2>2, <2>3
  <1> HIDE DEF S
  <1>4. k \in S
    BY <1>1, <1>2, <1>3, Upward
  <1> QED
    BY <1>4 DEF S

\* How every beginning of a path resolves.
LEMMA ResolvePrefixes ==
    ASSUME NEW text \in Seq(Char)
    PROVE  \E g : /\ Collapses(g, text)
                  /\ \A k \in 0..Len(text) : Resolve(Upto(text, k)) = Strip(g[k])
PROOF
  <1>1. PICK g : Collapses(g, text)
    BY ResolveRuns
  <1>2. ASSUME NEW k \in 0..Len(text) PROVE Resolve(Upto(text, k)) = Strip(g[k])
    <2> DEFINE u == Upto(text, k)
    <2>1. u \in Seq(Char) /\ Len(u) = k /\ (\A i \in 1..k : u[i] = text[i]) /\ k \in Nat
      BY DEF Upto
    <2> HIDE DEF u
    <2>2. PICK h : Collapses(h, u) /\ Resolve(u) = Strip(h[k])
      BY <2>1, ResolveRuns
    <2>3. g[0] = h[0] /\ \A i \in 1..k : g[i - 1] = h[i - 1] => g[i] = h[i]
      <3>1. \A i \in 1..k : i \in 1..Len(text)
        OBVIOUS
      <3> QED
        BY <1>1, <2>1, <2>2, <3>1 DEF Collapses
    <2>4. \A i \in 0..k : g[i] = h[i]
      <3> DEFINE S == {i \in 0..k : g[i] = h[i]}
      <3>1. k \in Nat /\ 0 \in S
        BY <2>1, <2>3
      <3>2. \A i \in 1..k : i - 1 \in S => i \in S
        BY <2>1, <2>3
      <3> HIDE DEF S
      <3>3. \A i \in 0..k : i \in S
        BY <3>1, <3>2, Upward
      <3> QED
        BY <3>3 DEF S
    <2> QED
      BY <2>1, <2>2, <2>4 DEF u
  <1> QED
    BY <1>1, <1>2

\* The last slash of a text that one character is put to.
LEMMA LastSlashAppend ==
    ASSUME NEW w \in Seq(Char), NEW c \in Char
    PROVE  /\ LastSlash(w) \in 0..Len(w)
           /\ LastSlash(Append(w, c)) = IF c = Slash THEN Len(w) + 1 ELSE LastSlash(w)
PROOF
  <1> DEFINE I == {i \in 1..Len(w) : w[i] = Slash}
             v == Append(w, c)
             J == {i \in 1..Len(v) : v[i] = Slash}
  <1>1. LastSlash(w) = IF I # {} THEN Max(I) ELSE 0
    BY DEF LastSlash, SelectLastInSeq
  <1>2. LastSlash(v) = IF J # {} THEN Max(J) ELSE 0
    BY DEF LastSlash, SelectLastInSeq
  <1>3. /\ Len(v) = Len(w) + 1 /\ Len(w) \in Nat
        /\ v[Len(w) + 1] = c /\ \A i \in 1..Len(w) : v[i] = w[i]
    OBVIOUS
  <1> HIDE DEF v
  <1>4. I \in SUBSET (0..Len(w)) /\ J \in SUBSET (0..(Len(w) + 1))
    BY <1>3
  <1>5. LastSlash(w) \in 0..Len(w)
    <2>1. I # {} => Max(I) \in I
      <3> HIDE DEF I
      <3> QED
        BY <1>3, <1>4, Greatest
    <2> QED
      BY <1>1, <1>3, <2>1
  <1>6. CASE c = Slash
    <2>1. /\ Len(w) + 1 \in J /\ \A j \in J : j <= Len(w) + 1
          /\ Len(w) + 1 \in Nat
      BY <1>3, <1>6
    <2>2. Max(J) = Len(w) + 1
      <3> HIDE DEF J
      <3> QED
        BY <1>4, <2>1, MaxIs
    <2>3. J # {}
      BY <2>1
    <2> HIDE DEF J
    <2> QED
      BY <1>2, <1>5, <1>6, <2>2, <2>3 DEF v
  <1>7. CASE c # Slash
    <2>1. J = I
      BY <1>3, <1>7
    <2> HIDE DEF I, J
    <2>2. LastSlash(v) = LastSlash(w)
      BY <1>1, <1>2, <2>1
    <2> QED
      BY <1>5, <1>7, <2>2 DEF v
  <1> QED
    BY <1>6, <1>7

\* Where a path goes on: a slash adds nothing to it, another character a name to the folder
\* or a character to the name.
LEMMA ResolveStep ==
    ASSUME NEW text \in Seq(Char), NEW k \in 1..Len(text)
    PROVE  LET q(i) == Resolve(Upto(text, i))
           IN  /\ q(0) = Root
               /\ text[k] = Slash => q(k) = q(k - 1)
               /\ text[k] # Slash =>
                     Parent(q(k)) = IF k = 1 \/ text[k - 1] = Slash THEN q(k - 1)
                                    ELSE Parent(q(k - 1))
PROOF
  <1>1. PICK g : /\ Collapses(g, text)
                 /\ \A i \in 0..Len(text) : Resolve(Upto(text, i)) = Strip(g[i])
    BY ResolvePrefixes
  <1> DEFINE w == g[k - 1]
             c == text[k]
  <1>2. /\ Len(text) \in Nat /\ 0 \in 0..Len(text) /\ k - 1 \in 0..Len(text)
        /\ k \in 0..Len(text) /\ k \in Nat \ {0} /\ c \in Char
    OBVIOUS
  <1>3. /\ Resolve(Upto(text, 0)) = Strip(g[0]) /\ Resolve(Upto(text, k - 1)) = Strip(w)
        /\ Resolve(Upto(text, k)) = Strip(g[k])
    BY <1>1, <1>2
  <1>4. w \in Seq(Char) /\ g[0] = <<>> /\ g[k] = OneSlash(w, c)
        /\ (k # 1 => w # <<>> /\ Last(w) = text[k - 1]) /\ (k = 1 => w = <<>>)
    <2>1. k - 1 # 0 <=> k # 1
      BY <1>2
    <2>2. w \in Seq(Char) /\ (k - 1 # 0 => w # <<>> /\ Last(w) = text[k - 1])
      BY <1>1, <1>2, CollapsesType
    <2> QED
      BY <1>1, <1>2, <2>1, <2>2 DEF Collapses
  <1>5. Strip(g[0]) = Root
    BY <1>4 DEF Strip, Root
  <1> HIDE DEF w, c
  <1>6. ASSUME c = Slash PROVE Strip(g[k]) = Strip(w)
    <2>1. CASE w # <<>> /\ Last(w) = Slash
      BY <1>4, <1>6, <2>1 DEF OneSlash
    <2>2. CASE ~(w # <<>> /\ Last(w) = Slash)
      <3>1. g[k] = Append(w, Slash) /\ Strip(w) = w
        BY <1>4, <1>6, <2>2 DEF OneSlash, Strip
      <3>2. Append(w, Slash) # <<>> /\ Last(Append(w, Slash)) = Slash
        BY <1>4 DEF Last
      <3>3. Front(Append(w, Slash)) = w
        <4>1. Slash \in Char
          BY <1>2, <1>6
        <4> QED
          BY <1>4, <4>1 DEF Front
      <3> QED
        BY <3>1, <3>2, <3>3 DEF Strip
    <2> QED
      BY <2>1, <2>2
  <1>7. ASSUME c # Slash
        PROVE  Parent(Strip(g[k])) = IF k = 1 \/ text[k - 1] = Slash THEN Strip(w)
                                     ELSE Parent(Strip(w))
    <2> DEFINE v == Append(w, c)
               l == LastSlash(w)
    <2>1. /\ g[k] = v /\ v \in Seq(Char) /\ Len(v) = Len(w) + 1 /\ v # <<>> /\ Last(v) = c
          /\ (\A i \in 1..Len(w) : v[i] = w[i]) /\ Len(w) \in Nat
      BY <1>2, <1>4, <1>7 DEF OneSlash, Last
    <2>2. LastSlash(v) = l /\ l \in 0..Len(w)
      BY <1>2, <1>4, <1>7, LastSlashAppend
    <2>3. Strip(g[k]) = v
      BY <1>7, <2>1 DEF Strip
    <2> HIDE DEF v, l
    <2>4. ASSUME NEW i \in 0..Len(w) PROVE Upto(v, i) = Upto(w, i)
      <3>1. /\ Upto(v, i) \in Seq(Char) /\ Len(Upto(v, i)) = i
            /\ \A j \in 1..i : Upto(v, i)[j] = v[j]
        BY <2>1 DEF Upto
      <3>2. /\ Upto(w, i) \in Seq(Char) /\ Len(Upto(w, i)) = i
            /\ \A j \in 1..i : Upto(w, i)[j] = w[j]
        BY <1>4, <2>1 DEF Upto
      <3>3. \A j \in 1..i : j \in 1..Len(w)
        BY <2>1
      <3>4. /\ Len(Upto(v, i)) = Len(Upto(w, i))
            /\ \A j \in 1..Len(Upto(v, i)) : Upto(v, i)[j] = Upto(w, i)[j]
        BY <2>1, <3>1, <3>2, <3>3
      <3> QED
        BY <3>1, <3>2, <3>4, SeqEqual, Zenon
    <2>5. CASE k = 1
      <3>1. w = <<>> /\ l = 0
        BY <1>4, <2>1, <2>2, <2>5
      <3>2. Upto(v, 0) = <<>> /\ Strip(w) = <<>>
        BY <2>1, <3>1 DEF Upto, Strip
      <3> QED
        BY <2>2, <2>3, <2>5, <3>1, <3>2 DEF Parent
    <2>6. CASE k # 1 /\ text[k - 1] = Slash
      <3>1. w # <<>> /\ w[Len(w)] = Slash /\ Len(w) \in 1..Len(w)
        BY <1>4, <2>6, <2>1 DEF Last
      <3>2. l = Len(w)
        <4> DEFINE I == {i \in 1..Len(w) : w[i] = Slash}
        <4>1. l = IF I # {} THEN Max(I) ELSE 0
          BY DEF l, LastSlash, SelectLastInSeq
        <4>2. Len(w) \in I /\ I \in SUBSET (0..Len(w)) /\ \A j \in I : j <= Len(w)
          BY <2>1, <3>1
        <4>3. Max(I) = Len(w)
          <5> HIDE DEF I
          <5> QED
            BY <2>1, <4>2, MaxIs
        <4> QED
          BY <4>1, <4>2, <4>3
      <3>3. Parent(v) = Upto(w, Len(w) - 1)
        BY <2>1, <2>2, <2>4, <3>1, <3>2 DEF Parent
      <3>4. Strip(w) = Upto(w, Len(w) - 1)
        BY <3>1 DEF Strip, Last, Front, Upto
      <3> QED
        BY <2>3, <2>6, <3>3, <3>4
    <2>7. CASE k # 1 /\ text[k - 1] # Slash
      <3>1. Strip(w) = w
        BY <1>4, <2>7 DEF Strip
      <3>2. Parent(v) = Parent(w)
        BY <2>1, <2>2, <2>4 DEF Parent, l
      <3> QED
        BY <2>3, <2>7, <3>1, <3>2
    <2> QED
      BY <2>5, <2>6, <2>7
  <1> QED
    BY <1>3, <1>5, <1>6, <1>7 DEF c

\* Where the first k characters of a path lead.
Leads(text, k) == Resolve(Upto(text, k))

\* ResolveStep, of what the proofs below name.
LEMMA LeadsStep ==
    ASSUME NEW text \in Seq(Char), NEW k \in 1..Len(text)
    PROVE  /\ Leads(text, 0) = Root /\ Parent(Root) = Root
           /\ text[k] = Slash => Leads(text, k) = Leads(text, k - 1)
           /\ text[k] # Slash /\ (k = 1 \/ text[k - 1] = Slash) =>
                  Parent(Leads(text, k)) = Leads(text, k - 1)
           /\ text[k] # Slash /\ ~(k = 1 \/ text[k - 1] = Slash) =>
                  Parent(Leads(text, k)) = Parent(Leads(text, k - 1))
PROOF
  <1>1. /\ Leads(text, 0) = Root
        /\ text[k] = Slash => Leads(text, k) = Leads(text, k - 1)
        /\ text[k] # Slash =>
              Parent(Leads(text, k)) = IF k = 1 \/ text[k - 1] = Slash THEN Leads(text, k - 1)
                                       ELSE Parent(Leads(text, k - 1))
    BY ResolveStep DEF Leads
  <1>2. Parent(Root) = Root
    <2>1. LastSlash(Root) = 0
      BY DEF LastSlash, SelectLastInSeq, Root
    <2> QED
      BY <2>1 DEF Parent, Upto, Root
  <1> QED
    BY <1>1, <1>2

\* A folder is Root, or what comes before an earlier slash.
LEMMA ParentIsEarlier ==
    ASSUME NEW text \in Seq(Char), NEW k \in 0..Len(text)
    PROVE  \/ Parent(Leads(text, k)) = Root
           \/ \E j \in 2..k : text[j] = Slash /\ Parent(Leads(text, k)) = Leads(text, j - 1)
PROOF
  <1> DEFINE Earlier(i) ==
               \/ Parent(Leads(text, i)) = Root
               \/ \E j \in 2..i :
                     text[j] = Slash /\ Parent(Leads(text, i)) = Leads(text, j - 1)
             S == {i \in 0..Len(text) : Earlier(i)}
  <1>1. Len(text) \in Nat
    OBVIOUS
  <1>2. 0 \in S
    <2>1. Leads(text, 0) = Root /\ Parent(Root) = Root
      <3>1. CASE Len(text) = 0
        <4>1. text = <<>> /\ Upto(text, 0) = <<>>
          BY <3>1 DEF Upto
        <4>2. LastSlash(Root) = 0
          BY DEF LastSlash, SelectLastInSeq, Root
        <4>3. Parent(Root) = Root
          BY <4>2 DEF Parent, Upto, Root
        <4>4. <<>> \in Seq(Char) /\ Len(<<>>) = 0 /\ 0 \in 0..0
          OBVIOUS
        <4>5. PICK g : /\ Collapses(g, <<>>)
                       /\ \A i \in 0..Len(<<>>) : Resolve(Upto(<<>>, i)) = Strip(g[i])
          BY <4>4, ResolvePrefixes
        <4>6. Resolve(<<>>) = Strip(<<>>)
          BY <4>1, <4>4, <4>5 DEF Collapses
        <4> QED
          BY <4>1, <4>3, <4>6 DEF Leads, Strip, Root
      <3>2. CASE Len(text) # 0
        <4>1. 1 \in 1..Len(text)
          BY <1>1, <3>2
        <4> QED
          BY <4>1, LeadsStep
      <3> QED
        BY <3>1, <3>2
    <2> QED
      BY <1>1, <2>1
  <1>3. ASSUME NEW i \in 1..Len(text), i - 1 \in S PROVE i \in S
    <2>1. Earlier(i - 1) /\ i \in 0..Len(text) /\ i \in Nat \ {0}
      BY <1>1, <1>3
    <2> HIDE DEF S
    <2>2. /\ Leads(text, 0) = Root
          /\ text[i] = Slash => Leads(text, i) = Leads(text, i - 1)
          /\ text[i] # Slash /\ (i = 1 \/ text[i - 1] = Slash) =>
                  Parent(Leads(text, i)) = Leads(text, i - 1)
          /\ text[i] # Slash /\ ~(i = 1 \/ text[i - 1] = Slash) =>
                  Parent(Leads(text, i)) = Parent(Leads(text, i - 1))
      BY LeadsStep
    <2>3. Parent(Leads(text, i)) = Parent(Leads(text, i - 1)) => Earlier(i)
      <3>1. \A j \in 2..(i - 1) : j \in 2..i
        BY <2>1
      <3> QED
        BY <2>1, <3>1
    <2>4. Parent(Leads(text, i)) = Root => Earlier(i)
      OBVIOUS
    <2>5. \A j \in 2..i :
             text[j] = Slash /\ Parent(Leads(text, i)) = Leads(text, j - 1) => Earlier(i)
      OBVIOUS
    <2> SUFFICES Earlier(i)
      BY <2>1 DEF S
    <2> HIDE DEF Earlier
    <2>6. CASE text[i] # Slash /\ i = 1
      <3>1. i - 1 = 0
        BY <2>6
      <3>2. Parent(Leads(text, i)) = Leads(text, 0)
        BY <2>2, <2>6, <3>1
      <3> QED
        BY <2>2, <2>4, <3>2
    <2>7. CASE text[i] # Slash /\ i # 1 /\ text[i - 1] = Slash
      <3>1. Parent(Leads(text, i)) = Leads(text, i - 1)
        BY <2>2, <2>7
      <3>2. i - 1 \in 1..Len(text)
        BY <1>1, <2>1, <2>7
      <3>3. Leads(text, i - 1) = Leads(text, (i - 1) - 1)
        BY <2>7, <3>2, LeadsStep
      <3>4. CASE i = 2
        <4>1. (i - 1) - 1 = 0
          BY <3>4
        <4> QED
          BY <2>2, <2>4, <3>1, <3>3, <4>1
      <3>5. CASE i # 2
        <4>1. i - 1 \in 2..i
          BY <2>1, <2>7, <3>5
        <4>2. Parent(Leads(text, i)) = Leads(text, (i - 1) - 1)
          BY <3>1, <3>3
        <4> QED
          BY <2>7, <2>5, <4>1, <4>2
      <3> QED
        BY <3>4, <3>5
    <2>8. CASE text[i] # Slash /\ i # 1 /\ text[i - 1] # Slash
      BY <2>2, <2>3, <2>8
    <2>9. CASE text[i] = Slash
      BY <2>2, <2>3, <2>9
    <2> QED
      BY <2>6, <2>7, <2>8, <2>9
  <1> HIDE DEF S
  <1>4. k \in S
    BY <1>1, <1>2, <1>3, Upward
  <1> QED
    BY <1>4 DEF S

\* What comes before a slash of a path is where the path leads, its folder, or the folder of
\* what comes before another slash.
LEMMA EarlierIsAbove ==
    ASSUME NEW text \in Seq(Char), NEW k \in 0..Len(text), NEW j \in 1..k, text[j] = Slash
    PROVE  \/ Leads(text, j - 1) = Leads(text, k)
           \/ Leads(text, j - 1) = Parent(Leads(text, k))
           \/ \E i \in 1..k :
                 text[i] = Slash /\ Leads(text, j - 1) = Parent(Leads(text, i - 1))
PROOF
  <1> DEFINE Up(n) ==
               \/ text[n] = Slash /\ Leads(text, j - 1) = Leads(text, n)
               \/ Leads(text, j - 1) = Parent(Leads(text, n))
               \/ \E i \in 1..n :
                     text[i] = Slash /\ Leads(text, j - 1) = Parent(Leads(text, i - 1))
             S == {n \in 0..Len(text) : n >= j => Up(n)}
  <1>1. Len(text) \in Nat /\ k \in Nat /\ j \in Nat \ {0} /\ j \in 1..Len(text) /\ k >= j
    OBVIOUS
  <1>2. 0 \in S
    BY <1>1
  <1>3. ASSUME NEW n \in 1..Len(text), n - 1 \in S PROVE n \in S
    <2>1. n \in 0..Len(text) /\ n \in Nat \ {0} /\ (n - 1 >= j => Up(n - 1))
      BY <1>1, <1>3
    <2> HIDE DEF S
    <2>2. /\ text[n] = Slash => Leads(text, n) = Leads(text, n - 1)
          /\ text[n] # Slash /\ (n = 1 \/ text[n - 1] = Slash) =>
                  Parent(Leads(text, n)) = Leads(text, n - 1)
          /\ text[n] # Slash /\ ~(n = 1 \/ text[n - 1] = Slash) =>
                  Parent(Leads(text, n)) = Parent(Leads(text, n - 1))
      BY LeadsStep
    <2>3. CASE n = j
      BY <2>1, <2>2, <2>3 DEF S
    <2>4. CASE n - 1 >= j
      <3>1. CASE \E i \in 1..(n - 1) :
                    text[i] = Slash /\ Leads(text, j - 1) = Parent(Leads(text, i - 1))
        <4>1. \A i \in 1..(n - 1) : i \in 1..n
          BY <2>1
        <4> QED
          BY <2>1, <3>1, <4>1 DEF S
      <3>2. CASE text[n - 1] = Slash /\ Leads(text, j - 1) = Leads(text, n - 1)
        BY <2>1, <2>2, <3>2 DEF S
      <3>3. CASE Leads(text, j - 1) = Parent(Leads(text, n - 1)) /\ text[n - 1] = Slash
        <4>1. n - 1 \in 1..Len(text) /\ n - 1 \in 1..n
          BY <1>1, <2>1, <2>4
        <4>2. Leads(text, n - 1) = Leads(text, (n - 1) - 1)
          BY <3>3, <4>1, LeadsStep
        <4> QED
          BY <2>1, <3>3, <4>1, <4>2 DEF S
      <3>4. CASE Leads(text, j - 1) = Parent(Leads(text, n - 1)) /\ text[n - 1] # Slash
        <4>1. n # 1
          BY <1>1, <2>1, <2>4
        <4> QED
          BY <2>1, <2>2, <3>4, <4>1 DEF S
      <3> QED
        BY <2>1, <2>4, <3>1, <3>2, <3>3, <3>4
    <2>5. CASE n < j
      BY <1>1, <2>1, <2>5 DEF S
    <2> QED
      BY <1>1, <2>1, <2>3, <2>4, <2>5
  <1> HIDE DEF S
  <1>4. k \in S
    BY <1>1, <1>2, <1>3, Upward
  <1>5. Up(k)
    BY <1>1, <1>4 DEF S
  <1> QED
    BY <1>5

-----------------------------------------------------------------------------
\* The folders above a path, by the slashes of the path.

LEMMA AboveIsLeads ==
    ASSUME NEW path \in Seq(Char)
    PROVE  /\ \A i \in 2..Len(path) : path[i] = Slash => Leads(path, i - 1) \in Above(path)
           /\ \A node \in Above(path) :
                 \E i \in 2..Len(path) : path[i] = Slash /\ node = Leads(path, i - 1)
PROOF
  BY DEF Above, Leads

\* Every slash but a first character is one the folders are made at.
LEMMA SlashIsEnd ==
    ASSUME NEW path \in Seq(Char), NEW i \in 2..Len(path), path[i] = Slash
    PROVE  HasParent(path) /\ i - 1 \in Ends(Cut(path))
PROOF
  <1> DEFINE I == {j \in 1..Len(path) : path[j] = Slash}
             l == LastSlash(path)
  <1>1. Len(path) \in Nat /\ i \in I /\ I \in SUBSET (0..Len(path)) /\ i > 1
    OBVIOUS
  <1>2. l = Max(I)
    BY <1>1 DEF LastSlash, SelectLastInSeq
  <1>3. l \in I /\ i <= l
    <2> HIDE DEF I, l
    <2> QED
      BY <1>1, <1>2, Greatest
  <1>4. HasParent(path)
    BY <1>1, <1>3 DEF HasParent
  <1> HIDE DEF l
  <1>5. Cut(path) = SubSeq(path, 1, l - 1)
    BY DEF Cut, Upto, l
  <1>6. /\ Len(Cut(path)) = l - 1 /\ l \in 2..Len(path)
        /\ \A j \in 1..(l - 1) : Cut(path)[j] = path[j]
    BY <1>1, <1>3, <1>5
  <1>7. CASE i = l
    BY <1>4, <1>6, <1>7 DEF Ends
  <1>8. CASE i # l
    <2>1. i \in 2..Len(Cut(path)) /\ Cut(path)[i] = Slash
      BY <1>1, <1>3, <1>6, <1>8
    <2> QED
      BY <1>4, <2>1 DEF Ends
  <1> QED
    BY <1>7, <1>8

\* The folder of every node is a node.
LEMMA ParentIsNode == ASSUME NEW node \in Nodes PROVE Parent(node) \in Nodes
PROOF
  <1>1. Root \in Nodes /\ \A path \in Paths : Above(path) \subseteq Nodes
    BY DEF Nodes
  <1>2. Parent(Root) = Root
    <2>1. LastSlash(Root) = 0
      BY DEF LastSlash, SelectLastInSeq, Root
    <2> QED
      BY <2>1 DEF Parent, Upto, Root
  <1>3. ASSUME NEW path \in Paths, NEW k \in 0..Len(path), node = Leads(path, k)
        PROVE  Parent(node) \in Nodes
    <2>1. path \in Seq(Char)
      BY PathIsText
    <2>2. CASE Parent(Leads(path, k)) = Root
      BY <1>1, <1>3, <2>2
    <2>3. CASE \E j \in 2..k : path[j] = Slash /\ Parent(Leads(path, k)) = Leads(path, j - 1)
      <3>1. PICK j \in 2..k : path[j] = Slash /\ Parent(Leads(path, k)) = Leads(path, j - 1)
        BY <2>3
      <3>2. j \in 2..Len(path)
        BY <2>1
      <3>3. Leads(path, j - 1) \in Above(path)
        BY <2>1, <3>1, <3>2, AboveIsLeads
      <3> QED
        BY <1>1, <1>3, <3>1, <3>3
    <2> QED
      BY <2>1, <2>2, <2>3, ParentIsEarlier
  <1>4. CASE node = Root
    BY <1>1, <1>2, <1>4
  <1>5. ASSUME NEW path \in Paths, node = Resolve(path) PROVE Parent(node) \in Nodes
    <2>1. path \in Seq(Char) /\ Len(path) \in 0..Len(path)
      BY PathIsText
    <2>2. Upto(path, Len(path)) = path
      BY <2>1 DEF Upto
    <2>3. node = Leads(path, Len(path))
      BY <1>5, <2>2 DEF Leads
    <2> QED
      BY <1>3, <2>1, <2>3
  <1>6. ASSUME NEW path \in Paths, node \in Above(path) PROVE Parent(node) \in Nodes
    <2>1. path \in Seq(Char)
      BY PathIsText
    <2>2. PICK i \in 2..Len(path) : path[i] = Slash /\ node = Leads(path, i - 1)
      BY <1>6, <2>1, AboveIsLeads
    <2>3. i - 1 \in 0..Len(path)
      BY <2>1
    <2> QED
      BY <1>3, <2>2, <2>3
  <1>7. node = Root \/ \E path \in Paths : node \in Above(path) \/ node = Resolve(path)
    BY DEF Nodes
  <1> QED
    BY <1>4, <1>5, <1>6, <1>7

\* A tree stays one when something is put into one of its folders,
LEMMA TreeGrows ==
    ASSUME fs \in [Nodes -> Kinds], IsTree, NEW node \in Nodes, NEW kind \in Kinds,
           ~Exists(node), IsDir(Parent(node)), fs' = [fs EXCEPT ![node] = kind]
    PROVE  IsTree'
PROOF
  <1>1. Root \in Nodes
    BY DEF Nodes
  <1>2. \A n \in Nodes : fs'[n] = IF n = node THEN kind ELSE fs[n]
    OBVIOUS
  <1>3. \A n \in Nodes : fs[n] = "dir" => fs'[n] = "dir"
    BY <1>2 DEF Exists
  <1>4. ASSUME NEW n \in Nodes, fs'[n] # "none" PROVE fs'[Parent(n)] = "dir"
    <2>1. fs[Parent(n)] = "dir"
      <3>1. CASE n = node
        BY <3>1 DEF IsDir
      <3>2. CASE n # node
        BY <1>2, <1>4, <3>2 DEF IsTree, Exists, IsDir
      <3> QED
        BY <3>1, <3>2
    <2> QED
      BY <1>3, <2>1, ParentIsNode
  <1>5. fs'[Root] = "dir"
    BY <1>1, <1>3 DEF IsTree, IsDir
  <1> QED
    BY <1>4, <1>5 DEF IsTree, IsDir, Exists

\* and when something is taken from it that nothing is in.
LEMMA TreeShrinks ==
    ASSUME fs \in [Nodes -> Kinds], IsTree, NEW node \in Nodes, OtherRemoves(node)
    PROVE  IsTree'
PROOF
  <1>1. Root \in Nodes /\ node # Root
    BY DEF Nodes, OtherRemoves
  <1>2. \A n \in Nodes : fs'[n] = IF n = node THEN "none" ELSE fs[n]
    BY DEF OtherRemoves
  <1>3. ASSUME NEW n \in Nodes, fs'[n] # "none" PROVE fs'[Parent(n)] = "dir"
    <2>1. n # node /\ fs[n] # "none"
      BY <1>2, <1>3
    <2>2. Parent(n) # node
      BY <2>1 DEF OtherRemoves, Exists
    <2>3. fs[Parent(n)] = "dir"
      BY <2>1 DEF IsTree, Exists, IsDir
    <2> QED
      BY <1>2, <2>2, <2>3, ParentIsNode
  <1>4. fs'[Root] = "dir"
    BY <1>1, <1>2 DEF IsTree, IsDir
  <1> QED
    BY <1>3, <1>4 DEF IsTree, IsDir, Exists

\* Where the folder lies that a mkdir makes.
LEMMA MkdirNode ==
    ASSUME IInv, pc = "mkdir"
    PROVE  /\ method \in Exports /\ args.path \in Paths /\ args.path \in Seq(Char)
           /\ HasParent(args.path) /\ buf = Cut(args.path)
           /\ p \in 1..Len(buf) /\ p \in Ends(Cut(args.path))
           /\ p + 1 \in 2..Len(args.path) /\ args.path[p + 1] = Slash
           /\ Resolve(Upto(buf, p)) = Leads(args.path, p)
           /\ Leads(args.path, p) \in Above(args.path)
           /\ Leads(args.path, p) \in Nodes
PROOF
  <1>1. /\ method \in Exports /\ args.path \in Paths /\ args.path \in Seq(Char)
        /\ HasParent(args.path) /\ buf = Cut(args.path) /\ p \in Ends(Cut(args.path))
    BY PathIsText DEF IInv, MkdirInv
  <1>2. /\ p \in 1..Len(Cut(args.path)) /\ p + 1 \in 2..Len(args.path)
        /\ args.path[p + 1] = Slash /\ Upto(buf, p) = Upto(args.path, p)
    BY <1>1, EndsAtSlash
  <1>3. (p + 1) - 1 = p
    BY <1>2
  <1>4. Leads(args.path, (p + 1) - 1) \in Above(args.path)
    BY <1>1, <1>2, AboveIsLeads
  <1>5. Resolve(Upto(buf, p)) = Leads(args.path, p)
    BY <1>2 DEF Leads
  <1>6. Leads(args.path, p) \in Above(args.path) /\ Leads(args.path, p) \in Nodes
    <2>1. Above(args.path) \subseteq Nodes
      BY <1>1 DEF Nodes
    <2> QED
      BY <1>3, <1>4, <2>1
  <1> QED
    BY <1>1, <1>2, <1>5, <1>6

-----------------------------------------------------------------------------
(* Types *)

LEMMA AdvanceType ==
    ASSUME Advance
    PROVE  pc' \in {"build", "mkdir"}
PROOF
  BY DEF Advance

\* Where a step leaves the folders to be made, the next one is within the buffer.
LEMMA WithinBuffer == ASSUME IInv PROVE pc = "mkdir" => p \in 1..Len(buf)
PROOF
  BY MkdirNode

LEMMA TypeStep == ASSUME IInv, TypeOK, [Next]_vars PROVE TypeOK'
PROOF
  <1> DEFINE Rest ==
        /\ pc \in {"idle", "mkdir", "build", "done"}
        /\ method \in Methods /\ (pc # "idle" => args \in ArgsOf(method))
        /\ (reply # NoReply <=> pc = "done")
        /\ denied \in BOOLEAN /\ removed \in BOOLEAN
  <1>1. IInv'
    BY NextStep
  <1>2. (pc = "mkdir" => p \in 1..Len(buf))'
    BY <1>1, WithinBuffer, PTL
  <1>3. fs' \in [Nodes -> Kinds]
    BY <1>1 DEF IInv
  <1>4. fs \in [Nodes -> Kinds] /\ IsTree /\ Rest
    BY DEF TypeOK
  <1>5. ASSUME IsTree', Rest' PROVE TypeOK'
    BY <1>2, <1>3, <1>5 DEF TypeOK
  <1>6. CASE MkdirMade
    <2>1. IsTree'
      <3>1. fs[Leads(args.path, p)] = "none" /\ IsDir(Parent(Leads(args.path, p)))
            /\ fs' = [fs EXCEPT ![Leads(args.path, p)] = "dir"]
        BY <1>6, MkdirNode DEF MkdirMade, Made, Exists
      <3>2. Leads(args.path, p) \in Nodes /\ "dir" \in Kinds
        BY <1>6, MkdirNode DEF MkdirMade, Kinds
      <3> QED
        BY <1>4, <3>1, <3>2, TreeGrows DEF Exists
    <2>2. Rest'
      BY <1>4, <1>6, AdvanceType DEF MkdirMade, request
    <2> QED
      BY <1>5, <2>1, <2>2
  <1>7. CASE MkdirExists
    <2>1. IsTree'
      BY <1>4, <1>7 DEF MkdirExists, IsTree, IsDir, Exists
    <2>2. Rest'
      BY <1>4, <1>7, AdvanceType DEF MkdirExists, request
    <2> QED
      BY <1>5, <2>1, <2>2
  <1>8. CASE MkdirNowhere \/ MkdirDenied \/ BuildRefused \/ BuildOom \/ Build
    <2>1. IsTree'
      BY <1>4, <1>8 DEF MkdirNowhere, MkdirDenied, BuildRefused, BuildOom, Build,
                        IsTree, IsDir, Exists
    <2>2. pc' = "done" /\ reply' # NoReply
      BY <1>8 DEF MkdirNowhere, MkdirDenied, BuildRefused, BuildOom, Build, Reply,
                   Error, NoReply
    <2>3. UNCHANGED <<method, args, removed>> /\ denied' \in BOOLEAN /\ pc # "idle"
      BY <1>4, <1>8 DEF MkdirNowhere, MkdirDenied, BuildRefused, BuildOom, Build, request
    <2>4. Rest'
      BY <1>4, <2>2, <2>3
    <2> QED
      BY <1>5, <2>1, <2>4
  <1>9. CASE \E m \in Methods : \E a \in ArgsOf(m) : Call(m, a)
    <2>1. PICK m \in Methods : \E a \in ArgsOf(m) : Call(m, a)
      BY <1>9
    <2>2. PICK a \in ArgsOf(m) : Call(m, a)
      BY <2>1
    <2>3. IsTree'
      BY <1>4, <2>2 DEF Call, IsTree, IsDir, Exists
    <2>4. \/ pc' = "done" /\ reply' # NoReply
          \/ pc' \in {"mkdir", "build"} /\ UNCHANGED reply
      BY <2>2 DEF Call, Reply, Error, NoReply
    <2>5. pc = "idle" /\ method' = m /\ args' = a /\ UNCHANGED <<denied, removed>>
      BY <2>2 DEF Call
    <2>6. Rest'
      BY <1>4, <2>4, <2>5
    <2> QED
      BY <1>5, <2>3, <2>6
  <1>10. CASE Return
    <2>1. IsTree'
      BY <1>4, <1>10 DEF Return, IsTree, IsDir, Exists
    <2>2. Rest'
      BY <1>10 DEF Return, Methods
    <2> QED
      BY <1>5, <2>1, <2>2
  <1>11. CASE \E node \in Nodes : OtherRemoves(node)
    <2>1. IsTree'
      BY <1>4, <1>11, TreeShrinks
    <2>2. Rest'
      BY <1>4, <1>11 DEF OtherRemoves, request
    <2> QED
      BY <1>5, <2>1, <2>2
  <1>12. CASE \E node \in Nodes : \E kind \in {"dir", "file"} : OtherMakes(node, kind)
    <2>1. PICK node \in Nodes, kind \in {"dir", "file"} : OtherMakes(node, kind)
      BY <1>12
    <2>2. IsTree'
      <3>1. /\ ~Exists(node) /\ IsDir(Parent(node)) /\ fs' = [fs EXCEPT ![node] = kind]
            /\ kind \in Kinds
        BY <2>1 DEF OtherMakes, Kinds
      <3> QED
        BY <1>4, <3>1, TreeGrows
    <2>3. Rest'
      BY <1>4, <2>1 DEF OtherMakes, request
    <2> QED
      BY <1>5, <2>2, <2>3
  <1>13. CASE UNCHANGED vars
    BY <1>5, <1>13 DEF vars, TypeOK, IsTree, IsDir, Exists
  <1> QED
    BY <1>6, <1>7, <1>8, <1>9, <1>10, <1>11, <1>12, <1>13 DEF Next, Step

LEMMA TypeInit == ASSUME Init PROVE IInv /\ TypeOK
PROOF
  <1>1. IInv
    BY DEF Init, IInv, MkdirInv
  <1> QED
    BY <1>1 DEF Init, TypeOK, Methods

\* Every call is in a legal phase and has a reply when it is done, the next mkdir is within
\* ensure_parent_dir's buffer, and the files stay a tree.
THEOREM TypeCorrect == Spec => []TypeOK
PROOF
  <1>1. Init => TypeOK
    BY TypeInit
  <1>2. IInv /\ TypeOK /\ [Next]_vars => TypeOK'
    BY TypeStep
  <1> QED
    BY <1>1, <1>2, Inductive, PTL DEF Spec

-----------------------------------------------------------------------------
(* Folders *)

\* Unless something was removed, what was given to mkdir is there: before the next mkdir
\* all that ends before it, and once the builder runs all on the way to the file.
MadeInv ==
    ~removed /\ method \in Exports /\ (pc \in {"mkdir", "build"} \/ reply.kind = "ok") =>
        \A i \in 2..Len(args.path) :
            args.path[i] = Slash /\ (pc = "mkdir" => i - 1 < p) =>
                Exists(Leads(args.path, i - 1))

FolderInv == IInv /\ TypeOK /\ MadeInv

LEMMA ExportPath ==
    ASSUME FolderInv, method \in Exports, pc # "idle"
    PROVE  args.path \in Paths /\ args.path \in Seq(Char) /\ Above(args.path) \subseteq Nodes
PROOF
  <1>1. args.path \in Paths
    BY DEF FolderInv, TypeOK, ArgsOf, Exports
  <1> QED
    BY <1>1, PathIsText DEF Nodes

\* Nothing but another process takes anything away.
LEMMA StillThere ==
    ASSUME FolderInv, [Next]_vars, NEW n \in Nodes, Exists(n), ~removed'
    PROVE  fs'[n] # "none"
PROOF
  <1>1. fs \in [Nodes -> Kinds] /\ fs[n] # "none"
    BY DEF FolderInv, IInv, Exists
  <1>2. CASE UNCHANGED fs
    BY <1>1, <1>2 DEF Exists
  <1>3. CASE MkdirMade
    <2>1. fs' = [fs EXCEPT ![Resolve(Upto(buf, p))] = "dir"]
      BY <1>3 DEF MkdirMade, Made
    <2> QED
      BY <1>1, <2>1 DEF Exists
  <1>4. CASE \E node \in Nodes : \E kind \in {"dir", "file"} : OtherMakes(node, kind)
    <2>1. PICK node \in Nodes, kind \in {"dir", "file"} : OtherMakes(node, kind)
      BY <1>4
    <2> QED
      BY <1>1, <2>1 DEF OtherMakes, Exists
  <1>5. (\E m \in Methods : \E a \in ArgsOf(m) : Call(m, a)) => UNCHANGED fs
    BY DEF Call
  <1>6. ~(\E node \in Nodes : OtherRemoves(node))
    BY DEF OtherRemoves
  <1> QED
    BY <1>2, <1>3, <1>4, <1>5, <1>6 DEF Next, Step, MkdirExists, MkdirNowhere, MkdirDenied,
                                  BuildRefused, BuildOom, Build, Return, vars

\* Once the folder at p is there, so is all that ends before the next mkdir.
LEMMA AdvanceMade ==
    ASSUME FolderInv, pc = "mkdir", Advance, UNCHANGED <<method, args, buf, removed>>,
           fs'[Leads(args.path, p)] # "none",
           \A n \in Nodes : Exists(n) => fs'[n] # "none"
    PROVE  MadeInv'
PROOF
  <1>1. /\ method \in Exports /\ args.path \in Paths /\ args.path \in Seq(Char)
        /\ HasParent(args.path) /\ buf = Cut(args.path)
        /\ p \in 1..Len(buf) /\ p \in Ends(Cut(args.path))
    BY MkdirNode DEF FolderInv
  <1>2. Above(args.path) \subseteq Nodes
    BY <1>1, ExportPath
  <1>3. SUFFICES ASSUME ~removed', NEW i \in 2..Len(args.path),
                        args.path[i] = Slash, pc' = "mkdir" => i - 1 < p'
                 PROVE  fs'[Leads(args.path, i - 1)] # "none"
    BY DEF MadeInv, Exists
  <1>4. i - 1 \in Ends(Cut(args.path)) /\ Leads(args.path, i - 1) \in Nodes
    BY <1>1, <1>2, <1>3, SlashIsEnd, AboveIsLeads
  <1>5. CASE i - 1 < p
    <2>1. Exists(Leads(args.path, i - 1))
      BY <1>1, <1>3, <1>5 DEF FolderInv, MadeInv
    <2> QED
      BY <1>4, <2>1
  <1>6. CASE i - 1 = p
    BY <1>6
  <1>7. CASE i - 1 > p
    <2>1. i - 1 \in 1..Len(buf)
      BY <1>1, <1>4, EndsAtSlash
    <2>2. Len(buf) \in Nat /\ p # Len(buf)
      <3>1. Cut(args.path) \in Seq(Char)
        BY <1>1, LastSlashIs DEF Cut, Upto
      <3> QED
        BY <1>1, <1>7, <2>1, <3>1
    <2>3. pc' = "mkdir" /\ p' = NextEnd(buf, p)
      BY <2>2 DEF Advance
    <2>4. NextEnd(buf, p) <= i - 1 /\ NextEnd(buf, p) \in Ends(Cut(args.path))
      <3>1. p \in 0..(Len(Cut(args.path)) - 1)
        BY <1>1, <2>2
      <3> QED
        BY <1>1, <1>4, <1>7, <3>1, NextEndIs
    <2>5. NextEnd(buf, p) \in Nat
      <3>1. NextEnd(buf, p) \in 1..Len(Cut(args.path))
        BY <1>1, <2>4, EndsAtSlash
      <3> QED
        BY <1>1, <2>2, <3>1
    <2> QED
      BY <1>3, <2>1, <2>3, <2>4, <2>5
  <1> QED
    BY <1>1, <1>5, <1>6, <1>7

LEMMA MadeStep == ASSUME FolderInv, [Next]_vars PROVE MadeInv'
PROOF
  <1> SUFFICES ASSUME ~removed' PROVE MadeInv'
    BY DEF MadeInv
  <1>1. IInv /\ TypeOK /\ MadeInv
    BY DEF FolderInv
  <1>2. reply.kind = "ok" => pc = "done"
    BY <1>1 DEF TypeOK, NoReply
  <1>3. CASE MkdirMade \/ MkdirExists
    <2>1. pc = "mkdir" /\ Advance /\ UNCHANGED <<method, args, buf, removed>>
      BY <1>3 DEF MkdirMade, MkdirExists, request
    <2>2. Resolve(Upto(buf, p)) = Leads(args.path, p) /\ Leads(args.path, p) \in Nodes
      BY <1>1, <2>1, MkdirNode
    <2>3. \A n \in Nodes : Exists(n) => fs'[n] # "none"
      BY StillThere
    <2>4. fs'[Leads(args.path, p)] # "none"
      <3>1. CASE MkdirMade
        BY <1>1, <2>2, <3>1 DEF MkdirMade, Made, Exists, IInv
      <3>2. CASE MkdirExists
        <4>1. Exists(Leads(args.path, p))
          BY <2>2, <3>2 DEF MkdirExists
        <4> QED
          BY <2>2, <2>3, <4>1
      <3> QED
        BY <1>3, <3>1, <3>2
    <2> QED
      BY <2>1, <2>3, <2>4, AdvanceMade
  <1>4. CASE MkdirNowhere \/ MkdirDenied \/ BuildRefused \/ BuildOom
    BY <1>4 DEF MkdirNowhere, MkdirDenied, BuildRefused, BuildOom, Reply, Error, MadeInv
  <1>5. CASE Build
    BY <1>1, <1>5 DEF Build, Reply, request, MadeInv, Exists
  <1>6. CASE \E m \in Methods : \E a \in ArgsOf(m) : Call(m, a)
    <2>1. PICK m \in Methods : \E a \in ArgsOf(m) : Call(m, a)
      BY <1>6
    <2>2. PICK a \in ArgsOf(m) : Call(m, a)
      BY <2>1
    <2>3. SUFFICES ASSUME m \in Exports, pc' \in {"mkdir", "build"} \/ reply'.kind = "ok",
                          NEW i \in 2..Len(a.path), a.path[i] = Slash,
                          pc' = "mkdir" => i - 1 < p'
                   PROVE  FALSE
      BY <2>2 DEF MadeInv, Call
    <2>4. a.path \in Seq(Char)
      BY <2>3, PathIsText DEF ArgsOf, Exports
    <2>5. HasParent(a.path) /\ i - 1 \in Ends(Cut(a.path))
      BY <2>3, <2>4, SlashIsEnd
    <2>6. pc' = "mkdir" /\ p' = NextEnd(Cut(a.path), 0)
      BY <1>1, <2>2, <2>3, <2>5 DEF Call, Reply, Error, TypeOK
    <2>7. /\ i - 1 \in 1..Len(Cut(a.path)) /\ i - 1 > 0
          /\ 0 \in 0..(Len(Cut(a.path)) - 1)
      <3>1. i - 1 \in 1..Len(Cut(a.path))
        BY <2>4, <2>5, EndsAtSlash
      <3>2. Cut(a.path) \in Seq(Char)
        BY <2>4, <2>5, LastSlashIs DEF Cut, Upto
      <3> QED
        BY <3>1, <3>2
    <2>8. NextEnd(Cut(a.path), 0) <= i - 1 /\ NextEnd(Cut(a.path), 0) \in Ends(Cut(a.path))
      BY <2>4, <2>5, <2>7, NextEndIs
    <2>9. NextEnd(Cut(a.path), 0) \in Nat
      BY <2>4, <2>5, <2>8, EndsAtSlash
    <2> QED
      BY <2>3, <2>6, <2>7, <2>8, <2>9
  <1>7. CASE Return
    BY <1>7 DEF Return, MadeInv, Exports
  <1>8. CASE \E node \in Nodes : OtherRemoves(node)
    BY <1>8 DEF OtherRemoves, MadeInv
  <1>9. CASE UNCHANGED <<pc, request, p, reply, denied, removed>>
    <2>1. \A n \in Nodes : Exists(n) => fs'[n] # "none"
      BY StillThere
    <2>2. UNCHANGED <<pc, method, args, buf, p, reply, removed>>
      BY <1>9 DEF request
    <2>3. SUFFICES ASSUME method \in Exports,
                          pc \in {"mkdir", "build"} \/ reply.kind = "ok",
                          NEW i \in 2..Len(args.path),
                          args.path[i] = Slash, pc = "mkdir" => i - 1 < p
                   PROVE  fs'[Leads(args.path, i - 1)] # "none"
      BY <2>2 DEF MadeInv, Exists
    <2>4. pc # "idle"
      BY <1>2, <2>3
    <2>5. Leads(args.path, i - 1) \in Nodes
      BY <2>3, <2>4, ExportPath, AboveIsLeads
    <2>6. Exists(Leads(args.path, i - 1))
      BY <1>1, <2>2, <2>3 DEF MadeInv
    <2> QED
      BY <2>1, <2>5, <2>6
  <1>10. (\E node \in Nodes : \E kind \in {"dir", "file"} : OtherMakes(node, kind)) =>
              UNCHANGED <<pc, request, p, reply, denied, removed>>
    BY DEF OtherMakes
  <1>11. UNCHANGED vars => UNCHANGED <<pc, request, p, reply, denied, removed>>
    BY DEF vars, request
  <1> QED
    BY <1>3, <1>4, <1>5, <1>6, <1>7, <1>8, <1>9, <1>10, <1>11 DEF Next, Step

LEMMA FolderInductive == Spec => []FolderInv
PROOF
  <1>1. Init => MadeInv
    BY DEF Init, MadeInv, Exports
  <1>2. FolderInv /\ [Next]_vars => MadeInv'
    BY MadeStep
  <1>3. FolderInv <=> IInv /\ TypeOK /\ MadeInv
    BY DEF FolderInv
  <1> QED
    BY <1>1, <1>2, <1>3, Inductive, TypeCorrect, PTL DEF Spec

\* What an export with an ok reply finds: all on the way to its file is there, and all but
\* the last of it are folders, each the folder of something.
LEMMA ReadyFollows == ASSUME FolderInv PROVE FolderReady
PROOF
  <1>1. SUFFICES ASSUME reply.kind = "ok", method \in Exports, ~removed,
                        NEW node \in Above(args.path)
                 PROVE  Exists(node) /\ (node # Resolve(Cut(args.path)) => IsDir(node))
    BY DEF FolderReady
  <1>2. pc = "done"
    BY <1>1 DEF FolderInv, TypeOK, NoReply
  <1>3. args.path \in Seq(Char) /\ Above(args.path) \subseteq Nodes
    BY <1>1, <1>2, ExportPath
  <1>4. \A i \in 2..Len(args.path) :
           args.path[i] = Slash =>
              Exists(Leads(args.path, i - 1)) /\ Leads(args.path, i - 1) \in Nodes
    BY <1>1, <1>2, <1>3, AboveIsLeads DEF FolderInv, MadeInv
  <1>5. PICK i \in 2..Len(args.path) : args.path[i] = Slash /\ node = Leads(args.path, i - 1)
    BY <1>3, AboveIsLeads
  <1>6. ASSUME node # Resolve(Cut(args.path)) PROVE IsDir(node)
    <2> DEFINE l == LastSlash(args.path)
    <2>1. HasParent(args.path) /\ i - 1 \in Ends(Cut(args.path))
      BY <1>3, <1>5, SlashIsEnd
    <2>2. l \in 2..Len(args.path) /\ args.path[l] = Slash
      BY <1>3, <2>1, LastSlashIs
    <2> HIDE DEF l
    <2>3. Cut(args.path) = Upto(args.path, l - 1)
      BY DEF Cut, l
    <2>4. node # Leads(args.path, l - 1)
      BY <1>6, <2>3 DEF Leads
    <2>5. i \in 1..(l - 1) /\ l - 1 \in 0..Len(args.path)
      <3>1. Len(Cut(args.path)) = l - 1
        BY <1>3, <2>2, <2>3 DEF Upto
      <3>2. i - 1 \in 1..(l - 1)
        BY <1>3, <2>1, <3>1, EndsAtSlash
      <3>3. i # l
        BY <1>5, <2>4
      <3> QED
        BY <1>3, <2>2, <3>2, <3>3
    <2>6. IsDir(Root) /\ \A n \in Nodes : Exists(n) => IsDir(Parent(n))
      BY DEF FolderInv, TypeOK, IsTree
    <2>7. CASE node = Parent(Leads(args.path, l - 1))
      BY <1>4, <2>2, <2>6, <2>7
    <2>8. ASSUME NEW j \in 1..(l - 1), args.path[j] = Slash,
                 node = Parent(Leads(args.path, j - 1))
          PROVE  IsDir(node)
      <3>1. j \in 1..Len(args.path)
        BY <2>2
      <3>2. CASE j = 1
        <4>1. j - 1 = 0 /\ Leads(args.path, 0) = Root /\ Parent(Root) = Root
          BY <1>3, <3>1, <3>2, LeadsStep
        <4> QED
          BY <2>6, <2>8, <4>1
      <3>3. CASE j # 1
        <4>1. j \in 2..Len(args.path)
          BY <3>1, <3>3
        <4> QED
          BY <1>4, <2>6, <2>8, <4>1
      <3> QED
        BY <3>2, <3>3
    <2> QED
      BY <1>3, <1>5, <2>4, <2>5, <2>7, <2>8, EarlierIsAbove
  <1> QED
    BY <1>4, <1>5, <1>6

\* Unless another process removed some of it, an export with an ok reply finds every folder
\* on the way to its file.
THEOREM FoldersAreReady == Spec => []FolderReady
PROOF
  BY FolderInductive, ReadyFollows, PTL

\* A mkdir has nowhere to go only when what it would go into is a file: Root is a folder,
\* and anything else on the way was given to mkdir before.
LEMMA NowhereIsFile ==
    ASSUME FolderInv, MkdirNowhere, ~removed
    PROVE  \E node \in Above(args.path) : fs[node] = "file"
PROOF
  <1>1. /\ method \in Exports /\ args.path \in Seq(Char)
        /\ p \in 1..Len(buf) /\ p + 1 \in 2..Len(args.path)
        /\ Resolve(Upto(buf, p)) = Leads(args.path, p)
    BY MkdirNode DEF FolderInv, MkdirNowhere
  <1>2. pc = "mkdir" /\ ~IsDir(Parent(Leads(args.path, p)))
    BY <1>1 DEF MkdirNowhere
  <1>3. p \in 0..Len(args.path) /\ p \in Nat
    BY <1>1
  <1>4. Parent(Leads(args.path, p)) # Root
    BY <1>2 DEF FolderInv, TypeOK, IsTree
  <1>5. PICK j \in 2..p :
          args.path[j] = Slash /\ Parent(Leads(args.path, p)) = Leads(args.path, j - 1)
    BY <1>1, <1>3, <1>4, ParentIsEarlier
  <1>6. j \in 2..Len(args.path) /\ j - 1 < p
    BY <1>1, <1>3
  <1>7. Leads(args.path, j - 1) \in Above(args.path) /\ Above(args.path) \subseteq Nodes
    BY <1>1, <1>2, <1>5, <1>6, ExportPath, AboveIsLeads
  <1>8. Exists(Leads(args.path, j - 1))
    BY <1>1, <1>2, <1>5, <1>6 DEF FolderInv, MadeInv
  <1>9. fs[Leads(args.path, j - 1)] = "file"
    BY <1>2, <1>5, <1>7, <1>8 DEF FolderInv, IInv, Exists, IsDir, Kinds
  <1> QED
    BY <1>7, <1>9

\* Only an export can fail for the files.
CauseInv == FailureHasCause /\ (reply = Error("DB_ERR_IO") => method \in Exports)

LEMMA CauseStep == ASSUME FolderInv, CauseInv, [Next]_vars PROVE CauseInv'
PROOF
  <1>1. CASE MkdirNowhere
    <2>1. UNCHANGED <<fs, method, args, removed>> /\ method \in Exports
      BY <1>1, MkdirNode DEF MkdirNowhere, request, FolderInv
    <2>2. removed \/ \E node \in Above(args.path) : fs[node] = "file"
      BY <1>1, NowhereIsFile
    <2> QED
      BY <2>1, <2>2 DEF CauseInv, FailureHasCause
  <1>2. CASE MkdirDenied
    BY <1>2, MkdirNode DEF MkdirDenied, CauseInv, FailureHasCause, FolderInv, request
  <1>3. CASE MkdirMade \/ MkdirExists
    <2>1. reply' = NoReply
      BY <1>3 DEF MkdirMade, MkdirExists, FolderInv, TypeOK
    <2> QED
      BY <2>1 DEF CauseInv, FailureHasCause, NoReply, Error
  <1>4. CASE BuildRefused \/ BuildOom \/ Build
    BY <1>4 DEF BuildRefused, BuildOom, Build, Reply, Error, CauseInv, FailureHasCause
  <1>5. CASE \E m \in Methods : \E a \in ArgsOf(m) : Call(m, a)
    <2>1. PICK m \in Methods : \E a \in ArgsOf(m) : Call(m, a)
      BY <1>5
    <2>2. PICK a \in ArgsOf(m) : Call(m, a)
      BY <2>1
    <2>3. reply = NoReply
      BY <2>2 DEF Call, FolderInv, TypeOK
    <2>4. reply' # Error("DB_ERR_IO")
      BY <2>2, <2>3 DEF Call, Reply, Error, NoReply
    <2> QED
      BY <2>4 DEF CauseInv, FailureHasCause
  <1>6. CASE Return
    BY <1>6 DEF Return, CauseInv, FailureHasCause, NoReply, Error
  <1>7. CASE \E node \in Nodes : OtherRemoves(node)
    BY <1>7 DEF OtherRemoves, CauseInv, FailureHasCause, request
  <1>8. CASE \E node \in Nodes : \E kind \in {"dir", "file"} : OtherMakes(node, kind)
    <2>1. PICK node \in Nodes, kind \in {"dir", "file"} : OtherMakes(node, kind)
      BY <1>8
    <2>2. UNCHANGED <<method, args, reply, denied, removed>>
      BY <2>1 DEF OtherMakes, request
    <2>3. SUFFICES ASSUME reply = Error("DB_ERR_IO"), NEW n \in Above(args.path),
                          fs[n] = "file"
                   PROVE  fs'[n] = "file"
      BY <2>2 DEF CauseInv, FailureHasCause
    <2>4. n \in Nodes
      <3>1. method \in Exports /\ pc # "idle"
        BY <2>3 DEF CauseInv, FolderInv, TypeOK, Error, NoReply
      <3> QED
        BY <2>3, <3>1, ExportPath
    <2> QED
      BY <2>1, <2>3, <2>4 DEF OtherMakes, Exists, FolderInv, IInv
  <1>9. CASE UNCHANGED vars
    BY <1>9 DEF vars, CauseInv, FailureHasCause
  <1> QED
    BY <1>1, <1>2, <1>3, <1>4, <1>5, <1>6, <1>7, <1>8, <1>9 DEF Next, Step

\* An export fails for the files only if the system refused it, or a file is on the way, or
\* something was removed under it.
THEOREM FailuresHaveCauses == Spec => []FailureHasCause
PROOF
  <1>1. Init => CauseInv
    BY DEF Init, CauseInv, FailureHasCause, NoReply, Error
  <1>2. CauseInv => FailureHasCause
    BY DEF CauseInv
  <1> QED
    BY <1>1, <1>2, CauseStep, FolderInductive, PTL DEF Spec

-----------------------------------------------------------------------------
(* Names *)

Token == Char \cup Fragments
Delimiter == {QI, QL}

\* What a reader of SQL text remembers.
Reading == [within : {"none"} \cup Delimiter, half : BOOLEAN, part : Seq(Token),
            quoted : Seq(Delimiter \X Seq(Token)), rest : Seq(Token)]

\* ReadNext, as a function.
Read == [x \in Reading \X Token |-> ReadNext(x[1], x[2])]

\* No fragment of SQL delimits, and none is a character.
LEMMA FragmentsDiffer ==
    /\ Delimiter \subseteq Char /\ "none" \notin Delimiter
    /\ \A x \in Fragments : x \notin Delimiter /\ x \in Token
    /\ \A x \in Char : x \in Token
PROOF
  <1>1. {Slash, QI, QL} \subseteq Char /\ Fragments \cap Char = {}
    BY ConstantsAssumption DEF ConstantsAssumption
  <1>2. "none" \notin Delimiter
    BY DEF Delimiter, QI, QL
  <1> QED
    BY <1>1, <1>2 DEF Delimiter, Token

LEMMA ReadNextType ==
    ASSUME NEW s \in Reading, NEW x \in Token
    PROVE  ReadNext(s, x) \in Reading
PROOF
  <1>1. /\ s.within \in {"none"} \cup Delimiter /\ s.half \in BOOLEAN /\ s.part \in Seq(Token)
        /\ s.quoted \in Seq(Delimiter \X Seq(Token)) /\ s.rest \in Seq(Token)
    BY DEF Reading
  <1>2. ASSUME NEW r \in Reading PROVE Outside(r, x) \in Reading
    <2>1. /\ r.rest \in Seq(Token) /\ r.part \in Seq(Token)
          /\ r.quoted \in Seq(Delimiter \X Seq(Token))
      BY DEF Reading
    <2>2. Append(r.rest, x) \in Seq(Token) /\ <<>> \in Seq(Token)
      BY <2>1
    <2>3. CASE x \in Delimiter
      BY <2>1, <2>2, <2>3 DEF Outside, Reading, Delimiter
    <2>4. CASE x \notin Delimiter
      BY <2>1, <2>2, <2>4 DEF Outside, Reading, Delimiter
    <2> QED
      BY <2>3, <2>4
  <1>3. CASE s.within = "none"
    BY <1>2, <1>3 DEF ReadNext
  <1>4. CASE s.within # "none" /\ s.half /\ x # s.within
    <2> DEFINE r == [s EXCEPT !.quoted = Append(@, <<s.within, s.part>>)]
    <2>1. <<s.within, s.part>> \in Delimiter \X Seq(Token)
      BY <1>1, <1>4
    <2>2. Append(s.quoted, <<s.within, s.part>>) \in Seq(Delimiter \X Seq(Token))
      BY <1>1, <2>1
    <2>3. r \in Reading
      BY <2>2 DEF Reading
    <2>4. ReadNext(s, x) = Outside(r, x)
      BY <1>4 DEF ReadNext
    <2> HIDE DEF r
    <2> QED
      BY <1>2, <2>3, <2>4
  <1>5. CASE s.within # "none" /\ x = s.within /\ ~s.half
    BY <1>5 DEF ReadNext, Reading
  <1>6. CASE s.within # "none" /\ ~(s.half /\ x # s.within) /\ ~(x = s.within /\ ~s.half)
    <2>1. ReadNext(s, x) = [s EXCEPT !.half = FALSE, !.part = Append(@, x)]
      BY <1>6 DEF ReadNext
    <2>2. Append(s.part, x) \in Seq(Token)
      BY <1>1
    <2> QED
      BY <2>1, <2>2 DEF Reading
  <1> QED
    BY <1>3, <1>4, <1>5, <1>6

LEMMA UnreadType == Unread \in Reading
PROOF
  BY DEF Unread, Reading

LEMMA ReadIs ==
    /\ Read \in Readers(Reading, Token)
    /\ \A s \in Reading, x \in Token : Read[<<s, x>>] = ReadNext(s, x)
PROOF
  <1>1. ASSUME NEW s \in Reading, NEW x \in Token PROVE ReadNext(s, x) \in Reading
    BY ReadNextType
  <1> QED
    BY <1>1 DEF Read, Readers

\* The reader takes one element of a text after the other.
LEMMA ReadsRuns ==
    ASSUME NEW text \in Seq(Token)
    PROVE  Takes(Read, Unread, text, Reads(text))
PROOF
  <1> DEFINE n == Len(text)
             iter == CHOOSE iter : iter = [s \in SUBSET (1..n) |->
                        IF s = {} THEN Unread ELSE ReadNext(iter[s \ {Max(s)}], text[Max(s)])]
  <1>1. n \in Nat /\ DOMAIN text = 1..n /\ Read \in Readers(Reading, Token)
    BY ReadIs
  <1>2. Reads(text) = iter[1..n]
    BY <1>1 DEF Reads, FoldLeft, MapThenFoldSet
  <1>3. PICK it : FoldedOver(it, Reading, Token, Read, Unread, text)
    BY <1>1, UnreadType, TextFoldExists
  <1>4. ASSUME NEW s \in SUBSET (1..n)
        PROVE  it[s] = IF s = {} THEN Unread ELSE ReadNext(it[s \ {Max(s)}], text[Max(s)])
    <2> HIDE DEF Max
    <2> QED
      BY <1>3, ReadIs DEF FoldedOver
  <1>5. it = [s \in SUBSET (1..n) |->
                IF s = {} THEN Unread ELSE ReadNext(it[s \ {Max(s)}], text[Max(s)])]
    BY <1>3, <1>4 DEF FoldedOver
  <1>6. iter = [s \in SUBSET (1..n) |->
                  IF s = {} THEN Unread ELSE ReadNext(iter[s \ {Max(s)}], text[Max(s)])]
    BY <1>5
  <1> HIDE DEF iter
  <1>7. ASSUME NEW s \in SUBSET (1..n), s # {}, iter[s \ {Max(s)}] \in Reading
        PROVE  iter[s] = Read[<<iter[s \ {Max(s)}], text[Max(s)]>>]
    <2>1. iter[s] = ReadNext(iter[s \ {Max(s)}], text[Max(s)])
      BY <1>6, <1>7
    <2>2. text[Max(s)] \in Token
      BY <1>3, <1>7 DEF FoldedOver
    <2> HIDE DEF Max
    <2> QED
      BY <1>7, <2>1, <2>2, ReadIs
  <1>8. iter[{}] = Unread
    BY <1>6
  <1>9. Takes(Read, Unread, text, iter[1..n])
    BY <1>1, <1>7, <1>8, UnreadType, FoldTakes
  <1> QED
    BY <1>2, <1>9

LEMMA ReadsOne ==
    ASSUME NEW s \in Reading, NEW x \in Token
    PROVE  Takes(Read, s, <<x>>, ReadNext(s, x))
PROOF
  BY ReadIs, TakesOne

-----------------------------------------------------------------------------
\* What a reader has met: the quoted parts, one that has just ended among them, and the
\* rest of the text.
Met(s, quoted, rest) ==
    /\ s \in Reading /\ s.rest = rest
    /\ \/ s.within = "none" /\ s.quoted = quoted
       \/ s.within # "none" /\ s.half /\ quoted = Append(s.quoted, <<s.within, s.part>>)

\* A reader in a part that q delimits.
Within(s, q, half, part) ==
    [within |-> q, half |-> half, part |-> part, quoted |-> s.quoted, rest |-> s.rest]

\* A fragment is read as such, and ends a quoted part.
LEMMA FragmentMet ==
    ASSUME NEW s, NEW quoted, NEW rest, Met(s, quoted, rest), NEW x \in Fragments
    PROVE  Met(ReadNext(s, x), quoted, Append(rest, x)) /\ ReadNext(s, x).within = "none"
PROOF
  <1>1. x \notin {QI, QL} /\ x \in Token /\ "none" \notin Delimiter
    BY FragmentsDiffer DEF Delimiter
  <1>2. s \in Reading /\ s.rest = rest /\ ReadNext(s, x) \in Reading
    BY <1>1, ReadNextType DEF Met
  <1>3. CASE s.within = "none"
    <2>1. ReadNext(s, x) = [s EXCEPT !.within = "none", !.half = FALSE, !.rest = Append(@, x)]
      BY <1>1, <1>3 DEF ReadNext, Outside
    <2>2. /\ ReadNext(s, x).within = "none" /\ ReadNext(s, x).quoted = s.quoted
          /\ ReadNext(s, x).rest = Append(rest, x)
      BY <1>2, <2>1 DEF Reading
    <2> QED
      BY <1>2, <1>3, <2>2 DEF Met
  <1>4. CASE s.within # "none"
    <2> DEFINE r == [s EXCEPT !.quoted = Append(@, <<s.within, s.part>>)]
    <2>1. s.half /\ x # s.within /\ quoted = Append(s.quoted, <<s.within, s.part>>)
      BY <1>1, <1>2, <1>4 DEF Met, Reading, Delimiter
    <2>2. ReadNext(s, x) = [r EXCEPT !.within = "none", !.half = FALSE, !.rest = Append(@, x)]
      BY <1>1, <1>4, <2>1 DEF ReadNext, Outside
    <2>3. /\ ReadNext(s, x).within = "none" /\ ReadNext(s, x).quoted = quoted
          /\ ReadNext(s, x).rest = Append(rest, x)
      BY <1>2, <2>1, <2>2 DEF Reading
    <2> QED
      BY <1>2, <2>3 DEF Met
  <1> QED
    BY <1>3, <1>4

\* How each character of a quoted part is read.
LEMMA ReadsWithin ==
    ASSUME NEW s \in Reading, NEW q \in Delimiter, NEW part \in Seq(Char), NEW c \in Char
    PROVE  /\ s.within = "none" => ReadNext(s, q) = Within(s, q, FALSE, <<>>)
           /\ c # q =>
                 ReadNext(Within(s, q, FALSE, part), c) = Within(s, q, FALSE, Append(part, c))
           /\ ReadNext(Within(s, q, FALSE, part), q) = Within(s, q, TRUE, part)
           /\ ReadNext(Within(s, q, TRUE, part), q) = Within(s, q, FALSE, Append(part, q))
PROOF
  <1>1. q # "none" /\ q \in {QI, QL}
    BY FragmentsDiffer DEF Delimiter
  <1>2. ASSUME s.within = "none" PROVE ReadNext(s, q) = Within(s, q, FALSE, <<>>)
    <2>1. ReadNext(s, q) = [s EXCEPT !.within = q, !.half = FALSE, !.part = <<>>]
      BY <1>1, <1>2 DEF ReadNext, Outside
    <2> QED
      BY <2>1 DEF Reading, Within
  <1>3. ASSUME c # q
        PROVE  ReadNext(Within(s, q, FALSE, part), c) = Within(s, q, FALSE, Append(part, c))
    BY <1>1, <1>3 DEF ReadNext, Within
  <1>4. ReadNext(Within(s, q, FALSE, part), q) = Within(s, q, TRUE, part)
    BY <1>1 DEF ReadNext, Within
  <1>5. ReadNext(Within(s, q, TRUE, part), q) = Within(s, q, FALSE, Append(part, q))
    BY <1>1 DEF ReadNext, Within
  <1> QED
    BY <1>2, <1>3, <1>4, <1>5

LEMMA WithinType ==
    ASSUME NEW s \in Reading, NEW q \in Delimiter, NEW half \in BOOLEAN, NEW part \in Seq(Char)
    PROVE  Within(s, q, half, part) \in Reading /\ q \in Token
PROOF
  <1>1. Char \subseteq Token /\ q \in Char
    BY FragmentsDiffer DEF Token
  <1>2. part \in Seq(Token)
    BY <1>1
  <1>3. s.quoted \in Seq(Delimiter \X Seq(Token)) /\ s.rest \in Seq(Token)
    BY DEF Reading
  <1> QED
    BY <1>1, <1>2, <1>3 DEF Within, Reading

\* Whatever its characters, a name that was quoted is read back.
LEMMA QuotedMet ==
    ASSUME NEW s, NEW quoted, NEW rest, Met(s, quoted, rest), s.within = "none",
           NEW name \in Seq(Char), NEW q \in Delimiter
    PROVE  /\ QuoteWith(name, q) \in Seq(Token)
           /\ \E t : /\ Takes(Read, s, QuoteWith(name, q), t)
                     /\ Met(t, Append(quoted, <<q, name>>), rest)
PROOF
  <1> DEFINE n == Len(name)
             pieces == [i \in DOMAIN name |-> IF name[i] = q THEN <<q, q>> ELSE <<name[i]>>]
             At(k) == Within(s, q, FALSE, SubSeq(name, 1, k))
  <1>1. /\ n \in Nat /\ DOMAIN name = 1..n /\ \A i \in 1..n : name[i] \in Char
        /\ q \in Char /\ q # "none" /\ s \in Reading /\ s.quoted = quoted /\ s.rest = rest
    <2>1. q # "none" /\ q \in Char
      BY FragmentsDiffer
    <2>2. s \in Reading /\ s.quoted = quoted /\ s.rest = rest
      BY DEF Met
    <2> QED
      BY <2>1, <2>2
  <1>2. pieces \in Seq(Seq(Char)) /\ Len(pieces) = n
    <2>1. ASSUME NEW i \in 1..n PROVE pieces[i] \in Seq(Char)
      BY <1>1
    <2>2. pieces = [i \in 1..n |-> pieces[i]]
      BY <1>1
    <2> HIDE DEF pieces
    <2> QED
      BY <1>1, <2>1, <2>2
  <1>3. PICK g \in [0..n -> Seq(Char)] :
              /\ g[0] = <<>> /\ FlattenSeq(pieces) = g[n]
              /\ \A k \in 1..n : g[k] = g[k - 1] \o pieces[k]
    <2> HIDE DEF pieces, n
    <2> QED
      BY <1>2, FlattenRuns
  <1>4. \A text \in Seq(Char) : text \in Seq(Token)
    <2>1. Char \subseteq Token
      BY DEF Token
    <2> QED
      BY <2>1
  <1> DEFINE S == {k \in 0..n : Takes(Read, At(0), g[k], At(k))}
  <1>5. 0 \in S
    <2>1. g[0] = <<>> /\ 0 \in 0..n
      BY <1>1, <1>3
    <2> HIDE DEF At
    <2> QED
      BY <2>1, TakesNone
  <1>6. ASSUME NEW k \in 1..n, k - 1 \in S PROVE k \in S
    <2> DEFINE part == SubSeq(name, 1, k - 1)
               c == name[k]
    <2>1. part \in Seq(Char) /\ SubSeq(name, 1, k) = Append(part, c) /\ c \in Char
      BY <1>1
    <2>2. At(k - 1) = Within(s, q, FALSE, part) /\ At(k) = Within(s, q, FALSE, Append(part, c))
      BY <2>1
    <2>3. g[k] = g[k - 1] \o pieces[k] /\ g[k - 1] \in Seq(Token) /\ k \in 0..n
      <3>1. k - 1 \in 0..n /\ k \in 0..n
        BY <1>1
      <3>2. g[k - 1] \in Seq(Char)
        BY <1>3, <3>1
      <3> QED
        BY <1>3, <1>4, <3>1, <3>2
    <2>4. pieces[k] = IF c = q THEN <<q, q>> ELSE <<c>>
      BY <1>1
    <2>5. Takes(Read, At(0), g[k - 1], At(k - 1))
      BY <1>6
    <2> HIDE DEF part, c, pieces, At, S
    <2>6. CASE c # q
      <3>1. ReadNext(At(k - 1), c) = At(k)
        <4>1. ReadNext(Within(s, q, FALSE, part), c) = Within(s, q, FALSE, Append(part, c))
          BY <1>1, <2>1, <2>6, ReadsWithin
        <4> QED
          BY <2>2, <4>1
      <3>2. Takes(Read, At(k - 1), <<c>>, At(k))
        <4>1. At(k - 1) \in Reading /\ c \in Token
          BY <1>1, <2>1, <2>2, WithinType, FragmentsDiffer
        <4> QED
          BY <3>1, <4>1, ReadsOne
      <3>3. <<c>> \in Seq(Token)
        BY <1>4, <2>1
      <3>4. Takes(Read, At(0), g[k], At(k))
        BY <2>3, <2>4, <2>5, <2>6, <3>2, <3>3, TakesBoth
      <3> QED
        BY <2>3, <3>4 DEF S
    <2>7. CASE c = q
      <3> DEFINE half == Within(s, q, TRUE, part)
      <3>1. ReadNext(At(k - 1), q) = half /\ ReadNext(half, q) = At(k)
        BY <1>1, <2>1, <2>2, <2>7, ReadsWithin, ZenonT(60)
      <3>6. At(k - 1) \in Reading /\ half \in Reading /\ q \in Token
        BY <1>1, <2>1, <2>2, WithinType
      <3> HIDE DEF half
      <3>2. Takes(Read, At(k - 1), <<q>>, half) /\ Takes(Read, half, <<q>>, At(k))
        BY <3>1, <3>6, ReadsOne
      <3>3. <<q>> \in Seq(Token) /\ <<q, q>> \in Seq(Token) /\ <<q>> \o <<q>> = <<q, q>>
        <4>1. <<q>> \in Seq(Char) /\ <<q, q>> \in Seq(Char)
          BY <1>1
        <4>2. <<q>> \o <<q>> = <<q, q>>
          <5>1. /\ <<q>> \o <<q>> \in Seq(Char) /\ Len(<<q>> \o <<q>>) = 2
                /\ \A i \in 1..2 : (<<q>> \o <<q>>)[i] = q
            BY <1>1
          <5>2. Len(<<q, q>>) = 2 /\ \A i \in 1..2 : <<q, q>>[i] = q
            OBVIOUS
          <5>3. /\ Len(<<q>> \o <<q>>) = Len(<<q, q>>)
                /\ \A i \in 1..Len(<<q>> \o <<q>>) : (<<q>> \o <<q>>)[i] = <<q, q>>[i]
            BY <5>1, <5>2
          <5> QED
            BY <4>1, <5>1, <5>3, SeqEqual, Zenon
        <4> QED
          BY <1>4, <4>1, <4>2
      <3>4. Takes(Read, At(k - 1), <<q, q>>, At(k))
        BY <3>2, <3>3, TakesBoth
      <3>5. Takes(Read, At(0), g[k], At(k))
        BY <2>3, <2>4, <2>5, <2>7, <3>3, <3>4, TakesBoth
      <3> QED
        BY <2>3, <3>5 DEF S
    <2> QED
      BY <2>6, <2>7
  <1> HIDE DEF S
  <1>7. n \in S
    <2>1. \A k \in 0..n : k \in S
      <3> HIDE DEF n
      <3> QED
        BY <1>1, <1>5, <1>6, Upward
    <2> QED
      BY <1>1, <2>1
  <1> DEFINE end == Within(s, q, TRUE, name)
             flat == FlattenSeq(pieces)
  <1>8. Takes(Read, s, <<q>>, At(0))
    <2>1. SubSeq(name, 1, 0) = <<>> /\ <<>> \in Seq(Char)
      BY <1>1
    <2>2. ReadNext(s, q) = At(0)
      BY <1>1, <2>1, ReadsWithin
    <2>3. q \in Token
      BY <1>1, <2>1, WithinType
    <2> HIDE DEF At
    <2> QED
      BY <1>1, <2>2, <2>3, ReadsOne
  <1>9. Takes(Read, At(0), flat, At(n)) /\ flat \in Seq(Token)
    <2>1. Takes(Read, At(0), g[n], At(n))
      BY <1>7 DEF S
    <2>2. n \in 0..n
      BY <1>1
    <2>3. g[n] \in Seq(Token)
      BY <1>3, <1>4, <2>2
    <2> HIDE DEF At, n, pieces
    <2> QED
      BY <1>3, <2>1, <2>3
  <1>10. Takes(Read, At(n), <<q>>, end)
    <2>1. SubSeq(name, 1, n) = name
      BY <1>1
    <2>2. ReadNext(At(n), q) = end
      BY <1>1, <2>1, ReadsWithin, ZenonT(60)
    <2>3. At(n) \in Reading /\ q \in Token
      BY <1>1, <2>1, WithinType
    <2> HIDE DEF At, end, n
    <2> QED
      BY <2>2, <2>3, ReadsOne
  <1>11. Met(end, Append(quoted, <<q, name>>), rest)
    <2>1. end \in Reading
      BY <1>1, WithinType
    <2> QED
      BY <1>1, <2>1 DEF Met, Within
  <1>12. QuoteWith(name, q) = <<q>> \o flat \o <<q>>
    BY DEF QuoteWith
  <1>13. <<q>> \in Seq(Token)
    <2>1. <<q>> \in Seq(Char)
      BY <1>1
    <2> QED
      BY <1>4, <2>1
  <1> HIDE DEF At, end, flat, n
  <1>14. Takes(Read, s, <<q>> \o flat, At(n)) /\ <<q>> \o flat \in Seq(Token)
    <2>1. <<q>> \o flat \in Seq(Token)
      BY <1>9, <1>13
    <2> QED
      BY <1>8, <1>9, <1>13, <2>1, TakesBoth
  <1>15. Takes(Read, s, QuoteWith(name, q), end)
    BY <1>10, <1>12, <1>13, <1>14, TakesBoth
  <1>16. QuoteWith(name, q) \in Seq(Token)
    BY <1>12, <1>13, <1>14
  <1> QED
    BY <1>11, <1>15, <1>16

-----------------------------------------------------------------------------
\* The texts of the builders, from left to right.  A text has quoted parts and, besides
\* them, nothing but fragments; Between also says that its last part has ended.
Quotes(text, s, quoted) ==
    /\ text \in Seq(Token) /\ Takes(Read, Unread, text, s)
    /\ \E rest \in Seq(Fragments) : Met(s, quoted, rest)
Says(text, quoted) == \E s : Quotes(text, s, quoted)
Between(text, quoted) == \E s : Quotes(text, s, quoted) /\ s.within = "none"

LEMMA AddFragment ==
    ASSUME NEW text, NEW quoted, Says(text, quoted), NEW x \in Fragments
    PROVE  Between(text \o <<x>>, quoted)
PROOF
  <1>1. PICK s : Quotes(text, s, quoted)
    BY DEF Says
  <1>2. PICK rest \in Seq(Fragments) : Met(s, quoted, rest)
    BY <1>1 DEF Quotes
  <1>3. text \in Seq(Token) /\ <<x>> \in Seq(Token) /\ Takes(Read, Unread, text, s)
    BY <1>1, FragmentsDiffer DEF Quotes
  <1>4. Takes(Read, Unread, text \o <<x>>, ReadNext(s, x)) /\ text \o <<x>> \in Seq(Token)
    <2>1. Takes(Read, s, <<x>>, ReadNext(s, x))
      BY <1>2, FragmentsDiffer, ReadsOne DEF Met
    <2>2. text \o <<x>> \in Seq(Token)
      BY <1>3
    <2> QED
      BY <1>3, <2>1, <2>2, TakesBoth
  <1>5. Met(ReadNext(s, x), quoted, Append(rest, x)) /\ ReadNext(s, x).within = "none"
    BY <1>2, FragmentMet
  <1>6. Append(rest, x) \in Seq(Fragments)
    <2> HIDE DEF Fragments
    <2> QED
      BY <1>2
  <1> QED
    BY <1>4, <1>5, <1>6 DEF Between, Quotes

LEMMA StartFragment == ASSUME NEW x \in Fragments PROVE Between(<<x>>, <<>>)
PROOF
  <1>1. <<>> \in Seq(Token) /\ <<>> \in Seq(Fragments)
    OBVIOUS
  <1>2. Met(Unread, <<>>, <<>>)
    BY UnreadType DEF Met, Unread
  <1>3. Says(<<>>, <<>>)
    BY <1>1, <1>2, TakesNone DEF Says, Quotes
  <1>4. <<>> \o <<x>> = <<x>>
    OBVIOUS
  <1> QED
    BY <1>3, <1>4, AddFragment

LEMMA AddTwo ==
    ASSUME NEW text, NEW quoted, Says(text, quoted), NEW x \in Fragments, NEW y \in Fragments
    PROVE  Between(text \o <<x, y>>, quoted)
PROOF
  <1>1. Between(text \o <<x>>, quoted)
    BY AddFragment
  <1>2. Says(text \o <<x>>, quoted)
    BY <1>1 DEF Between, Says
  <1>3. Between((text \o <<x>>) \o <<y>>, quoted)
    BY <1>2, AddFragment
  <1>4. text \in Seq(Token) /\ x \in Token /\ y \in Token
    BY FragmentsDiffer DEF Says, Quotes
  <1>5. (text \o <<x>>) \o <<y>> = text \o <<x, y>>
    <2> DEFINE l == (text \o <<x>>) \o <<y>>
               r == text \o <<x, y>>
               n == Len(text)
    <2>1. /\ l \in Seq(Token) /\ Len(l) = n + 2 /\ n \in Nat
          /\ \A i \in 1..(n + 2) :
                l[i] = IF i <= n THEN text[i] ELSE IF i = n + 1 THEN x ELSE y
      BY <1>4
    <2>2. /\ r \in Seq(Token) /\ Len(r) = n + 2
          /\ \A i \in 1..(n + 2) :
                r[i] = IF i <= n THEN text[i] ELSE IF i = n + 1 THEN x ELSE y
      BY <1>4
    <2> HIDE DEF l, r, n
    <2>3. Len(l) = Len(r) /\ \A i \in 1..Len(l) : l[i] = r[i]
      BY <2>1, <2>2
    <2>4. l = r
      BY <2>1, <2>2, <2>3, SeqEqual, Zenon
    <2> QED
      BY <2>4 DEF l, r
  <1> QED
    BY <1>3, <1>5

LEMMA AddQuoted ==
    ASSUME NEW text, NEW quoted, Between(text, quoted), NEW name \in Seq(Char),
           NEW q \in Delimiter
    PROVE  Says(text \o QuoteWith(name, q), Append(quoted, <<q, name>>))
PROOF
  <1>1. PICK s : Quotes(text, s, quoted) /\ s.within = "none"
    BY DEF Between
  <1>2. PICK rest \in Seq(Fragments) : Met(s, quoted, rest)
    BY <1>1 DEF Quotes
  <1>3. PICK t : /\ Takes(Read, s, QuoteWith(name, q), t)
                 /\ Met(t, Append(quoted, <<q, name>>), rest)
    BY <1>1, <1>2, QuotedMet
  <1>4. text \in Seq(Token) /\ Takes(Read, Unread, text, s)
    BY <1>1 DEF Quotes
  <1>5. QuoteWith(name, q) \in Seq(Token) /\ text \o QuoteWith(name, q) \in Seq(Token)
    <2>1. QuoteWith(name, q) \in Seq(Token)
      BY <1>1, <1>2, QuotedMet
    <2> QED
      BY <1>4, <2>1
  <1>6. Takes(Read, Unread, text \o QuoteWith(name, q), t)
    BY <1>3, <1>4, <1>5, TakesBoth
  <1> QED
    BY <1>2, <1>3, <1>5, <1>6 DEF Says, Quotes

\* What the database reads in a text that is built like this.
LEMMA ReadsWhatItSays ==
    ASSUME NEW text, NEW quoted, Between(text, quoted)
    PROVE  LET read == Reads(text)
           IN  /\ read.within = "none" /\ read.quoted = quoted
               /\ Range(read.rest) \cap Char = {}
PROOF
  <1>1. PICK s : Quotes(text, s, quoted) /\ s.within = "none"
    BY DEF Between
  <1>2. PICK rest \in Seq(Fragments) : Met(s, quoted, rest)
    BY <1>1 DEF Quotes
  <1>3. text \in Seq(Token) /\ Takes(Read, Unread, text, s)
    BY <1>1 DEF Quotes
  <1>4. Reads(text) = s
    BY <1>3, ReadsRuns, TakesOnce
  <1>5. s.quoted = quoted /\ s.rest = rest
    BY <1>1, <1>2 DEF Met
  <1>6. Range(rest) \subseteq Fragments
    <2> HIDE DEF Fragments
    <2> QED
      BY <1>2 DEF Range
  <1>7. Fragments \cap Char = {}
    BY ConstantsAssumption DEF ConstantsAssumption
  <1>8. Range(s.rest) \cap Char = {}
    BY <1>5, <1>6, <1>7
  <1> QED
    BY <1>1, <1>4, <1>5, <1>8

-----------------------------------------------------------------------------
(* The statements *)

LEMMA NamesAreTexts ==
    ASSUME NEW n \in Names \cup Paths
    PROVE  n \in Seq(Char)
PROOF
  BY ConstantsAssumption DEF ConstantsAssumption

LEMMA DelimitersAre == QI \in Delimiter /\ QL \in Delimiter
PROOF
  BY DEF Delimiter

LEMMA QuotedType ==
    ASSUME NEW name \in Seq(Char), NEW q \in Delimiter
    PROVE  QuoteWith(name, q) \in Seq(Token)
PROOF
  <1>1. Met(Unread, <<>>, <<>>) /\ Unread.within = "none"
    BY UnreadType DEF Met, Unread
  <1> QED
    BY <1>1, QuotedMet

LEMMA TwoParts == ASSUME NEW a, NEW b PROVE Append(Append(<<>>, a), b) = <<a, b>>
PROOF
  <1> DEFINE T == {a, b}
  <1>1. Append(<<>>, a) = <<a>> /\ <<a>> \in Seq(T) /\ <<a, b>> \in Seq(T) /\ b \in T
    OBVIOUS
  <1>2. /\ Append(<<a>>, b) \in Seq(T) /\ Len(Append(<<a>>, b)) = 2
        /\ Append(<<a>>, b)[1] = a /\ Append(<<a>>, b)[2] = b
    BY <1>1
  <1>3. Len(<<a, b>>) = 2 /\ <<a, b>>[1] = a /\ <<a, b>>[2] = b
    OBVIOUS
  <1>4. /\ Len(Append(<<a>>, b)) = Len(<<a, b>>)
        /\ \A i \in 1..Len(Append(<<a>>, b)) : Append(<<a>>, b)[i] = <<a, b>>[i]
    BY <1>2, <1>3
  <1>5. Append(<<a>>, b) = <<a, b>>
    BY <1>1, <1>2, <1>4, SeqEqual, Zenon
  <1> QED
    BY <1>1, <1>5

\* Every statement quotes what it is asked to, in its order, and nothing else is read as
\* a name.
LEMMA ImportSays ==
    ASSUME args.table \in Seq(Char), args.path \in Seq(Char), NEW reader \in Fragments
    PROVE  Between(Import(reader), <<<<QI, args.table>>, <<QL, args.path>>>>)
PROOF
  <1> DEFINE t1 == <<"CREATE TABLE ">>
             t2 == t1 \o Qident(args.table)
             t3 == t2 \o <<" AS SELECT * FROM ", reader>>
             t4 == t3 \o Qlit(args.path)
             t5 == t4 \o <<");">>
             q1 == Append(<<>>, <<QI, args.table>>)
             q2 == Append(q1, <<QL, args.path>>)
  <1>1. {"CREATE TABLE ", " AS SELECT * FROM ", ");"} \subseteq Fragments
    BY DEF Fragments
  <1>2. Import(reader) = t5
    BY DEF Import
  <1>3. q2 = <<<<QI, args.table>>, <<QL, args.path>>>>
    BY TwoParts
  <1> HIDE DEF Fragments, q2
  <1>4. Between(t1, <<>>)
    BY <1>1, StartFragment
  <1> HIDE DEF t1
  <1>5. Says(t2, q1)
    BY <1>4, DelimitersAre, AddQuoted DEF Qident
  <1> HIDE DEF t2, q1
  <1>6. Between(t3, q1)
    BY <1>1, <1>5, AddTwo
  <1> HIDE DEF t3
  <1>7. Says(t4, q2)
    BY <1>6, DelimitersAre, AddQuoted DEF Qlit, q2
  <1> HIDE DEF t4
  <1>8. Between(t5, q2)
    BY <1>1, <1>7, AddFragment
  <1> HIDE DEF t5
  <1> QED
    BY <1>2, <1>3, <1>8

LEMMA ExportSays ==
    ASSUME args.table \in Seq(Char), args.path \in Seq(Char), NEW options \in Fragments
    PROVE  Between(Export(options), <<<<QI, args.table>>, <<QL, args.path>>>>)
PROOF
  <1> DEFINE t1 == <<"COPY (SELECT * FROM ">>
             t2 == t1 \o Qident(args.table)
             t3 == t2 \o <<") TO ">>
             t4 == t3 \o Qlit(args.path)
             t5 == t4 \o <<options>>
             q1 == Append(<<>>, <<QI, args.table>>)
             q2 == Append(q1, <<QL, args.path>>)
  <1>1. {"COPY (SELECT * FROM ", ") TO "} \subseteq Fragments
    BY DEF Fragments
  <1>2. Export(options) = t5
    BY DEF Export
  <1>3. q2 = <<<<QI, args.table>>, <<QL, args.path>>>>
    BY TwoParts
  <1> HIDE DEF Fragments, q2
  <1>4. Between(t1, <<>>)
    BY <1>1, StartFragment
  <1> HIDE DEF t1
  <1>5. Says(t2, q1)
    BY <1>4, DelimitersAre, AddQuoted DEF Qident
  <1> HIDE DEF t2, q1
  <1>6. Between(t3, q1)
    BY <1>1, <1>5, AddFragment
  <1> HIDE DEF t3
  <1>7. Says(t4, q2)
    BY <1>6, DelimitersAre, AddQuoted DEF Qlit, q2
  <1> HIDE DEF t4
  <1>8. Between(t5, q2)
    BY <1>7, AddFragment
  <1> HIDE DEF t5
  <1> QED
    BY <1>2, <1>3, <1>8

LEMMA AttachSays ==
    ASSUME args.path \in Seq(Char), args.alias \in Seq(Char)
    PROVE  Between(Attach, <<<<QL, args.path>>, <<QI, args.alias>>>>)
PROOF
  <1> DEFINE t1 == <<"ATTACH ">>
             t2 == t1 \o Qlit(args.path)
             t3 == t2 \o <<" AS ">>
             t4 == t3 \o Qident(args.alias)
             t5 == t4 \o <<" (TYPE sqlite, READ_ONLY);">>
             q1 == Append(<<>>, <<QL, args.path>>)
             q2 == Append(q1, <<QI, args.alias>>)
  <1>1. {"ATTACH ", " AS ", " (TYPE sqlite, READ_ONLY);"} \subseteq Fragments
    BY DEF Fragments
  <1>2. Attach = t5
    BY DEF Attach
  <1>3. q2 = <<<<QL, args.path>>, <<QI, args.alias>>>>
    BY TwoParts
  <1> HIDE DEF Fragments, q2
  <1>4. Between(t1, <<>>)
    BY <1>1, StartFragment
  <1> HIDE DEF t1
  <1>5. Says(t2, q1)
    BY <1>4, DelimitersAre, AddQuoted DEF Qlit
  <1> HIDE DEF t2, q1
  <1>6. Between(t3, q1)
    BY <1>1, <1>5, AddFragment
  <1> HIDE DEF t3
  <1>7. Says(t4, q2)
    BY <1>6, DelimitersAre, AddQuoted DEF Qident, q2
  <1> HIDE DEF t4
  <1>8. Between(t5, q2)
    BY <1>1, <1>7, AddFragment
  <1> HIDE DEF t5
  <1> QED
    BY <1>2, <1>3, <1>8

\* A schema is quoted only when there is one.
LEMMA CopyTableSays ==
    ASSUME args.dst \in Seq(Char), args.src_schema \in Seq(Char), args.src \in Seq(Char)
    PROVE  Between(CopyTable, <<<<QI, args.dst>>>>
                \o (IF args.src_schema = <<>> THEN <<>> ELSE <<<<QI, args.src_schema>>>>)
                \o <<<<QI, args.src>>>>)
PROOF
  <1> DEFINE schema == IF args.src_schema = <<>> THEN <<>>
                       ELSE Qident(args.src_schema) \o <<"%s.">>
             named == IF args.src_schema = <<>> THEN <<>> ELSE <<<<QI, args.src_schema>>>>
             t1 == <<"CREATE TABLE ">>
             t2 == t1 \o Qident(args.dst)
             t3 == t2 \o <<" AS SELECT * FROM ">>
             t4 == t3 \o schema
             t5 == t4 \o Qident(args.src)
             t6 == t5 \o <<"%s;">>
             q1 == Append(<<>>, <<QI, args.dst>>)
             q2 == q1 \o named
             q3 == Append(q2, <<QI, args.src>>)
  <1>1. {"CREATE TABLE ", " AS SELECT * FROM ", "%s.", "%s;"} \subseteq Fragments
    BY DEF Fragments
  <1>2. CopyTable = t6
    BY DEF CopyTable
  <1> DEFINE T == Delimiter \X Seq(Char)
  <1>3. /\ q1 = <<<<QI, args.dst>>>> /\ q1 \in Seq(T) /\ named \in Seq(T)
        /\ <<QI, args.src>> \in T /\ (args.src_schema = <<>> => q2 = q1)
        /\ (args.src_schema # <<>> => q2 = Append(q1, <<QI, args.src_schema>>))
    <2>1. \A n \in Seq(Char) : <<QI, n>> \in T
      BY DelimitersAre
    <2> HIDE DEF T
    <2>2. q1 = <<<<QI, args.dst>>>> /\ q1 \in Seq(T) /\ named \in Seq(T)
      BY <2>1
    <2>3. args.src_schema = <<>> => q2 = q1
      BY <2>2
    <2>4. args.src_schema # <<>> => q2 = Append(q1, <<QI, args.src_schema>>)
      <3>1. \A e \in T : Append(q1, e) = q1 \o <<e>>
        <4> HIDE DEF q1
        <4> QED
          BY <2>2, AppendIsConcat
      <3> HIDE DEF q1
      <3> QED
        BY <2>1, <3>1
    <2> QED
      BY <2>1, <2>2, <2>3, <2>4
  <1>4. q3 = q2 \o <<<<QI, args.src>>>>
    <2>1. q2 \in Seq(T)
      <3> HIDE DEF q1, named, T
      <3> QED
        BY <1>3
    <2> HIDE DEF q2, T
    <2> QED
      BY <1>3, <2>1, AppendIsConcat
  <1> HIDE DEF Fragments, T, q3, q2
  <1>5. Between(t1, <<>>)
    BY <1>1, StartFragment
  <1> HIDE DEF t1
  <1>6. Says(t2, q1)
    BY <1>5, DelimitersAre, AddQuoted DEF Qident
  <1> HIDE DEF t2, q1
  <1>7. Between(t3, q1)
    BY <1>1, <1>6, AddFragment
  <1> HIDE DEF t3
  <1>8. Between(t4, q2)
    <2>1. CASE args.src_schema = <<>>
      <3>1. t3 \in Seq(Token)
        BY <1>7 DEF Between, Quotes
      <3>2. t4 = t3
        BY <2>1, <3>1
      <3> QED
        BY <1>3, <1>7, <2>1, <3>2
    <2>2. CASE args.src_schema # <<>>
      <3> DEFINE q == Qident(args.src_schema)
      <3>1. Says(t3 \o q, q2)
        BY <1>3, <1>7, <2>2, DelimitersAre, AddQuoted DEF Qident
      <3>2. Between((t3 \o q) \o <<"%s.">>, q2)
        BY <1>1, <3>1, AddFragment
      <3>3. t3 \in Seq(Token) /\ q \in Seq(Token) /\ <<"%s.">> \in Seq(Token)
        <4>1. t3 \in Seq(Token)
          BY <1>7 DEF Between, Quotes
        <4>2. q \in Seq(Token)
          BY DelimitersAre, QuotedType DEF Qident
        <4>3. "%s." \in Token
          BY <1>1 DEF Token
        <4> QED
          BY <4>1, <4>2, <4>3
      <3>4. t4 = t3 \o (q \o <<"%s.">>)
        BY <2>2
      <3>5. (t3 \o q) \o <<"%s.">> = t3 \o (q \o <<"%s.">>)
        <4> HIDE DEF q
        <4> QED
          BY <3>3, ConcatAssociative, Z3
      <3> HIDE DEF q, t4
      <3> QED
        BY <3>2, <3>4, <3>5
    <2> QED
      BY <2>1, <2>2
  <1> HIDE DEF t4
  <1>9. Says(t5, q3)
    BY <1>8, DelimitersAre, AddQuoted DEF Qident, q3
  <1> HIDE DEF t5
  <1>10. Between(t6, q3)
    BY <1>1, <1>9, AddFragment
  <1> HIDE DEF t6
  <1>11. q3 = <<<<QI, args.dst>>>> \o named \o <<<<QI, args.src>>>>
    BY <1>3, <1>4 DEF q2
  <1> QED
    BY <1>2, <1>10, <1>11

\* The statement of a request reads as what the request named.
LEMMA SqlSays ==
    ASSUME TypeOK, pc # "idle", method # "other"
    PROVE  Between(Sql, Named)
PROOF
  <1>1. args \in ArgsOf(method) /\ method \in Methods
    BY DEF TypeOK
  <1>2. CASE method \in {"import_csv", "import_parquet", "export_parquet", "export_csv"}
    <2>1. args.table \in Seq(Char) /\ args.path \in Seq(Char)
      BY <1>1, <1>2, NamesAreTexts DEF ArgsOf
    <2>2. Named = <<<<QI, args.table>>, <<QL, args.path>>>>
      BY <1>2 DEF Named, Exports
    <2>3. {"read_csv_auto(", "read_parquet(", " (FORMAT parquet);", " (HEADER, FORMAT csv);"}
             \subseteq Fragments
      BY DEF Fragments
    <2>4. \/ Sql = Import("read_csv_auto(") \/ Sql = Import("read_parquet(")
          \/ Sql = Export(" (FORMAT parquet);") \/ Sql = Export(" (HEADER, FORMAT csv);")
      BY <1>2 DEF Sql
    <2> QED
      BY <2>1, <2>2, <2>3, <2>4, ImportSays, ExportSays
  <1>3. CASE method = "attach_sqlite"
    <2>1. args.path \in Seq(Char) /\ args.alias \in Seq(Char)
      BY <1>1, <1>3, NamesAreTexts DEF ArgsOf
    <2>2. Sql = Attach /\ Named = <<<<QL, args.path>>, <<QI, args.alias>>>>
      BY <1>3 DEF Sql, Named, Exports
    <2> QED
      BY <2>1, <2>2, AttachSays
  <1>4. CASE method = "copy_table"
    <2>1. args.dst \in Seq(Char) /\ args.src \in Seq(Char) /\ args.src_schema \in Seq(Char)
      BY <1>1, <1>4, NamesAreTexts DEF ArgsOf
    <2>2. Sql = CopyTable
      BY <1>4 DEF Sql
    <2>3. Named = <<<<QI, args.dst>>>>
                \o (IF args.src_schema = <<>> THEN <<>> ELSE <<<<QI, args.src_schema>>>>)
                \o <<<<QI, args.src>>>>
      BY <1>4 DEF Named, Exports
    <2> QED
      BY <2>1, <2>2, <2>3, CopyTableSays
  <1> QED
    BY <1>1, <1>2, <1>3, <1>4 DEF Methods, Exports

\* An ok reply is the statement of the request.
SqlInv ==
    /\ pc \in {"mkdir", "build"} => method # "other"
    /\ reply.kind = "ok" => method # "other" /\ reply.sql = Sql

LEMMA SqlStep == ASSUME TypeOK, SqlInv, [Next]_vars PROVE SqlInv'
PROOF
  <1>1. reply.kind = "ok" => pc = "done"
    BY DEF TypeOK, NoReply
  <1>2. ASSUME UNCHANGED <<method, args>> PROVE Sql' = Sql
    BY <1>2 DEF Sql, Import, Export, Attach, CopyTable
  <1>3. CASE MkdirMade \/ MkdirExists
    BY <1>1, <1>3 DEF MkdirMade, MkdirExists, request, SqlInv
  <1>4. CASE MkdirNowhere \/ MkdirDenied \/ BuildRefused \/ BuildOom
    BY <1>4 DEF MkdirNowhere, MkdirDenied, BuildRefused, BuildOom, Reply, Error, SqlInv
  <1>5. CASE Build
    BY <1>2, <1>5 DEF Build, Reply, request, SqlInv
  <1>6. CASE \E m \in Methods : \E a \in ArgsOf(m) : Call(m, a)
    <2>1. PICK m \in Methods : \E a \in ArgsOf(m) : Call(m, a)
      BY <1>6
    <2>2. PICK a \in ArgsOf(m) : Call(m, a)
      BY <2>1
    <2>3. pc' \in {"mkdir", "build"} => method' # "other"
      BY <2>2 DEF Call, Reply, Exports
    <2>4. reply'.kind # "ok"
      BY <1>1, <2>2 DEF Call, Reply, Error
    <2> QED
      BY <2>3, <2>4 DEF SqlInv
  <1>7. CASE Return
    BY <1>7 DEF Return, NoReply, SqlInv
  <1>8. CASE UNCHANGED <<pc, request, reply>>
    BY <1>2, <1>8 DEF request, SqlInv
  <1>9. (\E node \in Nodes : OtherRemoves(node)) => UNCHANGED <<pc, request, reply>>
    BY DEF OtherRemoves
  <1>10. (\E node \in Nodes : \E kind \in {"dir", "file"} : OtherMakes(node, kind))
            => UNCHANGED <<pc, request, reply>>
    BY DEF OtherMakes
  <1>11. UNCHANGED vars => UNCHANGED <<pc, request, reply>>
    BY DEF vars, request
  <1> QED
    BY <1>3, <1>4, <1>5, <1>6, <1>7, <1>8, <1>9, <1>10, <1>11 DEF Next, Step

\* Whatever characters a name or a path has: the text of an ok reply quotes exactly what
\* the request named, and a database that reads the text reads nothing of it as SQL
\* (qident and qlit in convert.c).
THEOREM NamesDoSurvive == Spec => []NamesSurvive
PROOF
  <1>1. Init => SqlInv
    BY DEF Init, SqlInv, NoReply
  <1>2. TypeOK /\ SqlInv => NamesSurvive
    <2> SUFFICES ASSUME TypeOK, SqlInv, reply.kind = "ok"
                 PROVE  LET read == Reads(reply.sql)
                        IN  /\ read.within = "none" /\ read.quoted = Named
                            /\ Range(read.rest) \cap Char = {}
      BY DEF NamesSurvive
    <2>1. pc # "idle" /\ method # "other" /\ reply.sql = Sql
      BY DEF TypeOK, SqlInv, NoReply
    <2>2. Between(Sql, Named)
      BY <2>1, SqlSays
    <2>3. Between(reply.sql, Named)
      BY <2>1, <2>2
    <2> QED
      BY <2>3, ReadsWhatItSays
  <1> QED
    BY <1>1, <1>2, SqlStep, TypeCorrect, PTL DEF Spec
=============================================================================
