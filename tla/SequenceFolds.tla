--------------------------- MODULE SequenceFolds ----------------------------
(***************************************************************************)
(* What the proofs need to know of folds and recursive functions over      *)
(* sequences: that they exist, and that induction up to a length is sound. *)
(*                                                                         *)
(* The provers cannot apply a fact to an operator, so an induction         *)
(* hypothesis is a set of numbers here, and what is folded a function.     *)
(***************************************************************************)
EXTENDS SequencesExt, SequenceTheorems, WellFoundedInduction, TLAPS

\* A non-empty set of naturals has a least element.
LEMMA Least ==
    ASSUME NEW I \in SUBSET Nat, I # {}
    PROVE  \E k \in I : \A j \in I : k <= j
PROOF
  <1> DEFINE R == OpToRel(<, Nat)
  <1>1. PICK k \in I : \A j \in I : <<j, k>> \notin R
    <2>1. IsWellFoundedOn(R, Nat)
      BY NatLessThanWellFounded
    <2> HIDE DEF R
    <2> QED
      BY <2>1, WFMin, Zenon
  <1>2. ASSUME NEW j \in I PROVE k <= j
    <2>1. ~(j < k)
      BY <1>1 DEF OpToRel
    <2> QED
      BY <2>1
  <1> QED
    BY <1>2

\* A non-empty set of naturals that has a bound has a greatest element, which is its Max.
LEMMA Greatest ==
    ASSUME NEW n \in Nat, NEW I \in SUBSET (0..n), I # {}
    PROVE  Max(I) \in I /\ \A j \in I : j <= Max(I)
PROOF
  <1> DEFINE Gaps == {n - j : j \in I}
  <1>1. Gaps \in SUBSET Nat /\ Gaps # {}
    <2>1. \A j \in I : n - j \in Nat
      OBVIOUS
    <2>2. PICK j \in I : TRUE
      OBVIOUS
    <2>3. n - j \in Gaps
      OBVIOUS
    <2> QED
      BY <2>1, <2>3
  <1>2. PICK g \in Gaps : \A h \in Gaps : g <= h
    BY <1>1, Least
  <1>3. PICK k \in I : g = n - k
    OBVIOUS
  <1>4. ASSUME NEW j \in I PROVE k >= j
    <2>1. g <= n - j
      BY <1>2
    <2> QED
      BY <1>3, <2>1
  <1>5. \E x \in I : \A y \in I : x >= y
    BY <1>4
  <1>6. Max(I) \in I /\ \A y \in I : Max(I) >= y
    BY <1>5 DEF Max
  <1> QED
    BY <1>6

\* Of several numbers the greatest is the only one no other exceeds.
LEMMA MaxIs ==
    ASSUME NEW n \in Nat, NEW I \in SUBSET (0..n), NEW k \in I, \A j \in I : j <= k
    PROVE  Max(I) = k
PROOF
  <1>1. Max(I) \in I /\ \A j \in I : j <= Max(I)
    BY Greatest
  <1>2. Max(I) <= k /\ k <= Max(I)
    BY <1>1
  <1>3. Max(I) \in Nat /\ k \in Nat
    <2>1. \A j \in I : j \in Nat
      OBVIOUS
    <2> HIDE DEF Max
    <2> QED
      BY <1>1, <2>1
  <1> QED
    BY <1>2, <1>3

\* Induction up to n: a set that has 0, and with each number the next, has all up to n.
LEMMA Upward ==
    ASSUME NEW n \in Nat, NEW S, 0 \in S, \A k \in 1..n : k - 1 \in S => k \in S
    PROVE  \A k \in 0..n : k \in S
PROOF
  <1> DEFINE Bad == {k \in 0..n : k \notin S}
  <1>1. SUFFICES ASSUME Bad # {} PROVE FALSE
    OBVIOUS
  <1>2. PICK k \in Bad : \A j \in Bad : k <= j
    <2>1. Bad \in SUBSET Nat
      OBVIOUS
    <2> HIDE DEF Bad
    <2> QED
      BY <1>1, <2>1, Least
  <1>3. k \in 1..n /\ k - 1 \in 0..n
    OBVIOUS
  <1>4. k - 1 \in S
    <2>1. k - 1 \notin Bad
      <3>1. SUFFICES ASSUME k - 1 \in Bad PROVE FALSE
        OBVIOUS
      <3>2. k <= k - 1
        BY <1>2, <3>1
      <3> QED
        BY <1>3, <3>2
    <2> QED
      BY <1>3, <2>1
  <1> QED
    BY <1>3, <1>4

\* The fold of a function over the numbers in a set, the greatest last, as Folds has it.
Folded(it, F, base, n) ==
    \A s \in SUBSET (1..n) :
        it[s] = IF s = {} THEN base ELSE F[<<it[s \ {Max(s)}], Max(s)>>]

\* Such a fold exists, over every set of numbers up to n.
LEMMA FoldExists ==
    ASSUME NEW St, NEW base \in St, NEW n \in Nat, NEW F \in [St \X (1..n) -> St]
    PROVE  \E it \in [SUBSET (1..n) -> St] : Folded(it, F, base, n)
PROOF
  <1> DEFINE S == {m \in 0..n : \E it \in [SUBSET (1..m) -> St] : Folded(it, F, base, m)}
  <1>1. 0 \in S
    <2> DEFINE it == [s \in SUBSET (1..0) |-> base]
    <2>1. 1..0 = {} /\ SUBSET (1..0) = {{}}
      OBVIOUS
    <2>2. it \in [SUBSET (1..0) -> St] /\ Folded(it, F, base, 0)
      BY <2>1 DEF Folded
    <2> QED
      BY <2>2
  <1>2. ASSUME NEW m \in 1..n, m - 1 \in S PROVE m \in S
    <2>1. PICK it \in [SUBSET (1..(m - 1)) -> St] : Folded(it, F, base, m - 1)
      BY <1>2
    <2> DEFINE up == [s \in SUBSET (1..m) |-> IF m \in s THEN F[<<it[s \ {m}], m>>] ELSE it[s]]
    <2>2. ASSUME NEW s \in SUBSET (1..m)
          PROVE  s \ {m} \in SUBSET (1..(m - 1)) /\ (m \notin s => s \in SUBSET (1..(m - 1)))
      OBVIOUS
    <2>3. up \in [SUBSET (1..m) -> St]
      <3>1. ASSUME NEW s \in SUBSET (1..m) PROVE up[s] \in St
        <4>1. CASE m \in s
          <5>1. it[s \ {m}] \in St
            BY <2>2
          <5>2. <<it[s \ {m}], m>> \in St \X (1..n)
            BY <5>1
          <5>3. F[<<it[s \ {m}], m>>] \in St
            BY <5>2
          <5> QED
            BY <4>1, <5>3
        <4>2. CASE m \notin s
          BY <2>2, <4>2
        <4> QED
          BY <4>1, <4>2
      <3> QED
        BY <3>1
    <2>4. ASSUME NEW s \in SUBSET (1..m)
          PROVE  up[s] = IF s = {} THEN base ELSE F[<<up[s \ {Max(s)}], Max(s)>>]
      <3>1. CASE m \in s
        <4>1. s \in SUBSET (0..m) /\ m \in Nat /\ \A j \in s : j <= m
          BY <1>2
        <4>2. Max(s) = m
          BY <3>1, <4>1, MaxIs
        <4>3. up[s \ {m}] = it[s \ {m}]
          <5>1. s \ {m} \in SUBSET (1..m) /\ m \notin s \ {m}
            OBVIOUS
          <5> QED
            BY <5>1
        <4> QED
          BY <3>1, <4>2, <4>3
      <3>2. CASE s = {}
        <4>1. it[{}] = base /\ m \notin s
          BY <2>1, <3>2 DEF Folded
        <4> QED
          BY <3>2, <4>1
      <3>3. CASE m \notin s /\ s # {}
        <4>1. s \in SUBSET (1..(m - 1))
          BY <2>2, <3>3
        <4>2. it[s] = F[<<it[s \ {Max(s)}], Max(s)>>]
          BY <2>1, <3>3, <4>1 DEF Folded
        <4>3. up[s \ {Max(s)}] = it[s \ {Max(s)}]
          <5>1. s \ {Max(s)} \in SUBSET (1..m) /\ m \notin s \ {Max(s)}
            BY <3>3
          <5> HIDE DEF Max
          <5> QED
            BY <5>1
        <4> QED
          BY <3>3, <4>2, <4>3
      <3> QED
        BY <3>1, <3>2, <3>3
    <2> HIDE DEF up
    <2>5. Folded(up, F, base, m)
      BY <2>4 DEF Folded
    <2> QED
      BY <1>2, <2>3, <2>5
  <1> HIDE DEF S
  <1>3. n \in S
    BY <1>1, <1>2, Upward
  <1> QED
    BY <1>3 DEF S

\* Of 1..k the greatest is k.
LEMMA UpTo ==
    ASSUME NEW n \in Nat, NEW k \in 1..n
    PROVE  /\ Max(1..k) = k /\ (1..k) \ {k} = 1..(k - 1)
           /\ 1..k # {} /\ 1..k \in SUBSET (1..n)
PROOF
  <1>1. k \in 1..k /\ 1..k \in SUBSET (0..k) /\ k \in Nat /\ \A j \in 1..k : j <= k
    OBVIOUS
  <1>2. Max(1..k) = k
    BY <1>1, MaxIs
  <1> QED
    BY <1>1, <1>2

\* Followed through 1, 1..2, and so on, a fold takes one step after the other.
LEMMA FoldSteps ==
    ASSUME NEW n \in Nat, NEW it
    PROVE  \E g : /\ DOMAIN g = 0..n /\ \A k \in 0..n : g[k] = it[1..k]
                  /\ \A k \in 1..n : /\ Max(1..k) = k /\ (1..k) \ {k} = 1..(k - 1)
                                     /\ 1..k # {} /\ 1..k \in SUBSET (1..n)
PROOF
  <1>1. ASSUME NEW k \in 1..n
        PROVE  /\ Max(1..k) = k /\ (1..k) \ {k} = 1..(k - 1)
               /\ 1..k # {} /\ 1..k \in SUBSET (1..n)
    BY UpTo
  <1>2. DOMAIN [k \in 0..n |-> it[1..k]] = 0..n
        /\ \A k \in 0..n : [j \in 0..n |-> it[1..j]][k] = it[1..k]
    OBVIOUS
  <1> QED
    BY <1>1, <1>2


\* g runs through n steps of F, each from where the last one led.
Runs(g, F, base, n) == g[0] = base /\ \A k \in 1..n : g[k] = F[<<g[k - 1], k>>]

\* From any start there is such a run.
LEMMA FoldRuns ==
    ASSUME NEW St, NEW base \in St, NEW n \in Nat, NEW F \in [St \X (1..n) -> St]
    PROVE  \E g \in [0..n -> St] : Runs(g, F, base, n)
PROOF
  <1>1. PICK it \in [SUBSET (1..n) -> St] : Folded(it, F, base, n)
    BY FoldExists
  <1>2. ASSUME NEW k \in 1..n
        PROVE  /\ Max(1..k) = k /\ (1..k) \ {k} = 1..(k - 1)
               /\ 1..k # {} /\ 1..k \in SUBSET (1..n)
    BY UpTo
  <1> DEFINE h == [k \in 0..n |-> it[1..k]]
  <1>3. h \in [0..n -> St]
    <2>1. ASSUME NEW k \in 0..n PROVE 1..k \in SUBSET (1..n)
      OBVIOUS
    <2> QED
      BY <2>1
  <1>4. h[0] = base
    <2>1. 1..0 = {} /\ {} \in SUBSET (1..n) /\ 0 \in 0..n
      OBVIOUS
    <2> QED
      BY <1>1, <2>1 DEF Folded
  <1>5. ASSUME NEW k \in 1..n PROVE h[k] = F[<<h[k - 1], k>>]
    <2>1. /\ Max(1..k) = k /\ (1..k) \ {k} = 1..(k - 1)
          /\ 1..k # {} /\ 1..k \in SUBSET (1..n)
      BY <1>2
    <2>2. it[1..k] = F[<<it[(1..k) \ {Max(1..k)}], Max(1..k)>>]
      BY <1>1, <2>1 DEF Folded
    <2>3. k \in 0..n /\ k - 1 \in 0..n
      OBVIOUS
    <2> HIDE DEF Max
    <2> QED
      BY <2>1, <2>2, <2>3
  <1> QED
    BY <1>3, <1>4, <1>5 DEF Runs

\* A sequence of sequences is flattened one after the other.
LEMMA FlattenRuns ==
    ASSUME NEW T, NEW seqs \in Seq(Seq(T))
    PROVE  \E g \in [0..Len(seqs) -> Seq(T)] :
              /\ g[0] = <<>> /\ FlattenSeq(seqs) = g[Len(seqs)]
              /\ \A k \in 1..Len(seqs) : g[k] = g[k - 1] \o seqs[k]
PROOF
  <1> DEFINE n == Len(seqs)
             F == [x \in Seq(T) \X (1..n) |-> x[1] \o seqs[x[2]]]
             Flattens(f) == f = [i \in 1..n |-> IF i = 1 THEN seqs[i] ELSE f[i - 1] \o seqs[i]]
             flat == CHOOSE f : Flattens(f)
  <1>1. n \in Nat /\ (\A i \in 1..n : seqs[i] \in Seq(T)) /\ <<>> \in Seq(T)
    OBVIOUS
  <1>2. F \in [Seq(T) \X (1..n) -> Seq(T)]
    BY <1>1
  <1> HIDE DEF n
  <1>3. PICK g \in [0..n -> Seq(T)] :
               g[0] = <<>> /\ \A k \in 1..n : g[k] = F[<<g[k - 1], k>>]
    <2> DEFINE St == Seq(T)
    <2>1. n \in Nat /\ <<>> \in St /\ F \in [St \X (1..n) -> St]
      BY <1>1, <1>2
    <2> HIDE DEF F, St
    <2>2. \E g \in [0..n -> St] : Runs(g, F, <<>>, n)
      BY <2>1, FoldRuns
    <2> QED
      BY <2>2 DEF St, Runs
  <1>4. ASSUME NEW k \in 1..n PROVE g[k] = g[k - 1] \o seqs[k]
    <2>1. k - 1 \in 0..n
      BY <1>1
    <2>2. g[k - 1] \in Seq(T)
      BY <1>3, <2>1
    <2>3. F[<<g[k - 1], k>>] = g[k - 1] \o seqs[k]
      BY <2>2
    <2> QED
      BY <1>3, <2>3
  <1>5. ASSUME n # 0 PROVE FlattenSeq(seqs) = g[n]
    <2> DEFINE h == [i \in 1..n |-> g[i]]
    <2>1. Flattens(h)
      <3>1. ASSUME NEW i \in 1..n
            PROVE  h[i] = IF i = 1 THEN seqs[i] ELSE h[i - 1] \o seqs[i]
        <4>1. CASE i = 1
          <5>1. i - 1 = 0 /\ <<>> \o seqs[i] = seqs[i]
            BY <1>1, <4>1
          <5>2. g[i] = g[i - 1] \o seqs[i] /\ g[i - 1] = <<>>
            BY <1>3, <1>4, <5>1 DEF Runs
          <5>3. h[i] = seqs[i]
            BY <5>1, <5>2
          <5> QED
            BY <4>1, <5>3
        <4>2. CASE i # 1
          <5>1. i - 1 \in 1..n
            BY <1>1, <4>2
          <5> QED
            BY <1>4, <4>2, <5>1
        <4> QED
          BY <4>1, <4>2
      <3> QED
        BY <3>1
    <2>2. Flattens(flat)
      <3> HIDE DEF Flattens
      <3> QED
        BY <2>1
    <2>3. \A i \in 1..n : flat[i] = IF i = 1 THEN seqs[i] ELSE flat[i - 1] \o seqs[i]
      <3> HIDE DEF flat
      <3>1. ASSUME NEW f, Flattens(f), NEW i \in 1..n
            PROVE  f[i] = IF i = 1 THEN seqs[i] ELSE f[i - 1] \o seqs[i]
        <4> DEFINE e == [j \in 1..n |-> IF j = 1 THEN seqs[j] ELSE f[j - 1] \o seqs[j]]
        <4>1. f = e /\ e[i] = IF i = 1 THEN seqs[i] ELSE f[i - 1] \o seqs[i]
          BY <3>1
        <4> HIDE DEF e
        <4> QED
          BY <4>1
      <3> QED
        BY <2>2, <3>1
    <2>4. FlattenSeq(seqs) = flat[n]
      BY <1>5 DEF FlattenSeq, n
    <2> HIDE DEF flat, h, F
    <2> DEFINE S == {i \in 0..n : i # 0 => flat[i] = g[i]}
    <2>5. ASSUME NEW i \in 1..n, i - 1 \in S PROVE i \in S
      <3>1. CASE i = 1
        <4>1. i - 1 = 0 /\ <<>> \o seqs[i] = seqs[i]
          BY <1>1, <3>1
        <4>2. flat[i] = g[i]
          <5>1. g[i] = g[i - 1] \o seqs[i] /\ g[i - 1] = <<>>
            BY <1>3, <1>4, <4>1
          <5>2. g[i] = seqs[i]
            BY <4>1, <5>1
          <5> QED
            BY <2>3, <3>1, <5>2
        <4> QED
          BY <1>1, <4>2
      <3>2. CASE i # 1
        <4>1. i - 1 # 0
          BY <1>1, <3>2
        <4>2. flat[i] = g[i]
          BY <1>4, <2>3, <2>5, <3>2, <4>1
        <4> QED
          BY <1>1, <4>2
      <3> QED
        BY <3>1, <3>2
    <2>6. 0 \in S
      BY <1>1
    <2> HIDE DEF S
    <2>7. \A i \in 0..n : i \in S
      BY <1>1, <2>5, <2>6, Upward
    <2>8. n \in S
      BY <1>1, <2>7
    <2> QED
      BY <1>5, <2>4, <2>8 DEF S
  <1>6. ASSUME n = 0 PROVE FlattenSeq(seqs) = g[n]
    BY <1>3, <1>6 DEF FlattenSeq, n
  <1>7. FlattenSeq(seqs) = g[n]
    BY <1>5, <1>6
  <1> QED
    BY <1>3, <1>4, <1>7 DEF n


\* How a reader of elements in T may go from one state in St to the next.
Readers(St, T) == [St \X T -> St]

\* Reading text one element after the other, as F says, takes a reader from s to t.
Takes(F, s, text, t) ==
    \E g : /\ g[0] = s /\ g[Len(text)] = t
           /\ \A k \in 1..Len(text) : g[k] = F[<<g[k - 1], text[k]>>]

\* A text takes a reader to one place only.
LEMMA TakesOnce ==
    ASSUME NEW F, NEW T, NEW text \in Seq(T), NEW s, NEW t, NEW u,
           Takes(F, s, text, t), Takes(F, s, text, u)
    PROVE  t = u
PROOF
  <1> DEFINE n == Len(text)
  <1>1. PICK g : /\ g[0] = s /\ g[n] = t
                 /\ \A k \in 1..n : g[k] = F[<<g[k - 1], text[k]>>]
    BY DEF Takes
  <1>2. PICK h : /\ h[0] = s /\ h[n] = u
                 /\ \A k \in 1..n : h[k] = F[<<h[k - 1], text[k]>>]
    BY DEF Takes
  <1> DEFINE S == {k \in 0..n : g[k] = h[k]}
  <1>3. n \in Nat
    OBVIOUS
  <1> HIDE DEF n
  <1>4. 0 \in S /\ \A k \in 1..n : k - 1 \in S => k \in S
    <2>1. ASSUME NEW k \in 1..n, k - 1 \in S PROVE k \in S
      <3>1. g[k - 1] = h[k - 1] /\ k \in 0..n
        BY <1>3, <2>1
      <3>2. g[k] = h[k]
        BY <1>1, <1>2, <3>1
      <3> QED
        BY <3>1, <3>2
    <2>2. 0 \in S
      BY <1>1, <1>2, <1>3
    <2> QED
      BY <2>1, <2>2
  <1> HIDE DEF S
  <1>5. \A k \in 0..n : k \in S
    BY <1>3, <1>4, Upward
  <1>6. n \in S
    BY <1>3, <1>5
  <1> QED
    BY <1>1, <1>2, <1>6 DEF S

\* One text after the other.
LEMMA TakesBoth ==
    ASSUME NEW F, NEW T, NEW a \in Seq(T), NEW b \in Seq(T), NEW s, NEW t, NEW u,
           Takes(F, s, a, t), Takes(F, t, b, u)
    PROVE  Takes(F, s, a \o b, u)
PROOF
  <1> DEFINE m == Len(a)
             n == Len(b)
             ab == a \o b
  <1>1. PICK g : g[0] = s /\ g[m] = t /\ \A k \in 1..m : g[k] = F[<<g[k - 1], a[k]>>]
    BY DEF Takes
  <1>2. PICK h : h[0] = t /\ h[n] = u /\ \A k \in 1..n : h[k] = F[<<h[k - 1], b[k]>>]
    BY DEF Takes
  <1>3. /\ m \in Nat /\ n \in Nat /\ Len(ab) = m + n
        /\ (\A k \in 1..m : ab[k] = a[k]) /\ (\A k \in (m + 1)..(m + n) : ab[k] = b[k - m])
    OBVIOUS
  <1> HIDE DEF m, n, ab
  <1> DEFINE f == [k \in 0..(m + n) |-> IF k <= m THEN g[k] ELSE h[k - m]]
  <1>4. f[0] = s
    BY <1>1, <1>3
  <1>5. f[m + n] = u
    <2>1. CASE n = 0
      BY <1>1, <1>2, <1>3, <2>1
    <2>2. CASE n # 0
      <3>1. ~(m + n <= m) /\ (m + n) - m = n /\ m + n \in 0..(m + n)
        BY <1>3, <2>2
      <3> QED
        BY <1>2, <3>1
    <2> QED
      BY <2>1, <2>2
  <1>6. ASSUME NEW k \in 1..(m + n) PROVE f[k] = F[<<f[k - 1], ab[k]>>]
    <2>1. k \in 0..(m + n) /\ k - 1 \in 0..(m + n) /\ k \in Nat /\ m \in Nat
      BY <1>3
    <2>2. CASE k <= m
      <3>1. k \in 1..m /\ k - 1 <= m
        BY <1>3, <2>1, <2>2
      <3>2. f[k] = g[k] /\ f[k - 1] = g[k - 1] /\ ab[k] = a[k]
        BY <1>3, <2>1, <2>2, <3>1
      <3> QED
        BY <1>1, <3>1, <3>2
    <2>3. CASE ~(k <= m)
      <3>1. /\ k - m \in 1..n /\ (k - m) - 1 = (k - 1) - m
            /\ f[k] = h[k - m] /\ ab[k] = b[k - m]
        <4>1. /\ k - m \in 1..n /\ (k - m) - 1 = (k - 1) - m
              /\ k \in (m + 1)..(m + n)
          <5> HIDE DEF f
          <5> QED BY <1>3, <2>1, <2>3
        <4>2. f[k] = h[k - m]
          BY <2>1, <2>3
        <4>3. ab[k] = b[k - m]
          <5> HIDE DEF f
          <5> QED BY <1>3, <4>1
        <4> HIDE DEF f
        <4> QED BY <4>1, <4>2, <4>3
      <3>2. f[k - 1] = h[(k - m) - 1]
        <4>1. CASE k - 1 = m
          <5>1. k - 1 <= m /\ (k - m) - 1 = 0
            BY <2>1, <4>1
          <5>2. f[k - 1] = g[m]
            BY <2>1, <4>1, <5>1
          <5> QED
            BY <1>1, <1>2, <5>1, <5>2
        <4>2. CASE k - 1 # m
          BY <1>3, <2>1, <2>3, <3>1, <4>2
        <4> QED
          BY <4>1, <4>2
      <3> QED
        BY <1>2, <3>1, <3>2
    <2> QED
      BY <2>2, <2>3
  <1> HIDE DEF f
  <1>7. /\ f[0] = s /\ f[Len(ab)] = u
        /\ \A k \in 1..Len(ab) : f[k] = F[<<f[k - 1], ab[k]>>]
    BY <1>3, <1>4, <1>5, <1>6
  <1>8. Takes(F, s, ab, u)
    BY <1>7 DEF Takes
  <1> QED
    BY <1>8 DEF ab

LEMMA TakesOne ==
    ASSUME NEW F, NEW s, NEW x
    PROVE  Takes(F, s, <<x>>, F[<<s, x>>])
PROOF
  <1> DEFINE g == [k \in 0..1 |-> IF k = 0 THEN s ELSE F[<<s, x>>]]
  <1>1. /\ g[0] = s /\ g[1] = F[<<s, x>>] /\ Len(<<x>>) = 1 /\ <<x>>[1] = x
        /\ \A k \in 1..1 : k = 1 /\ k - 1 = 0
    OBVIOUS
  <1> HIDE DEF g
  <1> QED
    BY <1>1 DEF Takes

LEMMA TakesNone == ASSUME NEW F, NEW s PROVE Takes(F, s, <<>>, s)
PROOF
  <1> DEFINE g == [k \in 0..0 |-> s]
  <1>1. g[0] = s /\ Len(<<>>) = 0 /\ 1..0 = {}
    OBVIOUS
  <1> HIDE DEF g
  <1> QED
    BY <1>1 DEF Takes

\* The fold of F over the elements of a text, as Folds has it: by the places folded.  It
\* stays within the states and elements that F is defined for.
FoldedOver(it, St, T, F, base, text) ==
    /\ it \in [SUBSET (1..Len(text)) -> St] /\ it[{}] = base
    /\ \A s \in SUBSET (1..Len(text)) : s # {} =>
          /\ it[s] = F[<<it[s \ {Max(s)}], text[Max(s)]>>]
          /\ it[s \ {Max(s)}] \in St /\ text[Max(s)] \in T

LEMMA TextFoldExists ==
    ASSUME NEW St, NEW T, NEW base \in St, NEW text \in Seq(T), NEW F \in Readers(St, T)
    PROVE  \E it : FoldedOver(it, St, T, F, base, text)
PROOF
  <1> DEFINE n == Len(text)
             E == [x \in St \X (1..n) |-> F[<<x[1], text[x[2]]>>]]
  <1>1. n \in Nat /\ \A i \in 1..n : text[i] \in T
    OBVIOUS
  <1>2. E \in [St \X (1..n) -> St]
    <2>1. ASSUME NEW s \in St, NEW i \in 1..n PROVE F[<<s, text[i]>>] \in St
      <3>1. <<s, text[i]>> \in St \X T
        BY <1>1
      <3> QED
        BY <3>1 DEF Readers
    <2> QED
      BY <2>1
  <1> HIDE DEF n
  <1>3. PICK it \in [SUBSET (1..n) -> St] : Folded(it, E, base, n)
    <2> HIDE DEF E
    <2> QED
      BY <1>1, <1>2, FoldExists
  <1>4. ASSUME NEW s \in SUBSET (1..n), s # {}
        PROVE  /\ it[s] = F[<<it[s \ {Max(s)}], text[Max(s)]>>]
               /\ it[s \ {Max(s)}] \in St /\ text[Max(s)] \in T
    <2>1. Max(s) \in s
      <3>1. s \in SUBSET (0..n)
        BY <1>1
      <3> QED
        BY <1>1, <1>4, <3>1, Greatest
    <2>2. s \ {Max(s)} \in SUBSET (1..n) /\ Max(s) \in 1..n
      BY <2>1
    <2>3. it[s \ {Max(s)}] \in St
      BY <1>3, <2>2
    <2>4. E[<<it[s \ {Max(s)}], Max(s)>>] = F[<<it[s \ {Max(s)}], text[Max(s)]>>]
      BY <2>2, <2>3
    <2>5. it[s] = E[<<it[s \ {Max(s)}], Max(s)>>]
      BY <1>3, <1>4 DEF Folded
    <2> QED
      BY <1>1, <2>2, <2>3, <2>4, <2>5
  <1>5. it[{}] = base
    BY <1>3 DEF Folded
  <1> HIDE DEF E
  <1>6. FoldedOver(it, St, T, F, base, text)
    BY <1>3, <1>4, <1>5 DEF FoldedOver, n
  <1> QED
    BY <1>6

\* A fold, however it goes on where F is not defined, takes a reader through the text.
LEMMA FoldTakes ==
    ASSUME NEW St, NEW T, NEW base \in St, NEW text \in Seq(T), NEW F \in Readers(St, T),
           NEW it, it[{}] = base,
           \A s \in SUBSET (1..Len(text)) : s # {} /\ it[s \ {Max(s)}] \in St =>
               it[s] = F[<<it[s \ {Max(s)}], text[Max(s)]>>]
    PROVE  Takes(F, base, text, it[1..Len(text)]) /\ it[1..Len(text)] \in St
PROOF
  <1> DEFINE n == Len(text)
             g == [k \in 0..n |-> it[1..k]]
             S == {k \in 0..n : g[k] \in St}
  <1>1. n \in Nat /\ (\A i \in 1..n : text[i] \in T) /\ n \in 0..n /\ 0 \in 0..n
    OBVIOUS
  <1> HIDE DEF n
  <1>2. g[0] = base /\ g[n] = it[1..n]
    <2>1. 1..0 = {}
      OBVIOUS
    <2> QED
      BY <1>1, <2>1
  <1>3. ASSUME NEW k \in 1..n, g[k - 1] \in St
        PROVE  g[k] = F[<<g[k - 1], text[k]>>] /\ g[k] \in St
    <2>1. /\ Max(1..k) = k /\ (1..k) \ {k} = 1..(k - 1)
          /\ 1..k # {} /\ 1..k \in SUBSET (1..n)
      BY <1>1, UpTo
    <2>2. k \in 0..n /\ k - 1 \in 0..n /\ text[k] \in T
      BY <1>1
    <2>3. g[k] = it[1..k] /\ g[k - 1] = it[1..(k - 1)]
      BY <2>2
    <2> HIDE DEF g
    <2>4. (1..k) \ {Max(1..k)} = 1..(k - 1)
      BY <2>1
    <2>5. it[1..k] = F[<<it[(1..k) \ {Max(1..k)}], text[Max(1..k)]>>]
      BY <1>3, <2>1, <2>3, <2>4 DEF n
    <2>6. g[k] = F[<<g[k - 1], text[k]>>]
      BY <2>1, <2>3, <2>4, <2>5
    <2>7. <<g[k - 1], text[k]>> \in St \X T
      BY <1>3, <2>2
    <2> QED
      BY <2>6, <2>7 DEF Readers
  <1>4. 0 \in S
    BY <1>1, <1>2
  <1>5. ASSUME NEW k \in 1..n, k - 1 \in S PROVE k \in S
    <2>1. g[k - 1] \in St /\ k \in 0..n
      BY <1>1, <1>5
    <2>2. g[k] \in St
      BY <1>3, <2>1
    <2> QED
      BY <2>1, <2>2
  <1> HIDE DEF S
  <1>6. \A k \in 0..n : k \in S
    BY <1>1, <1>4, <1>5, Upward
  <1>7. ASSUME NEW k \in 0..n PROVE g[k] \in St
    BY <1>6 DEF S
  <1>8. ASSUME NEW k \in 1..n PROVE g[k] = F[<<g[k - 1], text[k]>>]
    <2>1. k - 1 \in 0..n
      BY <1>1
    <2> QED
      BY <1>3, <1>7, <2>1
  <1>9. it[1..n] \in St
    BY <1>1, <1>2, <1>7
  <1> HIDE DEF g
  <1> QED
    BY <1>2, <1>8, <1>9 DEF Takes, n
=============================================================================
