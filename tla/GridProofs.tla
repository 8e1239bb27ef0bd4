------------------------------ MODULE GridProofs ------------------------------
(***************************************************************************)
(* Proofs, for every result, every number of rows and every way to read    *)
(* numbers and to compare texts, that the rows shown are those of the      *)
(* result and are in the order asked for; and, for every text a cell may   *)
(* hold, that a reader of CSV or TSV gets the table back that was saved or *)
(* copied.                                                                 *)
(*                                                                         *)
(* A reader goes through a text one character after the other.  Takes      *)
(* (SequenceFolds) says where it ends up, and goes together with \o: so a  *)
(* cell is followed, then a row cell by cell, then a table row by row.     *)
(***************************************************************************)
EXTENDS Grid, SequenceFolds

Sorts == [col : Nat, dir : {"asc", "desc", "none"}]

\* The inductive invariant: what is shown is the result as the last click on a column
\* has it sorted, and the column is one of the result's.
IInv ==
    /\ result \in Results \cup {NoResult}
    /\ sort \in Sorts /\ (sort # NoSort => sort.dir # "none" /\ sort.col # 0)
    /\ sort.col \in 0..Len(result.names) \/ result = NoResult
    /\ order \in Orders(result, sort)

-----------------------------------------------------------------------------
(* Results *)

\* A result is a table; no result is one of no rows and no columns.
LEMMA ResultShape ==
    ASSUME NEW r \in Results \cup {NoResult}
    PROVE  /\ r.names \in Seq(Texts) /\ DOMAIN r.names = 1..Len(r.names)
           /\ Len(r.names) \in Nat /\ Len(r.rows) \in Nat
           /\ r.rows \in Seq([DOMAIN r.names -> Texts \cup {Null}])
PROOF
  <1>1. CASE r \in Results
    <2> DEFINE Rows == [DOMAIN r.names -> Texts \cup {Null}]
    <2>1. r.names \in Seq(Texts) /\ r.rows \in Seq(Rows)
      BY <1>1, ConstantsAssumption
    <2> HIDE DEF Rows
    <2>2. Len(r.rows) \in Nat
      BY <2>1
    <2> USE DEF Rows
    <2> QED
      BY <2>1, <2>2
  <1>2. CASE r = NoResult
    BY <1>2 DEF NoResult
  <1> QED
    BY <1>1, <1>2

\* Unsorted, the rows are shown as they came.
LEMMA Unsorted ==
    ASSUME NEW n \in Nat
    PROVE  [i \in 1..n |-> i] \in Orderings(n)
PROOF BY DEF Orderings

\* Sorted by a column that is there, each row is shown once.
LEMMA OrdersPermute ==
    ASSUME NEW r \in Results \cup {NoResult}, NEW s \in Sorts, NEW p \in Orders(r, s),
           s = NoSort \/ s.col \in DOMAIN r.names \/ r = NoResult
    PROVE  p \in Orderings(Len(r.rows))
PROOF
  <1>1. Len(r.rows) \in Nat
    BY ResultShape
  <1>2. CASE s = NoSort
    BY <1>1, <1>2, Unsorted DEF Orders
  <1>3. CASE s # NoSort /\ s.col \in DOMAIN r.names
    BY <1>3 DEF Orders
  <1>4. CASE s # NoSort /\ s.col \notin DOMAIN r.names /\ r = NoResult
    <2>1. p = << >> /\ Len(r.rows) = 0
      BY <1>4 DEF Orders, NoResult
    <2>2. << >> \in [1..0 -> 1..0]
      OBVIOUS
    <2> QED
      BY <2>1, <2>2 DEF Orderings
  <1> QED
    BY <1>2, <1>3, <1>4

-----------------------------------------------------------------------------
(* The invariant *)

LEMMA InitHolds == Init => IInv
PROOF
  <1> SUFFICES ASSUME Init PROVE IInv
    OBVIOUS
  <1>1. << >> = [i \in 1..0 |-> i]
    OBVIOUS
  <1>2. order \in Orders(result, sort)
    BY <1>1 DEF Init, Orders, NoResult
  <1>3. NoSort \in Sorts
    BY DEF NoSort, Sorts
  <1> QED
    BY <1>2, <1>3 DEF Init, IInv

LEMMA NextHolds == IInv /\ [Next]_vars => IInv'
PROOF
  <1> SUFFICES ASSUME IInv, [Next]_vars PROVE IInv'
    OBVIOUS
  <1>1. CASE \E r \in Results : QueryReturns(r)
    <2>1. PICK r \in Results : QueryReturns(r)
      BY <1>1
    <2>2. result' = r /\ sort' = NoSort /\ order' \in Orders(r, NoSort)
      BY <2>1 DEF QueryReturns, ShowResult, Shows
    <2>3. NoSort \in Sorts /\ NoSort.col = 0 /\ Len(r.names) \in Nat
      BY ResultShape DEF NoSort, Sorts
    <2>4. order' \in Orders(result, sort)'
      BY <2>2 DEF Orders
    <2>5. sort'.col \in 0..Len(result'.names)
      BY <2>2, <2>3
    <2> QED
      BY <2>2, <2>3, <2>4, <2>5 DEF IInv
  <1>2. CASE ResultGone
    <2>1. result' = NoResult /\ sort' = sort /\ order' \in Orders(NoResult, sort)
      BY <1>2 DEF ResultGone, Shows
    <2>2. order' \in Orders(result, sort)'
      BY <2>1 DEF Orders
    <2> QED
      BY <2>1, <2>2 DEF IInv
  <1>3. CASE \E col \in DOMAIN result.names : ToggleSort(col)
    <2>1. PICK col \in DOMAIN result.names : ToggleSort(col)
      BY <1>3
    <2>2. col \in 1..Len(result.names) /\ Len(result.names) \in Nat
      BY <2>1, ResultShape DEF IInv
    <2>3. PICK s \in {[col |-> col, dir |-> "asc"], [col |-> col, dir |-> "desc"], NoSort} :
                      sort' = s /\ result' = result /\ order' \in Orders(result, s)
      BY <2>1 DEF ToggleSort, Shows
    <2>4. /\ s \in Sorts /\ s.col \in 0..Len(result.names)
          /\ s # NoSort => s.dir # "none" /\ s.col # 0
      BY <2>2, <2>3 DEF NoSort, Sorts
    <2>5. order' \in Orders(result, sort)'
      BY <2>3 DEF Orders
    <2>6. result' \in Results \cup {NoResult}
      BY <2>3 DEF IInv
    <2> QED
      BY <2>3, <2>4, <2>5, <2>6 DEF IInv
  <1>4. ASSUME UNCHANGED <<result, sort, order>> PROVE IInv'
    <2>1. Orders(result, sort)' = Orders(result, sort)
      BY <1>4 DEF Orders
    <2> QED
      BY <1>4, <2>1 DEF IInv
  <1>5. CASE ClickCopy \/ Copied \/ ClickExport
    BY <1>4, <1>5 DEF ClickCopy, Copied, ClickExport
  <1>6. CASE WriteFile
    BY <1>4, <1>6 DEF WriteFile
  <1>7. CASE \E chosen \in BOOLEAN : Pick(chosen)
    BY <1>4, <1>7 DEF Pick
  <1>8. CASE UNCHANGED vars
    BY <1>4, <1>8 DEF vars
  <1> QED
    BY <1>1, <1>2, <1>3, <1>5, <1>6, <1>7, <1>8 DEF Next

LEMMA Invariant == Spec => []IInv
PROOF BY InitHolds, NextHolds, PTL DEF Spec

\* While there is a result its rows are shown once each, sorted by a column of it or by
\* none (setSort(null) with each new result).
THEOREM RowsAreShown == Spec => []RowsShown
PROOF
  <1>1. IInv => RowsShown
    <2> SUFFICES ASSUME IInv PROVE RowsShown
      OBVIOUS
    <2>1. sort = NoSort \/ sort.col \in DOMAIN result.names \/ result = NoResult
      BY ResultShape DEF IInv, NoSort, Sorts
    <2> QED
      BY <2>1, OrdersPermute DEF IInv, RowsShown
  <1> QED
    BY <1>1, Invariant, PTL

-----------------------------------------------------------------------------
(* The order *)

Key(numeric) == IF numeric THEN Number ELSE Collation
Lower(x, y, key, dir) == IF dir = "asc" THEN key[x] < key[y] ELSE key[y] < key[x]

\* Where all cells but the NULLs are numbers, or none is, the comparator has one key.
LEMMA OneKey ==
    ASSUME NEW values \in SUBSET (Texts \cup {Null}), NEW numeric \in BOOLEAN,
           \A x \in values \ {Null} : Numeric(x) <=> numeric,
           NEW x \in values, NEW y \in values, NEW dir
    PROVE  /\ Precedes(x, y, dir) <=> \/ x # Null /\ y = Null
                                      \/ /\ x # Null /\ y # Null
                                         /\ Lower(x, y, Key(numeric), dir)
           /\ x # Null => Key(numeric)[x] \in Int
PROOF
  <1>1. x # Null => x \in Texts
    OBVIOUS
  <1>2. x # Null => Key(numeric)[x] \in Int
    BY <1>1, ConstantsAssumption DEF Key, Numeric
  <1> QED
    BY <1>2 DEF Precedes, Lower, Key

\* Then it is one to sort by.
LEMMA OneKeyConsistent ==
    ASSUME NEW values \in SUBSET (Texts \cup {Null}), NEW numeric \in BOOLEAN,
           \A x \in values \ {Null} : Numeric(x) <=> numeric,
           NEW dir
    PROVE  Consistent(values, dir)
PROOF
  <1> SUFFICES ASSUME NEW x \in values, NEW y \in values, NEW z \in values,
                      Precedes(x, z, dir)
               PROVE  Precedes(x, y, dir) \/ Precedes(y, z, dir)
    BY DEF Consistent
  <1> DEFINE key == Key(numeric)
  <1>1. /\ Precedes(x, z, dir) <=> x # Null /\ (z = Null \/ Lower(x, z, key, dir))
        /\ Precedes(x, y, dir) <=> x # Null /\ (y = Null \/ Lower(x, y, key, dir))
        /\ Precedes(y, z, dir) <=> y # Null /\ (z = Null \/ Lower(y, z, key, dir))
        /\ x # Null => key[x] \in Int
        /\ y # Null => key[y] \in Int
        /\ z # Null => key[z] \in Int
    BY OneKey
  <1> HIDE DEF key
  <1> QED
    BY <1>1 DEF Lower

\* A column of numbers, or of texts that are none, is shown in order whichever way it is
\* sorted, NULLs last (the comparator of sortedRows).
THEOREM SortsInOrder == Spec => []Sorted
PROOF
  <1>1. IInv => Sorted
    <2> SUFFICES ASSUME IInv PROVE Sorted
      OBVIOUS
    <2> DEFINE n == Len(result.rows)
               at(i) == result.rows[i][sort.col]
               cell == [i \in DOMAIN order |-> at(order[i])]
               values == {row[sort.col] : row \in Range(result.rows)} \ {Null}
               numbers == {x \in values : Number[x] # NaN /\ x # << >>}
               key == IF numbers = values THEN Number ELSE Collation
               lower(i, j) == IF sort.dir = "asc" THEN key[cell[i]] < key[cell[j]]
                                                  ELSE key[cell[j]] < key[cell[i]]
    <2> SUFFICES ASSUME sort # NoSort, numbers \in {{}, values},
                        NEW i \in DOMAIN order, NEW j \in DOMAIN order, i < j
                 PROVE  \/ cell[j] = Null /\ (cell[i] = Null => order[i] < order[j])
                        \/ Null \notin {cell[i], cell[j]} /\ lower(i, j)
                        \/ Null \notin {cell[i], cell[j]} /\ key[cell[i]] = key[cell[j]]
                           /\ order[i] < order[j]
      BY DEF Sorted
    <2>1. sort.col \in DOMAIN result.names /\ n \in Nat
      <3>1. CASE sort.col \in DOMAIN result.names
        BY <3>1, ResultShape DEF IInv
      <3>2. CASE sort.col \notin DOMAIN result.names
        <4>1. order = << >>
          BY <3>2 DEF IInv, Orders
        <4> QED
          BY <4>1
      <3> QED
        BY <3>1, <3>2
    <2>2. order \in Orderings(n) /\ DOMAIN order = 1..n
      BY <2>1, OrdersPermute DEF IInv, Orderings
    <2>3. /\ order[i] \in 1..n /\ order[j] \in 1..n /\ order[i] # order[j]
          /\ i \in 1..n /\ j \in 1..n
          /\ cell[i] = at(order[i]) /\ cell[j] = at(order[j])
      BY <2>2 DEF Orderings
    <2>4. \A k \in 1..n : at(k) \in Texts \cup {Null} /\ at(k) \in values \cup {Null}
      <3>1. DOMAIN result.rows = 1..n
            /\ \A k \in 1..n : result.rows[k] \in [DOMAIN result.names -> Texts \cup {Null}]
        <4> DEFINE Rows == [DOMAIN result.names -> Texts \cup {Null}]
        <4>1. result.rows \in Seq(Rows)
          BY ResultShape DEF IInv
        <4> HIDE DEF Rows
        <4>2. DOMAIN result.rows = 1..n /\ \A k \in 1..n : result.rows[k] \in Rows
          BY <4>1
        <4> QED
          BY <4>2 DEF Rows
      <3> QED
        BY <2>1, <3>1 DEF Range
    <2> DEFINE cells == {at(k) : k \in 1..n}
               numeric == numbers = values
    <2>5. cells \in SUBSET (Texts \cup {Null})
      BY <2>4
    <2>6. \A x \in cells \ {Null} : Numeric(x) <=> numeric
      <3>1. \A x \in cells \ {Null} : x \in values
        BY <2>4
      <3> QED
        BY <3>1 DEF Numeric
    <2>7. Consistent(cells, sort.dir)
      BY <2>5, <2>6, OneKeyConsistent
    <2>8. \/ Precedes(cell[i], cell[j], sort.dir)
          \/ ~Precedes(cell[j], cell[i], sort.dir) /\ order[i] < order[j]
      <3> DEFINE column == [k \in 1..n |-> result.rows[k][sort.col]]
      <3>1. {column[k] : k \in 1..n} = cells
        OBVIOUS
      <3>2. \A k, l \in 1..n : k < l =>
               \/ Precedes(column[order[k]], column[order[l]], sort.dir)
               \/ /\ ~Precedes(column[order[l]], column[order[k]], sort.dir)
                  /\ order[k] < order[l]
        BY <2>1, <2>7, <3>1 DEF IInv, Orders
      <3> QED
        BY <2>3, <3>2
    <2>9. /\ cell[i] \in cells /\ cell[j] \in cells /\ numeric \in BOOLEAN
          /\ key = Key(numeric)
      BY <2>3 DEF Key
    <2>10. /\ Precedes(cell[i], cell[j], sort.dir)
                 <=> cell[i] # Null /\ (cell[j] = Null \/ lower(i, j))
           /\ Precedes(cell[j], cell[i], sort.dir)
                 <=> cell[j] # Null /\ (cell[i] = Null \/ lower(j, i))
           /\ cell[i] # Null => key[cell[i]] \in Int
           /\ cell[j] # Null => key[cell[j]] \in Int
      <3> HIDE DEF cell, cells, numeric, key
      <3>1. \A x, y \in cells :
               /\ Precedes(x, y, sort.dir) <=> \/ x # Null /\ y = Null
                                               \/ /\ x # Null /\ y # Null
                                                  /\ Lower(x, y, Key(numeric), sort.dir)
               /\ x # Null => Key(numeric)[x] \in Int
        BY <2>5, <2>6, <2>9, OneKey, ZenonT(60)
      <3> QED
        BY <2>9, <3>1 DEF Lower
    <2> HIDE DEF cell, key
    <2> QED
      BY <2>3, <2>8, <2>10
  <1> QED
    BY <1>1, Invariant, PTL

-----------------------------------------------------------------------------
(* Joined and split *)

\* A character that a text does not have.
Without(text, d) == text \in Seq(Char) /\ \A k \in 1..Len(text) : text[k] # d

\* Splitting at d, one character after the other, as a function.
Parted == {parts \in Seq(Seq(Char)) : parts # << >>}
Splits(d) ==
    [x \in Parted \X Char |-> IF x[2] = d THEN Append(x[1], << >>)
                              ELSE Append(Front(x[1]), Append(Last(x[1]), x[2]))]

LEMMA OneMore ==
    ASSUME NEW done \in Seq(Seq(Char)), NEW part \in Seq(Char)
    PROVE  /\ Append(done, part) \in Parted
           /\ Front(Append(done, part)) = done /\ Last(Append(done, part)) = part
PROOF
  <1> DEFINE parts == Append(done, part)
             n == Len(done)
  <1>1. /\ parts \in Seq(Seq(Char)) /\ Len(parts) = n + 1 /\ n \in Nat
        /\ parts[n + 1] = part /\ \A i \in 1..n : parts[i] = done[i]
    OBVIOUS
  <1>2. Front(parts) = SubSeq(parts, 1, n) /\ Last(parts) = part
    BY <1>1 DEF Front, Last
  <1>3. SubSeq(parts, 1, n) = done
    <2> DEFINE l == SubSeq(parts, 1, n)
    <2>1. l \in Seq(Seq(Char)) /\ Len(l) = n /\ \A i \in 1..n : l[i] = done[i]
      <3> HIDE DEF parts, n
      <3> QED
        BY <1>1
    <2> HIDE DEF l
    <2>2. Len(l) = Len(done) /\ \A i \in 1..Len(l) : l[i] = done[i]
      BY <2>1
    <2> QED
      BY <2>1, <2>2, SeqEqual, Zenon DEF l
  <1> HIDE DEF parts
  <1>4. parts # << >>
    BY <1>1
  <1> QED
    BY <1>1, <1>2, <1>3, <1>4 DEF Parted, parts

LEMMA PartedEnds ==
    ASSUME NEW s \in Parted
    PROVE  Front(s) \in Seq(Seq(Char)) /\ Last(s) \in Seq(Char) /\ s \in Seq(Seq(Char))
PROOF
  <1> DEFINE T == Seq(Char)
  <1>1. s \in Seq(T) /\ s # << >>
    BY DEF Parted
  <1> HIDE DEF T
  <1>2. Len(s) \in Nat /\ Len(s) # 0
    BY <1>1
  <1>3. SubSeq(s, 1, Len(s) - 1) \in Seq(T) /\ s[Len(s)] \in T
    BY <1>1, <1>2
  <1>4. Front(s) \in Seq(T) /\ Last(s) \in T /\ s \in Seq(T)
    BY <1>1, <1>3 DEF Front, Last
  <1> QED
    BY <1>4 DEF T

LEMMA SplitsIs ==
    ASSUME NEW d \in Char
    PROVE  /\ Splits(d) \in Readers(Parted, Char)
           /\ \A s \in Parted : Splits(d)[<<s, d>>] = Append(s, << >>)
           /\ \A done \in Seq(Seq(Char)), part \in Seq(Char), x \in Char \ {d} :
                 Splits(d)[<<Append(done, part), x>>] = Append(done, Append(part, x))
PROOF
  <1>1. ASSUME NEW s \in Parted, NEW x \in Char
        PROVE  /\ Append(s, << >>) \in Parted
               /\ Append(Front(s), Append(Last(s), x)) \in Parted
    <2>1. Front(s) \in Seq(Seq(Char)) /\ Last(s) \in Seq(Char) /\ s \in Seq(Seq(Char))
      BY PartedEnds
    <2>2. Append(Last(s), x) \in Seq(Char) /\ << >> \in Seq(Char)
      BY <2>1
    <2> QED
      BY <2>1, <2>2, OneMore
  <1>2. Splits(d) \in Readers(Parted, Char)
    BY <1>1 DEF Splits, Readers
  <1>3. ASSUME NEW s \in Parted PROVE Splits(d)[<<s, d>>] = Append(s, << >>)
    BY DEF Splits
  <1>4. ASSUME NEW done \in Seq(Seq(Char)), NEW part \in Seq(Char), NEW x \in Char \ {d}
        PROVE  Splits(d)[<<Append(done, part), x>>] = Append(done, Append(part, x))
    BY OneMore DEF Splits
  <1> QED
    BY <1>2, <1>3, <1>4

\* SplitAt goes from character to character.
LEMMA SplitRuns ==
    ASSUME NEW d \in Char, NEW text \in Seq(Char)
    PROVE  Takes(Splits(d), << << >> >>, text, SplitAt(text, d))
PROOF
  <1> DEFINE n == Len(text)
             base == << << >> >>
             next(s, x) == IF x = d THEN Append(s, << >>)
                           ELSE Append(Front(s), Append(Last(s), x))
             iter == CHOOSE iter : iter = [s \in SUBSET (1..n) |->
                        IF s = {} THEN base ELSE next(iter[s \ {Max(s)}], text[Max(s)])]
  <1>1. n \in Nat /\ DOMAIN text = 1..n /\ Splits(d) \in Readers(Parted, Char)
    BY SplitsIs
  <1>2. SplitAt(text, d) = iter[1..n]
    BY <1>1 DEF SplitAt, FoldLeft, MapThenFoldSet
  <1>3. base \in Parted
    <2>1. << >> \in Seq(Char) /\ << >> \in Seq(Seq(Char)) /\ Append(<< >>, << >>) = base
      OBVIOUS
    <2> HIDE DEF base
    <2> QED
      BY <2>1, OneMore
  <1>4. PICK it : FoldedOver(it, Parted, Char, Splits(d), base, text)
    <2> HIDE DEF base
    <2> QED
      BY <1>1, <1>3, TextFoldExists
  <1>5. \A s \in Parted, x \in Char : Splits(d)[<<s, x>>] = next(s, x)
    BY DEF Splits
  <1> HIDE DEF next, base
  <1>6. ASSUME NEW s \in SUBSET (1..n)
        PROVE  it[s] = IF s = {} THEN base ELSE next(it[s \ {Max(s)}], text[Max(s)])
    <2> HIDE DEF Max
    <2> QED
      BY <1>4, <1>5 DEF FoldedOver
  <1>7. it = [s \in SUBSET (1..n) |->
                IF s = {} THEN base ELSE next(it[s \ {Max(s)}], text[Max(s)])]
    BY <1>4, <1>6 DEF FoldedOver
  <1>8. iter = [s \in SUBSET (1..n) |->
                  IF s = {} THEN base ELSE next(iter[s \ {Max(s)}], text[Max(s)])]
    BY <1>7
  <1> HIDE DEF iter
  <1>9. ASSUME NEW s \in SUBSET (1..n), s # {}, iter[s \ {Max(s)}] \in Parted
        PROVE  iter[s] = Splits(d)[<<iter[s \ {Max(s)}], text[Max(s)]>>]
    <2>1. iter[s] = next(iter[s \ {Max(s)}], text[Max(s)])
      BY <1>8, <1>9
    <2>2. text[Max(s)] \in Char
      BY <1>4, <1>9 DEF FoldedOver
    <2> HIDE DEF Max
    <2> QED
      BY <1>5, <1>9, <2>1, <2>2
  <1>10. iter[{}] = base
    BY <1>8
  <1>11. Takes(Splits(d), base, text, iter[1..n])
    BY <1>1, <1>3, <1>9, <1>10, FoldTakes
  <1> QED
    BY <1>2, <1>11 DEF base

\* The characters up to the next d make a part.
LEMMA SplitsWord ==
    ASSUME NEW d \in Char, NEW done \in Seq(Seq(Char)), NEW word, Without(word, d)
    PROVE  Takes(Splits(d), Append(done, << >>), word, Append(done, word))
PROOF
  <1> DEFINE n == Len(word)
             g == [k \in 0..n |-> Append(done, SubSeq(word, 1, k))]
  <1>1. word \in Seq(Char) /\ n \in Nat /\ \A k \in 1..n : word[k] \in Char \ {d}
    BY DEF Without
  <1>2. SubSeq(word, 1, 0) = << >> /\ SubSeq(word, 1, n) = word
    BY <1>1
  <1>3. ASSUME NEW k \in 1..n
        PROVE  g[k] = Splits(d)[<<g[k - 1], word[k]>>]
    <2> DEFINE part == SubSeq(word, 1, k - 1)
    <2>1. /\ part \in Seq(Char) /\ SubSeq(word, 1, k) = Append(part, word[k])
          /\ k \in 0..n /\ k - 1 \in 0..n
      BY <1>1
    <2>2. g[k - 1] = Append(done, part) /\ g[k] = Append(done, Append(part, word[k]))
      BY <2>1
    <2>3. word[k] \in Char \ {d}
      BY <1>1
    <2> HIDE DEF part, g
    <2>4. Splits(d)[<<Append(done, part), word[k]>>] = Append(done, Append(part, word[k]))
      BY <2>1, <2>3, SplitsIs
    <2> QED
      BY <2>2, <2>4
  <1>4. g[0] = Append(done, << >>) /\ g[n] = Append(done, word)
    BY <1>1, <1>2
  <1> HIDE DEF g
  <1> QED
    BY <1>3, <1>4 DEF Takes

\* The parts of what Joined joins, each but the first after a delimiter.
Pieces(parts, delim) ==
    [i \in DOMAIN parts |-> IF i = 1 THEN parts[i] ELSE <<delim>> \o parts[i]]

\* A joined text grows part by part, as g says.
Joins(g, T, parts, d) ==
    /\ g \in [0..Len(parts) -> Seq(T)]
    /\ g[0] = << >> /\ Joined(parts, d) = g[Len(parts)]
    /\ \A k \in 1..Len(parts) :
          g[k] = IF k = 1 THEN parts[k] ELSE g[k - 1] \o (<<d>> \o parts[k])

LEMMA JoinedRuns ==
    ASSUME NEW T, NEW d \in T, NEW parts \in Seq(Seq(T))
    PROVE  \E g : Joins(g, T, parts, d)
PROOF
  <1> DEFINE n == Len(parts)
             pieces == Pieces(parts, d)
  <1>1. n \in Nat /\ DOMAIN parts = 1..n /\ \A i \in 1..n : parts[i] \in Seq(T)
    OBVIOUS
  <1>2. \A i \in 1..n : pieces[i] = IF i = 1 THEN parts[i] ELSE <<d>> \o parts[i]
    BY <1>1 DEF Pieces
  <1>3. pieces \in Seq(Seq(T)) /\ Len(pieces) = n
    <2> DEFINE U == Seq(T)
    <2>1. ASSUME NEW i \in 1..n PROVE pieces[i] \in U
      <3>1. parts[i] \in Seq(T) /\ <<d>> \in Seq(T)
        BY <1>1
      <3>2. <<d>> \o parts[i] \in Seq(T)
        BY <3>1
      <3> HIDE DEF pieces
      <3> QED
        BY <1>2, <3>1, <3>2
    <2>2. pieces = [i \in 1..n |-> pieces[i]]
      BY <1>1 DEF Pieces
    <2> HIDE DEF pieces, n, U
    <2>3. pieces \in [1..n -> U]
      BY <2>1, <2>2
    <2>4. pieces \in Seq(U) /\ Len(pieces) = n
      BY <1>1, <2>3
    <2> QED
      BY <2>4 DEF U
  <1>4. Joined(parts, d) = FlattenSeq(pieces)
    BY DEF Joined, Pieces
  <1>5. PICK g \in [0..n -> Seq(T)] :
               /\ g[0] = << >> /\ FlattenSeq(pieces) = g[n]
               /\ \A k \in 1..n : g[k] = g[k - 1] \o pieces[k]
    <2> HIDE DEF pieces, n
    <2> QED
      BY <1>3, FlattenRuns
  <1>6. ASSUME NEW k \in 1..n
        PROVE  g[k] = IF k = 1 THEN parts[k] ELSE g[k - 1] \o (<<d>> \o parts[k])
    <2>1. CASE k = 1
      <3>1. g[k] = << >> \o parts[k]
        <4>1. k - 1 = 0
          BY <2>1
        <4>2. g[k] = g[k - 1] \o pieces[k] /\ g[k - 1] = << >>
          BY <1>5, <4>1
        <4> QED
          BY <1>2, <2>1, <4>2
      <3>2. << >> \o parts[k] = parts[k]
        BY <1>1
      <3> QED
        BY <2>1, <3>1, <3>2
    <2>2. CASE k # 1
      BY <1>2, <1>5, <2>2
    <2> QED
      BY <2>1, <2>2
  <1> HIDE DEF pieces
  <1> QED
    BY <1>4, <1>5, <1>6 DEF Joins

LEMMA JoinedType ==
    ASSUME NEW T, NEW d \in T, NEW parts \in Seq(Seq(T))
    PROVE  Joined(parts, d) \in Seq(T)
PROOF
  <1>1. PICK g : Joins(g, T, parts, d)
    BY JoinedRuns
  <1>2. Len(parts) \in 0..Len(parts)
    OBVIOUS
  <1> QED
    BY <1>1, <1>2 DEF Joins

\* What was joined splits into the same parts, when none of them has the delimiter.
LEMMA SplitJoin ==
    ASSUME NEW d \in Char, NEW parts \in Seq(Seq(Char)), parts # << >>,
           \A i \in 1..Len(parts) : Without(parts[i], d)
    PROVE  SplitAt(Joined(parts, d), d) = parts
PROOF
  <1> DEFINE n == Len(parts)
             base == << << >> >>
             F == Splits(d)
             SoFar(k) == SubSeq(parts, 1, k)
  <1>1. n \in Nat /\ n # 0 /\ (\A i \in 1..n : parts[i] \in Seq(Char)) /\ 1 \in 1..n
    OBVIOUS
  <1>2. PICK g \in [0..n -> Seq(Char)] :
               /\ g[0] = << >> /\ Joined(parts, d) = g[n]
               /\ \A k \in 1..n :
                     g[k] = IF k = 1 THEN parts[k] ELSE g[k - 1] \o (<<d>> \o parts[k])
    <2>1. PICK g : Joins(g, Char, parts, d)
      BY JoinedRuns
    <2> QED
      BY <2>1 DEF Joins
  <1>3. ASSUME NEW k \in 1..n
        PROVE  /\ SoFar(k) = Append(SoFar(k - 1), parts[k])
               /\ SoFar(k - 1) \in Seq(Seq(Char)) /\ parts[k] \in Seq(Char)
               /\ Without(parts[k], d)
    <2> DEFINE T == Seq(Char)
    <2>1. parts \in Seq(T)
      OBVIOUS
    <2> HIDE DEF T
    <2>2. SubSeq(parts, 1, k) = Append(SubSeq(parts, 1, k - 1), parts[k])
          /\ SubSeq(parts, 1, k - 1) \in Seq(T)
      BY <2>1
    <2> QED
      BY <1>1, <2>2 DEF T
  <1>4. SoFar(0) = << >> /\ SoFar(n) = parts /\ Append(<< >>, << >>) = base
    OBVIOUS
  <1> HIDE DEF n, SoFar, F, base
  <1> DEFINE S == {k \in 0..n : k # 0 => Takes(F, base, g[k], SoFar(k))}
  <1>5. ASSUME NEW k \in 1..n, k - 1 \in S PROVE k \in S
    <2>1. CASE k = 1
      <3>1. SoFar(0) = << >> /\ k - 1 = 0 /\ g[k] = parts[k] /\ k # 0
        BY <1>2, <1>4, <2>1
      <3>2. << >> \in Seq(Seq(Char))
        OBVIOUS
      <3>3. Takes(F, Append(<< >>, << >>), parts[k], Append(<< >>, parts[k]))
        BY <1>3, <3>2, SplitsWord DEF F
      <3>4. SoFar(k) = Append(<< >>, parts[k])
        BY <1>3, <3>1
      <3>5. Takes(F, base, g[k], SoFar(k))
        BY <1>4, <3>1, <3>3, <3>4, Zenon
      <3>6. k \in 0..n
        BY <1>1
      <3> QED
        BY <3>5, <3>6
    <2>2. CASE k # 1
      <3>1. k - 1 # 0 /\ k - 1 \in 0..n /\ k \in 0..n
        BY <1>1, <2>2
      <3>2. Takes(F, base, g[k - 1], SoFar(k - 1)) /\ g[k - 1] \in Seq(Char)
        BY <1>2, <1>5, <3>1
      <3>3. SoFar(k - 1) \in Parted
        <4>1. k - 1 \in 1..n
          BY <1>1, <3>1
        <4>2. SoFar(k - 1) = Append(SoFar((k - 1) - 1), parts[k - 1])
              /\ SoFar((k - 1) - 1) \in Seq(Seq(Char)) /\ parts[k - 1] \in Seq(Char)
          BY <1>3, <4>1
        <4> QED
          BY <4>2, OneMore
      <3>4. Takes(F, SoFar(k - 1), <<d>>, Append(SoFar(k - 1), << >>))
        <4>1. F[<<SoFar(k - 1), d>>] = Append(SoFar(k - 1), << >>)
          BY <3>3, SplitsIs DEF F
        <4> QED
          BY <4>1, TakesOne
      <3>5. Takes(F, Append(SoFar(k - 1), << >>), parts[k], SoFar(k))
        BY <1>3, SplitsWord DEF F
      <3>6. parts[k] \in Seq(Char) /\ <<d>> \in Seq(Char) /\ <<d>> \o parts[k] \in Seq(Char)
        BY <1>3
      <3>7. Takes(F, SoFar(k - 1), <<d>> \o parts[k], SoFar(k))
        BY <3>4, <3>5, <3>6, TakesBoth
      <3>8. Takes(F, base, g[k - 1] \o (<<d>> \o parts[k]), SoFar(k))
        BY <3>2, <3>6, <3>7, TakesBoth
      <3> QED
        BY <1>2, <2>2, <3>1, <3>8
    <2> QED
      BY <2>1, <2>2
  <1>6. 0 \in S
    BY <1>1
  <1> HIDE DEF S
  <1>7. n \in S
    <2>1. \A k \in 0..n : k \in S
      BY <1>1, <1>5, <1>6, Upward
    <2> QED
      BY <1>1, <2>1
  <1>8. Takes(F, base, Joined(parts, d), parts)
    BY <1>1, <1>2, <1>4, <1>7 DEF S
  <1>9. Takes(F, base, Joined(parts, d), SplitAt(Joined(parts, d), d))
    BY JoinedType, SplitRuns DEF F, base
  <1>10. Joined(parts, d) \in Seq(Char)
    BY JoinedType
  <1> QED
    BY <1>8, <1>9, <1>10, TakesOnce

-----------------------------------------------------------------------------
(* Cells as TSV *)

Cell == Texts \cup {Null}

LEMMA PlainType ==
    ASSUME NEW v \in Cell
    PROVE  Plain(v) \in Seq(Char)
PROOF
  BY ConstantsAssumption DEF Plain, Cell

LEMMA Characters == {Tab, NewLine, CarriageReturn, Comma, Quote, Space} \subseteq Char
PROOF
  BY ConstantsAssumption

\* A text of single characters is itself.
LEMMA FlattenOnes ==
    ASSUME NEW s \in Seq(Char)
    PROVE  FlattenSeq([i \in DOMAIN s |-> <<s[i]>>]) = s
PROOF
  <1> DEFINE n == Len(s)
             ones == [i \in DOMAIN s |-> <<s[i]>>]
             T == Seq(Char)
  <1>1. n \in Nat /\ DOMAIN s = 1..n /\ \A i \in 1..n : s[i] \in Char
    OBVIOUS
  <1>2. ones \in Seq(T) /\ Len(ones) = n /\ \A i \in 1..n : ones[i] = <<s[i]>>
    <2>1. ASSUME NEW i \in 1..n PROVE ones[i] \in T /\ ones[i] = <<s[i]>>
      BY <1>1
    <2>2. ones \in [1..n -> T]
      <3>1. ones = [i \in 1..n |-> ones[i]]
        BY <1>1
      <3> HIDE DEF ones, n, T
      <3> QED
        BY <2>1, <3>1
    <2> HIDE DEF T, ones, n
    <2> QED
      BY <1>1, <2>1, <2>2
  <1>3. PICK g \in [0..n -> T] :
               /\ g[0] = << >> /\ FlattenSeq(ones) = g[n]
               /\ \A k \in 1..n : g[k] = g[k - 1] \o ones[k]
    <2> HIDE DEF ones, n
    <2> QED
      BY <1>2, FlattenRuns
  <1> DEFINE S == {k \in 0..n : g[k] = SubSeq(s, 1, k)}
  <1>4. 0 \in S
    BY <1>1, <1>3
  <1>5. ASSUME NEW k \in 1..n, k - 1 \in S PROVE k \in S
    <2>1. g[k - 1] = SubSeq(s, 1, k - 1) /\ k \in 0..n
      BY <1>1, <1>5
    <2>2. g[k] = SubSeq(s, 1, k - 1) \o <<s[k]>>
      BY <1>2, <1>3, <2>1
    <2>3. SubSeq(s, 1, k - 1) \o <<s[k]>> = Append(SubSeq(s, 1, k - 1), s[k])
      <3> DEFINE a == SubSeq(s, 1, k - 1)
      <3>1. a \in Seq(Char) /\ s[k] \in Char
        BY <1>1
      <3> HIDE DEF a
      <3>2. a \o <<s[k]>> = Append(a, s[k])
        BY <3>1, AppendIsConcat
      <3> QED
        BY <3>2 DEF a
    <2>4. SubSeq(s, 1, k) = Append(SubSeq(s, 1, k - 1), s[k])
      BY <1>1
    <2> QED
      BY <2>1, <2>2, <2>3, <2>4
  <1> HIDE DEF S
  <1>6. n \in S
    <2>1. \A k \in 0..n : k \in S
      BY <1>1, <1>4, <1>5, Upward
    <2> QED
      BY <1>1, <2>1
  <1>7. SubSeq(s, 1, n) = s
    BY <1>1
  <1> QED
    BY <1>3, <1>6, <1>7 DEF S

\* A cell as TSV has no tab and no line break; one that has none of its own is itself.
LEMMA TsvCell ==
    ASSUME NEW v \in Cell
    PROVE  /\ EscTsv(v) \in Seq(Char)
           /\ \A d \in Breaks : Without(EscTsv(v), d)
           /\ (\A x \in Breaks : ~Contains(Plain(v), x)) => EscTsv(v) = Plain(v)
PROOF
  <1> DEFINE s == Plain(v)
             n == Len(s)
             breaks(i) == i > 0 /\ s[i] \in Breaks
             Shown1 == [i \in DOMAIN s |-> IF ~breaks(i) THEN <<s[i]>>
                                       ELSE IF breaks(i - 1) THEN << >> ELSE <<Space>>]
             T == Char \ Breaks
  <1>1. s \in Seq(Char) /\ n \in Nat /\ DOMAIN s = 1..n /\ \A i \in 1..n : s[i] \in Char
    <2> HIDE DEF s
    <2>1. s \in Seq(Char)
      BY PlainType DEF s
    <2> QED
      BY <2>1
  <1>2. EscTsv(v) = FlattenSeq(Shown1)
    BY DEF EscTsv
  <1>3. Space \in T /\ Space \in Char
    BY Characters DEF Breaks, Space, Tab, NewLine, CarriageReturn
  <1>4. ASSUME NEW i \in 1..n
        PROVE  Shown1[i] \in Seq(T) /\ (s[i] \notin Breaks => Shown1[i] = <<s[i]>>)
    <2> HIDE DEF s
    <2>1. s[i] \in Char /\ i \in DOMAIN s /\ i > 0
      BY <1>1
    <2>2. Shown1[i] = IF ~breaks(i) THEN <<s[i]>>
                      ELSE IF breaks(i - 1) THEN << >> ELSE <<Space>>
      BY <2>1
    <2>3. << >> \in Seq(T) /\ <<Space>> \in Seq(T) /\ (s[i] \in T => <<s[i]>> \in Seq(T))
      BY <1>3
    <2>4. breaks(i) <=> s[i] \in Breaks
      BY <2>1
    <2>5. s[i] \notin Breaks => s[i] \in T
      BY <2>1
    <2> HIDE DEF Shown1, T, breaks
    <2> QED
      BY <2>2, <2>3, <2>4, <2>5
  <1>5. Shown1 \in Seq(Seq(T)) /\ Len(Shown1) = n
    <2> DEFINE U == Seq(T)
    <2>1. Shown1 = [i \in 1..n |-> Shown1[i]]
      BY <1>1
    <2> HIDE DEF Shown1, T, n, U
    <2>2. ASSUME NEW i \in 1..n PROVE Shown1[i] \in U
      BY <1>4 DEF U
    <2>3. Shown1 \in [1..n -> U]
      BY <2>1, <2>2
    <2>4. Shown1 \in Seq(U) /\ Len(Shown1) = n
      BY <1>1, <2>3
    <2> QED
      BY <2>4 DEF U
  <1>6. FlattenSeq(Shown1) \in Seq(T)
    <2> HIDE DEF Shown1, T, n
    <2>1. PICK g \in [0..Len(Shown1) -> Seq(T)] : FlattenSeq(Shown1) = g[Len(Shown1)]
      BY <1>5, FlattenRuns
    <2>2. Len(Shown1) \in 0..Len(Shown1)
      BY <1>1, <1>5
    <2> QED
      BY <2>1, <2>2
  <1>7. EscTsv(v) \in Seq(Char) /\ \A k \in 1..Len(EscTsv(v)) : EscTsv(v)[k] \in T
    <2> DEFINE e == FlattenSeq(Shown1)
    <2> HIDE DEF e
    <2>1. e \in Seq(T)
      BY <1>6 DEF e
    <2>2. e \in Seq(Char) /\ \A k \in 1..Len(e) : e[k] \in T
      BY <2>1
    <2> QED
      BY <1>2, <2>2 DEF e
  <1>8. ASSUME \A x \in Breaks : ~Contains(Plain(v), x) PROVE EscTsv(v) = Plain(v)
    <2>1. ASSUME NEW i \in 1..n PROVE Shown1[i] = <<s[i]>>
      <3>1. s[i] \notin Breaks
        BY <1>8 DEF Contains
      <3> QED
        BY <1>4, <3>1
    <2>2. Shown1 = [i \in DOMAIN s |-> <<s[i]>>]
      <3>1. Shown1 = [i \in 1..n |-> Shown1[i]]
        BY <1>1
      <3>2. [i \in DOMAIN s |-> <<s[i]>>] = [i \in 1..n |-> <<s[i]>>]
        BY <1>1
      <3> HIDE DEF Shown1, s, n
      <3> QED
        BY <2>1, <3>1, <3>2
    <2> HIDE DEF Shown1
    <2> QED
      BY <1>1, <1>2, <2>2, FlattenOnes
  <1> QED
    BY <1>7, <1>8 DEF Without

-----------------------------------------------------------------------------
(* Tables as TSV *)

\* What is copied and saved: rows of cells, with a header.
Tables == {t \in Seq(Seq(Cell)) : t # << >> /\ \A i \in 1..Len(t) : t[i] # << >>}

LEMMA TableRows ==
    ASSUME NEW t \in Tables
    PROVE  /\ Len(t) \in Nat /\ Len(t) # 0 /\ DOMAIN t = 1..Len(t)
           /\ \A i \in 1..Len(t) : /\ t[i] \in Seq(Cell) /\ t[i] # << >>
                                   /\ Len(t[i]) \in Nat /\ Len(t[i]) # 0
                                   /\ DOMAIN t[i] = 1..Len(t[i])
                                   /\ \A c \in 1..Len(t[i]) : t[i][c] \in Cell
PROOF
  <1> DEFINE T == Seq(Cell)
  <1>1. t \in Seq(T) /\ t # << >> /\ \A i \in 1..Len(t) : t[i] # << >>
    BY DEF Tables
  <1> HIDE DEF T
  <1>2. Len(t) \in Nat /\ Len(t) # 0 /\ DOMAIN t = 1..Len(t) /\ \A i \in 1..Len(t) : t[i] \in T
    BY <1>1
  <1>3. ASSUME NEW row \in Seq(Cell), row # << >>
        PROVE  /\ Len(row) \in Nat /\ Len(row) # 0 /\ DOMAIN row = 1..Len(row)
               /\ \A c \in 1..Len(row) : row[c] \in Cell
    BY <1>3
  <1> QED
    BY <1>1, <1>2, <1>3 DEF T

LEMMA SequenceOf ==
    ASSUME NEW n \in Nat, NEW T, NEW f, DOMAIN f = 1..n, f = [i \in 1..n |-> f[i]],
           \A i \in 1..n : f[i] \in T
    PROVE  f \in Seq(T) /\ Len(f) = n
PROOF
  <1>1. f \in [1..n -> T]
    OBVIOUS
  <1> QED
    BY <1>1

TsvLine(cells) == Joined([c \in DOMAIN cells |-> EscTsv(cells[c])], Tab)

\* A row is one line, and splits into its cells.
LEMMA TsvLineSplits ==
    ASSUME NEW cells \in Seq(Cell), cells # << >>
    PROVE  /\ Without(TsvLine(cells), NewLine)
           /\ SplitAt(TsvLine(cells), Tab) = [c \in DOMAIN cells |-> EscTsv(cells[c])]
PROOF
  <1> DEFINE n == Len(cells)
             parts == [c \in DOMAIN cells |-> EscTsv(cells[c])]
             T == Char \ {NewLine}
  <1>1. n \in Nat /\ n # 0 /\ DOMAIN cells = 1..n /\ \A c \in 1..n : cells[c] \in Cell
    OBVIOUS
  <1>2. Tab \in T /\ Tab \in Char /\ NewLine \in Breaks /\ Tab \in Breaks
    BY Characters DEF Tab, NewLine, Breaks
  <1>3. /\ DOMAIN parts = 1..n /\ parts = [c \in 1..n |-> parts[c]]
        /\ \A c \in 1..n : parts[c] = EscTsv(cells[c])
    BY <1>1
  <1> HIDE DEF parts, n
  <1>4. ASSUME NEW c \in 1..n
        PROVE  parts[c] \in Seq(T) /\ parts[c] \in Seq(Char) /\ Without(parts[c], Tab)
    <2>1. cells[c] \in Cell /\ parts[c] = EscTsv(cells[c])
      BY <1>1, <1>3
    <2>2. Without(parts[c], Tab) /\ Without(parts[c], NewLine)
      BY <1>2, <2>1, TsvCell
    <2>3. ASSUME NEW e, Without(e, NewLine) PROVE e \in Seq(T) /\ e \in Seq(Char)
      BY <2>3 DEF Without
    <2> QED
      BY <2>2, <2>3
  <1>5. parts \in Seq(Seq(T)) /\ parts \in Seq(Seq(Char)) /\ Len(parts) = n /\ parts # << >>
    <2> DEFINE U == Seq(T)
               V == Seq(Char)
    <2>1. \A c \in 1..n : parts[c] \in U /\ parts[c] \in V
      BY <1>4
    <2> HIDE DEF U, V, T
    <2>2. parts \in Seq(U) /\ parts \in Seq(V) /\ Len(parts) = n
      BY <1>1, <1>3, <2>1, SequenceOf
    <2>3. parts # << >>
      BY <1>1, <2>2
    <2> QED
      BY <2>2, <2>3 DEF U, V
  <1>6. TsvLine(cells) = Joined(parts, Tab)
    BY DEF TsvLine, parts
  <1>7. Without(TsvLine(cells), NewLine)
    <2> DEFINE line == Joined(parts, Tab)
    <2>1. line \in Seq(T)
      <3> HIDE DEF T
      <3> QED
        BY <1>2, <1>5, JoinedType
    <2> HIDE DEF line
    <2>2. line \in Seq(Char) /\ \A k \in 1..Len(line) : line[k] # NewLine
      BY <2>1
    <2> QED
      BY <1>6, <2>2 DEF line, Without
  <1>8. SplitAt(Joined(parts, Tab), Tab) = parts
    BY <1>2, <1>4, <1>5, SplitJoin
  <1> QED
    BY <1>6, <1>7, <1>8 DEF parts

\* A table splits into its rows, and these into their cells.
LEMMA TsvSplits ==
    ASSUME NEW table \in Tables
    PROVE  LET lines == SplitAt(Serialized(Tab, FALSE, table), NewLine)
           IN  /\ Len(lines) = Len(table)
               /\ \A i \in 1..Len(table) :
                     SplitAt(lines[i], Tab) = [c \in DOMAIN table[i] |-> EscTsv(table[i][c])]
PROOF
  <1> DEFINE n == Len(table)
             parts == [i \in DOMAIN table |-> TsvLine(table[i])]
  <1>1. /\ n \in Nat /\ n # 0 /\ DOMAIN table = 1..n
        /\ \A i \in 1..n : table[i] \in Seq(Cell) /\ table[i] # << >>
    BY TableRows
  <1>2. Serialized(Tab, FALSE, table) = Joined(parts, NewLine)
    BY DEF Serialized, TsvLine
  <1>3. /\ DOMAIN parts = 1..n /\ parts = [i \in 1..n |-> parts[i]]
        /\ \A i \in 1..n : parts[i] = TsvLine(table[i])
    BY <1>1
  <1> HIDE DEF parts, n
  <1>4. \A i \in 1..n : Without(parts[i], NewLine)
    BY <1>1, <1>3, TsvLineSplits
  <1>5. parts \in Seq(Seq(Char)) /\ Len(parts) = n /\ parts # << >>
    <2> DEFINE U == Seq(Char)
    <2>1. \A i \in 1..n : parts[i] \in U
      BY <1>4 DEF Without
    <2> HIDE DEF U
    <2>2. parts \in Seq(U) /\ Len(parts) = n
      BY <1>1, <1>3, <2>1, SequenceOf
    <2> QED
      BY <1>1, <2>2 DEF U
  <1>6. SplitAt(Joined(parts, NewLine), NewLine) = parts
    <2>1. NewLine \in Char
      BY Characters
    <2> QED
      BY <1>4, <1>5, <2>1, SplitJoin
  <1>7. \A i \in 1..n :
           SplitAt(parts[i], Tab) = [c \in DOMAIN table[i] |-> EscTsv(table[i][c])]
    BY <1>1, <1>3, TsvLineSplits
  <1> QED
    BY <1>2, <1>5, <1>6, <1>7 DEF n

-----------------------------------------------------------------------------
(* Tables as CSV *)

Record == Seq(Seq(Char))
ReaderState == [records : Seq(Record), record : Record, field : Seq(Char),
                quoted : {"no", "in", "closing"}]
AtField(records, record, field, quoted) ==
    [records |-> records, record |-> record, field |-> field, quoted |-> quoted]

\* ReadsCsv, as a function.
CsvReader == [x \in ReaderState \X Char |-> ReadsCsv(x[1], x[2])]

LEMMA AtFieldType ==
    ASSUME NEW records \in Seq(Record), NEW record \in Record, NEW field \in Seq(Char),
           NEW quoted \in {"no", "in", "closing"}
    PROVE  AtField(records, record, field, quoted) \in ReaderState
PROOF
  BY DEF AtField, ReaderState

LEMMA ReadsCsvType ==
    ASSUME NEW s \in ReaderState, NEW c \in Char
    PROVE  ReadsCsv(s, c) \in ReaderState
PROOF
  <1>1. /\ s.records \in Seq(Record) /\ s.record \in Record /\ s.field \in Seq(Char)
        /\ s.quoted \in {"no", "in", "closing"}
    BY DEF ReaderState
  <1>2. /\ Append(s.field, c) \in Seq(Char) /\ << >> \in Seq(Char)
        /\ Append(s.record, s.field) \in Record /\ << >> \in Record
    BY <1>1 DEF Record
  <1>3. Append(s.records, WithField(s)) \in Seq(Record) /\ WithField(s) \in Record
    BY <1>1, <1>2 DEF WithField
  <1>4. CASE s.quoted = "in"
    <2>1. ReadsCsv(s, c) = [s EXCEPT !.quoted = "closing"]
          \/ ReadsCsv(s, c) = [s EXCEPT !.field = Append(@, c)]
      BY <1>4 DEF ReadsCsv
    <2> HIDE DEF Record
    <2> QED
      BY <1>2, <2>1 DEF ReaderState
  <1>5. CASE s.quoted # "in" /\ c = Quote /\ (s.quoted = "closing" \/ s.field = << >>)
    <2>1. ReadsCsv(s, c) = [s EXCEPT !.quoted = "in",
                                     !.field = IF s.quoted = "closing" THEN Append(@, c)
                                               ELSE @]
      BY <1>5 DEF ReadsCsv
    <2> QED
      BY <1>1, <1>2, <2>1 DEF ReaderState
  <1>6. CASE s.quoted # "in" /\ ~(c = Quote /\ (s.quoted = "closing" \/ s.field = << >>))
    <2>1. ReadsCsv(s, c) \in
             {[s EXCEPT !.record = WithField(s), !.field = << >>, !.quoted = "no"],
              [records |-> Append(s.records, WithField(s)), record |-> << >>,
               field |-> << >>, quoted |-> "no"],
              [s EXCEPT !.field = Append(@, c)]}
      BY <1>6 DEF ReadsCsv
    <2>2. [s EXCEPT !.record = WithField(s), !.field = << >>, !.quoted = "no"] \in ReaderState
      BY <1>2, <1>3 DEF ReaderState
    <2>3. [s EXCEPT !.field = Append(@, c)] \in ReaderState
      BY <1>2 DEF ReaderState
    <2>4. [records |-> Append(s.records, WithField(s)), record |-> << >>,
           field |-> << >>, quoted |-> "no"] \in ReaderState
      BY <1>2, <1>3 DEF ReaderState
    <2> QED
      BY <2>1, <2>2, <2>3, <2>4
  <1> QED
    BY <1>4, <1>5, <1>6

LEMMA CsvReaderIs ==
    /\ CsvReader \in Readers(ReaderState, Char)
    /\ \A s \in ReaderState, c \in Char : CsvReader[<<s, c>>] = ReadsCsv(s, c)
    /\ NothingRead = AtField(<< >>, << >>, << >>, "no") /\ NothingRead \in ReaderState
PROOF
  <1>1. ASSUME NEW s \in ReaderState, NEW c \in Char PROVE ReadsCsv(s, c) \in ReaderState
    BY ReadsCsvType
  <1>2. NothingRead = AtField(<< >>, << >>, << >>, "no")
    BY DEF NothingRead, AtField
  <1>3. << >> \in Seq(Record) /\ << >> \in Record /\ << >> \in Seq(Char)
    BY DEF Record
  <1>4. NothingRead \in ReaderState
    BY <1>2, <1>3, AtFieldType
  <1> QED
    BY <1>1, <1>2, <1>4 DEF CsvReader, Readers

\* Where the reader of a text ends.
CsvEnd(text) == FoldLeft(ReadsCsv, NothingRead, text)

\* It goes from character to character.
LEMMA CsvRuns ==
    ASSUME NEW text \in Seq(Char)
    PROVE  Takes(CsvReader, NothingRead, text, CsvEnd(text))
PROOF
  <1> DEFINE n == Len(text)
             iter == CHOOSE iter : iter = [s \in SUBSET (1..n) |->
                        IF s = {} THEN NothingRead
                        ELSE ReadsCsv(iter[s \ {Max(s)}], text[Max(s)])]
  <1>1. n \in Nat /\ DOMAIN text = 1..n /\ CsvReader \in Readers(ReaderState, Char)
    BY CsvReaderIs
  <1>2. CsvEnd(text) = iter[1..n]
    BY <1>1 DEF CsvEnd, FoldLeft, MapThenFoldSet
  <1>3. PICK it : FoldedOver(it, ReaderState, Char, CsvReader, NothingRead, text)
    BY <1>1, CsvReaderIs, TextFoldExists
  <1>4. ASSUME NEW s \in SUBSET (1..n)
        PROVE  it[s] = IF s = {} THEN NothingRead
                       ELSE ReadsCsv(it[s \ {Max(s)}], text[Max(s)])
    <2> HIDE DEF Max
    <2> QED
      BY <1>3, CsvReaderIs DEF FoldedOver
  <1>5. it = [s \in SUBSET (1..n) |->
                IF s = {} THEN NothingRead ELSE ReadsCsv(it[s \ {Max(s)}], text[Max(s)])]
    BY <1>3, <1>4 DEF FoldedOver
  <1>6. iter = [s \in SUBSET (1..n) |->
                  IF s = {} THEN NothingRead
                  ELSE ReadsCsv(iter[s \ {Max(s)}], text[Max(s)])]
    BY <1>5
  <1> HIDE DEF iter
  <1>7. ASSUME NEW s \in SUBSET (1..n), s # {}, iter[s \ {Max(s)}] \in ReaderState
        PROVE  iter[s] = CsvReader[<<iter[s \ {Max(s)}], text[Max(s)]>>]
    <2>1. iter[s] = ReadsCsv(iter[s \ {Max(s)}], text[Max(s)])
      BY <1>6, <1>7
    <2>2. text[Max(s)] \in Char
      BY <1>3, <1>7 DEF FoldedOver
    <2> HIDE DEF Max
    <2> QED
      BY <1>7, <2>1, <2>2, CsvReaderIs
  <1>8. iter[{}] = NothingRead
    BY <1>6
  <1>9. Takes(CsvReader, NothingRead, text, iter[1..n])
    BY <1>1, <1>7, <1>8, CsvReaderIs, FoldTakes
  <1> QED
    BY <1>2, <1>9

Special == {Quote, Comma, NewLine, CarriageReturn}

\* What a character does, within quotes and without.
LEMMA CsvSteps ==
    ASSUME NEW records \in Seq(Record), NEW record \in Record, NEW field \in Seq(Char)
    PROVE  LET at(text, quoted) == AtField(records, record, text, quoted)
           IN  /\ \A c \in Char \ Special :
                     CsvReader[<<at(field, "no"), c>>] = at(Append(field, c), "no")
               /\ CsvReader[<<at(<< >>, "no"), Quote>>] = at(<< >>, "in")
               /\ \A c \in Char \ {Quote} :
                     CsvReader[<<at(field, "in"), c>>] = at(Append(field, c), "in")
               /\ CsvReader[<<at(field, "in"), Quote>>] = at(field, "closing")
               /\ CsvReader[<<at(field, "closing"), Quote>>] = at(Append(field, Quote), "in")
PROOF
  <1> DEFINE at(text, quoted) == AtField(records, record, text, quoted)
  <1>1. \A text \in Seq(Char), quoted \in {"no", "in", "closing"}, c \in Char :
           CsvReader[<<at(text, quoted), c>>] = ReadsCsv(at(text, quoted), c)
    BY AtFieldType, CsvReaderIs
  <1>2. << >> \in Seq(Char) /\ Special \subseteq Char
    BY Characters DEF Special
  <1>3. \A text, quoted : /\ at(text, quoted).quoted = quoted /\ at(text, quoted).field = text
                          /\ at(text, quoted).record = record
                          /\ at(text, quoted).records = records
    BY DEF AtField
  <1>4. ASSUME NEW c \in Char \ Special
        PROVE  CsvReader[<<at(field, "no"), c>>] = at(Append(field, c), "no")
    <2>1. ReadsCsv(at(field, "no"), c) = at(Append(field, c), "no")
      BY <1>4 DEF ReadsCsv, AtField, Special
    <2> QED
      BY <1>1, <2>1
  <1>5. CsvReader[<<at(<< >>, "no"), Quote>>] = at(<< >>, "in")
    <2>1. ReadsCsv(at(<< >>, "no"), Quote) = at(<< >>, "in")
      BY DEF ReadsCsv, AtField
    <2> QED
      BY <1>1, <1>2, <2>1 DEF Special
  <1>6. ASSUME NEW c \in Char \ {Quote}
        PROVE  CsvReader[<<at(field, "in"), c>>] = at(Append(field, c), "in")
    <2>1. ReadsCsv(at(field, "in"), c) = at(Append(field, c), "in")
      BY DEF ReadsCsv, AtField
    <2> QED
      BY <1>1, <2>1
  <1>7. CsvReader[<<at(field, "in"), Quote>>] = at(field, "closing")
    <2>1. ReadsCsv(at(field, "in"), Quote) = at(field, "closing")
      BY DEF ReadsCsv, AtField
    <2> QED
      BY <1>1, <1>2, <2>1 DEF Special
  <1>8. CsvReader[<<at(field, "closing"), Quote>>] = at(Append(field, Quote), "in")
    <2>1. ReadsCsv(at(field, "closing"), Quote) = at(Append(field, Quote), "in")
      BY DEF ReadsCsv, AtField
    <2> QED
      BY <1>1, <1>2, <2>1 DEF Special
  <1> QED
    BY <1>4, <1>5, <1>6, <1>7, <1>8

\* What ends a field, quoted or not.
LEMMA CsvEnds ==
    ASSUME NEW records \in Seq(Record), NEW record \in Record, NEW field \in Seq(Char),
           NEW quoted \in {"no", "closing"}
    PROVE  LET s == AtField(records, record, field, quoted)
           IN  /\ CsvReader[<<s, Comma>>] =
                     AtField(records, Append(record, field), << >>, "no")
               /\ CsvReader[<<s, NewLine>>] =
                     AtField(Append(records, Append(record, field)), << >>, << >>, "no")
PROOF
  <1> DEFINE s == AtField(records, record, field, quoted)
  <1>1. s \in ReaderState /\ Comma \in Char /\ NewLine \in Char
    BY AtFieldType, Characters
  <1>2. Comma # Quote /\ NewLine # Quote /\ NewLine # Comma
    BY DEF Comma, NewLine, Quote
  <1>3. ReadsCsv(s, Comma) = AtField(records, Append(record, field), << >>, "no")
    BY <1>2 DEF ReadsCsv, AtField, WithField
  <1>4. ReadsCsv(s, NewLine) =
           AtField(Append(records, Append(record, field)), << >>, << >>, "no")
    BY <1>2 DEF ReadsCsv, AtField, WithField
  <1> HIDE DEF s
  <1>5. CsvReader[<<s, Comma>>] = ReadsCsv(s, Comma)
        /\ CsvReader[<<s, NewLine>>] = ReadsCsv(s, NewLine)
    BY <1>1, CsvReaderIs
  <1> QED
    BY <1>3, <1>4, <1>5 DEF s

\* A text of no special characters is read as it is.
LEMMA PlainRead ==
    ASSUME NEW records \in Seq(Record), NEW record \in Record, NEW s \in Seq(Char),
           \A k \in 1..Len(s) : s[k] \notin Special
    PROVE  Takes(CsvReader, AtField(records, record, << >>, "no"), s,
                 AtField(records, record, s, "no"))
PROOF
  <1> DEFINE n == Len(s)
             at(text) == AtField(records, record, text, "no")
             g == [k \in 0..n |-> at(SubSeq(s, 1, k))]
  <1>1. n \in Nat /\ SubSeq(s, 1, 0) = << >> /\ SubSeq(s, 1, n) = s
    OBVIOUS
  <1>2. g[0] = at(<< >>) /\ g[n] = at(s)
    <2>1. 0 \in 0..n /\ n \in 0..n
      BY <1>1
    <2>2. g[0] = at(SubSeq(s, 1, 0)) /\ g[n] = at(SubSeq(s, 1, n))
      <3> HIDE DEF n, at
      <3> QED
        BY <2>1
    <2> QED
      BY <1>1, <2>2
  <1>3. ASSUME NEW k \in 1..n PROVE g[k] = CsvReader[<<g[k - 1], s[k]>>]
    <2> DEFINE part == SubSeq(s, 1, k - 1)
    <2>1. /\ part \in Seq(Char) /\ SubSeq(s, 1, k) = Append(part, s[k])
          /\ s[k] \in Char \ Special
      OBVIOUS
    <2>2. k \in 0..n /\ k - 1 \in 0..n
      BY <1>1
    <2>3. g[k - 1] = at(part) /\ g[k] = at(Append(part, s[k]))
      BY <2>1, <2>2
    <2> HIDE DEF part, g
    <2>4. CsvReader[<<at(part), s[k]>>] = at(Append(part, s[k]))
      BY <2>1, CsvSteps
    <2> QED
      BY <2>3, <2>4
  <1> HIDE DEF g, at
  <1>4. Takes(CsvReader, at(<< >>), s, at(s))
    BY <1>2, <1>3 DEF Takes
  <1> QED
    BY <1>4 DEF at

Doubled(s) == FlattenSeq([i \in DOMAIN s |-> IF s[i] = Quote THEN <<Quote, Quote>>
                                             ELSE <<s[i]>>])

\* Within quotes every text is read, its quotes having been doubled.
LEMMA DoubledRead ==
    ASSUME NEW records \in Seq(Record), NEW record \in Record, NEW s \in Seq(Char)
    PROVE  /\ Doubled(s) \in Seq(Char)
           /\ Takes(CsvReader, AtField(records, record, << >>, "in"), Doubled(s),
                    AtField(records, record, s, "in"))
PROOF
  <1> DEFINE n == Len(s)
             pieces == [i \in DOMAIN s |-> IF s[i] = Quote THEN <<Quote, Quote>> ELSE <<s[i]>>]
             at(text, quoted) == AtField(records, record, text, quoted)
             At(k) == at(SubSeq(s, 1, k), "in")
             T == Seq(Char)
  <1>1. n \in Nat /\ DOMAIN s = 1..n /\ (\A i \in 1..n : s[i] \in Char) /\ Quote \in Char
    BY Characters
  <1>2. /\ DOMAIN pieces = 1..n /\ pieces = [i \in 1..n |-> pieces[i]]
        /\ \A i \in 1..n : pieces[i] = IF s[i] = Quote THEN <<Quote, Quote>> ELSE <<s[i]>>
    BY <1>1
  <1>3. pieces \in Seq(T) /\ Len(pieces) = n
    <2>1. ASSUME NEW i \in 1..n PROVE pieces[i] \in T
      <3>1. <<Quote, Quote>> \in Seq(Char) /\ <<s[i]>> \in Seq(Char)
        BY <1>1
      <3> HIDE DEF pieces
      <3> QED
        BY <1>2, <3>1
    <2> HIDE DEF T, pieces, n
    <2> QED
      BY <1>1, <1>2, <2>1, SequenceOf
  <1>4. PICK g \in [0..n -> T] :
               /\ g[0] = << >> /\ FlattenSeq(pieces) = g[n]
               /\ \A k \in 1..n : g[k] = g[k - 1] \o pieces[k]
    <2> HIDE DEF pieces, n
    <2> QED
      BY <1>3, FlattenRuns
  <1> DEFINE F == CsvReader
             S == {k \in 0..n : Takes(F, At(0), g[k], At(k))}
  <1>5. 0 \in S
    <2>1. g[0] = << >> /\ 0 \in 0..n
      BY <1>1, <1>4
    <2> HIDE DEF At
    <2> QED
      BY <2>1, TakesNone
  <1>6. ASSUME NEW k \in 1..n, k - 1 \in S PROVE k \in S
    <2> DEFINE part == SubSeq(s, 1, k - 1)
               c == s[k]
    <2>1. part \in Seq(Char) /\ SubSeq(s, 1, k) = Append(part, c) /\ c \in Char
      BY <1>1
    <2>2. At(k - 1) = at(part, "in") /\ At(k) = at(Append(part, c), "in")
      BY <2>1
    <2>3. g[k] = g[k - 1] \o pieces[k] /\ g[k - 1] \in Seq(Char) /\ k \in 0..n
      <3>1. k - 1 \in 0..n /\ k \in 0..n
        BY <1>1
      <3> QED
        BY <1>4, <3>1
    <2>4. pieces[k] = IF c = Quote THEN <<Quote, Quote>> ELSE <<c>>
      BY <1>2
    <2>5. Takes(F, At(0), g[k - 1], At(k - 1))
      BY <1>6
    <2> HIDE DEF part, c, pieces, At, S, F
    <2>6. CASE c # Quote
      <3>1. F[<<At(k - 1), c>>] = At(k)
        <4>1. CsvReader[<<at(part, "in"), c>>] = at(Append(part, c), "in")
          BY <2>1, <2>6, CsvSteps
        <4> QED
          BY <2>2, <4>1 DEF F
      <3>2. Takes(F, At(k - 1), <<c>>, At(k))
        BY <3>1, TakesOne
      <3>3. <<c>> \in Seq(Char)
        BY <2>1
      <3>4. Takes(F, At(0), g[k], At(k))
        BY <2>3, <2>4, <2>5, <2>6, <3>2, <3>3, TakesBoth
      <3> QED
        BY <2>3, <3>4 DEF S
    <2>7. CASE c = Quote
      <3> DEFINE half == at(part, "closing")
      <3>1. F[<<At(k - 1), Quote>>] = half /\ F[<<half, Quote>>] = At(k)
        <4>1. /\ CsvReader[<<at(part, "in"), Quote>>] = half
              /\ CsvReader[<<half, Quote>>] = at(Append(part, Quote), "in")
          BY <2>1, CsvSteps
        <4> QED
          BY <2>2, <2>7, <4>1 DEF F
      <3> HIDE DEF half
      <3>2. Takes(F, At(k - 1), <<Quote>>, half) /\ Takes(F, half, <<Quote>>, At(k))
        BY <3>1, TakesOne
      <3>3. <<Quote>> \in Seq(Char) /\ <<Quote, Quote>> \in Seq(Char)
            /\ <<Quote>> \o <<Quote>> = <<Quote, Quote>>
        <4>1. <<Quote>> \in Seq(Char) /\ <<Quote, Quote>> \in Seq(Char)
          BY <1>1
        <4>2. /\ <<Quote>> \o <<Quote>> \in Seq(Char) /\ Len(<<Quote>> \o <<Quote>>) = 2
              /\ \A i \in 1..2 : (<<Quote>> \o <<Quote>>)[i] = Quote
          BY <1>1
        <4>3. Len(<<Quote, Quote>>) = 2 /\ \A i \in 1..2 : <<Quote, Quote>>[i] = Quote
          OBVIOUS
        <4>4. /\ Len(<<Quote>> \o <<Quote>>) = Len(<<Quote, Quote>>)
              /\ \A i \in 1..Len(<<Quote>> \o <<Quote>>) :
                    (<<Quote>> \o <<Quote>>)[i] = <<Quote, Quote>>[i]
          BY <4>2, <4>3
        <4>5. <<Quote>> \o <<Quote>> = <<Quote, Quote>>
          BY <4>1, <4>2, <4>4, SeqEqual, Zenon
        <4> QED
          BY <4>1, <4>5
      <3>4. Takes(F, At(k - 1), <<Quote, Quote>>, At(k))
        BY <3>2, <3>3, TakesBoth
      <3>5. Takes(F, At(0), g[k], At(k))
        BY <2>3, <2>4, <2>5, <2>7, <3>3, <3>4, TakesBoth
      <3> QED
        BY <2>3, <3>5 DEF S
    <2> QED
      BY <2>6, <2>7
  <1> HIDE DEF S
  <1>7. n \in S
    <2>1. \A k \in 0..n : k \in S
      <3> HIDE DEF n
      <3> QED
        BY <1>1, <1>5, <1>6, Upward
    <2> QED
      BY <1>1, <2>1
  <1>8. Takes(CsvReader, At(0), Doubled(s), At(n)) /\ Doubled(s) \in Seq(Char)
    <2>1. Takes(F, At(0), g[n], At(n))
      BY <1>7 DEF S
    <2>2. n \in 0..n
      BY <1>1
    <2>3. g[n] \in Seq(Char)
      BY <1>4, <2>2
    <2>4. Doubled(s) = g[n]
      BY <1>4 DEF Doubled
    <2> HIDE DEF At, n
    <2> QED
      BY <2>1, <2>3, <2>4
  <1>9. At(0) = at(<< >>, "in") /\ At(n) = at(s, "in")
    <2>1. SubSeq(s, 1, 0) = << >> /\ SubSeq(s, 1, n) = s
      OBVIOUS
    <2> QED
      BY <2>1
  <1> HIDE DEF At
  <1> QED
    BY <1>8, <1>9

\* How a reader may stand at the end of a field: an empty one was not quoted.
Ends(quoted, field) == quoted \in {"no", "closing"} /\ (field = << >> => quoted = "no")

\* A cell is read back, NULL as an empty text.
LEMMA CsvCell ==
    ASSUME NEW records \in Seq(Record), NEW record \in Record, NEW v \in Cell
    PROVE  /\ EscCsv(v) \in Seq(Char)
           /\ \E quoted : /\ Ends(quoted, Plain(v))
                          /\ Takes(CsvReader, AtField(records, record, << >>, "no"), EscCsv(v),
                                   AtField(records, record, Plain(v), quoted))
PROOF
  <1> DEFINE s == Plain(v)
             at(text, quoted) == AtField(records, record, text, quoted)
             special == \E c \in Special : Contains(s, c)
  <1>1. s \in Seq(Char) /\ Quote \in Char /\ Len(s) \in Nat /\ <<Quote>> \in Seq(Char)
    <2>1. s \in Seq(Char) /\ Quote \in Char
      BY PlainType, Characters
    <2> HIDE DEF s
    <2> QED
      BY <2>1
  <1>2. EscCsv(v) = IF special THEN <<Quote>> \o Doubled(s) \o <<Quote>> ELSE s
    BY DEF EscCsv, Special, Doubled
  <1> HIDE DEF s
  <1>3. CASE ~special
    <2>1. \A k \in 1..Len(s) : s[k] \notin Special
      BY <1>3 DEF Contains
    <2>2. Takes(CsvReader, at(<< >>, "no"), s, at(s, "no"))
      BY <1>1, <2>1, PlainRead
    <2>3. Ends("no", s)
      BY DEF Ends
    <2> QED
      BY <1>1, <1>2, <1>3, <2>2, <2>3 DEF s
  <1>4. CASE special
    <2>1. s # << >>
      BY <1>1, <1>4 DEF Contains
    <2>2. Doubled(s) \in Seq(Char)
          /\ Takes(CsvReader, at(<< >>, "in"), Doubled(s), at(s, "in"))
      BY <1>1, DoubledRead
    <2>3. << >> \in Seq(Char)
      OBVIOUS
    <2>4. /\ CsvReader[<<at(<< >>, "no"), Quote>>] = at(<< >>, "in")
          /\ CsvReader[<<at(s, "in"), Quote>>] = at(s, "closing")
      BY <1>1, CsvSteps
    <2> HIDE DEF at
    <2>5. Takes(CsvReader, at(<< >>, "no"), <<Quote>>, at(<< >>, "in"))
      BY <2>4, TakesOne
    <2>6. Takes(CsvReader, at(s, "in"), <<Quote>>, at(s, "closing"))
      BY <2>4, TakesOne
    <2>7. Takes(CsvReader, at(<< >>, "no"), <<Quote>> \o Doubled(s), at(s, "in"))
          /\ <<Quote>> \o Doubled(s) \in Seq(Char)
      <3>1. <<Quote>> \o Doubled(s) \in Seq(Char)
        BY <1>1, <2>2
      <3> QED
        BY <1>1, <2>2, <2>5, <3>1, TakesBoth
    <2>8. Takes(CsvReader, at(<< >>, "no"), <<Quote>> \o Doubled(s) \o <<Quote>>,
                at(s, "closing"))
      BY <1>1, <2>6, <2>7, TakesBoth
    <2>9. <<Quote>> \o Doubled(s) \o <<Quote>> \in Seq(Char)
      BY <1>1, <2>7
    <2>10. Ends("closing", s)
      BY <2>1 DEF Ends
    <2> QED
      BY <1>2, <1>4, <2>8, <2>9, <2>10 DEF s, at
  <1> QED
    BY <1>3, <1>4

CsvLine(cells) == Joined([c \in DOMAIN cells |-> EscCsv(cells[c])], Comma)
PlainRow(cells) == [c \in DOMAIN cells |-> Plain(cells[c])]

LEMMA PlainRowType ==
    ASSUME NEW cells \in Seq(Cell)
    PROVE  /\ PlainRow(cells) \in Record /\ Len(PlainRow(cells)) = Len(cells)
           /\ \A c \in 1..Len(cells) : PlainRow(cells)[c] = Plain(cells[c])
PROOF
  <1> DEFINE n == Len(cells)
             row == PlainRow(cells)
             T == Seq(Char)
  <1>1. n \in Nat /\ DOMAIN cells = 1..n /\ \A c \in 1..n : cells[c] \in Cell
    OBVIOUS
  <1>2. /\ DOMAIN row = 1..n /\ row = [c \in 1..n |-> row[c]]
        /\ \A c \in 1..n : row[c] = Plain(cells[c])
    BY <1>1 DEF PlainRow
  <1>3. \A c \in 1..n : row[c] \in T
    BY <1>1, <1>2, PlainType
  <1> HIDE DEF row, T, n
  <1>4. row \in Seq(T) /\ Len(row) = n
    BY <1>1, <1>2, <1>3, SequenceOf
  <1> QED
    BY <1>2, <1>4 DEF row, T, n, Record

\* The first of a sequence, and one more.
LEMMA UpToNext ==
    ASSUME NEW T, NEW s \in Seq(T), NEW k \in 1..Len(s)
    PROVE  /\ SubSeq(s, 1, k) = Append(SubSeq(s, 1, k - 1), s[k])
           /\ SubSeq(s, 1, k - 1) \in Seq(T) /\ s[k] \in T
PROOF
  OBVIOUS

\* The reader has met the rows of a table, or the cells of a row, up to the end of one.
AtEnd(records, row, k, quoted) == AtField(records, SubSeq(row, 1, k - 1), row[k], quoted)

\* A row is read back, but for the end of its line.
LEMMA CsvLineRead ==
    ASSUME NEW records \in Seq(Record), NEW cells \in Seq(Cell), cells # << >>
    PROVE  /\ CsvLine(cells) \in Seq(Char)
           /\ \E quoted :
                 /\ Ends(quoted, PlainRow(cells)[Len(cells)])
                 /\ Takes(CsvReader, AtField(records, << >>, << >>, "no"), CsvLine(cells),
                          AtEnd(records, PlainRow(cells), Len(cells), quoted))
PROOF
  <1> DEFINE n == Len(cells)
             parts == [c \in DOMAIN cells |-> EscCsv(cells[c])]
             row == PlainRow(cells)
             start == AtField(records, << >>, << >>, "no")
             F == CsvReader
             T == Seq(Char)
  <1>1. n \in Nat /\ n # 0 /\ DOMAIN cells = 1..n /\ \A c \in 1..n : cells[c] \in Cell
    OBVIOUS
  <1>2. /\ DOMAIN parts = 1..n /\ parts = [c \in 1..n |-> parts[c]]
        /\ \A c \in 1..n : parts[c] = EscCsv(cells[c])
    BY <1>1
  <1>3. row \in Seq(T) /\ Len(row) = n /\ \A c \in 1..n : row[c] = Plain(cells[c])
    BY PlainRowType DEF Record
  <1> HIDE DEF parts, n, row
  <1>4. << >> \in Record /\ \A e : e \in Seq(T) => e \in Record
    BY DEF Record
  <1>5. \A c \in 1..n : parts[c] \in T
    BY <1>1, <1>2, <1>4, CsvCell
  <1>6. parts \in Seq(T) /\ Len(parts) = n
    <2> HIDE DEF T
    <2> QED
      BY <1>1, <1>2, <1>5, SequenceOf
  <1>7. PICK g : Joins(g, Char, parts, Comma)
    <2>1. Comma \in Char
      BY Characters
    <2> QED
      BY <1>6, <2>1, JoinedRuns
  <1>8. /\ g \in [0..n -> T] /\ g[0] = << >> /\ Joined(parts, Comma) = g[n]
        /\ \A k \in 1..n :
              g[k] = IF k = 1 THEN parts[k] ELSE g[k - 1] \o (<<Comma>> \o parts[k])
    BY <1>6, <1>7 DEF Joins
  <1>9. ASSUME NEW k \in 1..n
        PROVE  /\ SubSeq(row, 1, k) = Append(SubSeq(row, 1, k - 1), row[k])
               /\ SubSeq(row, 1, k - 1) \in Record /\ row[k] \in T
    <2> HIDE DEF T
    <2> QED
      BY <1>3, <1>4, UpToNext
  <1> DEFINE S == {k \in 0..n : k # 0 =>
                      \E quoted : /\ Ends(quoted, row[k])
                                  /\ Takes(F, start, g[k], AtEnd(records, row, k, quoted))}
  <1>10. ASSUME NEW k \in 1..n, k - 1 \in S PROVE k \in S
    <2>1. k \in 0..n /\ k # 0 /\ parts[k] \in T
      BY <1>1, <1>5
    <2>2. PICK quoted : /\ Ends(quoted, row[k])
                        /\ Takes(F, AtField(records, SubSeq(row, 1, k - 1), << >>, "no"),
                                 parts[k], AtEnd(records, row, k, quoted))
      <3>1. cells[k] \in Cell /\ parts[k] = EscCsv(cells[k]) /\ row[k] = Plain(cells[k])
        BY <1>1, <1>2, <1>3
      <3> HIDE DEF F
      <3> QED
        BY <1>9, <3>1, CsvCell DEF AtEnd, F
    <2> HIDE DEF F, T
    <2>3. Takes(F, start, g[k], AtEnd(records, row, k, quoted))
      <3>1. CASE k = 1
        <4>1. SubSeq(row, 1, k - 1) = << >>
          <5>1. k - 1 = 0
            BY <3>1
          <5>2. SubSeq(row, 1, 0) = << >>
            BY <1>3
          <5> QED
            BY <5>1, <5>2
        <4>2. g[k] = parts[k]
          BY <1>8, <3>1
        <4> QED
          BY <2>2, <4>1, <4>2
      <3>2. CASE k # 1
        <4>1. k - 1 # 0 /\ k - 1 \in 0..n /\ k - 1 \in 1..n
          BY <1>1, <3>2
        <4>2. PICK q : /\ Ends(q, row[k - 1])
                       /\ Takes(F, start, g[k - 1], AtEnd(records, row, k - 1, q))
          BY <1>10, <4>1
        <4>3. g[k - 1] \in T
          BY <1>8, <4>1
        <4>4. F[<<AtEnd(records, row, k - 1, q), Comma>>]
                 = AtField(records, SubSeq(row, 1, k - 1), << >>, "no")
          <5>1. /\ SubSeq(row, 1, (k - 1) - 1) \in Record /\ row[k - 1] \in Seq(Char)
                /\ SubSeq(row, 1, k - 1) = Append(SubSeq(row, 1, (k - 1) - 1), row[k - 1])
            BY <1>9, <4>1 DEF T
          <5>2. q \in {"no", "closing"}
            BY <4>2 DEF Ends
          <5> QED
            BY <5>1, <5>2, CsvEnds, ZenonT(60) DEF AtEnd, F
        <4>5. Takes(F, AtEnd(records, row, k - 1, q), <<Comma>>,
                    AtField(records, SubSeq(row, 1, k - 1), << >>, "no"))
          BY <4>4, TakesOne
        <4>6. <<Comma>> \in Seq(Char) /\ <<Comma>> \o parts[k] \in Seq(Char)
          <5>1. Comma \in Char /\ parts[k] \in Seq(Char)
            BY <2>1, Characters DEF T
          <5> QED
            BY <5>1
        <4>7. Takes(F, AtEnd(records, row, k - 1, q), <<Comma>> \o parts[k],
                    AtEnd(records, row, k, quoted))
          BY <2>1, <2>2, <4>5, <4>6, TakesBoth DEF T
        <4>8. Takes(F, start, g[k - 1] \o (<<Comma>> \o parts[k]),
                    AtEnd(records, row, k, quoted))
          BY <4>2, <4>3, <4>6, <4>7, TakesBoth DEF T
        <4> QED
          BY <1>8, <3>2, <4>8
      <3> QED
        BY <3>1, <3>2
    <2> QED
      BY <2>1, <2>2, <2>3
  <1>11. 0 \in S
    BY <1>1
  <1> HIDE DEF S
  <1>12. n \in S
    <2>1. \A k \in 0..n : k \in S
      BY <1>1, <1>10, <1>11, Upward
    <2> QED
      BY <1>1, <2>1
  <1>13. CsvLine(cells) = g[n] /\ g[n] \in T
    <2>1. n \in 0..n
      BY <1>1
    <2> QED
      BY <1>8, <2>1 DEF CsvLine, parts
  <1>14. \E quoted : /\ Ends(quoted, row[n])
                     /\ Takes(F, start, g[n], AtEnd(records, row, n, quoted))
    BY <1>1, <1>12 DEF S
  <1> QED
    BY <1>13, <1>14 DEF row, n

LEMMA PlainTableIs ==
    ASSUME NEW table \in Tables
    PROVE  /\ PlainTable(table) \in Seq(Record) /\ Len(PlainTable(table)) = Len(table)
           /\ \A i \in 1..Len(table) : PlainTable(table)[i] = PlainRow(table[i])
PROOF
  <1> DEFINE n == Len(table)
             t == PlainTable(table)
  <1>1. n \in Nat /\ DOMAIN table = 1..n /\ \A i \in 1..n : table[i] \in Seq(Cell)
    BY TableRows
  <1>2. /\ DOMAIN t = 1..n /\ t = [i \in 1..n |-> t[i]]
        /\ \A i \in 1..n : t[i] = PlainRow(table[i])
    BY <1>1 DEF PlainTable, PlainRow
  <1> HIDE DEF t, n
  <1>3. \A i \in 1..n : t[i] \in Record
    BY <1>1, <1>2, PlainRowType
  <1>4. t \in Seq(Record) /\ Len(t) = n
    BY <1>1, <1>2, <1>3, SequenceOf
  <1> QED
    BY <1>2, <1>4 DEF t, n

\* A table is read back, but for the end of its last row.
LEMMA CsvTableRead ==
    ASSUME NEW table \in Tables
    PROVE  LET t == PlainTable(table)
               n == Len(table)
               text == Serialized(Comma, TRUE, table)
           IN  /\ text \in Seq(Char)
               /\ \E quoted :
                     /\ Ends(quoted, t[n][Len(t[n])])
                     /\ Takes(CsvReader, NothingRead, text,
                              AtEnd(SubSeq(t, 1, n - 1), t[n], Len(t[n]), quoted))
PROOF
  <1> DEFINE n == Len(table)
             t == PlainTable(table)
             parts == [i \in DOMAIN table |-> CsvLine(table[i])]
             F == CsvReader
             T == Seq(Char)
             start(k) == AtField(SubSeq(t, 1, k - 1), << >>, << >>, "no")
             end(k, quoted) == AtEnd(SubSeq(t, 1, k - 1), t[k], Len(t[k]), quoted)
  <1>1. /\ n \in Nat /\ n # 0 /\ DOMAIN table = 1..n
        /\ \A i \in 1..n : /\ table[i] \in Seq(Cell) /\ table[i] # << >>
                            /\ Len(table[i]) \in Nat \ {0}
    BY TableRows
  <1>2. Serialized(Comma, TRUE, table) = Joined(parts, NewLine)
    BY DEF Serialized, CsvLine
  <1>3. /\ DOMAIN parts = 1..n /\ parts = [i \in 1..n |-> parts[i]]
        /\ \A i \in 1..n : parts[i] = CsvLine(table[i])
    BY <1>1
  <1>4. /\ t \in Seq(Record) /\ Len(t) = n
        /\ \A i \in 1..n : t[i] = PlainRow(table[i]) /\ t[i] \in Record
                           /\ Len(t[i]) = Len(table[i])
    BY <1>1, PlainTableIs, PlainRowType
  <1> HIDE DEF parts, n, t
  <1>5. ASSUME NEW k \in 1..n
        PROVE  /\ SubSeq(t, 1, k) = Append(SubSeq(t, 1, k - 1), t[k])
               /\ SubSeq(t, 1, k - 1) \in Seq(Record)
    BY <1>4, UpToNext
  <1>6. ASSUME NEW k \in 1..n
        PROVE  /\ parts[k] \in T
               /\ \E quoted : /\ Ends(quoted, t[k][Len(t[k])])
                              /\ Takes(F, start(k), parts[k], end(k, quoted))
    <2>1. /\ table[k] \in Seq(Cell) /\ table[k] # << >> /\ parts[k] = CsvLine(table[k])
          /\ t[k] = PlainRow(table[k]) /\ Len(t[k]) = Len(table[k])
      BY <1>1, <1>3, <1>4
    <2>2. SubSeq(t, 1, k - 1) \in Seq(Record)
      BY <1>5
    <2>3. /\ CsvLine(table[k]) \in Seq(Char)
          /\ \E quoted :
                /\ Ends(quoted, PlainRow(table[k])[Len(table[k])])
                /\ Takes(CsvReader, start(k), CsvLine(table[k]),
                         AtEnd(SubSeq(t, 1, k - 1), PlainRow(table[k]), Len(table[k]), quoted))
      BY <2>1, <2>2, CsvLineRead
    <2> QED
      BY <2>1, <2>3
  <1>7. parts \in Seq(T) /\ Len(parts) = n
    <2>1. \A i \in 1..n : parts[i] \in T
      BY <1>6
    <2> HIDE DEF T
    <2> QED
      BY <1>1, <1>3, <2>1, SequenceOf
  <1>8. PICK g : Joins(g, Char, parts, NewLine)
    <2>1. NewLine \in Char
      BY Characters
    <2> QED
      BY <1>7, <2>1, JoinedRuns
  <1>9. /\ g \in [0..n -> T] /\ g[0] = << >> /\ Joined(parts, NewLine) = g[n]
        /\ \A k \in 1..n :
              g[k] = IF k = 1 THEN parts[k] ELSE g[k - 1] \o (<<NewLine>> \o parts[k])
    BY <1>7, <1>8 DEF Joins
  <1> HIDE DEF T, F, start, end
  <1> DEFINE S == {k \in 0..n : k # 0 =>
                      \E quoted : /\ Ends(quoted, t[k][Len(t[k])])
                                  /\ Takes(F, NothingRead, g[k], end(k, quoted))}
  <1>10. ASSUME NEW k \in 1..n, k - 1 \in S PROVE k \in S
    <2>1. k \in 0..n /\ k # 0 /\ parts[k] \in T
      BY <1>1, <1>6
    <2>2. PICK quoted : /\ Ends(quoted, t[k][Len(t[k])])
                        /\ Takes(F, start(k), parts[k], end(k, quoted))
      BY <1>6
    <2>3. Takes(F, NothingRead, g[k], end(k, quoted))
      <3>1. CASE k = 1
        <4>1. SubSeq(t, 1, k - 1) = << >>
          <5>1. k - 1 = 0
            BY <3>1
          <5>2. SubSeq(t, 1, 0) = << >>
            BY <1>4
          <5> QED
            BY <5>1, <5>2
        <4>2. g[k] = parts[k]
          BY <1>9, <3>1
        <4>3. start(k) = NothingRead
          BY <4>1, CsvReaderIs DEF start
        <4> QED
          BY <2>2, <4>2, <4>3
      <3>2. CASE k # 1
        <4>1. k - 1 # 0 /\ k - 1 \in 0..n /\ k - 1 \in 1..n
          BY <1>1, <3>2
        <4>2. PICK q : /\ Ends(q, t[k - 1][Len(t[k - 1])])
                       /\ Takes(F, NothingRead, g[k - 1], end(k - 1, q))
          BY <1>10, <4>1
        <4>3. g[k - 1] \in T
          BY <1>9, <4>1
        <4>4. F[<<end(k - 1, q), NewLine>>] = start(k)
          <5> DEFINE row == t[k - 1]
                     m == Len(t[k - 1])
                     records == SubSeq(t, 1, (k - 1) - 1)
          <5>1. /\ records \in Seq(Record) /\ SubSeq(t, 1, k - 1) = Append(records, row)
                /\ row \in Record /\ m \in Nat \ {0}
            BY <1>1, <1>4, <1>5, <4>1
          <5>2. q \in {"no", "closing"}
            BY <4>2 DEF Ends
          <5>3. /\ SubSeq(row, 1, m - 1) \in Record /\ row[m] \in Seq(Char)
                /\ Append(SubSeq(row, 1, m - 1), row[m]) = row
            <6>1. row \in Seq(T) /\ m \in 1..Len(row)
              BY <5>1 DEF Record, T
            <6>2. SubSeq(row, 1, m) = row
              BY <6>1
            <6> HIDE DEF row, m
            <6>3. /\ SubSeq(row, 1, m) = Append(SubSeq(row, 1, m - 1), row[m])
                  /\ SubSeq(row, 1, m - 1) \in Seq(T) /\ row[m] \in T
              BY <6>1, UpToNext
            <6> QED
              BY <6>2, <6>3 DEF T, Record
          <5>4. end(k - 1, q) = AtField(records, SubSeq(row, 1, m - 1), row[m], q)
            BY DEF end, AtEnd
          <5>5. start(k) = AtField(Append(records, row), << >>, << >>, "no")
            BY <5>1 DEF start
          <5> HIDE DEF row, m, records
          <5>6. CsvReader[<<AtField(records, SubSeq(row, 1, m - 1), row[m], q), NewLine>>]
                   = AtField(Append(records, Append(SubSeq(row, 1, m - 1), row[m])),
                             << >>, << >>, "no")
            BY <5>1, <5>2, <5>3, CsvEnds, ZenonT(60)
          <5> QED
            BY <5>3, <5>4, <5>5, <5>6 DEF F
        <4>5. Takes(F, end(k - 1, q), <<NewLine>>, start(k))
          BY <4>4, TakesOne
        <4>6. <<NewLine>> \in Seq(Char) /\ <<NewLine>> \o parts[k] \in Seq(Char)
          <5>1. NewLine \in Char /\ parts[k] \in Seq(Char)
            BY <2>1, Characters DEF T
          <5> QED
            BY <5>1
        <4>7. Takes(F, end(k - 1, q), <<NewLine>> \o parts[k], end(k, quoted))
          BY <2>1, <2>2, <4>5, <4>6, TakesBoth DEF T
        <4>8. Takes(F, NothingRead, g[k - 1] \o (<<NewLine>> \o parts[k]), end(k, quoted))
          BY <4>2, <4>3, <4>6, <4>7, TakesBoth DEF T
        <4> QED
          BY <1>9, <3>2, <4>8
      <3> QED
        BY <3>1, <3>2
    <2> QED
      BY <2>1, <2>2, <2>3
  <1>11. 0 \in S
    BY <1>1
  <1> HIDE DEF S
  <1>12. n \in S
    <2>1. \A k \in 0..n : k \in S
      BY <1>1, <1>10, <1>11, Upward
    <2> QED
      BY <1>1, <2>1
  <1>13. Serialized(Comma, TRUE, table) = g[n] /\ g[n] \in T
    <2>1. n \in 0..n
      BY <1>1
    <2> QED
      BY <1>2, <1>9, <2>1
  <1>14. \E quoted : /\ Ends(quoted, t[n][Len(t[n])])
                     /\ Takes(F, NothingRead, g[n], end(n, quoted))
    BY <1>1, <1>12 DEF S
  <1> QED
    BY <1>13, <1>14 DEF n, t, end, F, T

\* The text of a table reads back as the table, but for a last row of one empty cell.
LEMMA CsvReadsBack ==
    ASSUME NEW table \in Tables
    PROVE  LET t == PlainTable(table)
           IN  ReadCsv(Serialized(Comma, TRUE, table))
                  = IF Last(t) = << << >> >> THEN Front(t) ELSE t
PROOF
  <1> DEFINE n == Len(table)
             t == PlainTable(table)
             text == Serialized(Comma, TRUE, table)
             row == t[n]
             m == Len(t[n])
             first == SubSeq(t, 1, n - 1)
  <1>1. PICK quoted : /\ Ends(quoted, row[m])
                      /\ Takes(CsvReader, NothingRead, text, AtEnd(first, row, m, quoted))
    BY CsvTableRead
  <1>2. text \in Seq(Char)
    BY CsvTableRead
  <1>3. /\ n \in Nat /\ n # 0 /\ t \in Seq(Record) /\ Len(t) = n
        /\ row \in Record /\ m \in Nat /\ m # 0
    <2>1. n \in Nat /\ n # 0 /\ table[n] \in Seq(Cell) /\ Len(table[n]) \in Nat \ {0}
      BY TableRows
    <2>2. t \in Seq(Record) /\ Len(t) = n /\ t[n] = PlainRow(table[n])
      BY <2>1, PlainTableIs
    <2>3. t[n] \in Record /\ Len(t[n]) = Len(table[n])
      BY <2>1, <2>2, PlainRowType
    <2> QED
      BY <2>1, <2>2, <2>3
  <1> HIDE DEF n, t, text, m
  <1>4. CsvEnd(text) = AtEnd(first, row, m, quoted)
    BY <1>1, <1>2, CsvRuns, TakesOnce
  <1>5. /\ t = Append(first, row) /\ Front(t) = first /\ Last(t) = row
        /\ first \in Seq(Record)
    <2>1. SubSeq(t, 1, n) = t /\ n \in 1..Len(t)
      BY <1>3
    <2>2. SubSeq(t, 1, n) = Append(SubSeq(t, 1, n - 1), t[n])
          /\ SubSeq(t, 1, n - 1) \in Seq(Record)
      BY <1>3, <2>1, UpToNext
    <2> QED
      BY <1>3, <2>1, <2>2 DEF Front, Last
  <1>6. /\ row = Append(SubSeq(row, 1, m - 1), row[m]) /\ row[m] \in Seq(Char)
        /\ SubSeq(row, 1, m - 1) \in Record
    <2> DEFINE T == Seq(Char)
    <2>1. row \in Seq(T) /\ m \in 1..Len(row)
      BY <1>3 DEF m, Record
    <2>2. SubSeq(row, 1, m) = row
      BY <2>1 DEF m
    <2> HIDE DEF row, T
    <2>3. /\ SubSeq(row, 1, m) = Append(SubSeq(row, 1, m - 1), row[m])
          /\ SubSeq(row, 1, m - 1) \in Seq(T) /\ row[m] \in T
      BY <2>1, UpToNext
    <2> QED
      BY <2>2, <2>3 DEF T, Record
  <1> DEFINE end == AtEnd(first, row, m, quoted)
             done == end.record = << >> /\ end.field = << >> /\ end.quoted = "no"
  <1>7. /\ end.records = first /\ end.record = SubSeq(row, 1, m - 1) /\ end.field = row[m]
        /\ end.quoted = quoted
    BY DEF AtEnd, AtField
  <1>8. done <=> row = << << >> >>
    <2>1. ASSUME done PROVE row = << << >> >>
      <3>1. SubSeq(row, 1, m - 1) = << >> /\ row[m] = << >>
        BY <1>7, <2>1
      <3>2. Append(<< >>, << >>) = << << >> >>
        OBVIOUS
      <3> HIDE DEF row
      <3> QED
        BY <1>6, <3>1, <3>2
    <2>2. ASSUME row = << << >> >> PROVE done
      <3>1. m = 1
        BY <2>2 DEF m
      <3>2. row[m] = << >> /\ SubSeq(row, 1, m - 1) = << >>
        BY <2>2, <3>1
      <3> QED
        BY <1>1, <1>7, <3>2 DEF Ends
    <2> QED
      BY <2>1, <2>2
  <1>9. ReadCsv(text) = IF done THEN end.records ELSE Append(end.records, WithField(end))
    <2>1. end = FoldLeft(ReadsCsv, NothingRead, text)
      BY <1>4 DEF CsvEnd
    <2> HIDE DEF end
    <2> QED
      BY <2>1 DEF ReadCsv
  <1>10. Append(end.records, WithField(end)) = t
    BY <1>5, <1>6, <1>7 DEF WithField
  <1>11. ReadCsv(text) = IF Last(t) = << << >> >> THEN Front(t) ELSE t
    BY <1>5, <1>7, <1>8, <1>9, <1>10
  <1> QED
    BY <1>11 DEF text, t

-----------------------------------------------------------------------------
(* What was saved, what was copied *)

\* A header and what is below it.
LEMMA HeaderAndRows ==
    ASSUME NEW T, NEW header \in T, NEW rows \in Seq(T)
    PROVE  /\ <<header>> \o rows \in Seq(T) /\ Len(<<header>> \o rows) = Len(rows) + 1
           /\ \A i \in 1..(Len(rows) + 1) :
                 (<<header>> \o rows)[i] = IF i = 1 THEN header ELSE rows[i - 1]
PROOF
  OBVIOUS

\* What is shown when there is a row to copy.
LEMMA ShownIsTable ==
    ASSUME IInv, result.rows # << >>
    PROVE  Shown \in Tables
PROOF
  <1> DEFINE n == Len(result.rows)
             m == Len(result.names)
             rows == [i \in DOMAIN order |-> result.rows[order[i]]]
             T == Seq(Cell)
  <1>1. result \in Results /\ result # NoResult
    BY DEF IInv, NoResult
  <1>2. result.names \in Seq(Texts) /\ result.names # << >> /\ m \in Nat /\ m # 0
    <2>1. result.names \in Seq(Texts) \ {<< >>}
      BY <1>1, ConstantsAssumption
    <2> QED
      BY <2>1
  <1>3. DOMAIN result.names = 1..m /\ n \in Nat
        /\ DOMAIN result.rows = 1..n
        /\ \A k \in 1..n : result.rows[k] \in [1..m -> Cell]
    <2> DEFINE Rows == [DOMAIN result.names -> Texts \cup {Null}]
    <2>1. result.rows \in Seq(Rows) /\ DOMAIN result.names = 1..m
      BY <1>1, ResultShape
    <2> HIDE DEF Rows
    <2>2. n \in Nat /\ DOMAIN result.rows = 1..n /\ \A k \in 1..n : result.rows[k] \in Rows
      BY <2>1
    <2> QED
      BY <2>1, <2>2 DEF Rows, Cell
  <1>4. DOMAIN order \in {1..n, {}} /\ \A i \in DOMAIN order : order[i] \in 1..n
    <2>1. CASE sort = NoSort \/ sort.col \in DOMAIN result.names
      <3>1. order \in Orderings(n)
        BY <1>1, <2>1, OrdersPermute DEF IInv
      <3> QED
        BY <3>1 DEF Orderings
    <2>2. CASE sort # NoSort /\ sort.col \notin DOMAIN result.names
      <3>1. order = << >>
        BY <2>2 DEF IInv, Orders
      <3> QED
        BY <3>1
    <2> QED
      BY <2>1, <2>2
  <1>5. PICK l \in Nat : DOMAIN order = 1..l
    <2>1. 1..0 = {} /\ 0 \in Nat
      OBVIOUS
    <2> QED
      BY <1>3, <1>4, <2>1
  <1> HIDE DEF n, m
  <1>6. \A k \in 1..n : result.rows[k] \in T /\ result.rows[k] # << >>
    <2>1. ASSUME NEW row \in [1..m -> Cell] PROVE row \in T /\ row # << >>
      <3>1. /\ DOMAIN row = 1..m /\ row = [c \in 1..m |-> row[c]]
            /\ \A c \in 1..m : row[c] \in Cell
        OBVIOUS
      <3>2. row \in Seq(Cell) /\ Len(row) = m
        BY <1>2, <3>1, SequenceOf
      <3> QED
        BY <1>2, <3>2
    <2> QED
      BY <1>3, <2>1
  <1>7. rows \in Seq(T) /\ Len(rows) = l /\ \A i \in 1..l : rows[i] # << >>
    <2>1. /\ DOMAIN rows = 1..l /\ rows = [i \in 1..l |-> rows[i]]
          /\ \A i \in 1..l : rows[i] = result.rows[order[i]]
      BY <1>5
    <2> HIDE DEF rows
    <2>2. \A i \in 1..l : rows[i] \in T /\ rows[i] # << >>
      BY <1>4, <1>5, <1>6, <2>1
    <2> HIDE DEF T
    <2> QED
      BY <2>1, <2>2, SequenceOf
  <1>8. result.names \in T /\ result.names # << >>
    BY <1>2 DEF Cell
  <1>9. Shown = <<result.names>> \o rows
    BY DEF Shown
  <1> HIDE DEF rows, T
  <1> DEFINE t == <<result.names>> \o rows
  <1>10. t \in Seq(T) /\ Len(t) = l + 1 /\ \A i \in 1..(l + 1) : t[i] # << >>
    <2>1. t \in Seq(T) /\ Len(t) = l + 1
          /\ \A i \in 1..(l + 1) : t[i] = IF i = 1 THEN result.names ELSE rows[i - 1]
      BY <1>7, <1>8, HeaderAndRows
    <2> HIDE DEF t
    <2>2. ASSUME NEW i \in 1..(l + 1) PROVE t[i] # << >>
      <3>1. CASE i = 1
        BY <1>8, <2>1, <3>1
      <3>2. CASE i # 1
        <4>1. i - 1 \in 1..l
          BY <3>2
        <4> QED
          BY <1>7, <2>1, <3>2, <4>1
      <3> QED
        BY <3>1, <3>2
    <2> QED
      BY <2>1, <2>2
  <1> HIDE DEF t
  <1>11. t # << >>
    BY <1>10
  <1> QED
    BY <1>9, <1>10, <1>11 DEF t, T, Tables

\* A text that is on its way to the clipboard, or on it, is that of its table.
IsCopy(c) == c # NoCopy => c.table \in Tables /\ c.text = Serialized(Tab, FALSE, c.table)

\* What is in flight was on screen, and a file said to be saved holds all of it.
TableInv ==
    /\ (\A c \in copying : IsCopy(c)) /\ IsCopy(clip)
    /\ \A w \in saving : w.table \in Tables
    /\ saved # NoTable => saved \in Tables /\ (cut \/ file = Serialized(Comma, TRUE, saved))

LEMMA TableInvStep == IInv /\ TableInv /\ [Next]_vars => TableInv'
PROOF
  <1> SUFFICES ASSUME IInv, TableInv, [Next]_vars PROVE TableInv'
    OBVIOUS
  <1>1. ASSUME UNCHANGED <<saving, copying, file, saved, cut, clip>> PROVE TableInv'
    BY <1>1 DEF TableInv, IsCopy
  <1>2. CASE \E r \in Results : QueryReturns(r)
    BY <1>1, <1>2 DEF QueryReturns
  <1>3. CASE ResultGone
    BY <1>1, <1>3 DEF ResultGone
  <1>4. CASE \E col \in DOMAIN result.names : ToggleSort(col)
    BY <1>1, <1>4 DEF ToggleSort
  <1>5. CASE ClickCopy
    <2>1. Shown \in Tables
      BY <1>5, ShownIsTable DEF ClickCopy, Click
    <2>2. /\ copying' = copying
                 \cup {[text |-> Serialized(Tab, FALSE, Shown), table |-> Shown]}
          /\ UNCHANGED <<saving, file, saved, cut, clip>>
      BY <1>5 DEF ClickCopy
    <2>3. IsCopy([text |-> Serialized(Tab, FALSE, Shown), table |-> Shown])
      BY <2>1 DEF IsCopy
    <2> QED
      BY <2>2, <2>3 DEF TableInv, IsCopy
  <1>6. CASE Copied
    <2>1. PICK c \in copying : copying' = copying \ {c} /\ clip' \in {c, clip}
      BY <1>6 DEF Copied
    <2>2. UNCHANGED <<saving, file, saved, cut>>
      BY <1>6 DEF Copied
    <2>3. IsCopy(clip') /\ \A x \in copying' : IsCopy(x)
      BY <2>1 DEF TableInv
    <2> QED
      BY <2>2, <2>3 DEF TableInv, IsCopy
  <1>7. CASE ClickExport
    <2>1. Shown \in Tables
      BY <1>7, ShownIsTable DEF ClickExport, Click
    <2>2. /\ saving' = saving \cup {[at |-> "dialog", table |-> Shown]}
          /\ UNCHANGED <<copying, file, saved, cut, clip>>
      BY <1>7 DEF ClickExport
    <2>3. \A w \in saving' : w.table \in Tables
      <3> DEFINE new == [at |-> "dialog", table |-> Shown]
      <3>1. new.table = Shown
        OBVIOUS
      <3> HIDE DEF new
      <3> QED
        BY <2>1, <2>2, <3>1 DEF TableInv, new
    <2> QED
      BY <2>2, <2>3 DEF TableInv, IsCopy
  <1>8. CASE \E chosen \in BOOLEAN : Pick(chosen)
    <2>1. PICK w \in saving :
             \/ saving' = saving \ {w}
             \/ saving' = (saving \ {w}) \cup {[at |-> "write", table |-> w.table]}
      BY <1>8 DEF Pick
    <2>2. UNCHANGED <<copying, file, saved, cut, clip>>
      BY <1>8 DEF Pick
    <2>3. \A x \in saving' : x.table \in Tables
      <3> DEFINE new == [at |-> "write", table |-> w.table]
      <3>1. new.table = w.table
        OBVIOUS
      <3> HIDE DEF new
      <3> QED
        BY <2>1, <3>1 DEF TableInv, new
    <2> QED
      BY <2>2, <2>3 DEF TableInv, IsCopy
  <1>9. CASE WriteFile
    <2>1. UNCHANGED <<copying, clip>>
      BY <1>9 DEF WriteFile
    <2>2. PICK w \in saving :
             /\ saving' = saving \ {w}
             /\ \/ UNCHANGED <<file, saved, cut>>
                \/ file' = Text(w) /\ saved' = w.table
                \/ saved' = NoTable
                \/ saved' = w.table /\ cut' = TRUE
      BY <1>9 DEF WriteFile
    <2>3. w.table \in Tables /\ Text(w) = Serialized(Comma, TRUE, w.table)
      BY DEF TableInv, Text
    <2>4. saved' # NoTable =>
             saved' \in Tables /\ (cut' \/ file' = Serialized(Comma, TRUE, saved'))
      BY <2>2, <2>3 DEF TableInv
    <2> QED
      BY <2>1, <2>2, <2>4 DEF TableInv, IsCopy
  <1>10. CASE UNCHANGED vars
    BY <1>1, <1>10 DEF vars
  <1> QED
    BY <1>2, <1>3, <1>4, <1>5, <1>6, <1>7, <1>8, <1>9, <1>10 DEF Next

LEMMA TableInvariant == Spec => []TableInv
PROOF
  <1>1. Init => TableInv
    BY DEF Init, TableInv, IsCopy
  <1> QED
    BY <1>1, TableInvStep, Invariant, PTL DEF Spec

\* A file said to be saved reads back as the table on screen at the click (escCsv and
\* serializeResult, app.write_file), whatever texts are in it.
THEOREM SavedFilesReadBack == Spec => []SavedReadsBack
PROOF
  <1>1. TableInv => SavedReadsBack
    <2> SUFFICES ASSUME TableInv, saved # NoTable, ~cut PROVE SavedReadsBack
      BY DEF SavedReadsBack
    <2>1. saved \in Tables /\ file = Serialized(Comma, TRUE, saved)
      BY DEF TableInv
    <2> QED
      BY <2>1, CsvReadsBack DEF SavedReadsBack
  <1> QED
    BY <1>1, TableInvariant, PTL

\* What was copied pastes as as many rows of as many cells (escTsv and serializeResult,
\* copyResult), whatever texts are in it.
THEOREM CopiesPaste == Spec => []CopiedPastes
PROOF
  <1>1. TableInv => CopiedPastes
    <2> SUFFICES ASSUME TableInv, clip # NoCopy PROVE CopiedPastes
      BY DEF CopiedPastes
    <2> DEFINE lines == SplitAt(clip.text, NewLine)
               t == PlainTable(clip.table)
    <2>1. clip.table \in Tables /\ clip.text = Serialized(Tab, FALSE, clip.table)
      BY DEF TableInv, IsCopy
    <2>2. /\ Len(lines) = Len(clip.table)
          /\ \A i \in 1..Len(clip.table) :
                SplitAt(lines[i], Tab) =
                   [c \in DOMAIN clip.table[i] |-> EscTsv(clip.table[i][c])]
      BY <2>1, TsvSplits
    <2>3. /\ t \in Seq(Record) /\ Len(t) = Len(clip.table)
          /\ \A i \in 1..Len(clip.table) : t[i] = PlainRow(clip.table[i])
      BY <2>1, PlainTableIs
    <2> HIDE DEF lines, t
    <2>4. ASSUME NEW i \in DOMAIN t
          PROVE  /\ Len(SplitAt(lines[i], Tab)) = Len(t[i])
                 /\ \A c \in DOMAIN t[i] :
                       (\A x \in Breaks : ~Contains(t[i][c], x))
                       => SplitAt(lines[i], Tab)[c] = t[i][c]
      <3> DEFINE cells == clip.table[i]
                 shown == [c \in DOMAIN cells |-> EscTsv(cells[c])]
                 n == Len(cells)
      <3>1. i \in 1..Len(clip.table)
        BY <2>3
      <3>2. /\ cells \in Seq(Cell) /\ n \in Nat /\ DOMAIN cells = 1..n
            /\ \A c \in 1..n : cells[c] \in Cell
        BY <2>1, <3>1, TableRows
      <3>3. /\ t[i] \in Record /\ Len(t[i]) = n /\ DOMAIN t[i] = 1..n
            /\ \A c \in 1..n : t[i][c] = Plain(cells[c])
        <4>1. t[i] = PlainRow(cells)
          BY <2>3, <3>1
        <4>2. /\ t[i] \in Record /\ Len(t[i]) = n
              /\ \A c \in 1..n : t[i][c] = Plain(cells[c])
          BY <3>2, <4>1, PlainRowType
        <4>3. DOMAIN t[i] = 1..n
          BY <4>2 DEF Record
        <4> QED
          BY <4>2, <4>3
      <3>4. /\ DOMAIN shown = 1..n /\ shown = [c \in 1..n |-> shown[c]]
            /\ \A c \in 1..n : shown[c] = EscTsv(cells[c])
        BY <3>2
      <3>5. SplitAt(lines[i], Tab) = shown
        BY <2>2, <3>1
      <3> HIDE DEF shown, cells, n
      <3>6. Len(shown) = n
        <4> DEFINE T == Seq(Char)
        <4>1. \A c \in 1..n : shown[c] \in T
          BY <3>2, <3>4, TsvCell
        <4> HIDE DEF T
        <4> QED
          BY <3>2, <3>4, <4>1, SequenceOf
      <3>7. ASSUME NEW c \in 1..n, \A x \in Breaks : ~Contains(t[i][c], x)
            PROVE  shown[c] = t[i][c]
        BY <3>2, <3>3, <3>4, <3>7, TsvCell
      <3> QED
        BY <3>3, <3>5, <3>6, <3>7
    <2>5. Len(lines) = Len(t)
      BY <2>2, <2>3
    <2> QED
      BY <2>4, <2>5 DEF CopiedPastes, lines, t
  <1> QED
    BY <1>1, TableInvariant, PTL
=============================================================================
