-------------------------------- MODULE Grid ---------------------------------
(***************************************************************************)
(* The result on screen: sorted by a click on a column, copied as TSV and  *)
(* saved as CSV (toggleSort, sortedRows, serializeResult, copyResult,      *)
(* exportResultCsv in ui/src/App.tsx), and app.write_file (src/app/main.c).*)
(*                                                                         *)
(* A copy and a save await the shell while queries go on replacing the     *)
(* result; what they serialize is the render they were clicked in.  Texts  *)
(* are sequences of characters, since quoting is about characters.         *)
(***************************************************************************)
EXTENDS Integers, SequencesExt

CONSTANTS
    Char,        \* characters
    Texts,       \* what a cell that is not NULL may hold
    Null,        \* a NULL cell
    Number,      \* Number(text), a double
    NaN,         \* what it is for a text that is no number
    Collation,   \* place of a text in the order of localeCompare
    Results,     \* results a query may have: names of columns, rows of cells
    MaxResults,  \* bound: queries answered
    MaxClicks    \* bound: clicks on Copy or Export

Tab == "\t"
NewLine == "\n"
CarriageReturn == "\r"
Comma == ","
Quote == "\""
Space == " "

NoResult == [names |-> << >>, rows |-> << >>]
NoSort == [col |-> 0, dir |-> "none"]

ASSUME ConstantsAssumption ==
    /\ {Tab, NewLine, CarriageReturn, Comma, Quote, Space} \subseteq Char
    /\ << >> \in Texts /\ Texts \subseteq Seq(Char) /\ Null \notin Texts
    /\ Number \in [Texts -> Int \cup {NaN}] /\ NaN \notin Int
    /\ Collation \in [Texts -> Int]
    /\ \A r \in Results :
          /\ r.names \in Seq(Texts) \ {<< >>}
          /\ r.rows \in Seq([DOMAIN r.names -> Texts \cup {Null}])
    /\ MaxResults \in Nat /\ MaxClicks \in Nat

VARIABLES
    result, sort,
    order,     \* sortedRows: numbers of the rows, as they are shown
    saving,    \* calls of exportResultCsv in flight: where each is, the table clicked on
    copying,   \* calls of copyResult in flight: TSV and table of each
    file,      \* the file chosen, by every export the same
    saved,     \* the table the page says is in the file
    cut,       \* history: fclose failed to write the end of the file, unnoticed
    clip,      \* clipboard, and the table copied
    answered, clicks

vars == <<result, sort, order, saving, copying, file, saved, cut, clip, answered, clicks>>

NoTable == << >>
NoCopy == [text |-> << >>, table |-> NoTable]

-----------------------------------------------------------------------------
(* sortedRows *)

Numeric(x) == x # << >> /\ Number[x] # NaN

ComparesText(x, y, dir) ==                                             \* mutant
    \/ x # Null /\ y = Null
    \/ /\ x # Null /\ y # Null
       /\ IF dir = "asc" THEN Collation[x] < Collation[y] ELSE Collation[y] < Collation[x]

\* The comparator is negative: NULLs come last in either direction; two numbers are
\* compared as numbers, a number and a text as texts.
Precedes(x, y, dir) ==
    \/ x # Null /\ y = Null
    \/ /\ x # Null /\ y # Null
       /\ LET key == IF Numeric(x) /\ Numeric(y) THEN Number ELSE Collation
          IN  IF dir = "asc" THEN key[x] < key[y] ELSE key[y] < key[x]

\* The comparator is one that Array.sort can sort by.
Consistent(values, dir) ==
    \A x, y, z \in values :
        Precedes(x, z, dir) => Precedes(x, y, dir) \/ Precedes(y, z, dir)

Orderings(n) == {p \in [1..n -> 1..n] : \A i, j \in 1..n : p[i] = p[j] => i = j}

\* Array.sort is stable; by an inconsistent comparator its order is the engine's choice.
\* By a column that is not there it throws, and nothing is shown.
Orders(r, s) ==
    LET n == Len(r.rows)
        cell == [i \in 1..n |-> r.rows[i][s.col]]
    IN  IF s = NoSort THEN {[i \in 1..n |-> i]}
        ELSE IF s.col \notin DOMAIN r.names THEN {<< >>}
        ELSE {p \in Orderings(n) :
                 Consistent({cell[i] : i \in 1..n}, s.dir) =>
                    \A i, j \in 1..n : i < j =>
                       \/ Precedes(cell[p[i]], cell[p[j]], s.dir)
                       \/ ~Precedes(cell[p[j]], cell[p[i]], s.dir) /\ p[i] < p[j]}

Shows(r, s) == result' = r /\ sort' = s /\ order' \in Orders(r, s)

-----------------------------------------------------------------------------
(* serializeResult *)

Joined(parts, delim) ==
    FlattenSeq([i \in DOMAIN parts |-> IF i = 1 THEN parts[i] ELSE <<delim>> \o parts[i]])

Plain(v) == IF v = Null THEN << >> ELSE v

QuotesForComma(v) ==                                                   \* mutant
    LET s == Plain(v)
    IN  IF Contains(s, Comma) THEN <<Quote>> \o s \o <<Quote>> ELSE s

EscCsv(v) ==
    LET s == Plain(v)
        twice(c) == IF c = Quote THEN <<Quote, Quote>> ELSE <<c>>
        doubled == FlattenSeq([i \in DOMAIN s |-> twice(s[i])])
    IN  IF \E c \in {Quote, Comma, NewLine, CarriageReturn} : Contains(s, c)
        THEN <<Quote>> \o doubled \o <<Quote>> ELSE s

OnlyTabs(v) == ReplaceAll(Plain(v), Tab, Space)                         \* mutant

Breaks == {Tab, NewLine, CarriageReturn}

\* A run of tabs and line breaks becomes one space.
EscTsv(v) ==
    LET s == Plain(v)
        breaks(i) == i > 0 /\ s[i] \in Breaks
    IN  FlattenSeq([i \in DOMAIN s |-> IF ~breaks(i) THEN <<s[i]>>
                                       ELSE IF breaks(i - 1) THEN << >> ELSE <<Space>>])

Serialized(delim, quote, table) ==
    LET esc(v) == IF quote THEN EscCsv(v) ELSE EscTsv(v)
        line(cells) == Joined([i \in DOMAIN cells |-> esc(cells[i])], delim)
    IN  Joined([i \in DOMAIN table |-> line(table[i])], NewLine)

\* The header and the rows as they are shown.
Shown == <<result.names>> \o [i \in DOMAIN order |-> result.rows[order[i]]]

-----------------------------------------------------------------------------
(* Clicks and replies of query.run *)

\* runQuery: a new result is shown as it came.
KeepSort(r) == Shows(r, sort)                                           \* mutant
ShowResult(r) == Shows(r, NoSort)

QueryReturns(r) ==
    /\ answered < MaxResults /\ answered' = answered + 1
    /\ ShowResult(r)
    /\ UNCHANGED <<saving, copying, file, saved, cut, clip, clicks>>

\* A failing query, and opening a database, take the result away; the sort stays.
ResultGone ==
    /\ result # NoResult
    /\ Shows(NoResult, sort)
    /\ UNCHANGED <<saving, copying, file, saved, cut, clip, answered, clicks>>

ToggleSort(col) ==
    /\ col \in DOMAIN result.names
    /\ Shows(result, IF sort.col # col THEN [col |-> col, dir |-> "asc"]
                     ELSE IF sort.dir = "asc" THEN [col |-> col, dir |-> "desc"] ELSE NoSort)
    /\ UNCHANGED <<saving, copying, file, saved, cut, clip, answered, clicks>>

\* Nothing keeps a second click from the button while the first is in flight; a dialog
\* does, but only once the shell has opened it.
Click == result.rows # << >> /\ clicks < MaxClicks /\ clicks' = clicks + 1

-----------------------------------------------------------------------------
(* copyResult *)

ClickCopy ==
    /\ Click
    /\ copying' = copying \cup {[text |-> Serialized(Tab, FALSE, Shown), table |-> Shown]}
    /\ UNCHANGED <<result, sort, order, saving, file, saved, cut, clip, answered>>

\* The shell's clipboard or, in its own time, the page's takes it; or neither, and nobody
\* is told.
Copied ==
    /\ \E c \in copying : copying' = copying \ {c} /\ clip' \in {c, clip}
    /\ UNCHANGED <<result, sort, order, saving, file, saved, cut, answered, clicks>>

-----------------------------------------------------------------------------
(* exportResultCsv *)

ClickExport ==
    /\ Click
    /\ saving' = saving \cup {[at |-> "dialog", table |-> Shown]}
    /\ UNCHANGED <<result, sort, order, copying, file, saved, cut, clip, answered>>

\* The file chosen may have been there, with the last save in it.
Pick(chosen) ==
    /\ \E w \in saving :
          /\ w.at = "dialog"
          /\ saving' = (saving \ {w})
                       \cup (IF chosen THEN {[at |-> "write", table |-> w.table]} ELSE {})
    /\ UNCHANGED <<result, sort, order, copying, file, saved, cut, clip, answered, clicks>>

\* What is written: the render that was clicked, whatever is shown by now.
Text(w) == Serialized(Comma, TRUE, w.table)

\* Bound: of what a write may leave, the extremes.
Parts(w) == {SubSeq(Text(w), 1, n) : n \in {0, Len(Text(w)) - 1} \ {Len(Text(w))}}

\* app.write_file: fopen may fail, or empties the file; fwrite may be short; fclose is
\* not asked.
WriteFile ==
    /\ \E w \in saving :
          /\ w.at = "write" /\ saving' = saving \ {w}
          /\ \/ UNCHANGED <<file, saved, cut>>
             \/ file' = Text(w) /\ saved' = w.table /\ cut' = FALSE
             \/ file' \in Parts(w) /\ saved' = NoTable /\ cut' = FALSE
             \/ file' \in Parts(w) /\ saved' = w.table /\ cut' = TRUE
    /\ UNCHANGED <<result, sort, order, copying, clip, answered, clicks>>

-----------------------------------------------------------------------------
Init ==
    /\ result = NoResult /\ sort = NoSort /\ order = << >>
    /\ saving = {} /\ copying = {} /\ clip = NoCopy
    /\ file = << >> /\ saved = NoTable /\ cut = FALSE
    /\ answered = 0 /\ clicks = 0

Next ==
    \/ \E r \in Results : QueryReturns(r)
    \/ ResultGone
    \/ \E col \in DOMAIN result.names : ToggleSort(col)
    \/ ClickCopy \/ Copied \/ ClickExport \/ WriteFile
    \/ \E chosen \in BOOLEAN : Pick(chosen)

Spec == Init /\ [][Next]_vars

-----------------------------------------------------------------------------
(* Properties *)

\* While there is a result its rows are shown once each, and it is sorted by one of its
\* own columns or not at all.
RowsShown ==
    /\ sort.col \in 0..Len(result.names) \/ result = NoResult
    /\ order \in Orderings(Len(result.rows))

\* A column of numbers, or of texts that are none, with NULLs among them or not, is shown
\* in order, NULLs last, and equal cells in the order of the result.
Sorted ==
    LET cell == [i \in DOMAIN order |-> result.rows[order[i]][sort.col]]
        values == {row[sort.col] : row \in Range(result.rows)} \ {Null}
        numbers == {x \in values : Number[x] # NaN /\ x # << >>}
        key == IF numbers = values THEN Number ELSE Collation
        lower(i, j) == IF sort.dir = "asc" THEN key[cell[i]] < key[cell[j]]
                                           ELSE key[cell[j]] < key[cell[i]]
    IN  sort # NoSort /\ numbers \in {{}, values} =>
            \A i, j \in DOMAIN order : i < j =>
                \/ cell[j] = Null /\ (cell[i] = Null => order[i] < order[j])
                \/ Null \notin {cell[i], cell[j]} /\ lower(i, j)
                \/ Null \notin {cell[i], cell[j]} /\ key[cell[i]] = key[cell[j]]
                   /\ order[i] < order[j]

\* A reader of CSV (RFC 4180), to whom either character ends a line.  It keeps the records
\* read, and of the one it is in the fields and the characters of the next.
NothingRead == [records |-> << >>, record |-> << >>, field |-> << >>, quoted |-> "no"]
WithField(s) == Append(s.record, s.field)
ReadsCsv(s, c) ==
    IF s.quoted = "in" THEN IF c = Quote THEN [s EXCEPT !.quoted = "closing"]
                            ELSE [s EXCEPT !.field = Append(@, c)]
    ELSE IF c = Quote /\ (s.quoted = "closing" \/ s.field = << >>)
         THEN [s EXCEPT !.quoted = "in",
                        !.field = IF s.quoted = "closing" THEN Append(@, Quote) ELSE @]
    ELSE IF c = Comma
         THEN [s EXCEPT !.record = WithField(s), !.field = << >>, !.quoted = "no"]
    ELSE IF c \in {NewLine, CarriageReturn}
         THEN [records |-> Append(s.records, WithField(s)), record |-> << >>,
               field |-> << >>, quoted |-> "no"]
    ELSE [s EXCEPT !.field = Append(@, c)]

\* The records of a text.
ReadCsv(text) ==
    LET end == FoldLeft(ReadsCsv, NothingRead, text)
    IN  IF end.record = << >> /\ end.field = << >> /\ end.quoted = "no" THEN end.records
        ELSE Append(end.records, WithField(end))

PlainTable(table) == [i \in DOMAIN table |-> [c \in DOMAIN table[i] |-> Plain(table[i][c])]]

\* A file said to be saved reads back as the table that was on screen at the click, NULLs
\* as empty texts, however clicks, dialogs and writes overlapped and whichever failed, but
\* for a last row that is one empty cell (no newline ends the text), and for what fclose lost.
SavedReadsBack ==
    saved # NoTable /\ ~cut =>
        LET t == PlainTable(saved)
        IN  ReadCsv(file) = IF Last(t) = << << >> >> THEN Front(t) ELSE t

\* The parts of a text between the places of one character.
SplitAt(text, c) ==
    LET splits(parts, x) == IF x = c THEN Append(parts, << >>)
                            ELSE Append(Front(parts), Append(Last(parts), x))
    IN  FoldLeft(splits, << << >> >>, text)

\* What was copied pastes as the table on screen at the click: a line for each row, with
\* as many fields, each as it is shown but for its tabs and line breaks.
CopiedPastes ==
    clip # NoCopy =>
        LET lines == SplitAt(clip.text, NewLine)
            t == PlainTable(clip.table)
        IN  /\ Len(lines) = Len(t)
            /\ \A i \in DOMAIN t :
                  /\ Len(SplitAt(lines[i], Tab)) = Len(t[i])
                  /\ \A c \in DOMAIN t[i] :
                        (\A x \in Breaks : ~Contains(t[i][c], x))
                        => SplitAt(lines[i], Tab)[c] = t[i][c]
=============================================================================
