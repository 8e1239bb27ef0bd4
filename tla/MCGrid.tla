------------------------------- MODULE MCGrid --------------------------------
(* Instance of Grid for TLC: a column of three rows to sort, with numbers, a text that
   is none and NULL, and small tables of the characters that CSV and TSV treat. *)
EXTENDS Grid, TLC

CONSTANT none

nine == <<"9">>
ten == <<"1", "0">>
ten0 == <<"1", "0", ".">>
mixed == <<"1", "a">>
quoted == <<Quote, "x">>
broken == <<"x", NewLine, Tab, Comma>>
ended == <<"x", CarriageReturn>>
blank == << >>

MCTexts == {nine, ten, ten0, mixed, quoted, broken, ended, blank}
MCChar == {Tab, NewLine, CarriageReturn, Comma, Quote, Space, "x", "a", "0", "1", "9", "."}
MCNumber == [x \in MCTexts |-> IF x = nine THEN 9 ELSE IF x \in {ten, ten0} THEN 10
                               ELSE IF x = blank THEN 0 ELSE NaN]
\* localeCompare: punctuation before digits, digits before letters.
MCCollation == [x \in MCTexts |->
    CHOOSE i \in 1..8 : <<blank, quoted, ten, ten0, mixed, nine, broken, ended>>[i] = x]

Column(cells) == [i \in 1..Len(cells) |-> <<cells[i]>>]
MCResults ==
    {[names |-> <<nine>>, rows |-> Column(c)] :
        c \in {<<ten, nine, mixed>>, <<mixed, ten, nine>>, <<ten, ten0, none>>,
               <<ten0, none, ten>>, <<none, nine, none>>}}
    \cup {[names |-> <<quoted>>, rows |-> Column(<<broken, c>>)] : c \in {quoted, ended, blank, none}}
    \cup {[names |-> <<broken, blank>>, rows |-> <<c>>] :
             c \in {<<quoted, broken>>, <<blank, none>>}}
    \cup {[names |-> <<ten>>, rows |-> << >>]}
=============================================================================
