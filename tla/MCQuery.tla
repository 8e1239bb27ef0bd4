------------------------------ MODULE MCQuery -------------------------------
(* Instance of Query for TLC. *)
EXTENDS Query, TLC

CONSTANTS a, b, blank, blob

MCTexts == {a, b, blank, blob}
MCNoText == {blob}

Statement(cols, total, ends, cell(_, _)) ==
    [cols |-> cols, total |-> total, ends |-> ends,
     rows |-> [row \in Upto(total) |-> [c \in Upto(cols) |-> cell(row, c)]]]

\* The cells of a table: both texts, a value without text, a NULL.
Mixed(row, c) ==
    IF row = 0 THEN IF c = 0 THEN a ELSE b
    ELSE IF row = 1 THEN IF c = 0 THEN Null ELSE blob
    ELSE IF c = 0 THEN b ELSE Null

\* Results of no, one, two and three columns with up to one row more than MaxRows.
Shapes == {<<0, 0>>, <<1, 0>>, <<3, 1>>, <<1, 3>>, <<2, 3>>, <<2, 4>>, <<2, 5>>}
Singles == {<<Statement(x[1], x[2], ends, Mixed)>> : x \in Shapes, ends \in {"done", "fails"}}

S(ends) == Statement(1, 1, ends, Mixed)
Several ==
    {<<S(x), S(y)>> : x \in {"done", "fails", "syntax"}, y \in {"done", "fails", "syntax"}}
        \cup {<<S("done"), S("done"), S("fails")>>, <<S("syntax")>>}

MCScripts == Singles \cup Several
=============================================================================
