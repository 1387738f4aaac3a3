------------------------------ MODULE CsvTable ------------------------------
(***************************************************************************)
(* What a CSV file means: a table of cells. A cell is written after blanks, *)
(* with blanks after it if it is quoted; what is written is cut into the    *)
(* pieces that stand for a character each, or two when an escape is kept.   *)
(* Render writes a table out. The properties of the CSV vectors compare     *)
(* what they read with the table.                                           *)
(***************************************************************************)
EXTENDS CsvReader, FiniteSetsExt

IsPiece(p, quoted) ==
    \/ /\ Len(p) = 1 /\ ~IsEof(p[1])
       /\ p[1] \notin IF quoted THEN {Quote, Escape} ELSE {Comma, NewLine}
    \/ quoted /\ p = <<Quote, Quote>>
    \/ quoted /\ Len(p) = 2 /\ p[1] = Escape /\ ~IsEof(p[2])

Cells ==
    {c \in [before : Seq({Blank}), quoted : BOOLEAN, pieces : Seq(Seq(STRING)), after : Seq({Blank})] :
        /\ \A i \in DOMAIN c.pieces : IsPiece(c.pieces[i], c.quoted)
        /\ ~c.quoted => /\ c.after = <<>>
                        /\ c.pieces # <<>> => c.pieces[1][1] \notin {Blank, Quote}}

Concat(parts) == FoldLeft(LAMBDA s, part : s \o part, <<>>, parts)

(* The characters of a cell in the file,                                     *)
Raw(cell) ==
    cell.before \o IF cell.quoted THEN <<Quote>> \o Concat(cell.pieces) \o <<Quote>> \o cell.after
                   ELSE Concat(cell.pieces)

(* the text it stands for,                                                   *)
Stands(p) == IF p \in {<<Quote, Quote>>, <<Escape, Escape>>} THEN Tail(p) ELSE p

Written(cell) == Concat([i \in DOMAIN cell.pieces |-> Stands(cell.pieces[i])])

Text(cell) == IF cell.quoted THEN Written(cell) ELSE TrimEnd(Written(cell))

(* and whether it has an escape before a character other than an escape.     *)
IsStray(p) == Len(p) = 2 /\ p[1] = Escape /\ p[2] # Escape

Stray(cell) == \E i \in DOMAIN cell.pieces : IsStray(cell.pieces[i])

Joined(parts, separator) ==
    FoldLeft(LAMBDA text, part : text \o <<separator>> \o part, parts[1], Tail(parts))

RenderRow(row) == Joined([c \in DOMAIN row |-> Raw(row[c])], Comma)

(* The lines of a table, its header first; eol says whether the last one is  *)
(* terminated.                                                               *)
Render(lines, eol) ==
    Joined([l \in DOMAIN lines |-> RenderRow(lines[l])], NewLine)
    \o IF eol THEN <<NewLine>> ELSE <<>>

(* Where the l-th line starts.                                               *)
LineOffset(lines, l) ==
    IF l = 1 THEN 0 ELSE Len(Render(SubSeq(lines, 1, l - 1), TRUE))

Width(rows) == Max({Len(rows[r]) : r \in DOMAIN rows})

(* The text at row r, column c, both from 0; a row may be short.             *)
CellText(rows, r, c) == IF c < Len(rows[r + 1]) THEN Text(rows[r + 1][c + 1]) ELSE <<>>

(* The types of the cells of a column above row r.                           *)
TypesAbove(rows, r, c) ==
    {DeduceType(Text(rows[i][c + 1]), FALSE) : i \in {j \in 1..r : c < Len(rows[j])}}

ColumnType(rows, c) == TypeOfColumn(TypesAbove(rows, Len(rows), c))
=============================================================================
