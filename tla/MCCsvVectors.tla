---------------------------- MODULE MCCsvVectors ----------------------------
(* Files for TLC: all tables of some shapes over some cells.                 *)
EXTENDS CsvVectors

Piece(c) == <<c>>
Pieces(s) == [i \in DOMAIN s |-> Piece(s[i])]
Plain(s) == [before |-> <<>>, quoted |-> FALSE, pieces |-> Pieces(s), after |-> <<>>]
Quoted(pieces) == [before |-> <<>>, quoted |-> TRUE, pieces |-> pieces, after |-> <<>>]
Indented(cell) == [cell EXCEPT !.before = <<Blank>>]

Word == Plain(<<"x">>)
Long == Plain(<<"x", "y", "x", "y", "x">>)
One == Plain(<<"1">>)
Empty == Plain(<<>>)
Tricky == Quoted(<<Piece(Comma), Piece(NewLine), <<Quote, Quote>>>>)
Escaped == Quoted(<<<<Escape, "x">>>>)

Assorted ==
    {Word, Long, One, Empty, Tricky, Escaped, Plain(<<"NA">>), Plain(<<"T">>), Plain(<<"d">>),
     Plain(<<"big">>), Indented(Plain(<<"1", Blank>>)), Plain(<<"x", Return>>),
     Quoted(<<Piece(Blank)>>), Quoted(<<<<Escape, Escape>>, Piece("x")>>),
     Plain(<<"x", Quote>>), [Indented(Quoted(<<Piece(Blank), Piece("big")>>)) EXCEPT !.after = <<Blank>>],
     Indented(Empty), Plain(<<Return>>), Quoted(<<<<Escape, Quote>>>>)}

Tables(cells, widths, heights) ==
    UNION {[1..h -> UNION {[1..w -> cells] : w \in widths}] : h \in heights}

Files(tables, headers, intervals) ==
    [header : headers, lines : tables, eol : BOOLEAN, interval : intervals]

(* Two columns of three rows for the offsets; one column of everything, two   *)
(* rows for the conversions and three for the types; no row but the header;   *)
(* ragged rows.                                                               *)
MCInputs ==
    Files(Tables({Word, Escaped}, {2}, {3}), {FALSE}, {1, 2})
    \cup Files(Tables(Assorted, {1}, {2}), BOOLEAN, {2})
    \cup Files(Tables({One, Empty, Plain(<<"NA">>), Plain(<<"T">>), Plain(<<"d">>), Word},
                      {1}, {3}), {FALSE}, {2})
    \cup Files(Tables({Word, One, Empty}, {1, 2}, {1}), {TRUE}, {1})
    \cup Files(Tables({Word, Tricky}, {1, 2}, {3}), {TRUE}, {1})
    \cup Files(Tables({Word, Empty, Tricky}, {1, 2}, {2}), {TRUE}, {1})
=============================================================================
