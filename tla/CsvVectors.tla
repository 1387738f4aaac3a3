----------------------------- MODULE CsvVectors -----------------------------
(***************************************************************************)
(* A data frame of UFOs over a CSV file, ufovectors/src/ufo_csv.c. Loading  *)
(* scans the file, decides how each column is represented and makes one UFO *)
(* per column; the columns share the scan's results. The framework asks for *)
(* the rows of a column when they are touched, and destroys a column when   *)
(* R collects it.                                                           *)
(*                                                                         *)
(* The file is a table of CsvTable and does not change.                     *)
(***************************************************************************)
EXTENDS CsvTable

CONSTANTS
    Inputs,     \* [header, lines, eol, interval]: the file and the arguments of ufo_csv
    Limit       \* distinct strings up to which a column is interned

ASSUME LimitAssumption == Limit \in Nat \ {0}

Scanned(i) == InitialScan(Render(i.lines, i.eol), i.header, i.interval)

(* A file has a line, and a line has a cell.                                 *)
Lines == Seq(Seq(Cells) \ {<<>>}) \ {<<>>}

ASSUME InputsAssumption ==
    Inputs \subseteq [header : BOOLEAN, lines : Lines, eol : BOOLEAN, interval : Nat \ {0}]

VARIABLES
    input,      \* the file and the arguments
    status,     \* "start", "loaded" or "crashed"
    scan,       \* csv_metadata
    ctype,      \* column_types, as they are after interning
    alive,      \* the columns whose UFO exists
    refs,       \* *references_to_metadata
    freed,      \* how often the scan's results were freed
    target      \* what the last populate was asked for and stored

vars == <<input, status, scan, ctype, alive, refs, freed, target>>

File == Render(input.lines, input.eol)
Rows == IF input.header THEN Tail(input.lines) ELSE input.lines
Columns == 0..(Len(scan.types) - 1)

NoTarget == [column |-> -1, first |-> 0, end |-> 0, values |-> <<>>]

Init ==
    /\ input \in Inputs
    /\ status = "start"
    /\ scan = [rows |-> 0, types |-> <<>>]
    /\ ctype = <<>>
    /\ alive = {}
    /\ refs = 0
    /\ freed = 0
    /\ target = NoTarget

(* The part of ufo_csv before the UFOs are made: string columns with fewer   *)
(* than Limit texts are interned, the others are not.                        *)
Representation(results, c) ==
    LET type == TypeOfColumn(results.types[c + 1])
        unique == UniqueValues(File, results, c, Limit)
    IN CASE type # "STRING"                      -> type
         [] Cardinality(unique.texts) = Limit    -> "FREE"
         [] OTHER                                -> "INTERNED"

(* A scan that fails returns NULL, which ufo_csv looks into.                 *)
LoadCsv ==
    /\ status = "start"
    /\ LET results == Scanned(input)
           columns == Len(results.types)
       IN IF results.phase = "done"
          THEN /\ status' = "loaded"
               /\ scan' = results
               /\ ctype' = [c \in 1..columns |-> Representation(results, c - 1)]
               /\ refs' = columns
               /\ alive' = 0..(columns - 1)
          ELSE /\ status' = "crashed"
               /\ UNCHANGED <<scan, ctype, refs, alive>>
    /\ UNCHANGED <<input, freed, target>>

(* load_column_from_csv for the elements first..end-1: end is passed on as   *)
(* the last row, and as many elements are stored as rows were found.         *)
Populate(c, first, end) ==
    /\ status = "loaded"
    /\ c \in alive
    /\ LET tokens == ReadColumn(File, scan, c, first, end) IN
       IF tokens.bad
       THEN status' = "crashed" /\ UNCHANGED target
       ELSE /\ target' = [column |-> c, first |-> first, end |-> end,
                          values |-> [i \in DOMAIN tokens.tokens |->
                                        Convert(tokens.tokens[i], ctype[c + 1])]]
            /\ UNCHANGED status
    /\ UNCHANGED <<input, scan, ctype, alive, refs, freed>>

DestroyCountingFirst(c) ==
    /\ status = "loaded"
    /\ c \in alive
    /\ alive' = alive \ {c}
    /\ refs' = refs - 1
    /\ freed' = IF refs' = 1 THEN freed + 1 ELSE freed
    /\ target' = NoTarget
    /\ UNCHANGED <<input, status, scan, ctype>>

(* destroy_column.                                                           *)
Destroy(c) ==
    /\ status = "loaded"
    /\ c \in alive
    /\ alive' = alive \ {c}
    /\ IF refs = 1
       THEN freed' = freed + 1 /\ UNCHANGED refs
       ELSE refs' = refs - 1 /\ UNCHANGED freed
    /\ target' = NoTarget
    /\ UNCHANGED <<input, status, scan, ctype>>

Next ==
    \/ LoadCsv
    \/ \E c \in alive, first, end \in 0..scan.rows : first < end /\ Populate(c, first, end)
    \/ \E c \in alive : Destroy(c)

Spec == Init /\ [][Next]_vars

-----------------------------------------------------------------------------
(* An escape kept with its character counts one character too many.          *)
StrayEscapeBefore(line) ==
    \E l \in 1..(line - 1) : \E c \in DOMAIN input.lines[l] : Stray(input.lines[l][c])

(* The last token of row r is skipped when its column held a string before.  *)
LastTokenSkipped(r) ==
    LET c == Len(Rows[r + 1]) - 1 IN "STRING" \in TypesAbove(Rows, r, c)

LineOfRow(r) == r + 1 + IF input.header THEN 1 ELSE 0

(* The recorded offset of row r can be trusted.                              *)
Reliable(r) ==
    /\ ~StrayEscapeBefore(LineOfRow(r))
    /\ r = 0 \/ ~LastTokenSkipped(r - 1)

(* A cell starts with an integer that does not fit a long.                   *)
Overflows == \E r \in DOMAIN Rows : \E c \in DOMAIN Rows[r] : ErangeAfter(Text(Rows[r][c]), FALSE)

QuotedEnd ==
    LET last == Last(Last(input.lines))
    IN ~input.eol /\ last.quoted /\ last.after = <<>>

(* A last line of one cell without an end of line is not counted: at the end *)
(* of the file the scan takes column 0 for the start of a line.              *)
LastRowDropped == ~input.eol /\ Rows # <<>> /\ Len(Last(Rows)) = 1

FirstTokenSkipped ==
    \E r \in 1..(Len(Rows) - IF input.eol THEN 0 ELSE 1) :
        r % input.interval = 0 /\ "STRING" \in TypesAbove(Rows, r, 0)

(* Loading fails on a file that ends right after a closing quote, and when   *)
(* the offset of a row is wanted whose first token is skipped; any other     *)
(* table is loaded, with its rows, but a last one that is dropped, and the   *)
(* most general type of each column's cells (ufo_csv_perform_initial_scan).  *)
ScanMatchesTable ==
    CASE status = "start"   -> TRUE
      [] status = "crashed" -> QuotedEnd \/ FirstTokenSkipped \/ \E r \in 0..Len(Rows) - 1 : ~Reliable(r)
      [] OTHER ->
           /\ ~QuotedEnd /\ ~FirstTokenSkipped
           /\ scan.rows = Len(Rows) - IF LastRowDropped THEN 1 ELSE 0
           /\ Len(ctype) = Width(input.lines)
           /\ ~Overflows => \A c \in Columns :
                TypeOfColumn(scan.types[c + 1]) = ColumnType(Rows, c)

(* The offset recorded for every interval-th row is where that row starts,   *)
(* unless a skipped token or a stray escape came before it                   *)
(* (offset_record_add in the scan, position_start of the row's first token). *)
OffsetsExact ==
    status = "loaded" =>
        \A k \in DOMAIN scan.offsets :
            LET r == (k - 1) * input.interval IN
            r < Len(Rows) /\ Reliable(r) =>
                scan.offsets[k] = LineOffset(input.lines, LineOfRow(r))

(* The type conversions keep the cell, except that an integer column turns   *)
(* NA and truth values into zero and a numeric column loses truth values.    *)
ConversionKeeps(text, type) ==
    CASE type = "INTEGER" -> text \notin {<<"NA">>, <<"T">>, <<"F">>, <<"big">>}
      [] type = "DOUBLE"  -> text \notin {<<"T">>, <<"F">>}
      [] OTHER            -> TRUE

(* What R shows for a cell.                                                  *)
Shown(text, type) ==
    LET core == TrimEnd(TrimStart(text))
    IN IF type \in {"INTERNED", "FREE"} THEN text
       ELSE IF type \in {"EMPTY", "NA"} \/ core \in {<<>>, <<"NA">>} THEN NaValue
       ELSE core

(* Whatever rows of whatever column are read, from whichever recorded offset *)
(* precedes them and whichever columns are skipped on the way, element i is  *)
(* the cell of row first + i; and at most one element more than asked for is *)
(* stored (ufo_csv_read_column called by load_column_from_csv).              *)
ReadIsSlice ==
    LET entry == (target.first \div input.interval) * input.interval IN
    target.column # -1 /\ Reliable(entry) =>
        /\ Len(target.values) \in {target.end - target.first, target.end - target.first + 1}
        /\ \A i \in 1..(target.end - target.first) :
             LET text == CellText(Rows, target.first + i - 1, target.column)
                 type == ctype[target.column + 1]
             IN ConversionKeeps(text, type) => target.values[i] = Shown(text, type)

(* The results of the scan, which all columns read, are freed once, by the   *)
(* last column to be destroyed, in whatever order R collects them            *)
(* (destroy_column).                                                         *)
MetadataOutlivesColumns ==
    status = "loaded" => freed = (IF alive = {} THEN 1 ELSE 0)

(* A token never outgrows the memory of the buffer it is collected in        *)
(* (tokenizer_token_buffer_append), when the buffer starts with two          *)
(* characters or more.                                                       *)
BufferFits == status = "loaded" => ~scan.tk.over
=============================================================================
