----------------------------- MODULE CsvReader ------------------------------
(***************************************************************************)
(* The passes over a CSV file, ufovectors/src/csv/reader.c: the initial     *)
(* scan, which deduces the columns and records where every interval-th row  *)
(* starts, and the reading of some rows of a column from the recorded       *)
(* offset before them. A pass is a fold of one turn of its loop over the    *)
(* characters of the file; rows and columns count from 0.                   *)
(***************************************************************************)
EXTENDS CsvToken

(* type_from_type_map: the most general of the types seen.                   *)
Generality == <<"STRING", "DOUBLE", "INTEGER", "BOOLEAN", "NA">>

TypeOfColumn(seen) ==
    LET found == {i \in DOMAIN Generality : Generality[i] \in seen}
    IN IF found = {} THEN "EMPTY" ELSE Generality[CHOOSE i \in found : \A j \in found : i <= j]

AddTypeAlone(types, column, type) ==
    [c \in 1..(IF column + 1 > Len(types) THEN column + 1 ELSE Len(types)) |->
        IF c = column + 1 THEN {type} \ {"NOTHING"} ELSE types[c]]

(* token_type_vector_add_type: the vector grows to the column's index.       *)
AddType(types, column, type) ==
    [c \in 1..(IF column + 1 > Len(types) THEN column + 1 ELSE Len(types)) |->
        (IF c <= Len(types) THEN types[c] ELSE {})
        \cup IF c = column + 1 /\ type # "NOTHING" THEN {type} ELSE {}]

IsString(types, column) == column + 1 <= Len(types) /\ "STRING" \in types[column + 1]

-----------------------------------------------------------------------------
(* ufo_csv_perform_initial_scan. phase: header, rows, done, bad (the scan    *)
(* returns NULL) or segv.                                                    *)
ScanStart(header, interval) ==
    [interval |-> interval, tk |-> Start(0), phase |-> IF header THEN "header" ELSE "rows",
     row |-> 0, column |-> 0, types |-> <<>>, names |-> <<>>, offsets |-> <<>>, rows |-> 0, erange |-> FALSE]

HeaderToken(r) ==
    LET named == [r EXCEPT !.types = AddType(@, r.column, "NOTHING"),
                           !.names = Append(@, r.tk.token.text)]
    IN CASE r.tk.result = "OK"         -> [named EXCEPT !.column = @ + 1]
         [] r.tk.result = "END_OF_ROW" -> [named EXCEPT !.column = 0, !.phase = "rows"]
         [] OTHER                      -> [named EXCEPT !.phase = "done"]

(* offset_record_is_interesting and offset_record_add.                       *)
Interesting(r) == r.column = 0 /\ r.row % r.interval = 0

Recorded(offsets, token) == Append(offsets, token.start)

(* A token of a column known to hold strings is skipped; the row's offset is *)
(* read from the token all the same.                                         *)
RowToken(r) ==
    LET skipped == IsString(r.types, r.column)
        text == r.tk.token.text
        typed == IF skipped THEN r ELSE
                 [r EXCEPT !.types = AddType(@, r.column, DeduceType(text, r.erange)),
                           !.erange = IF DeduceType(text, @) \in {"EMPTY", "NA", "BOOLEAN"}
                                      THEN @ ELSE ErangeAfter(text, @)]
        noted == IF Interesting(r) THEN [typed EXCEPT !.offsets = Recorded(@, r.tk.token)]
                 ELSE typed
    IN IF Interesting(r) /\ skipped THEN [r EXCEPT !.phase = "segv"] ELSE
       CASE r.tk.result = "OK"         -> [noted EXCEPT !.column = @ + 1]
         [] r.tk.result = "END_OF_ROW" -> [noted EXCEPT !.column = 0, !.row = @ + 1]
         [] OTHER -> [noted EXCEPT !.phase = "done", !.rows = r.row + IF r.column = 0 THEN 0 ELSE 1]

ScanTurn(r, c) ==
    IF r.phase \notin {"header", "rows"} THEN r ELSE
    LET fed == [r EXCEPT !.tk = Feed(@, c, r.phase = "rows" /\ IsString(r.types, r.column))]
    IN IF fed.tk.result = "MORE" THEN fed
       ELSE IF fed.tk.result \in {"PARSE_ERROR", "ERROR"} THEN [fed EXCEPT !.phase = "bad"]
       ELSE IF r.phase = "header" THEN HeaderToken(fed)
       ELSE RowToken(fed)

InitialScan(file, header, interval) ==
    FoldLeft(ScanTurn, ScanStart(header, interval), Append(file, EndOfFile))

-----------------------------------------------------------------------------
EntryByIndex(scan, row) ==
    [offset |-> scan.offsets[row \div scan.interval + 1], row |-> row \div scan.interval]

(* offset_record_get_value_closest_to_this_key: where to enter the file for  *)
(* a row, and which row is there.                                            *)
Entry(scan, row) ==
    [offset |-> scan.offsets[row \div scan.interval + 1],
     row |-> (row \div scan.interval) * scan.interval]

FileFrom(file, offset) == Append(SubSeq(file, offset + 1, Len(file)), EndOfFile)

(* ufo_csv_read_column_unique_values: the distinct texts of a column, until  *)
(* there are as many as limit.                                               *)
UniqueTurn(r, c) ==
    IF r.done THEN r ELSE
    LET fed == [r EXCEPT !.tk = Feed(@, c, r.column # r.target)]
        mine == r.column = r.target
        full == Cardinality(r.texts) >= r.limit
        result == fed.tk.result
        kept == IF ~mine THEN fed
                ELSE IF full THEN [fed EXCEPT !.done = TRUE]
                ELSE [fed EXCEPT !.texts = @ \cup {fed.tk.token.text}]
    IN CASE result = "MORE"                       -> fed
         [] result \in {"PARSE_ERROR", "ERROR"}   -> [fed EXCEPT !.done = TRUE, !.bad = TRUE]
         [] result = "OK"                         -> [kept EXCEPT !.column = @ + 1]
         [] result = "END_OF_ROW"                 -> [kept EXCEPT !.column = 0]
         [] OTHER                                 -> [kept EXCEPT !.done = TRUE]

UniqueValues(file, scan, column, limit) ==
    FoldLeft(UniqueTurn,
        [tk |-> Start(Entry(scan, 0).offset), column |-> 0, target |-> column, limit |-> limit,
         texts |-> {}, done |-> scan.rows = 0, bad |-> FALSE],
        FileFrom(file, Entry(scan, 0).offset))

-----------------------------------------------------------------------------
(* ufo_csv_read_column: the texts of rows first..last of a column. tokens is *)
(* the array from first on, as far as it has been filled. A last row of 0    *)
(* stands for the last row of the file.                                      *)
ReadStart(scan, column, first, last) ==
    [tk |-> Start(Entry(scan, first).offset), row |-> Entry(scan, first).row, column |-> 0,
     target |-> column, first |-> first,
     last |-> IF last = 0 THEN scan.rows - 1 ELSE last,
     tokens |-> <<>>, found |-> FALSE, done |-> FALSE, bad |-> FALSE]

InRange(r) == r.row >= r.first /\ (r.last = 0 \/ r.row <= r.last)

ReadTurn(r, c) ==
    IF r.done THEN r ELSE
    LET fed == [r EXCEPT !.tk = Feed(@, c, r.column # r.target)]
        result == fed.tk.result
        mine == r.column = r.target /\ InRange(r)
        stored == IF mine THEN [fed EXCEPT !.tokens = Append(@, fed.tk.token.text), !.found = TRUE]
                  ELSE fed
        missing == ~stored.found /\ InRange(r)
        ended == [stored EXCEPT !.column = 0,
                                !.tokens = IF missing THEN Append(@, <<>>) ELSE @,
                                !.found = IF missing THEN @ ELSE FALSE]
    IN CASE result = "MORE"                     -> fed
         [] result \in {"PARSE_ERROR", "ERROR"} -> [fed EXCEPT !.done = TRUE, !.bad = TRUE]
         [] result = "OK"                       -> [stored EXCEPT !.column = @ + 1]
         [] OTHER ->
              IF result = "END_OF_FILE" \/ (r.last # 0 /\ r.row >= r.last)
              THEN [ended EXCEPT !.done = TRUE] ELSE [ended EXCEPT !.row = @ + 1]

ReadColumn(file, scan, column, first, last) ==
    FoldLeft(ReadTurn, ReadStart(scan, column, first, last),
             FileFrom(file, Entry(scan, first).offset))
=============================================================================
