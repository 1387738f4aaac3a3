------------------------- MODULE CsvVectors_proofs --------------------------
(* Theorems about the columns of a CSV file: what the scan of any file and   *)
(* any reading of rows of a column compute, by induction over the cells,     *)
(* and who frees what the columns share.                                     *)
EXTENDS CsvTokens_proofs

-----------------------------------------------------------------------------
(* What the scan knows of the columns before a cell.                         *)

(* The text of a cell is a sequence of characters.                           *)
LEMMA TextChars ==
  ASSUME NEW cell \in Cells
  PROVE  Text(cell) \in Seq(Char)
<1>1. Written(cell) \in Seq(Char)
  <2>1. PICK pieces \in Seq(Seq(Char)) : pieces = cell.pieces
    BY CellIs
  <2>2. PICK stands : stands = [j \in DOMAIN pieces |-> Stands(pieces[j])]
    OBVIOUS
  <2>3. stands \in Seq(Seq(Char)) /\ Len(stands) \in Nat
    BY <2>2, StandsAll
  <2>4. Len(stands) \in 0..Len(stands)
    BY <2>3
  <2>5. Upto(stands, Len(stands)) \in Seq(Char) /\ Upto(stands, Len(stands)) = Concat(stands)
    BY <2>3, <2>4, ConcatGrows
  <2>6. Written(cell) = Concat(stands)
    BY <2>1, <2>2 DEF Written
  <2> QED
    BY <2>5, <2>6
<1> QED
  BY <1>1, TrimEndChars DEF Text

(* The rows of the table are the lines after the header.                     *)
HeaderLines == IF input.header THEN 1 ELSE 0

(* The arguments of a loading.                                               *)
LEMMA InputIs ==
  ASSUME input \in Inputs
  PROVE  /\ input.header \in BOOLEAN /\ input.lines \in Lines /\ input.eol \in BOOLEAN
         /\ input.interval \in Nat /\ input.interval > 0 /\ HeaderLines \in {0, 1}
BY InputsAssumption DEF HeaderLines

(* The rows are the lines but the header.                                    *)
LEMMA RowsAre ==
  ASSUME input \in Inputs
  PROVE  /\ Rows \in Seq(Seq(Cells)) /\ Len(Rows) \in Nat /\ DOMAIN Rows = 1..Len(Rows)
         /\ Len(input.lines) = Len(Rows) + HeaderLines
         /\ \A k \in 1..Len(Rows) : /\ Rows[k] = input.lines[k + HeaderLines] /\ Rows[k] # <<>>
                                    /\ Rows[k] \in Seq(Cells) /\ Len(Rows[k]) \in Nat /\ Len(Rows[k]) > 0
                                    /\ DOMAIN Rows[k] = 1..Len(Rows[k])
<1>1. PICK lines : lines = input.lines /\ lines \in Lines
  BY InputIs
<1>2. /\ lines \in Seq(Seq(Cells)) /\ lines # <<>> /\ Len(lines) \in Nat /\ Len(lines) > 0
      /\ \A l \in 1..Len(lines) : lines[l] \in Seq(Cells) /\ lines[l] # <<>>
  BY <1>1, LinesAre
<1>3. /\ Rows \in Seq(Seq(Cells)) /\ Len(lines) = Len(Rows) + HeaderLines
      /\ \A k \in 1..Len(Rows) : Rows[k] = lines[k + HeaderLines] /\ k + HeaderLines \in 1..Len(lines)
  <2>1. CASE input.header
    <3>1. Rows = Tail(lines) /\ HeaderLines = 1
      BY <1>1, <2>1 DEF Rows, HeaderLines
    <3>2. Tail(lines) \in Seq(Seq(Cells)) /\ Len(Tail(lines)) = Len(lines) - 1
      BY <1>2, HeadTailProperties
    <3>3. \A k \in 1..Len(Tail(lines)) : Tail(lines)[k] = lines[k + 1]
      BY <1>2, HeadTailProperties
    <3>4. \A k \in 1..Len(Tail(lines)) : k + 1 \in 1..Len(lines)
      BY <1>2, <3>2
    <3>5. Len(Tail(lines)) + 1 = Len(lines)
      BY <1>2, <3>2
    <3> QED
      BY <3>1, <3>2, <3>3, <3>4, <3>5
  <2>2. CASE ~input.header
    <3>1. Rows = lines /\ HeaderLines = 0
      BY <1>1, <2>2 DEF Rows, HeaderLines
    <3>2. Len(lines) + 0 = Len(lines) /\ \A k \in 1..Len(lines) : k + 0 = k
      BY <1>2
    <3> QED
      BY <1>2, <3>1, <3>2
  <2> QED
    BY <2>1, <2>2
<1>4. Len(Rows) \in Nat /\ DOMAIN Rows = 1..Len(Rows)
  BY <1>3, LenProperties
<1>5. \A k \in 1..Len(Rows) : Rows[k] \in Seq(Cells) /\ Rows[k] # <<>>
  BY <1>2, <1>3
<1>6. \A k \in 1..Len(Rows) : Len(Rows[k]) \in Nat /\ Len(Rows[k]) > 0 /\ DOMAIN Rows[k] = 1..Len(Rows[k])
  <2> SUFFICES ASSUME NEW k \in 1..Len(Rows)
               PROVE  Len(Rows[k]) \in Nat /\ Len(Rows[k]) > 0 /\ DOMAIN Rows[k] = 1..Len(Rows[k])
    OBVIOUS
  <2>1. PICK row : row = Rows[k] /\ row \in Seq(Cells) /\ row # <<>>
    BY <1>5
  <2>2. Len(row) \in Nat /\ Len(row) # 0 /\ DOMAIN row = 1..Len(row)
    BY <2>1, EmptySeq, LenProperties
  <2> QED
    BY <2>1, <2>2
<1> QED
  BY <1>1, <1>3, <1>4, <1>5, <1>6

(* What is known of a column,                                                *)
Has(types, column) == IF column + 1 <= Len(types) THEN types[column + 1] ELSE {}

(* A column is skipped if it is known to hold strings.                       *)
LEMMA IsStringHas ==
  ASSUME NEW types, NEW column
  PROVE  IsString(types, column) <=> "STRING" \in Has(types, column)
BY DEF IsString, Has

Widened(new, types, column, type) ==
    /\ new \in Seq(SUBSET AllTypes)
    /\ Len(new) = IF column + 1 > Len(types) THEN column + 1 ELSE Len(types)
    /\ \A k \in Nat : Has(new, k) = Has(types, k) \cup IF k = column /\ type # "NOTHING" THEN {type} ELSE {}

(* Adding a type widens the vector to its column.                            *)
LEMMA AddTypeIs ==
  ASSUME NEW types \in Seq(SUBSET AllTypes), NEW column \in Nat, NEW type, type \in AllTypes \/ type = "NOTHING",
         NEW new, new = AddType(types, column, type)
  PROVE  Widened(new, types, column, type)
<1>1. PICK m \in Nat : m = Len(types)
  OBVIOUS
<1>2. PICK n \in Nat : n = IF column + 1 > m THEN column + 1 ELSE m
  OBVIOUS
<1>3. \A c \in 1..m : types[c] \in SUBSET AllTypes
  BY <1>1
<1>4. new = [c \in 1..n |-> (IF c <= m THEN types[c] ELSE {})
                            \cup IF c = column + 1 /\ type # "NOTHING" THEN {type} ELSE {}]
  BY <1>1, <1>2 DEF AddType
<1>5. \A c \in 1..n : new[c] \in SUBSET AllTypes
  <2> SUFFICES ASSUME NEW c \in 1..n PROVE new[c] \in SUBSET AllTypes
    OBVIOUS
  <2>1. (IF c <= m THEN types[c] ELSE {}) \in SUBSET AllTypes
    BY <1>3
  <2>2. (IF c = column + 1 /\ type # "NOTHING" THEN {type} ELSE {}) \in SUBSET AllTypes
    OBVIOUS
  <2> QED
    BY <1>4, <2>1, <2>2
<1>6. new \in Seq(SUBSET AllTypes) /\ Len(new) = n
  <2>1. new \in [1..n -> SUBSET AllTypes]
    BY <1>4, <1>5
  <2> QED
    BY <2>1
<1>7. ASSUME NEW k \in Nat
      PROVE  Has(new, k) = Has(types, k) \cup IF k = column /\ type # "NOTHING" THEN {type} ELSE {}
  <2>1. CASE k + 1 <= n
    <3>1. k + 1 \in 1..n
      BY <2>1
    <3>2. new[k + 1] = (IF k + 1 <= m THEN types[k + 1] ELSE {})
                       \cup IF k + 1 = column + 1 /\ type # "NOTHING" THEN {type} ELSE {}
      BY <1>4, <3>1
    <3>3. k + 1 = column + 1 <=> k = column
      OBVIOUS
    <3> QED
      BY <1>1, <1>6, <2>1, <3>2, <3>3 DEF Has
  <2>2. CASE ~(k + 1 <= n)
    <3>1. k # column /\ ~(k + 1 <= m)
      BY <1>2, <2>2
    <3> QED
      BY <1>1, <1>6, <2>2, <3>1 DEF Has
  <2> QED
    BY <2>1, <2>2
<1> QED
  BY <1>1, <1>2, <1>6, <1>7 DEF Widened

(* and the types of its cells in the table.                                  *)
LEMMA TypesAboveNone ==
  ASSUME NEW rows, NEW col
  PROVE  TypesAbove(rows, 0, col) = {}
BY DEF TypesAbove

(* The types above a row grow row by row.                                    *)
LEMMA TypesAboveGrows ==
  ASSUME NEW rows, NEW n \in Nat, NEW col
  PROVE  TypesAbove(rows, n + 1, col) = TypesAbove(rows, n, col)
            \cup IF col < Len(rows[n + 1]) THEN {DeduceType(Text(rows[n + 1][col + 1]), FALSE)} ELSE {}
<1>1. {j \in 1..(n + 1) : col < Len(rows[j])} =
        {j \in 1..n : col < Len(rows[j])} \cup IF col < Len(rows[n + 1]) THEN {n + 1} ELSE {}
  OBVIOUS
<1> QED
  BY <1>1 DEF TypesAbove

Agrees(h, n, col) ==
    /\ "STRING" \in h <=> "STRING" \in TypesAbove(Rows, n, col)
    /\ "STRING" \notin h =>
         /\ \A k \in 1..n : col < Len(Rows[k]) =>
               \E e \in BOOLEAN : DeduceType(Text(Rows[k][col + 1]), e) \in h
         /\ ~Overflows => h = TypesAbove(Rows, n, col)

(* A row that is too short adds nothing to what is known of a column,        *)
LEMMA AgreesShort ==
  ASSUME NEW h, NEW n \in Nat, NEW col, Agrees(h, n, col), ~(col < Len(Rows[n + 1]))
  PROVE  Agrees(h, n + 1, col)
<1>1. TypesAbove(Rows, n + 1, col) = TypesAbove(Rows, n, col)
  <2>1. PICK m : m = n + 1
    OBVIOUS
  <2>2. ~(col < Len(Rows[m]))
    BY <2>1
  <2>3. TypesAbove(Rows, m, col) = TypesAbove(Rows, n, col) \cup {}
    BY <2>1, <2>2, TypesAboveGrows
  <2>4. PICK a, b : a = TypesAbove(Rows, m, col) /\ b = TypesAbove(Rows, n, col)
    OBVIOUS
  <2>5. a = b \cup {}
    BY <2>3, <2>4
  <2>6. a = b
    BY <2>5
  <2> QED
    BY <2>1, <2>4, <2>6
<1>2. ASSUME "STRING" \notin h, NEW k \in 1..(n + 1), col < Len(Rows[k])
      PROVE  \E e \in BOOLEAN : DeduceType(Text(Rows[k][col + 1]), e) \in h
  <2>1. k \in 1..n
    BY <1>2
  <2> QED
    BY <1>2, <2>1 DEF Agrees
<1>3. PICK above : above = TypesAbove(Rows, n, col) /\ above = TypesAbove(Rows, n + 1, col)
  BY <1>1
<1>4. "STRING" \in h <=> "STRING" \in above
  BY <1>3 DEF Agrees
<1>5. ~Overflows /\ "STRING" \notin h => h = above
  BY <1>3 DEF Agrees
<1> QED
  BY <1>2, <1>3, <1>4, <1>5, Zenon DEF Agrees

(* nor does one in a column of strings,                                      *)
LEMMA AgreesSkipped ==
  ASSUME NEW h, NEW n \in Nat, NEW col, Agrees(h, n, col), "STRING" \in h
  PROVE  Agrees(h, n + 1, col)
<1>1. "STRING" \in TypesAbove(Rows, n, col)
  BY DEF Agrees
<1>2. PICK more : TypesAbove(Rows, n + 1, col) = TypesAbove(Rows, n, col) \cup more
  BY TypesAboveGrows
<1>3. "STRING" \in TypesAbove(Rows, n + 1, col)
  BY <1>1, <1>2
<1> QED
  BY <1>3, Zenon DEF Agrees

(* and any other adds its type.                                              *)
LEMMA AgreesTyped ==
  ASSUME NEW h, NEW n \in Nat, NEW col, Agrees(h, n, col), "STRING" \notin h,
         col < Len(Rows[n + 1]), NEW s \in Seq(Char), s = Text(Rows[n + 1][col + 1]),
         NEW e \in BOOLEAN, ~Overflows => ~e
  PROVE  Agrees(h \cup {DeduceType(s, e)}, n + 1, col)
<1>1. PICK d, f : d = DeduceType(s, e) /\ f = DeduceType(s, FALSE)
  OBVIOUS
<1>2. TypesAbove(Rows, n + 1, col) = TypesAbove(Rows, n, col) \cup {f}
  BY <1>1, TypesAboveGrows
<1>3. d = "STRING" <=> f = "STRING"
  BY <1>1, DeduceIs
<1>4. ~Overflows => d = f
  BY <1>1
<1>5. PICK g : g = h \cup {d}
  OBVIOUS
<1>6. "STRING" \in g <=> "STRING" \in TypesAbove(Rows, n + 1, col)
  BY <1>2, <1>3, <1>5 DEF Agrees
<1>7. ASSUME "STRING" \notin g, NEW k \in 1..(n + 1), col < Len(Rows[k])
      PROVE  \E y \in BOOLEAN : DeduceType(Text(Rows[k][col + 1]), y) \in g
  <2>1. CASE k = n + 1
    BY <1>1, <1>5, <2>1
  <2>2. CASE k # n + 1
    <3>1. k \in 1..n
      BY <2>2
    <3> QED
      BY <1>5, <1>7, <3>1 DEF Agrees
  <2> QED
    BY <2>1, <2>2
<1>8. ~Overflows => g = TypesAbove(Rows, n + 1, col)
  BY <1>2, <1>4, <1>5 DEF Agrees
<1>9. Agrees(g, n + 1, col)
  BY <1>6, <1>7, <1>8 DEF Agrees
<1> QED
  BY <1>1, <1>5, <1>9

(* An overflow is one of a cell.                                             *)
LEMMA NoOverflow ==
  ASSUME input \in Inputs, ~Overflows, NEW k \in 1..Len(Rows), NEW c \in 1..Len(Rows[k])
  PROVE  ~ErangeAfter(Text(Rows[k][c]), FALSE)
<1>1. k \in DOMAIN Rows /\ c \in DOMAIN Rows[k]
  BY RowsAre
<1> QED
  BY <1>1 DEF Overflows

(* Which row a line is, how many rows were begun before a cell, and how many *)
(* of them a column was seen in.                                             *)
RowOf(l) == IF l <= HeaderLines THEN 0 ELSE l - 1 - HeaderLines

Begun(l, c) == IF l <= HeaderLines THEN 0 ELSE RowOf(l) + IF c > 1 THEN 1 ELSE 0

Above(l, c, col) == IF l <= HeaderLines THEN 0 ELSE RowOf(l) + IF col < c - 1 THEN 1 ELSE 0

Position(l, c, col) ==
    /\ RowOf(l) \in Nat /\ Begun(l, c) \in Nat /\ Above(l, c, col) \in Nat
    /\ Begun(l, c + 1) = Begun(l + 1, 1)
    /\ Above(l + 1, 1, col) = Begun(l, c + 1)
    /\ l <= HeaderLines =>
         l = 1 /\ RowOf(l + 1) = 0 /\ Begun(l, c) = 0 /\ Begun(l, c + 1) = 0 /\ Above(l, c, col) = 0
    /\ l > HeaderLines =>
         /\ RowOf(l + 1) = RowOf(l) + 1 /\ RowOf(l) = l - 1 - HeaderLines /\ LineOfRow(RowOf(l)) = l
         /\ Begun(l, 1) = RowOf(l) /\ Begun(l, c + 1) = RowOf(l) + 1
         /\ Above(l, c, col) = RowOf(l) + IF col < c - 1 THEN 1 ELSE 0

(* How many rows are above a cell, from its line and its place in it.        *)
LEMMA PositionIs ==
  ASSUME input \in Inputs, NEW l \in Nat, l > 0, NEW c \in Nat, c > 0, NEW col \in Nat
  PROVE  Position(l, c, col)
<1>1. PICK h \in {0, 1} : h = HeaderLines
  BY InputIs
<1>2. \A k : RowOf(k) = IF k <= h THEN 0 ELSE k - 1 - h
  BY <1>1 DEF RowOf
<1>3. \A k, d : Begun(k, d) = IF k <= h THEN 0 ELSE RowOf(k) + IF d > 1 THEN 1 ELSE 0
  BY <1>1 DEF Begun
<1>4. \A k, d : Above(k, d, col) = IF k <= h THEN 0 ELSE RowOf(k) + IF col < d - 1 THEN 1 ELSE 0
  BY <1>1 DEF Above
<1>5. \A q : LineOfRow(q) = q + 1 + h
  BY <1>1 DEF LineOfRow, HeaderLines
<1>6. CASE l <= h
  <2>1. l = 1 /\ h = 1
    BY <1>6
  <2>2. RowOf(l) = 0 /\ RowOf(l + 1) = 0
    BY <1>2, <2>1
  <2>3. Begun(l, c) = 0 /\ Begun(l, c + 1) = 0 /\ Begun(l + 1, 1) = 0 /\ Above(l, c, col) = 0 /\ Above(l + 1, 1, col) = 0
    BY <1>3, <1>4, <2>1, <2>2
  <2> QED
    BY <1>1, <1>6, <2>1, <2>2, <2>3 DEF Position
<1>7. CASE ~(l <= h)
  <2>1. RowOf(l) = l - 1 - h /\ RowOf(l + 1) = (l + 1) - 1 - h
    BY <1>2, <1>7
  <2>2. RowOf(l) \in Nat /\ RowOf(l + 1) = RowOf(l) + 1 /\ LineOfRow(RowOf(l)) = l
    BY <1>5, <1>7, <2>1
  <2>3. ~(l + 1 <= h) /\ c + 1 > 1
    BY <1>7
  <2>4. Begun(l, c) \in Nat /\ Begun(l, c + 1) = RowOf(l) + 1 /\ Begun(l + 1, 1) = RowOf(l + 1) /\ Begun(l, 1) = RowOf(l)
    BY <1>3, <1>7, <2>2, <2>3
  <2>5. Above(l, c, col) = RowOf(l) + (IF col < c - 1 THEN 1 ELSE 0) /\ Above(l + 1, 1, col) = RowOf(l + 1)
    BY <1>4, <1>7, <2>2, <2>3
  <2> QED
    BY <1>1, <1>7, <2>1, <2>2, <2>4, <2>5 DEF Position
<1> QED
  BY <1>6, <1>7

(* What the types of the columns are between two tokens, and whether a       *)
(* number was out of range.                                                  *)
TypesOk(types, erange, l, c) ==
    /\ types \in Seq(SUBSET AllTypes) /\ erange \in BOOLEAN /\ (~Overflows => ~erange)
    /\ \A col \in Nat : Agrees(Has(types, col), Above(l, c, col), col)

(* A token of the header adds a column without a type.                       *)
LEMMA TypesHeader ==
  ASSUME input \in Inputs, NEW types, NEW erange, NEW l \in Nat, l > 0, NEW c \in Nat, c > 0, TypesOk(types, erange, l, c),
         l <= HeaderLines, NEW new, new = AddType(types, c - 1, "NOTHING")
  PROVE  TypesOk(new, erange, l, c + 1) /\ Len(new) = IF c > Len(types) THEN c ELSE Len(types)
<1>1. PICK d, none : d \in Nat /\ d = c - 1 /\ none = "NOTHING"
  OBVIOUS
<1>2. types \in Seq(SUBSET AllTypes) /\ new = AddType(types, d, none)
  BY <1>1 DEF TypesOk
<1>3. /\ new \in Seq(SUBSET AllTypes) /\ Len(new) = IF d + 1 > Len(types) THEN d + 1 ELSE Len(types)
      /\ \A k \in Nat : Has(new, k) = Has(types, k) \cup IF k = d /\ none # "NOTHING" THEN {none} ELSE {}
  <2>1. Widened(new, types, d, none)
    BY <1>1, <1>2, AddTypeIs
  <2> QED
    BY <2>1 DEF Widened
<1>4. ASSUME NEW k \in Nat PROVE Has(new, k) = Has(types, k)
  <2>1. PICK a, b : a = Has(new, k) /\ b = Has(types, k)
    OBVIOUS
  <2>2. a = b \cup {}
    BY <1>1, <1>3, <2>1
  <2> QED
    BY <2>1, <2>2
<1>5. ASSUME NEW k \in Nat PROVE Agrees(Has(new, k), Above(l, c + 1, k), k)
  <2>1. Above(l, c + 1, k) = 0 /\ Above(l, c, k) = 0
    <3>1. PICK next \in Nat : next = c + 1 /\ next > 0
      OBVIOUS
    <3>2. Position(l, next, k) /\ Position(l, c, k)
      BY <3>1, PositionIs
    <3> QED
      BY <3>1, <3>2 DEF Position
  <2> QED
    BY <1>4, <2>1 DEF TypesOk
<1> QED
  BY <1>1, <1>3, <1>5 DEF TypesOk

(* A cell of row k in the table.                                             *)
LEMMA RowCell ==
  ASSUME input \in Inputs, NEW l \in 1..Len(input.lines), l > HeaderLines, NEW row, row = RowOf(l)
  PROVE  /\ row \in Nat /\ row + 1 \in 1..Len(Rows) /\ Rows[row + 1] = input.lines[l]
         /\ Len(input.lines[l]) \in Nat /\ Len(input.lines[l]) > 0 /\ l = LineOfRow(row)
<1>1. PICK n \in Nat, h \in {0, 1} : n = Len(Rows) /\ h = HeaderLines /\ Len(input.lines) = n + h
  BY InputIs, RowsAre
<1>2. l \in Nat /\ l > 0 /\ 1 \in Nat /\ 1 > 0 /\ 0 \in Nat
  BY <1>1
<1>3. Position(l, 1, 0)
  BY <1>2, PositionIs
<1>4. row \in Nat /\ row = l - 1 - h /\ l = LineOfRow(row)
  BY <1>1, <1>3 DEF Position
<1>5. row + 1 \in 1..n /\ (row + 1) + h = l
  BY <1>1, <1>4
<1> QED
  BY <1>1, <1>4, <1>5, RowsAre

(* A token that is skipped, as its column held a string already,             *)
LEMMA TypesSkipped ==
  ASSUME input \in Inputs, NEW types, NEW erange, NEW l \in 1..Len(input.lines), NEW c \in 1..Len(input.lines[l]),
         TypesOk(types, erange, l, c), l > HeaderLines, "STRING" \in Has(types, c - 1)
  PROVE  TypesOk(types, erange, l, c + 1)
<1>1. PICK row \in Nat : row = RowOf(l) /\ row + 1 \in 1..Len(Rows) /\ Rows[row + 1] = input.lines[l]
  BY RowCell
<1>2. c \in Nat /\ c > 0 /\ c + 1 \in Nat /\ c + 1 > 0 /\ l \in Nat /\ l > 0
  <2>1. Len(input.lines[l]) \in Nat /\ Len(input.lines) \in Nat
    BY RowCell, RowsAre, InputIs
  <2> QED
    BY <2>1
<1>3. ASSUME NEW col \in Nat PROVE Agrees(Has(types, col), Above(l, c + 1, col), col)
  <2>1. Position(l, c, col) /\ Position(l, c + 1, col)
    BY <1>2, PositionIs
  <2>2. Above(l, c, col) = row + IF col < c - 1 THEN 1 ELSE 0
    BY <1>1, <2>1 DEF Position
  <2>3. Above(l, c + 1, col) = row + IF col < (c + 1) - 1 THEN 1 ELSE 0
    BY <1>1, <2>1 DEF Position
  <2>4. Agrees(Has(types, col), Above(l, c, col), col)
    BY DEF TypesOk
  <2>5. CASE col = c - 1
    <3>1. Agrees(Has(types, col), row, col)
      BY <2>2, <2>4, <2>5
    <3>2. Agrees(Has(types, col), row + 1, col)
      BY <2>5, <3>1, AgreesSkipped
    <3>3. Above(l, c + 1, col) = row + 1
      BY <2>3, <2>5
    <3> QED
      BY <3>2, <3>3
  <2>6. CASE col # c - 1
    <3>1. Above(l, c + 1, col) = Above(l, c, col)
      BY <1>2, <2>2, <2>3, <2>6
    <3> QED
      BY <2>4, <3>1
  <2> QED
    BY <2>5, <2>6
<1> QED
  BY <1>3 DEF TypesOk

(* one that is typed,                                                        *)
LEMMA TypesRow ==
  ASSUME input \in Inputs, NEW types, NEW erange, NEW l \in 1..Len(input.lines), NEW c \in 1..Len(input.lines[l]),
         TypesOk(types, erange, l, c), l > HeaderLines, "STRING" \notin Has(types, c - 1),
         NEW s, s = Text(input.lines[l][c]), NEW type, type = DeduceType(s, erange),
         NEW new, new = AddType(types, c - 1, type),
         NEW err, err = IF type \in {"EMPTY", "NA", "BOOLEAN"} THEN erange ELSE ErangeAfter(s, erange)
  PROVE  TypesOk(new, err, l, c + 1) /\ Len(new) = IF c > Len(types) THEN c ELSE Len(types)
<1>1. PICK row \in Nat : row = RowOf(l) /\ row + 1 \in 1..Len(Rows) /\ Rows[row + 1] = input.lines[l]
  BY RowCell
<1>2. c \in Nat /\ c > 0 /\ c + 1 \in Nat /\ c + 1 > 0 /\ l \in Nat /\ l > 0 /\ c - 1 < Len(Rows[row + 1])
  <2>1. Len(input.lines[l]) \in Nat /\ Len(input.lines) \in Nat
    BY RowCell, RowsAre, InputIs
  <2> QED
    BY <1>1, <2>1
<1>4. PICK d \in Nat : d = c - 1
  BY <1>2
<1>5. types \in Seq(SUBSET AllTypes) /\ erange \in BOOLEAN /\ (~Overflows => ~erange)
  BY DEF TypesOk
<1>6. s \in Seq(Char) /\ s = Text(Rows[row + 1][d + 1])
  <2>1. Rows[row + 1] \in Seq(Cells) /\ c \in 1..Len(Rows[row + 1])
    BY <1>1, RowsAre
  <2>2. Rows[row + 1][c] \in Cells
    BY <2>1, ElementOfSeq
  <2>3. d + 1 = c
    BY <1>2, <1>4
  <2> QED
    BY <1>1, <2>2, <2>3, TextChars
<1>7. type \in AllTypes /\ type # "NOTHING"
  BY <1>5, <1>6, DeduceIs
<1>8. Widened(new, types, d, type)
  BY <1>4, <1>5, <1>7, AddTypeIs
<1>9. /\ new \in Seq(SUBSET AllTypes) /\ Len(new) = IF d + 1 > Len(types) THEN d + 1 ELSE Len(types)
      /\ \A k \in Nat : Has(new, k) = Has(types, k) \cup IF k = d THEN {type} ELSE {}
  BY <1>7, <1>8 DEF Widened
<1>10. err \in BOOLEAN /\ (~Overflows => ~err)
  <2>1. ErangeAfter(s, erange) = (erange \/ ErangeAfter(s, FALSE)) /\ ErangeAfter(s, FALSE) \in BOOLEAN
    BY <1>5 DEF ErangeAfter
  <2>2. ~Overflows => ~ErangeAfter(s, FALSE)
    <3>1. row + 1 \in 1..Len(Rows) /\ c \in 1..Len(Rows[row + 1])
      BY <1>1
    <3>2. s = Text(Rows[row + 1][c])
      BY <1>1
    <3> QED
      BY <3>1, <3>2, NoOverflow
  <2> QED
    BY <1>5, <2>1, <2>2
<1>3. ASSUME NEW col \in Nat PROVE Agrees(Has(new, col), Above(l, c + 1, col), col)
  <2>1. Position(l, c, col) /\ Position(l, c + 1, col)
    BY <1>2, PositionIs
  <2>2. Above(l, c, col) = row + IF col < c - 1 THEN 1 ELSE 0
    BY <1>1, <2>1 DEF Position
  <2>3. Above(l, c + 1, col) = row + IF col < (c + 1) - 1 THEN 1 ELSE 0
    BY <1>1, <2>1 DEF Position
  <2>4. PICK h : h = Has(types, col) /\ Agrees(h, Above(l, c, col), col)
    BY DEF TypesOk
  <2>5. CASE col = d
    <3>1. Agrees(h, row, col)
      BY <1>4, <2>2, <2>4, <2>5
    <3>2. "STRING" \notin h /\ col < Len(Rows[row + 1]) /\ s = Text(Rows[row + 1][col + 1])
      BY <1>2, <1>4, <1>6, <2>4, <2>5
    <3>3. Agrees(h \cup {DeduceType(s, erange)}, row + 1, col)
      BY <1>5, <1>6, <3>1, <3>2, AgreesTyped
    <3>4. Above(l, c + 1, col) = row + 1
      BY <1>4, <2>3, <2>5
    <3>5. Has(new, col) = h \cup {type}
      BY <1>9, <2>4, <2>5
    <3> QED
      BY <3>3, <3>4, <3>5
  <2>6. CASE col # d
    <3>1. Above(l, c + 1, col) = Above(l, c, col)
      BY <1>2, <1>4, <2>2, <2>3, <2>6
    <3>2. PICK g : g = Has(new, col)
      OBVIOUS
    <3>3. g = h \cup {}
      BY <1>9, <2>4, <2>6, <3>2
    <3>4. g = h
      BY <3>3
    <3> QED
      BY <2>4, <3>1, <3>2, <3>4
  <2> QED
    BY <2>5, <2>6
<1> QED
  BY <1>3, <1>4, <1>9, <1>10 DEF TypesOk

(* and the end of a line, which columns it has no cell in ignore.            *)
LEMMA TypesLine ==
  ASSUME input \in Inputs, NEW types, NEW erange, NEW l \in 1..Len(input.lines),
         NEW c, c = Len(input.lines[l]) + 1, TypesOk(types, erange, l, c)
  PROVE  TypesOk(types, erange, l + 1, 1)
<1>1. PICK n \in Nat : n = Len(input.lines[l]) /\ n > 0 /\ l \in Nat /\ l > 0
  <2>1. input.lines \in Lines
    BY InputIs
  <2>2. PICK row : row = input.lines[l] /\ row \in Seq(Cells) /\ row # <<>> /\ Len(input.lines) \in Nat
    BY <2>1, LinesAre
  <2>3. Len(row) \in Nat /\ Len(row) # 0
    BY <2>2, EmptySeq, LenProperties
  <2> QED
    BY <2>2, <2>3
<1>2. c = n + 1 /\ c \in Nat /\ c > 0
  BY <1>1
<1>3. ASSUME NEW col \in Nat PROVE Agrees(Has(types, col), Above(l + 1, 1, col), col)
  <2>1. Position(l, c, col) /\ Position(l, n, col)
    BY <1>1, <1>2, PositionIs
  <2>2. Agrees(Has(types, col), Above(l, c, col), col)
    BY DEF TypesOk
  <2>3. CASE l <= HeaderLines
    <3>1. Above(l, c, col) = 0 /\ Above(l + 1, 1, col) = 0
      BY <1>2, <2>1, <2>3 DEF Position
    <3> QED
      BY <2>2, <3>1
  <2>4. CASE ~(l <= HeaderLines)
    <3>1. l > HeaderLines
      BY <1>1, <2>4, InputIs
    <3>2. PICK row \in Nat : row = RowOf(l) /\ row + 1 \in 1..Len(Rows) /\ Rows[row + 1] = input.lines[l]
      BY <3>1, RowCell
    <3>3. Above(l, c, col) = row + IF col < c - 1 THEN 1 ELSE 0
      BY <2>1, <3>1, <3>2 DEF Position
    <3>4. Above(l + 1, 1, col) = row + 1
      BY <1>2, <2>1, <3>1, <3>2 DEF Position
    <3>5. CASE col < n
      <4>1. Above(l, c, col) = row + 1
        BY <1>2, <3>3, <3>5
      <4> QED
        BY <2>2, <3>4, <4>1
    <3>6. CASE ~(col < n)
      <4>1. Agrees(Has(types, col), row, col)
        BY <1>2, <2>2, <3>3, <3>6
      <4>2. ~(col < Len(Rows[row + 1]))
        BY <1>1, <3>2, <3>6
      <4>3. Agrees(Has(types, col), row + 1, col)
        BY <4>1, <4>2, AgreesShort
      <4> QED
        BY <3>4, <4>3
    <3> QED
      BY <3>5, <3>6
  <2> QED
    BY <2>3, <2>4
<1> QED
  BY <1>3 DEF TypesOk

-----------------------------------------------------------------------------
(* What it knows of the offsets of the rows, and of the number of columns.   *)

(* Multiples of the interval.                                                *)
LEMMA TimesLess ==
  ASSUME NEW a \in Nat, NEW b \in Nat, NEW i \in Nat \ {0}, a * i < b * i
  PROVE  a < b
<1> SUFFICES ASSUME b <= a PROVE FALSE
  OBVIOUS
<1>1. PICK d \in Nat : a = b + d
  <2>1. a - b \in Nat /\ a = b + (a - b)
    OBVIOUS
  <2> QED
    BY <2>1
<1>2. a * i = b * i + d * i /\ d * i >= 0
  BY <1>1
<1> QED
  BY <1>2

(* Division with remainder,                                                  *)
LEMMA Quotient ==
  ASSUME NEW x \in Nat, NEW n \in Nat \ {0}
  PROVE  /\ x \div n \in Nat /\ x % n \in Nat /\ x % n < n
         /\ x = (x \div n) * n + (x % n)
OBVIOUS

(* multiples,                                                                *)
LEMMA MultipleIs ==
  ASSUME NEW n \in Nat, NEW i \in Nat \ {0}, n % i = 0
  PROVE  n \div i \in Nat /\ n = (n \div i) * i
<1>1. n \div i \in Nat /\ n = (n \div i) * i + 0
  BY Quotient
<1>2. (n \div i) * i \in Nat
  BY <1>1, SMT
<1> QED
  BY <1>1, <1>2

Within(n, m, i) == n <= m * i /\ m * i - i < n

Divisible(n, i) == n % i = 0

(* and the next of them.                                                     *)
LEMMA MultipleNext ==
  ASSUME NEW n \in Nat, NEW m \in Nat, NEW i \in Nat \ {0}, Within(n, m, i)
  PROVE  Divisible(n, i) <=> n = m * i
<1> USE DEF Within, Divisible
<1>1. ASSUME n % i = 0 PROVE n = m * i
  <2>1. PICK d \in Nat : n = d * i
    BY <1>1, MultipleIs
  <2>2. m \in Nat /\ m + 1 \in Nat /\ (d + 1) * i = d * i + i
    OBVIOUS
  <2>3. m < d + 1
    BY <2>1, <2>2, TimesLess
  <2>4. CASE m = d
    BY <2>1, <2>4
  <2>5. CASE m < d
    <3>1. PICK e \in Nat : d = m + 1 + e
      <4>1. d - m - 1 \in Nat /\ d = m + 1 + (d - m - 1)
        BY <2>5
      <4> QED
        BY <4>1
    <3>2. d * i = m * i + i + e * i /\ e * i >= 0
      BY <3>1
    <3> QED
      BY <2>1, <3>2
  <2> QED
    BY <2>3, <2>4, <2>5
<1>2. (m * i) % i = 0
  OBVIOUS
<1> QED
  BY <1>1, <1>2

(* The offsets recorded when so many rows were begun: one for every          *)
(* interval-th of them.                                                      *)
Exact(row, v) == row < Len(Rows) /\ Reliable(row) => v = LineOffset(input.lines, LineOfRow(row))

Certain(row) == "STRING" \notin TypesAbove(Rows, row, 0)

OffsetsOk(offsets, begun) ==
    /\ offsets \in Seq(Nat)
    /\ Within(begun, Len(offsets), input.interval)
    /\ \A k \in 1..Len(offsets) : Exact((k - 1) * input.interval, offsets[k])
    /\ \A q \in Nat : q < begun /\ Divisible(q, input.interval) => Certain(q)

(* Nothing is recorded at first;                                             *)
LEMMA OffsetsFirst ==
  ASSUME input \in Inputs
  PROVE  OffsetsOk(<<>>, 0)
<1>1. PICK i, nil : i \in Nat \ {0} /\ i = input.interval /\ nil = <<>>
  BY InputIs
<1>2. nil \in Seq(Nat) /\ Len(nil) = 0
  BY <1>1, EmptySeq
<1>3. 0 * i = 0
  BY <1>1
<1>4. Within(0, Len(nil), i)
  BY <1>1, <1>2, <1>3 DEF Within
<1>5. OffsetsOk(nil, 0)
  BY <1>1, <1>2, <1>4 DEF OffsetsOk
<1> QED
  BY <1>1, <1>5

(* an interval-th row adds its offset,                                       *)
LEMMA OffsetsNoted ==
  ASSUME input \in Inputs, NEW offsets, NEW row \in Nat, OffsetsOk(offsets, row),
         Divisible(row, input.interval), Certain(row), NEW v \in Nat, Exact(row, v),
         NEW new, new = Append(offsets, v)
  PROVE  OffsetsOk(new, row + 1)
<1>1. PICK i \in Nat \ {0}, m \in Nat : i = input.interval /\ m = Len(offsets) /\ offsets \in Seq(Nat)
  BY InputIs DEF OffsetsOk
<1>2. Within(row, m, i)
  BY <1>1 DEF OffsetsOk
<1>3. row = m * i
  <2>1. Divisible(row, i)
    BY <1>1
  <2>2. Divisible(row, i) <=> row = m * i
    BY <1>2, MultipleNext
  <2> QED
    BY <2>1, <2>2
<1>4. new \in Seq(Nat) /\ Len(new) = m + 1 /\ new[m + 1] = v /\ \A k \in 1..m : new[k] = offsets[k]
  <2>1. PICK s \in Seq(Nat) : s = offsets
    BY <1>1
  <2>2. new \in Seq(Nat) /\ Len(new) = Len(s) + 1
    BY <2>1, AppendProperties
  <2>3. new[Len(s) + 1] = v /\ \A k \in 1..Len(s) : new[k] = s[k]
    BY <2>1, AppendProperties
  <2> QED
    BY <1>1, <2>1, <2>2, <2>3
<1>5. (m + 1) * i = m * i + i
  OBVIOUS
<1>6. Within(row + 1, m + 1, i)
  <2>1. PICK mi \in Int, ni \in Int : mi = m * i /\ ni = (m + 1) * i
    OBVIOUS
  <2>2. ni = mi + i /\ row = mi
    BY <1>3, <1>5, <2>1
  <2>3. row + 1 <= ni /\ ni - i < row + 1
    BY <2>1, <2>2
  <2> QED
    BY <2>1, <2>3 DEF Within
<1>7. ASSUME NEW k \in 1..(m + 1) PROVE Exact((k - 1) * i, new[k])
  <2>1. CASE k = m + 1
    <3>1. k - 1 = m
      BY <2>1
    <3>2. (k - 1) * i = row /\ new[k] = v
      BY <1>3, <1>4, <2>1, <3>1
    <3> QED
      BY <3>2
  <2>2. CASE k # m + 1
    <3>1. k \in 1..m
      BY <2>2
    <3> QED
      BY <1>1, <1>4, <3>1 DEF OffsetsOk
  <2> QED
    BY <2>1, <2>2
<1>8. ASSUME NEW q \in Nat, q < row + 1, Divisible(q, i) PROVE Certain(q)
  <2>1. CASE q = row
    BY <2>1
  <2>2. CASE q # row
    <3>1. q < row
      BY <1>8, <2>2
    <3> QED
      BY <1>1, <1>8, <3>1 DEF OffsetsOk
  <2> QED
    BY <2>1, <2>2
<1> QED
  BY <1>1, <1>4, <1>6, <1>7, <1>8 DEF OffsetsOk

(* and any other row adds none.                                              *)
LEMMA OffsetsPassed ==
  ASSUME input \in Inputs, NEW offsets, NEW row \in Nat, OffsetsOk(offsets, row),
         ~Divisible(row, input.interval)
  PROVE  OffsetsOk(offsets, row + 1)
<1>1. PICK i \in Nat \ {0}, m \in Nat : i = input.interval /\ m = Len(offsets) /\ offsets \in Seq(Nat)
  BY InputIs DEF OffsetsOk
<1>2. Within(row, m, i)
  BY <1>1 DEF OffsetsOk
<1>3. row # m * i
  BY <1>1, <1>2, MultipleNext
<1>6. Within(row + 1, m, i)
  <2>1. PICK mi \in Int : mi = m * i
    OBVIOUS
  <2>2. row + 1 <= mi /\ mi - i < row + 1
    BY <1>2, <1>3, <2>1 DEF Within
  <2> QED
    BY <2>1, <2>2 DEF Within
<1>8. ASSUME NEW q \in Nat, q < row + 1, Divisible(q, i) PROVE Certain(q)
  <2>1. q # row
    BY <1>1, <1>8
  <2>2. q < row
    BY <1>8, <2>1
  <2> QED
    BY <1>1, <1>8, <2>2 DEF OffsetsOk
<1> QED
  BY <1>1, <1>6, <1>8 DEF OffsetsOk

(* The number of columns: that of a line that has been read, and no line     *)
(* that has been read has more.                                              *)
WidthOk(n, l, c) ==
    /\ n \in Nat /\ c - 1 <= n
    /\ \A k \in 1..(l - 1) : Len(input.lines[k]) <= n
    /\ n = 0 \/ \E k \in 1..Len(input.lines) : n <= Len(input.lines[k])

(* The vector of types is as long as the longest row so far: at a token,     *)
LEMMA WidthToken ==
  ASSUME NEW n, NEW l \in 1..Len(input.lines), NEW c \in Nat, c > 0, c <= Len(input.lines[l]),
         WidthOk(n, l, c), NEW m, m = IF c > n THEN c ELSE n
  PROVE  WidthOk(m, l, c + 1)
<1>1. n \in Nat /\ m \in Nat /\ n <= m /\ c <= m
  BY DEF WidthOk
<1>2. \A k \in 1..(l - 1) : Len(input.lines[k]) <= n
  BY DEF WidthOk
<1>3. \E k \in 1..Len(input.lines) : m <= Len(input.lines[k])
  <2>1. CASE c > n
    BY <2>1
  <2>2. CASE ~(c > n)
    <3>1. m = n /\ n # 0
      BY <1>1, <2>2
    <3> QED
      BY <3>1 DEF WidthOk
  <2> QED
    BY <2>1, <2>2
<1> QED
  BY <1>1, <1>2, <1>3 DEF WidthOk

(* and at the end of a line.                                                 *)
LEMMA WidthLine ==
  ASSUME NEW n, NEW l \in Nat, NEW c, c = Len(input.lines[l]) + 1, Len(input.lines[l]) \in Nat, WidthOk(n, l, c)
  PROVE  WidthOk(n, l + 1, 1)
<1>1. n \in Nat /\ Len(input.lines[l]) <= n
  BY DEF WidthOk
<1>2. ASSUME NEW k \in 1..((l + 1) - 1) PROVE Len(input.lines[k]) <= n
  <2>1. CASE k = l
    BY <1>1, <2>1
  <2>2. CASE k # l
    <3>1. k \in 1..(l - 1)
      BY <2>2
    <3> QED
      BY <3>1 DEF WidthOk
  <2> QED
    BY <2>1, <2>2
<1> QED
  BY <1>1, <1>2 DEF WidthOk

-----------------------------------------------------------------------------
(* Where the tokenizer is.                                                   *)

(* The rows whose first token must not be skipped.                           *)
LEMMA SkipsFirst ==
  ASSUME input \in Inputs, NEW row \in Nat, Divisible(row, input.interval), ~Certain(row),
         row < Len(Rows) \/ (input.eol /\ row = Len(Rows))
  PROVE  FirstTokenSkipped
<1>1. PICK n \in Nat : n = Len(Rows)
  BY RowsAre
<1>2. PICK e \in {0, 1} : e = (IF input.eol THEN 0 ELSE 1) /\ row <= n - e
  <2>1. CASE input.eol
    BY <1>1, <2>1
  <2>2. CASE ~input.eol
    BY <1>1, <2>2
  <2> QED
    BY <2>1, <2>2
<1>3. row # 0
  <2> SUFFICES ASSUME row = 0 PROVE FALSE
    OBVIOUS
  <2>1. TypesAbove(Rows, row, 0) = {}
    BY TypesAboveNone
  <2> QED
    BY <2>1 DEF Certain
<1>4. row \in 1..(n - e)
  BY <1>2, <1>3
<1>5. row % input.interval = 0 /\ "STRING" \in TypesAbove(Rows, row, 0)
  BY DEF Divisible, Certain
<1> QED
  BY <1>1, <1>2, <1>4, <1>5 DEF FirstTokenSkipped

(* A scan that records every offset skips no first token.                    *)
LEMMA SkipsNone ==
  ASSUME input \in Inputs, NEW offsets, NEW begun, begun = Len(Rows) + (IF input.eol THEN 1 ELSE 0),
         OffsetsOk(offsets, begun)
  PROVE  ~FirstTokenSkipped
<1>1. PICK n \in Nat : n = Len(Rows)
  BY RowsAre
<1>2. PICK e \in {0, 1} : e = IF input.eol THEN 0 ELSE 1
  OBVIOUS
<1>3. ASSUME NEW r \in 1..(n - e), r % input.interval = 0, "STRING" \in TypesAbove(Rows, r, 0)
      PROVE  FALSE
  <2>1. r \in Nat /\ r < begun
    <3>1. CASE input.eol
      BY <1>1, <1>2, <3>1
    <3>2. CASE ~input.eol
      BY <1>1, <1>2, <3>2
    <3> QED
      BY <3>1, <3>2
  <2>2. Divisible(r, input.interval) /\ ~Certain(r)
    BY <1>3 DEF Divisible, Certain
  <2> QED
    BY <2>1, <2>2 DEF OffsetsOk
<1> QED
  BY <1>1, <1>2, <1>3 DEF FirstTokenSkipped

(* Where a tokenizer is before the c-th cell of a line, p characters into    *)
(* the file, unless an escape was kept with its character.                   *)
Trust(l, c) == ~StrayEscapeBefore(l) /\ \A d \in 1..(c - 1) : ~Stray(input.lines[l][d])

Follows(t, l, c, p) ==
    /\ t.last \in Nat
    /\ Trust(l, c) => t.offset = p
    /\ c = 1 /\ (l <= 1 + HeaderLines \/ ~LastTokenSkipped(RowOf(l) - 1)) => t.last = t.offset

(* A tokenizer that is before a cell is before the next one after it,        *)
LEMMA FollowsCell ==
  ASSUME NEW l, NEW c \in Nat, c > 0, NEW t, NEW p \in Nat, Follows(t, l, c, p),
         NEW cell, cell = input.lines[l][c], NEW n \in Nat, n = Len(Raw(cell)), NEW ch, NEW u, NEW skip,
         Ended(u, t, cell, ch, skip)
  PROVE  Follows(u, l, c + 1, p + n + 1)
<1>1. u.last \in Nat
  BY DEF Ended, Collects, Follows
<1>2. ASSUME Trust(l, c + 1) PROVE u.offset = p + n + 1
  <2>1. Trust(l, c)
    BY <1>2 DEF Trust
  <2>2. ~Stray(cell)
    BY <1>2 DEF Trust
  <2>3. t.offset = p
    BY <2>1 DEF Follows
  <2> QED
    BY <2>2, <2>3 DEF Ended
<1>3. c + 1 # 1
  OBVIOUS
<1> QED
  BY <1>1, <1>2, <1>3 DEF Follows

(* or before the next line.                                                  *)
LEMMA FollowsLine ==
  ASSUME input \in Inputs, NEW l \in 1..Len(input.lines), NEW c, c = Len(input.lines[l]),
         NEW t, NEW p \in Nat, Follows(t, l, c, p),
         NEW cell, cell = input.lines[l][c], NEW n \in Nat, n = Len(Raw(cell)), NEW ch, NEW u, NEW skip,
         Ended(u, t, cell, ch, skip), skip => l > HeaderLines /\ LastTokenSkipped(RowOf(l))
  PROVE  Follows(u, l + 1, 1, p + n + 1)
<1>1. c \in Nat /\ c > 0 /\ l \in Nat /\ l > 0 /\ DOMAIN input.lines[l] = 1..c
  <2>1. input.lines \in Lines
    BY InputIs
  <2>2. PICK row : row = input.lines[l] /\ row \in Seq(Cells) /\ row # <<>> /\ Len(input.lines) \in Nat
    BY <2>1, LinesAre
  <2>3. Len(row) \in Nat /\ Len(row) # 0 /\ DOMAIN row = 1..Len(row)
    BY <2>2, EmptySeq, LenProperties
  <2> QED
    BY <2>2, <2>3
<1>2. Follows(u, l, c + 1, p + n + 1)
  BY <1>1, FollowsCell
<1>3. Trust(l + 1, 1) => Trust(l, c + 1)
  <2> SUFFICES ASSUME ~StrayEscapeBefore(l + 1) PROVE Trust(l, c + 1)
    BY DEF Trust
  <2>1. \A k \in 1..((l + 1) - 1) : \A d \in DOMAIN input.lines[k] : ~Stray(input.lines[k][d])
    BY DEF StrayEscapeBefore
  <2>2. ~StrayEscapeBefore(l)
    <3>1. \A k \in 1..(l - 1) : k \in 1..((l + 1) - 1)
      BY <1>1
    <3> QED
      BY <2>1, <3>1 DEF StrayEscapeBefore
  <2>3. \A d \in 1..((c + 1) - 1) : ~Stray(input.lines[l][d])
    BY <1>1, <2>1
  <2> QED
    BY <2>2, <2>3 DEF Trust
<1>4. ASSUME l + 1 <= 1 + HeaderLines \/ ~LastTokenSkipped(RowOf(l + 1) - 1)
      PROVE  u.last = u.offset
  <2>1. ~skip
    <3> SUFFICES ASSUME skip PROVE FALSE
      OBVIOUS
    <3>1. l > HeaderLines /\ LastTokenSkipped(RowOf(l)) /\ HeaderLines \in Nat
      BY InputIs
    <3>2. Position(l, 1, 0)
      BY <1>1, PositionIs
    <3>3. RowOf(l + 1) = RowOf(l) + 1 /\ RowOf(l) \in Nat
      BY <3>1, <3>2 DEF Position
    <3>4. RowOf(l + 1) - 1 = RowOf(l)
      BY <3>3
    <3> QED
      BY <1>1, <1>4, <3>1, <3>4
  <2> QED
    BY <2>1 DEF Ended
<1> QED
  BY <1>2, <1>3, <1>4 DEF Follows

(* The start of a row's first token is the offset of its line.               *)
LEMMA StartExact ==
  ASSUME input \in Inputs, NEW l \in 1..Len(input.lines), l > HeaderLines,
         NEW t, NEW p, p = CellAt(input.lines, l, 1), Follows(t, l, 1, p)
  PROVE  Exact(RowOf(l), t.last)
<1>1. PICK row \in Nat : row = RowOf(l) /\ l = LineOfRow(row)
  BY RowCell
<1>2. SUFFICES ASSUME Reliable(row) PROVE t.last = LineOffset(input.lines, l)
  BY <1>1 DEF Exact
<1>3. ~StrayEscapeBefore(l)
  BY <1>1, <1>2 DEF Reliable
<1>4. Trust(l, 1)
  BY <1>3 DEF Trust
<1>5. t.offset = p
  BY <1>4 DEF Follows
<1>6. l <= 1 + HeaderLines \/ ~LastTokenSkipped(row - 1)
  <2>1. CASE row = 0
    <3>2. l \in Int /\ HeaderLines \in Nat
      BY InputIs
    <3>1. row = l - 1 - HeaderLines
      BY <1>1, <3>2 DEF RowOf
    <3> QED
      BY <2>1, <3>1, <3>2
  <2>2. CASE row # 0
    BY <1>2, <2>2 DEF Reliable
  <2> QED
    BY <2>1, <2>2
<1>7. t.last = t.offset
  BY <1>1, <1>6 DEF Follows
<1>8. p = LineOffset(input.lines, l)
  BY InputIs, LineOffsetAt
<1> QED
  BY <1>5, <1>7, <1>8

-----------------------------------------------------------------------------
(* The scan from a cell to the next one,                                     *)

(* The scan before the c-th cell of line l, p characters into the file.      *)
At(r, l, c, p) ==
    /\ ScanRecord(r) /\ Fresh(r.tk)
    /\ r.interval = input.interval /\ r.column = c - 1 /\ r.row = RowOf(l)
    /\ r.phase = IF l <= HeaderLines THEN "header" ELSE "rows"
    /\ l <= HeaderLines => r.rows = 0
    /\ Follows(r.tk, l, c, p)
    /\ TypesOk(r.types, r.erange, l, c)
    /\ OffsetsOk(r.offsets, Begun(l, c))
    /\ WidthOk(Len(r.types), l, c)

(* Which tokens are skipped.                                                 *)
LEMMA SkippingIs ==
  ASSUME NEW r, NEW l, NEW c, NEW p, At(r, l, c, p)
  PROVE  /\ Skipping(r) \in BOOLEAN
         /\ l <= HeaderLines => ~Skipping(r)
         /\ ~(l <= HeaderLines) => (Skipping(r) <=> "STRING" \in Has(r.types, c - 1))
<1>1. IsString(r.types, c - 1) <=> "STRING" \in Has(r.types, c - 1)
  BY IsStringHas
<1>2. Skipping(r) = (r.phase = "rows" /\ IsString(r.types, c - 1))
  BY DEF At, Skipping
<1>3. r.phase = IF l <= HeaderLines THEN "header" ELSE "rows"
  BY DEF At
<1> QED
  BY <1>1, <1>2, <1>3

(* A token of a row adds its type,                                           *)
LEMMA RowTypes ==
  ASSUME input \in Inputs, NEW l \in 1..Len(input.lines), NEW c \in 1..Len(input.lines[l]), l > HeaderLines,
         NEW r, NEW p, At(r, l, c, p), NEW ch, NEW u, Ended(u, r.tk, input.lines[l][c], ch, Skipping(r)),
         NEW f, f = Fed(r, u)
  PROVE  TypesOk(TypesWith(f), ErangeWith(f), l, c + 1) /\ WidthOk(Len(TypesWith(f)), l, c + 1)
<1>1. ScanRecord(r) /\ r.column = c - 1 /\ TypesOk(r.types, r.erange, l, c) /\ WidthOk(Len(r.types), l, c)
  BY DEF At
<1>2. f.tk = u /\ f.types = r.types /\ f.erange = r.erange /\ f.column = c - 1
  BY <1>1, FedIs
<1>3. PICK types, erange : types = r.types /\ erange = r.erange
  OBVIOUS
<1>4. Len(input.lines[l]) \in Nat /\ Len(input.lines) \in Nat /\ c \in Nat /\ c > 0 /\ c <= Len(input.lines[l])
  <2>1. Len(input.lines[l]) \in Nat /\ Len(input.lines) \in Nat
    BY RowCell, RowsAre, InputIs
  <2> QED
    BY <2>1
<1>5. ~(l <= HeaderLines)
  BY <1>4, InputIs
<1>6. Skipping(r) <=> IsString(f.types, f.column)
  BY <1>2, <1>5, SkippingIs, IsStringHas
<1>7. CASE Skipping(r)
  <2>1. TypesWith(f) = types /\ ErangeWith(f) = erange
    BY <1>2, <1>3, <1>6, <1>7 DEF TypesWith, ErangeWith
  <2>2. "STRING" \in Has(types, c - 1)
    BY <1>3, <1>5, <1>7, SkippingIs
  <2>3. TypesOk(types, erange, l, c + 1)
    BY <1>1, <1>3, <2>2, TypesSkipped
  <2>4. PICK n : n = Len(types)
    OBVIOUS
  <2>5. c <= n /\ n \in Nat
    <3>1. (c - 1) + 1 <= n
      BY <1>2, <1>3, <1>6, <1>7, <2>4 DEF IsString
    <3>2. n \in Nat
      BY <1>1, <1>3, <2>4 DEF WidthOk
    <3> QED
      BY <1>4, <3>1, <3>2
  <2>6. n = IF c > n THEN c ELSE n
    BY <1>4, <2>5
  <2>7. WidthOk(n, l, c + 1)
    BY <1>1, <1>3, <1>4, <2>4, <2>6, WidthToken
  <2> QED
    BY <2>1, <2>3, <2>4, <2>7
<1>8. CASE ~Skipping(r)
  <2>1. PICK s : s = Text(input.lines[l][c]) /\ u.token.text = s
    BY <1>8 DEF Ended
  <2>2. PICK type : type = DeduceType(s, erange)
    OBVIOUS
  <2>3. PICK new : new = AddType(types, c - 1, type)
    OBVIOUS
  <2>4. PICK err : err = IF type \in {"EMPTY", "NA", "BOOLEAN"} THEN erange ELSE ErangeAfter(s, erange)
    OBVIOUS
  <2>5. TypesWith(f) = new
    BY <1>2, <1>3, <1>6, <1>8, <2>1, <2>2, <2>3 DEF TypesWith
  <2>6. ErangeWith(f) = err
    BY <1>2, <1>3, <1>6, <1>8, <2>1, <2>2, <2>4 DEF ErangeWith
  <2>7. "STRING" \notin Has(types, c - 1)
    BY <1>3, <1>5, <1>8, SkippingIs
  <2>8. TypesOk(new, err, l, c + 1) /\ Len(new) = IF c > Len(types) THEN c ELSE Len(types)
    BY <1>1, <1>3, <2>1, <2>2, <2>3, <2>4, <2>7, TypesRow
  <2>9. PICK n, m : n = Len(types) /\ m = Len(new) /\ m = IF c > n THEN c ELSE n
    BY <2>8
  <2>10. WidthOk(m, l, c + 1)
    BY <1>1, <1>3, <1>4, <2>9, WidthToken
  <2> QED
    BY <2>5, <2>6, <2>8, <2>9, <2>10
<1> QED
  BY <1>7, <1>8

(* The offsets, when the first token of a row is not skipped where its       *)
(* offset is wanted. The row may be the one the end of line after the last   *)
(* row begins.                                                               *)
LEMMA RowOffsets ==
  ASSUME input \in Inputs, NEW l \in Nat, l > HeaderLines, NEW c \in Nat, c > 0,
         NEW r, NEW p, At(r, l, c, p), NEW cell, NEW ch, NEW u, Ended(u, r.tk, cell, ch, Skipping(r)),
         NEW f, f = Fed(r, u), ~(Interesting(f) /\ IsString(f.types, f.column)),
         c = 1 => Exact(RowOf(l), r.tk.last)
  PROVE  OffsetsOk(OffsetsWith(f), Begun(l, c + 1))
<1>1. /\ ScanRecord(r) /\ r.column = c - 1 /\ r.row = RowOf(l) /\ r.interval = input.interval
      /\ TypesOk(r.types, r.erange, l, c) /\ OffsetsOk(r.offsets, Begun(l, c)) /\ Follows(r.tk, l, c, p)
  BY DEF At
<1>2. f.tk = u /\ f.types = r.types /\ f.column = c - 1 /\ f.row = RowOf(l) /\ f.interval = input.interval
      /\ f.offsets = r.offsets
  BY <1>1, FedIs
<1>3. l > 0 /\ ~(l <= HeaderLines) /\ HeaderLines \in Nat
  BY InputIs
<1>4. PICK row \in Nat : row = RowOf(l) /\ Begun(l, c + 1) = row + 1
  <2>1. Position(l, c, 0)
    BY <1>3, PositionIs
  <2> QED
    BY <2>1 DEF Position
<1>5. PICK offsets : offsets = r.offsets
  OBVIOUS
<1>6. CASE c # 1
  <2>1. ~Interesting(f)
    BY <1>2, <1>6 DEF Interesting
  <2>2. OffsetsWith(f) = r.offsets
    BY <1>2, <2>1 DEF OffsetsWith
  <2>3. Begun(l, c) = row + 1
    BY <1>3, <1>4, <1>6 DEF Begun
  <2> QED
    BY <1>1, <1>4, <2>2, <2>3
<1>7. CASE c = 1
  <2>1. Position(l, c, 0)
    BY <1>3, PositionIs
  <2>2. OffsetsOk(offsets, row)
    BY <1>1, <1>4, <1>5, <1>7, <2>1 DEF Position
  <2>3. Interesting(f) <=> Divisible(row, input.interval)
    BY <1>2, <1>4, <1>7 DEF Interesting, Divisible
  <2>4. CASE Interesting(f)
    <3>1. ~IsString(f.types, f.column)
      BY <2>4
    <3>2. "STRING" \notin Has(r.types, 0) /\ ~Skipping(r)
      <4>1. ~IsString(r.types, 0) /\ c - 1 = 0
        BY <1>2, <1>7, <3>1
      <4>2. "STRING" \notin Has(r.types, 0)
        BY <4>1, IsStringHas
      <4> QED
        BY <1>3, <4>1, <4>2, SkippingIs
    <3>3. Certain(row)
      <4>1. Agrees(Has(r.types, 0), Above(l, c, 0), 0)
        BY <1>1 DEF TypesOk
      <4>2. Above(l, c, 0) = row
        BY <1>3, <1>4, <1>7, <2>1 DEF Position
      <4>3. Agrees(Has(r.types, 0), row, 0)
        BY <4>1, <4>2
      <4> QED
        BY <3>2, <4>3 DEF Agrees, Certain
    <3>4. PICK v \in Nat : v = r.tk.last
      BY <1>1 DEF Follows
    <3>5. PICK new : new = Append(offsets, v)
      OBVIOUS
    <3>6. OffsetsWith(f) = new
      BY <1>2, <1>5, <2>4, <3>2, <3>4, <3>5 DEF OffsetsWith, Recorded, Ended
    <3>7. OffsetsOk(new, row + 1)
      BY <1>4, <1>7, <2>2, <2>3, <2>4, <3>3, <3>4, <3>5, OffsetsNoted
    <3> QED
      BY <1>4, <3>6, <3>7
  <2>5. CASE ~Interesting(f)
    <3>1. OffsetsWith(f) = offsets
      BY <1>2, <1>5, <2>5 DEF OffsetsWith
    <3>2. OffsetsOk(offsets, row + 1)
      BY <2>2, <2>3, <2>5, OffsetsPassed
    <3> QED
      BY <1>4, <3>1, <3>2
  <2> QED
    BY <2>4, <2>5
<1> QED
  BY <1>6, <1>7

(* and the scan ends if it is skipped where an offset is wanted.             *)
LEMMA RowSkips ==
  ASSUME input \in Inputs, NEW l \in Nat, l > HeaderLines, NEW c \in Nat, c > 0,
         NEW r, NEW p, At(r, l, c, p), NEW u, NEW f, f = Fed(r, u), Interesting(f), IsString(f.types, f.column),
         RowOf(l) < Len(Rows) \/ (input.eol /\ RowOf(l) = Len(Rows))
  PROVE  FirstTokenSkipped
<1>1. /\ ScanRecord(r) /\ r.column = c - 1 /\ r.row = RowOf(l) /\ r.interval = input.interval
      /\ TypesOk(r.types, r.erange, l, c)
  BY DEF At
<1>2. f.types = r.types /\ f.column = c - 1 /\ f.row = RowOf(l) /\ f.interval = input.interval
  BY <1>1, FedIs
<1>3. c = 1 /\ Divisible(RowOf(l), input.interval) /\ IsString(r.types, 0)
  BY <1>2 DEF Interesting, Divisible
<1>4. l > 0
  BY InputIs
<1>5. PICK row \in Nat : row = RowOf(l) /\ Above(l, c, 0) = row
  <2>1. Position(l, c, 0)
    BY <1>4, PositionIs
  <2> QED
    BY <1>3, <2>1 DEF Position
<1>6. Agrees(Has(r.types, 0), row, 0)
  BY <1>1, <1>5 DEF TypesOk
<1>7. ~Certain(row)
  BY <1>3, <1>6, IsStringHas DEF Agrees, Certain
<1> QED
  BY <1>3, <1>5, <1>7, SkipsFirst

(* What a token leaves: its notes, and where the scan goes on.               *)
Noted(v, u, l, c) ==
    /\ ScanRecord(v) /\ v.tk = u /\ v.interval = input.interval
    /\ TypesOk(v.types, v.erange, l, c + 1) /\ WidthOk(Len(v.types), l, c + 1)
    /\ OffsetsOk(v.offsets, Begun(l, c + 1))
    /\ u.result = "OK" => /\ v.phase = (IF l <= HeaderLines THEN "header" ELSE "rows")
                          /\ v.column = c /\ v.row = RowOf(l)
                          /\ l <= HeaderLines => v.rows = 0
    /\ u.result = "END_OF_ROW" => v.phase = "rows" /\ v.column = 0 /\ v.row = RowOf(l + 1)
    /\ u.result = "END_OF_FILE" =>
         /\ v.phase = "done"
         /\ v.rows = IF l <= HeaderLines THEN 0 ELSE RowOf(l) + IF c = 1 THEN 0 ELSE 1

(* A token of the header is noted,                                           *)
LEMMA HeaderNoted ==
  ASSUME input \in Inputs, NEW l \in 1..Len(input.lines), NEW c \in 1..Len(input.lines[l]), l <= HeaderLines,
         NEW r, NEW p, At(r, l, c, p), NEW ch, NEW u, Ended(u, r.tk, input.lines[l][c], ch, Skipping(r)),
         NEW v, v = HeaderToken(Fed(r, u))
  PROVE  Noted(v, u, l, c)
<1>1. /\ ScanRecord(r) /\ r.column = c - 1 /\ r.interval = input.interval /\ r.row = RowOf(l) /\ r.rows = 0
      /\ r.phase = "header"
      /\ TypesOk(r.types, r.erange, l, c) /\ WidthOk(Len(r.types), l, c) /\ OffsetsOk(r.offsets, Begun(l, c))
  BY DEF At
<1>2. PICK f : f = Fed(r, u)
  OBVIOUS
<1>3. /\ ScanRecord(f) /\ f.tk = u /\ f.types = r.types /\ f.erange = r.erange /\ f.column = c - 1
      /\ f.interval = input.interval /\ f.row = RowOf(l) /\ f.rows = 0 /\ f.phase = "header" /\ f.offsets = r.offsets
  BY <1>1, <1>2, FedIs
<1>4. /\ ScanRecord(v) /\ v.tk = u /\ v.interval = input.interval /\ v.row = RowOf(l)
      /\ v.types = AddType(r.types, c - 1, "NOTHING") /\ v.offsets = r.offsets /\ v.erange = r.erange /\ v.rows = 0
      /\ u.result = "OK" => v.phase = "header" /\ v.column = (c - 1) + 1
      /\ u.result = "END_OF_ROW" => v.phase = "rows" /\ v.column = 0
      /\ u.result \notin {"OK", "END_OF_ROW"} => v.phase = "done"
  BY <1>2, <1>3, HeaderTokenIs
<1>5. c \in Nat /\ c > 0 /\ c <= Len(input.lines[l]) /\ l \in Nat /\ l > 0
  <2>1. input.lines \in Lines
    BY InputIs
  <2>2. PICK row : row = input.lines[l] /\ row \in Seq(Cells) /\ Len(input.lines) \in Nat
    BY <2>1, LinesAre
  <2>3. Len(row) \in Nat
    BY <2>2
  <2> QED
    BY <2>2, <2>3
<1>6. PICK types, new : types = r.types /\ new = v.types
  OBVIOUS
<1>7. TypesOk(new, r.erange, l, c + 1) /\ Len(new) = IF c > Len(types) THEN c ELSE Len(types)
  <2>1. PICK erange : erange = r.erange /\ TypesOk(types, erange, l, c)
    BY <1>1, <1>6
  <2>2. new = AddType(types, c - 1, "NOTHING")
    BY <1>4, <1>6
  <2> QED
    BY <1>5, <2>1, <2>2, TypesHeader
<1>8. PICK n, m : n = Len(types) /\ m = Len(new) /\ m = IF c > n THEN c ELSE n
  BY <1>7
<1>9. WidthOk(m, l, c + 1)
  BY <1>1, <1>5, <1>6, <1>8, WidthToken
<1>10. Begun(l, c) = Begun(l, c + 1) /\ RowOf(l + 1) = RowOf(l)
  <2>1. Position(l, c, 0)
    BY <1>5, PositionIs
  <2>2. RowOf(l) = 0
    BY DEF RowOf
  <2> QED
    BY <2>1, <2>2 DEF Position
<1>11. (c - 1) + 1 = c
  BY <1>5
<1>12. TypesOk(v.types, v.erange, l, c + 1) /\ WidthOk(Len(v.types), l, c + 1) /\ OffsetsOk(v.offsets, Begun(l, c + 1))
  BY <1>1, <1>4, <1>6, <1>7, <1>8, <1>9, <1>10
<1> QED
  BY <1>4, <1>10, <1>11, <1>12 DEF Noted

(* and so is one of a row,                                                   *)
LEMMA RowNotes ==
  ASSUME input \in Inputs, NEW l \in 1..Len(input.lines), NEW c \in 1..Len(input.lines[l]), l > HeaderLines,
         NEW r, NEW p, At(r, l, c, p), c = 1 => p = CellAt(input.lines, l, 1),
         NEW ch, NEW u, Ended(u, r.tk, input.lines[l][c], ch, Skipping(r)),
         u.result \in {"OK", "END_OF_ROW", "END_OF_FILE"},
         NEW v, v = RowToken(Fed(r, u))
  PROVE  Noted(v, u, l, c) \/ (v.phase = "segv" /\ FirstTokenSkipped)
<1>1. c \in Nat /\ c > 0 /\ l \in Nat /\ l > 0 /\ ~(l <= HeaderLines)
  <2>1. Len(input.lines[l]) \in Nat /\ Len(input.lines) \in Nat
    BY RowCell, RowsAre, InputIs
  <2>2. HeaderLines \in Nat
    BY InputIs
  <2> QED
    BY <2>1, <2>2
<1>2. /\ ScanRecord(r) /\ r.column = c - 1 /\ r.interval = input.interval /\ r.row = RowOf(l)
      /\ r.phase = "rows" /\ Follows(r.tk, l, c, p)
  BY <1>1 DEF At
<1>3. PICK f : f = Fed(r, u)
  OBVIOUS
<1>4. /\ ScanRecord(f) /\ f.tk = u /\ f.types = r.types /\ f.erange = r.erange /\ f.column = c - 1
      /\ f.interval = input.interval /\ f.row = RowOf(l) /\ f.phase = "rows" /\ f.offsets = r.offsets
  BY <1>2, <1>3, FedIs
<1>5. PICK row \in Nat : row = RowOf(l) /\ row < Len(Rows) /\ RowOf(l + 1) = row + 1
  <2>1. RowOf(l) \in Nat /\ RowOf(l) + 1 \in 1..Len(Rows) /\ Len(Rows) \in Nat
    BY RowCell, RowsAre
  <2>2. Position(l, c, 0)
    BY <1>1, PositionIs
  <2> QED
    BY <1>1, <2>1, <2>2 DEF Position
<1>6. CASE Interesting(f) /\ IsString(f.types, f.column)
  <2>1. v.phase = "segv"
    BY <1>3, <1>4, <1>6, RowTokenIs
  <2>2. FirstTokenSkipped
    BY <1>1, <1>3, <1>5, <1>6, RowSkips
  <2> QED
    BY <2>1, <2>2
<1>7. CASE ~(Interesting(f) /\ IsString(f.types, f.column))
  <2>1. /\ ScanRecord(v) /\ v.tk = u /\ v.interval = input.interval
        /\ v.types = TypesWith(f) /\ v.erange = ErangeWith(f) /\ v.offsets = OffsetsWith(f)
        /\ u.result = "OK" => v.phase = "rows" /\ v.column = (c - 1) + 1 /\ v.row = RowOf(l)
        /\ u.result = "END_OF_ROW" => v.phase = "rows" /\ v.column = 0 /\ v.row = RowOf(l) + 1
        /\ u.result \notin {"OK", "END_OF_ROW"} =>
              v.phase = "done" /\ v.rows = RowOf(l) + (IF c - 1 = 0 THEN 0 ELSE 1)
    BY <1>3, <1>4, <1>7, RowTokenIs
  <2>2. TypesOk(TypesWith(f), ErangeWith(f), l, c + 1) /\ WidthOk(Len(TypesWith(f)), l, c + 1)
    BY <1>3, RowTypes
  <2>3. c = 1 => Exact(RowOf(l), r.tk.last)
    <3> SUFFICES ASSUME c = 1 PROVE Exact(RowOf(l), r.tk.last)
      OBVIOUS
    <3>1. PICK t : t = r.tk /\ Follows(t, l, 1, p)
      BY <1>2
    <3>2. Exact(RowOf(l), t.last)
      BY <3>1, StartExact
    <3> QED
      BY <3>1, <3>2
  <2>4. OffsetsOk(OffsetsWith(f), Begun(l, c + 1))
    BY <1>1, <1>3, <1>7, <2>3, RowOffsets
  <2>5. (c - 1) + 1 = c /\ (c - 1 = 0 <=> c = 1)
    BY <1>1
  <2>6. u.result = "OK" => /\ v.phase = (IF l <= HeaderLines THEN "header" ELSE "rows")
                           /\ v.column = c /\ v.row = RowOf(l)
                           /\ l <= HeaderLines => v.rows = 0
    BY <1>1, <2>1, <2>5
  <2>7. u.result = "END_OF_ROW" => v.phase = "rows" /\ v.column = 0 /\ v.row = RowOf(l + 1)
    BY <1>5, <2>1
  <2>8. u.result = "END_OF_FILE" =>
         /\ v.phase = "done"
         /\ v.rows = IF l <= HeaderLines THEN 0 ELSE RowOf(l) + IF c = 1 THEN 0 ELSE 1
    BY <1>1, <2>1, <2>5
  <2> QED
    BY <2>1, <2>2, <2>4, <2>6, <2>7, <2>8 DEF Noted
<1> QED
  BY <1>6, <1>7

(* whatever the cell.                                                        *)
LEMMA CellNoted ==
  ASSUME input \in Inputs, NEW l \in 1..Len(input.lines), NEW c \in 1..Len(input.lines[l]),
         NEW r, NEW p, At(r, l, c, p), c = 1 => p = CellAt(input.lines, l, 1),
         NEW ch, NEW u, Ended(u, r.tk, input.lines[l][c], ch, Skipping(r)),
         u.result \in {"OK", "END_OF_ROW", "END_OF_FILE"},
         NEW v, v = AfterToken(Fed(r, u))
  PROVE  Noted(v, u, l, c) \/ (v.phase = "segv" /\ FirstTokenSkipped)
<1>1. PICK f : f = Fed(r, u) /\ f.tk = u /\ f.phase = r.phase
  BY FedIs DEF At
<1>2. v = IF f.phase = "header" THEN HeaderToken(f) ELSE RowToken(f)
  BY <1>1 DEF AfterToken
<1>3. f.phase = IF l <= HeaderLines THEN "header" ELSE "rows"
  BY <1>1 DEF At
<1>4. CASE l <= HeaderLines
  <2>1. v = HeaderToken(f)
    BY <1>2, <1>3, <1>4
  <2> QED
    BY <1>1, <1>4, <2>1, HeaderNoted
<1>5. CASE ~(l <= HeaderLines)
  <2>1. v = RowToken(f)
    BY <1>2, <1>3, <1>5
  <2>2. l > HeaderLines
    <3>1. l \in Int /\ HeaderLines \in Nat
      BY InputIs
    <3> QED
      BY <1>5, <3>1
  <2> QED
    BY <1>1, <2>1, <2>2, RowNotes
<1> QED
  BY <1>4, <1>5

(* What a scan that is over says.                                            *)
TypesSeen(h, col) == \E g : Agrees(g, Len(Rows), col) /\ (h = g \/ h = g \cup {"EMPTY"})

Results(r) ==
    /\ r.interval = input.interval
    /\ r.rows = Len(Rows) - IF LastRowDropped THEN 1 ELSE 0
    /\ OffsetsOk(r.offsets, Len(Rows) + IF input.eol THEN 1 ELSE 0)
    /\ r.types \in Seq(SUBSET AllTypes) /\ WidthOk(Len(r.types), Len(input.lines) + 1, 1)
    /\ \A col \in Nat : TypesSeen(Has(r.types, col), col)

Finished(r) ==
    \/ r.phase = "segv" /\ FirstTokenSkipped
    \/ r.phase = "bad" /\ QuotedEnd
    \/ r.phase = "done" /\ ~QuotedEnd /\ Results(r)

(* A line of the file.                                                       *)
LEMMA LineIs ==
  ASSUME input \in Inputs, NEW l \in 1..Len(input.lines)
  PROVE  /\ l \in Nat /\ l > 0 /\ Len(input.lines) \in Nat /\ Len(input.lines) > 0
         /\ input.lines[l] \in Seq(Cells) /\ Len(input.lines[l]) \in Nat /\ Len(input.lines[l]) > 0
         /\ DOMAIN input.lines[l] = 1..Len(input.lines[l])
         /\ \A c \in 1..Len(input.lines[l]) : input.lines[l][c] \in Cells
<1>1. input.lines \in Lines
  BY InputIs
<1>2. PICK row : row = input.lines[l] /\ row \in Seq(Cells) /\ row # <<>>
  BY <1>1, LinesAre
<1>3. Len(row) \in Nat /\ Len(row) # 0 /\ DOMAIN row = 1..Len(row)
  BY <1>2, EmptySeq, LenProperties
<1>4. Len(input.lines) \in Nat /\ Len(input.lines) > 0
  BY <1>1, LinesAre
<1>5. \A c \in 1..Len(row) : row[c] \in Cells
  BY <1>2, ElementOfSeq
<1> QED
  BY <1>2, <1>3, <1>4, <1>5

(* How a token ends with the character after it.                             *)
LEMMA OutcomeIs ==
  ASSUME NEW cell
  PROVE  /\ Outcome(cell, Comma) = "OK" /\ Outcome(cell, NewLine) = "END_OF_ROW"
         /\ Comma # EndOfFile /\ NewLine # EndOfFile
         /\ ~(cell.quoted /\ cell.after = <<>>) => Outcome(cell, EndOfFile) = "END_OF_FILE"
         /\ cell.quoted /\ cell.after = <<>> => Outcome(cell, EndOfFile) = "PARSE_ERROR"
BY DEF Outcome, Comma, NewLine, EndOfFile

(* A cell is followed by the next of its line,                               *)
LEMMA NextCell ==
  ASSUME input \in Inputs, NEW l \in 1..Len(input.lines), NEW c \in 1..Len(input.lines[l]),
         NEW r, NEW p \in Nat, At(r, l, c, p), c = 1 => p = CellAt(input.lines, l, 1),
         NEW u, Ended(u, r.tk, input.lines[l][c], Comma, Skipping(r)),
         NEW v, v = AfterToken(Fed(r, u)), NEW n \in Nat, n = Len(Raw(input.lines[l][c]))
  PROVE  At(v, l, c + 1, p + n + 1) \/ (v.phase = "segv" /\ FirstTokenSkipped)
<1>1. u.result = "OK" /\ Fresh(u)
  BY OutcomeIs DEF Ended, Fresh
<1>2. Noted(v, u, l, c) \/ (v.phase = "segv" /\ FirstTokenSkipped)
  BY <1>1, CellNoted
<1>3. ASSUME Noted(v, u, l, c) PROVE At(v, l, c + 1, p + n + 1)
  <2>1. c \in Nat /\ c > 0 /\ (c + 1) - 1 = c
    BY LineIs
  <2>2. PICK t, cell, skip : t = r.tk /\ cell = input.lines[l][c] /\ skip = Skipping(r) /\ Follows(t, l, c, p)
    BY DEF At
  <2>3. Follows(u, l, c + 1, p + n + 1)
    BY <2>1, <2>2, FollowsCell
  <2> QED
    BY <1>1, <1>3, <2>1, <2>3 DEF At, Noted
<1> QED
  BY <1>2, <1>3

(* its last by the first of the next line,                                   *)
LEMMA NextLine ==
  ASSUME input \in Inputs, NEW l \in 1..Len(input.lines), NEW c, c = Len(input.lines[l]),
         NEW r, NEW p \in Nat, At(r, l, c, p), c = 1 => p = CellAt(input.lines, l, 1),
         NEW u, Ended(u, r.tk, input.lines[l][c], NewLine, Skipping(r)),
         NEW v, v = AfterToken(Fed(r, u)), NEW n \in Nat, n = Len(Raw(input.lines[l][c]))
  PROVE  At(v, l + 1, 1, p + n + 1) \/ (v.phase = "segv" /\ FirstTokenSkipped)
<1>1. u.result = "END_OF_ROW" /\ Fresh(u)
  BY OutcomeIs DEF Ended, Fresh
<1>2. c \in Nat /\ c > 0 /\ l \in Nat /\ l > 0 /\ c \in 1..Len(input.lines[l])
  BY LineIs
<1>3. Noted(v, u, l, c) \/ (v.phase = "segv" /\ FirstTokenSkipped)
  BY <1>1, <1>2, CellNoted
<1>4. ASSUME Noted(v, u, l, c) PROVE At(v, l + 1, 1, p + n + 1)
  <2>1. PICK t, cell, skip : t = r.tk /\ cell = input.lines[l][c] /\ skip = Skipping(r) /\ Follows(t, l, c, p)
    BY DEF At
  <2>2. skip => l > HeaderLines /\ LastTokenSkipped(RowOf(l))
    <3> SUFFICES ASSUME skip PROVE l > HeaderLines /\ LastTokenSkipped(RowOf(l))
      OBVIOUS
    <3>1. l > HeaderLines
      <4>1. HeaderLines \in Nat
        BY InputIs
      <4> QED
        BY <1>2, <2>1, <4>1, SkippingIs
    <3>2. PICK row \in Nat : row = RowOf(l) /\ Rows[row + 1] = input.lines[l]
      BY <3>1, RowCell
    <3>10. c - 1 \in Nat
      BY <1>2
    <3>8. PICK d \in Nat : d = c - 1
      BY <3>10
    <3>3. d = c - 1 /\ d = Len(Rows[row + 1]) - 1
      <4>1. Len(Rows[row + 1]) = c
        BY <3>2
      <4> QED
        BY <3>8, <4>1
    <3>4. Above(l, c, d) = row
      <4>1. Position(l, c, d)
        BY <1>2, PositionIs
      <4>2. Above(l, c, d) = row + IF d < c - 1 THEN 1 ELSE 0
        BY <3>1, <3>2, <4>1 DEF Position
      <4>3. ~(d < c - 1)
        BY <1>2, <3>8
      <4> QED
        BY <4>2, <4>3
    <3>5. Agrees(Has(r.types, d), row, d)
      <4>1. TypesOk(r.types, r.erange, l, c)
        BY DEF At
      <4>2. Agrees(Has(r.types, d), Above(l, c, d), d)
        BY <4>1 DEF TypesOk
      <4> QED
        BY <3>4, <4>2
    <3>6. "STRING" \in Has(r.types, d)
      <4>1. ~(l <= HeaderLines)
        <5>1. HeaderLines \in {0, 1}
          BY InputIs
        <5> QED
          BY <1>2, <3>1, <5>1
      <4>2. Skipping(r) <=> "STRING" \in Has(r.types, c - 1)
        BY <4>1, SkippingIs
      <4> QED
        BY <2>1, <3>3, <4>2
    <3>7. "STRING" \in TypesAbove(Rows, row, d)
      BY <3>5, <3>6 DEF Agrees
    <3>9. LastTokenSkipped(row)
      BY <3>3, <3>7 DEF LastTokenSkipped
    <3> QED
      BY <3>1, <3>2, <3>9
  <2>3. Follows(u, l + 1, 1, p + n + 1)
    <3>1. PICK ch : Ended(u, t, cell, ch, skip)
      BY <2>1
    <3>2. n = Len(Raw(cell)) /\ Follows(t, l, c, p) /\ cell = input.lines[l][c]
      BY <2>1
    <3> QED
      BY <2>2, <3>1, <3>2, FollowsLine
  <2>4. PICK types, erange, d : types = v.types /\ erange = v.erange /\ d = c + 1
    OBVIOUS
  <2>5. TypesOk(types, erange, l, d)
    BY <1>4, <2>4 DEF Noted
  <2>6. TypesOk(types, erange, l + 1, 1)
    BY <1>2, <2>4, <2>5, TypesLine
  <2>7. PICK m : m = Len(types) /\ WidthOk(m, l, d)
    BY <1>4, <2>4 DEF Noted
  <2>8. WidthOk(m, l + 1, 1)
    BY <1>2, <2>4, <2>7, WidthLine, LineIs
  <2>9. Begun(l, c + 1) = Begun(l + 1, 1)
    <3>1. Position(l, c, 0)
      BY <1>2, PositionIs
    <3> QED
      BY <3>1 DEF Position
  <2>10. ~(l + 1 <= HeaderLines)
    <3>1. HeaderLines \in {0, 1}
      BY InputIs
    <3> QED
      BY <1>2, <3>1
  <2> QED
    BY <1>1, <1>4, <2>3, <2>4, <2>6, <2>7, <2>8, <2>9, <2>10 DEF At, Noted
<1> QED
  BY <1>3, <1>4

(* How many rows there are at the last line.                                 *)
LEMMA LastLine ==
  ASSUME input \in Inputs, NEW l, l = Len(input.lines), NEW c \in Nat, c > 0, NEW col \in Nat
  PROVE  /\ l \in 1..Len(input.lines) /\ RowOf(l + 1) = Len(Rows) /\ Begun(l, c + 1) = Len(Rows)
         /\ Above(l + 1, 1, col) = Len(Rows) /\ Begun(l + 1, 2) = Len(Rows) + 1
         /\ (l <= HeaderLines) <=> (Len(Rows) = 0)
         /\ ~(l <= HeaderLines) => l > HeaderLines /\ RowOf(l) + 1 = Len(Rows)
         /\ l + 1 > HeaderLines
<1>1. PICK n \in Nat, h \in {0, 1} : n = Len(Rows) /\ h = HeaderLines /\ l = n + h
  BY InputIs, RowsAre
<1>2. l \in Nat /\ l > 0 /\ l + 1 \in Nat /\ l + 1 > 0
  <2>1. input.lines \in Lines
    BY InputIs
  <2>2. PICK lines : lines = input.lines /\ lines \in Lines
    BY <2>1
  <2>3. Len(lines) \in Nat /\ Len(lines) > 0
    BY <2>2, LinesAre
  <2> QED
    BY <2>2, <2>3
<1>3. Position(l, c, col) /\ Position(l + 1, 1, col)
  BY <1>2, PositionIs
<1>4. RowOf(l + 1) = n
  <2>3. PICK m \in Nat : m = l + 1
    BY <1>2
  <2>4. m = n + h + 1 /\ m > 1
    BY <1>1, <1>2, <2>3
  <2>1. m = l + 1 /\ ~(m <= h) /\ m - 1 - h = n
    BY <2>3, <2>4
  <2>2. RowOf(m) = m - 1 - h
    BY <1>1, <2>1 DEF RowOf
  <2> QED
    BY <2>1, <2>2
<1>5. CASE l <= h
  <2>1. l = 1 /\ n = 0
    BY <1>1, <1>2, <1>5
  <2>2. Begun(l, c + 1) = n /\ Above(l + 1, 1, col) = n
    BY <1>1, <1>3, <1>5, <2>1 DEF Position
  <2>3. l + 1 > h
    BY <2>1
  <2>4. Begun(l + 1, 1 + 1) = n + 1
    BY <1>1, <1>3, <1>4, <2>3 DEF Position
  <2> QED
    BY <1>1, <1>2, <1>4, <1>5, <2>1, <2>2, <2>3, <2>4
<1>6. CASE ~(l <= h)
  <2>1. l > h /\ l + 1 > h /\ n # 0
    BY <1>1, <1>6
  <2>2. Begun(l, c + 1) = RowOf(l) + 1 /\ RowOf(l + 1) = RowOf(l) + 1 /\ Above(l + 1, 1, col) = RowOf(l) + 1
    BY <1>1, <1>3, <2>1 DEF Position
  <2>4. Begun(l + 1, 1 + 1) = n + 1
    BY <1>1, <1>3, <1>4, <2>1 DEF Position
  <2> QED
    BY <1>1, <1>2, <1>4, <1>6, <2>1, <2>2, <2>4
<1> QED
  BY <1>5, <1>6

(* and the last of all by the end of the file.                               *)
LEMMA NextEnd ==
  ASSUME input \in Inputs, NEW l, l = Len(input.lines), NEW c, c = Len(input.lines[l]), ~input.eol,
         NEW r, NEW p, At(r, l, c, p), c = 1 => p = CellAt(input.lines, l, 1),
         NEW u, Ended(u, r.tk, input.lines[l][c], EndOfFile, Skipping(r)),
         NEW v, v = AfterToken(Fed(r, u))
  PROVE  Finished(v)
<1>1. l \in 1..Len(input.lines) /\ l \in Nat
  <2>1. 1 \in Nat /\ 1 > 0 /\ 0 \in Nat
    OBVIOUS
  <2>2. l \in 1..Len(input.lines)
    BY <2>1, LastLine
  <2> QED
    BY <2>2, LineIs
<1>2. c \in Nat /\ c > 0 /\ c \in 1..Len(input.lines[l])
  BY <1>1, LineIs
<1>3. PICK cell : cell = input.lines[l][c]
  OBVIOUS
<1>4. QuotedEnd <=> cell.quoted /\ cell.after = <<>>
  <2>1. Last(Last(input.lines)) = cell
    BY <1>3 DEF Last
  <2> QED
    BY <2>1 DEF QuotedEnd
<1>5. u.result = Outcome(cell, EndOfFile)
  BY <1>3 DEF Ended
<1>6. CASE cell.quoted /\ cell.after = <<>>
  <2>1. u.result = "PARSE_ERROR"
    BY <1>5, <1>6, OutcomeIs
  <2>2. PICK f : f = Fed(r, u) /\ f.tk = u /\ ScanRecord(f)
    BY FedIs DEF At
  <2>3. v = [f EXCEPT !.phase = "bad"]
    BY <2>1, <2>2 DEF AfterToken
  <2>4. v.phase = "bad"
    BY <2>2, <2>3 DEF ScanRecord
  <2> QED
    BY <1>4, <1>6, <2>4 DEF Finished
<1>7. CASE ~(cell.quoted /\ cell.after = <<>>)
  <2>1. u.result = "END_OF_FILE"
    BY <1>5, <1>7, OutcomeIs
  <2>2. Noted(v, u, l, c) \/ (v.phase = "segv" /\ FirstTokenSkipped)
    BY <1>1, <1>2, <2>1, CellNoted
  <2>3. ASSUME Noted(v, u, l, c) PROVE Finished(v)
    <3>1. /\ v.interval = input.interval /\ v.phase = "done"
          /\ TypesOk(v.types, v.erange, l, c + 1) /\ WidthOk(Len(v.types), l, c + 1)
          /\ OffsetsOk(v.offsets, Begun(l, c + 1))
          /\ v.rows = IF l <= HeaderLines THEN 0 ELSE RowOf(l) + IF c = 1 THEN 0 ELSE 1
      BY <2>1, <2>3 DEF Noted
    <3>2. PICK types, erange, d : types = v.types /\ erange = v.erange /\ d = c + 1
      OBVIOUS
    <3>3. TypesOk(types, erange, l + 1, 1)
      <4>1. TypesOk(types, erange, l, d)
        BY <3>1, <3>2
      <4> QED
        BY <1>1, <3>2, <4>1, TypesLine
    <3>4. WidthOk(Len(types), l + 1, 1)
      <4>1. WidthOk(Len(types), l, d)
        BY <3>1, <3>2
      <4> QED
        BY <1>1, <1>2, <3>2, <4>1, WidthLine
    <3>5. PICK n \in Nat : n = Len(Rows)
      BY RowsAre
    <3>6. n = Begun(l, c + 1) /\ (l <= HeaderLines <=> n = 0) /\ (~(l <= HeaderLines) => l > HeaderLines /\ RowOf(l) + 1 = n)
      <4>1. 0 \in Nat
        OBVIOUS
      <4> QED
        BY <1>2, <3>5, <4>1, LastLine
    <3>7. OffsetsOk(v.offsets, n + IF input.eol THEN 1 ELSE 0)
      <4>1. n + (IF input.eol THEN 1 ELSE 0) = n
        BY <3>5
      <4> QED
        BY <3>1, <3>6, <4>1
    <3>8. ASSUME NEW col \in Nat PROVE TypesSeen(Has(types, col), col)
      <4>1. Above(l + 1, 1, col) = n
        BY <1>2, <3>5, LastLine
      <4>2. Agrees(Has(types, col), n, col)
        BY <3>3, <4>1 DEF TypesOk
      <4> QED
        BY <3>5, <4>2 DEF TypesSeen
    <3>9. v.rows = n - IF LastRowDropped THEN 1 ELSE 0
      <4>1. CASE l <= HeaderLines
        <5>1. n = 0 /\ v.rows = 0
          BY <3>1, <3>6, <4>1
        <5>2. Rows = <<>>
          BY <3>5, <5>1, RowsAre, EmptySeq
        <5> QED
          BY <5>1, <5>2 DEF LastRowDropped
      <4>2. CASE ~(l <= HeaderLines)
        <5>1. l > HeaderLines /\ RowOf(l) + 1 = n
          BY <3>6, <4>2
        <5>2. RowOf(l) \in Nat /\ Rows[n] = input.lines[l]
          BY <1>1, <5>1, RowCell
        <5>3. Len(Last(Rows)) = c
          BY <3>5, <5>2 DEF Last
        <5>4. Rows # <<>>
          <6>1. n # 0
            BY <5>1, <5>2
          <6> QED
            BY <3>5, <6>1, EmptySeq
        <5>5. LastRowDropped <=> c = 1
          BY <5>3, <5>4 DEF LastRowDropped
        <5>6. v.rows = RowOf(l) + IF c = 1 THEN 0 ELSE 1
          BY <3>1, <4>2
        <5> QED
          BY <5>1, <5>2, <5>5, <5>6
      <4> QED
        BY <4>1, <4>2
    <3>10. Results(v)
      <4>1. types \in Seq(SUBSET AllTypes)
        BY <3>3 DEF TypesOk
      <4> QED
        BY <3>1, <3>2, <3>4, <3>5, <3>7, <3>8, <3>9, <4>1 DEF Results
    <3> QED
      BY <1>4, <1>7, <3>1, <3>10 DEF Finished
  <2> QED
    BY <2>2, <2>3 DEF Finished
<1> QED
  BY <1>6, <1>7

(* After an end of line that ends the file there is one more token, which is *)
(* that of a cell of nothing.                                                *)
Nothing == [before |-> <<>>, quoted |-> FALSE, pieces |-> <<>>, after |-> <<>>]

(* The empty cell after the last end of line.                                *)
LEMMA NothingIs ==
  /\ Nothing \in Cells /\ ~Nothing.quoted /\ ~Stray(Nothing)
  /\ Raw(Nothing) = <<>> /\ Text(Nothing) = <<>>
<1>1. PICK nil : nil = <<>>
  OBVIOUS
<1>2. nil \in Seq({Blank}) /\ nil \in Seq(Seq(STRING)) /\ nil \in Seq(Seq(Char)) /\ Len(nil) = 0 /\ DOMAIN nil = 1..0
  BY <1>1, EmptySeq
<1>3. Nothing = [before |-> nil, quoted |-> FALSE, pieces |-> nil, after |-> nil]
  BY <1>1 DEF Nothing
<1>4. Nothing \in Cells /\ ~Nothing.quoted
  BY <1>1, <1>2, <1>3 DEF Cells
<1>5. ~Stray(Nothing)
  BY <1>2, <1>3 DEF Stray
<1>6. Concat(nil) = nil
  <2>1. Upto(nil, 0) = <<>> /\ Upto(nil, Len(nil)) = Concat(nil)
    BY <1>2, ConcatGrows
  <2> QED
    BY <1>1, <1>2, <2>1
<1>7. Raw(Nothing) = nil
  <2>1. Raw(Nothing) = nil \o nil
    BY <1>3, <1>6 DEF Raw
  <2>2. nil \o nil = nil
    BY <1>1, <1>2
  <2> QED
    BY <2>1, <2>2
<1>8. Text(Nothing) = nil
  <2>1. EndState(Nothing) = "field"
    BY <1>2, <1>3 DEF EndState, Content
  <2>2. Written(Nothing) = <<>>
    BY <1>4, <2>1, PlainWritten
  <2>3. Text(Nothing) = TrimEnd(Written(Nothing))
    BY <1>4 DEF Text
  <2> QED
    BY <1>1, <2>2, <2>3, TrimNothing
<1> QED
  BY <1>1, <1>4, <1>5, <1>7, <1>8

(* At that cell the scan is over.                                            *)
LEMMA NextNothing ==
  ASSUME input \in Inputs, NEW l, l = Len(input.lines) + 1, input.eol,
         NEW r, NEW p, At(r, l, 1, p),
         NEW u, Ended(u, r.tk, Nothing, EndOfFile, Skipping(r)),
         NEW v, v = AfterToken(Fed(r, u))
  PROVE  Finished(v)
<1>1. PICK L : L = Len(input.lines) /\ l = L + 1
  OBVIOUS
<1>2. PICK n \in Nat : n = Len(Rows)
  BY RowsAre
<1>3. /\ L \in 1..Len(input.lines) /\ RowOf(l) = n /\ l > HeaderLines /\ Begun(l, 2) = n + 1
      /\ \A col \in Nat : Above(l, 1, col) = n
  <2>1. 1 \in Nat /\ 1 > 0 /\ 0 \in Nat
    OBVIOUS
  <2>2. L \in 1..Len(input.lines) /\ RowOf(L + 1) = Len(Rows) /\ L + 1 > HeaderLines /\ Begun(L + 1, 2) = Len(Rows) + 1
    BY <1>1, <2>1, LastLine
  <2>3. \A col \in Nat : Above(L + 1, 1, col) = Len(Rows)
    BY <1>1, <2>1, LastLine
  <2> QED
    BY <1>1, <1>2, <2>2, <2>3
<1>4. l \in Nat /\ l > 0 /\ L \in Nat /\ L > 0 /\ ~(l <= HeaderLines)
  <2>1. L \in Nat /\ L > 0 /\ HeaderLines \in {0, 1}
    BY <1>3, LineIs, InputIs
  <2> QED
    BY <1>1, <1>3, <2>1
<1>5. /\ ScanRecord(r) /\ r.column = 1 - 1 /\ r.interval = input.interval /\ r.row = n
      /\ r.phase = "rows" /\ TypesOk(r.types, r.erange, l, 1) /\ WidthOk(Len(r.types), l, 1)
  BY <1>3, <1>4 DEF At
<1>6. PICK f : f = Fed(r, u)
  OBVIOUS
<1>7. /\ ScanRecord(f) /\ f.tk = u /\ f.types = r.types /\ f.erange = r.erange /\ f.column = 0
      /\ f.interval = input.interval /\ f.row = n /\ f.phase = "rows" /\ f.offsets = r.offsets
  BY <1>5, <1>6, FedIs
<1>8. u.result = "END_OF_FILE"
  BY NothingIs, OutcomeIs DEF Ended
<1>9. v = RowToken(f)
  BY <1>6, <1>7, <1>8 DEF AfterToken
<1>10. ~QuotedEnd /\ ~LastRowDropped
  BY DEF QuotedEnd, LastRowDropped
<1>11. CASE Interesting(f) /\ IsString(f.types, f.column)
  <2>1. v.phase = "segv"
    BY <1>7, <1>9, <1>11, RowTokenIs
  <2>2. FirstTokenSkipped
    <3>1. RowOf(l) < Len(Rows) \/ (input.eol /\ RowOf(l) = Len(Rows))
      BY <1>2, <1>3
    <3>2. PICK c \in Nat : c = 1 /\ c > 0 /\ At(r, l, c, p)
      OBVIOUS
    <3> QED
      BY <1>3, <1>4, <1>6, <1>11, <3>1, <3>2, RowSkips
  <2> QED
    BY <2>1, <2>2 DEF Finished
<1>12. CASE ~(Interesting(f) /\ IsString(f.types, f.column))
  <2>1. /\ v.interval = input.interval /\ v.types = TypesWith(f) /\ v.offsets = OffsetsWith(f)
        /\ v.phase = "done" /\ v.rows = n + (IF f.column = 0 THEN 0 ELSE 1)
    BY <1>7, <1>8, <1>9, <1>12, RowTokenIs
  <2>2. v.rows = n
    BY <1>7, <2>1
  <2>3. OffsetsOk(v.offsets, n + 1)
    <3>1. Exact(RowOf(l), r.tk.last)
      BY <1>2, <1>3 DEF Exact
    <3>2. PICK c \in Nat : c = 1 /\ c > 0 /\ At(r, l, c, p)
      OBVIOUS
    <3>3. PICK cell, ch : Ended(u, r.tk, cell, ch, Skipping(r))
      OBVIOUS
    <3>4. OffsetsOk(OffsetsWith(f), Begun(l, c + 1))
      BY <1>3, <1>4, <1>6, <1>12, <3>1, <3>2, <3>3, RowOffsets
    <3>5. c + 1 = 2
      BY <3>2
    <3> QED
      BY <1>3, <2>1, <3>4, <3>5
  <2>4. PICK types, erange, empty : types = r.types /\ erange = r.erange /\ empty = "EMPTY"
    OBVIOUS
  <2>5. types \in Seq(SUBSET AllTypes) /\ erange \in BOOLEAN /\ \A col \in Nat : Agrees(Has(types, col), n, col)
    BY <1>3, <1>5, <2>4 DEF TypesOk
  <2>6. PICK new : new = v.types
    OBVIOUS
  <2>7. PICK k \in Nat : k = Len(types) /\ k >= 1 /\ WidthOk(k, l, 1)
    <3>1. PICK k : k = Len(types) /\ WidthOk(k, l, 1) /\ k \in Nat
      BY <1>5, <2>4 DEF WidthOk
    <3>2. L \in 1..(l - 1)
      BY <1>1, <1>4
    <3>3. Len(input.lines[L]) <= k /\ Len(input.lines[L]) \in Nat /\ Len(input.lines[L]) > 0
      <4>1. Len(input.lines[L]) \in Nat /\ Len(input.lines[L]) > 0
        BY <1>3, LineIs
      <4>2. Len(input.lines[L]) <= k
        BY <3>1, <3>2 DEF WidthOk
      <4> QED
        BY <4>1, <4>2
    <3> QED
      BY <3>1, <3>3
  <2>8. /\ new \in Seq(SUBSET AllTypes) /\ Len(new) = k
        /\ \A col \in Nat : Has(new, col) = Has(types, col) \/ Has(new, col) = Has(types, col) \cup {empty}
    <3>1. CASE IsString(f.types, f.column)
      <4>1. new = types
        BY <1>7, <2>1, <2>4, <2>6, <3>1 DEF TypesWith
      <4> QED
        BY <2>5, <2>7, <4>1
    <3>2. CASE ~IsString(f.types, f.column)
      <4>1. ~Skipping(r)
        BY <1>5, <1>7, <3>2 DEF Skipping
      <4>2. u.token.text = <<>>
        BY <4>1, NothingIs DEF Ended
      <4>3. DeduceType(u.token.text, erange) = empty
        BY <2>4, <4>2 DEF DeduceType
      <4>4. PICK zero \in Nat : zero = 0
        OBVIOUS
      <4>5. new = AddType(types, zero, empty)
        BY <1>7, <2>1, <2>4, <2>6, <3>2, <4>3, <4>4 DEF TypesWith
      <4>6. empty \in AllTypes /\ empty # "NOTHING"
        BY <2>4 DEF AllTypes
      <4>7. Widened(new, types, zero, empty)
        BY <2>5, <4>5, <4>6, AddTypeIs
      <4>8. new \in Seq(SUBSET AllTypes) /\ Len(new) = IF zero + 1 > k THEN zero + 1 ELSE k
        BY <2>7, <4>7 DEF Widened
      <4>9. ASSUME NEW col \in Nat
            PROVE  Has(new, col) = Has(types, col) \/ Has(new, col) = Has(types, col) \cup {empty}
        <5>1. PICK a, b : a = Has(new, col) /\ b = Has(types, col)
          OBVIOUS
        <5>2. a = b \cup IF col = zero /\ empty # "NOTHING" THEN {empty} ELSE {}
          BY <4>7, <5>1 DEF Widened
        <5>3. a = b \cup {} \/ a = b \cup {empty}
          BY <4>6, <5>2
        <5>4. a = b \/ a = b \cup {empty}
          BY <5>3
        <5> QED
          BY <5>1, <5>4
      <4>10. Len(new) = k
        BY <2>7, <4>4, <4>8
      <4> QED
        BY <4>8, <4>9, <4>10
    <3> QED
      BY <3>1, <3>2
  <2>9. \A col \in Nat : TypesSeen(Has(new, col), col)
    BY <1>2, <2>4, <2>5, <2>8 DEF TypesSeen
  <2>10. Results(v)
    <3>1. n + (IF input.eol THEN 1 ELSE 0) = n + 1 /\ n - (IF LastRowDropped THEN 1 ELSE 0) = n
      BY <1>10
    <3> QED
      BY <1>1, <1>2, <2>1, <2>2, <2>3, <2>6, <2>7, <2>8, <2>9, <3>1 DEF Results
  <2> QED
    BY <1>10, <2>1, <2>10 DEF Finished
<1> QED
  BY <1>11, <1>12

-----------------------------------------------------------------------------
(* and from the first one to the end of the file.                            *)

(* A scan of the file,                                                       *)
Pass(x, text) ==
    text = FileText(input.lines, input.eol) /\ Turns(x, text)

(* The text of a pass over the file.                                         *)
LEMMA PassText ==
  ASSUME input \in Inputs, NEW text, text = FileText(input.lines, input.eol)
  PROVE  /\ text \in Seq(Char) /\ Len(text) \in Nat /\ Len(text) > 0 /\ DOMAIN text = 1..Len(text)
         /\ text[Len(text)] = EndOfFile
<1>1. PICK lines, eol : lines = input.lines /\ eol = input.eol /\ lines \in Lines /\ eol \in BOOLEAN
  BY InputIs
<1>2. text = FileText(lines, eol)
  BY <1>1
<1>3. PICK body : body = Joined(RowTexts(lines), NewLine)
  OBVIOUS
<1>4. /\ text \in Seq(Char) /\ body \in Seq(Char) /\ Len(text) = Len(body) + (IF eol THEN 2 ELSE 1)
      /\ text[Len(text)] = EndOfFile
  BY <1>1, <1>2, <1>3, FileIs
<1>5. Len(text) \in Nat /\ Len(body) \in Nat /\ DOMAIN text = 1..Len(text)
  BY <1>4, LenProperties
<1> QED
  BY <1>4, <1>5

(* which does nothing once it is over,                                       *)
LEMMA PassStops ==
  ASSUME input \in Inputs, NEW x, NEW text, Pass(x, text), NEW j \in Nat, j <= Len(text),
         x[j].phase \notin {"header", "rows"}
  PROVE  x[Len(text)] = x[j]
<1>1. PICK N \in Nat : N = Len(text)
  BY PassText DEF Pass
<1> DEFINE S == {k \in Nat : j + k <= N => x[j + k] = x[j]}
<1>2. 0 \in S
  <2>1. j + 0 = j
    OBVIOUS
  <2> QED
    BY <2>1
<1>3. ASSUME NEW k \in Nat, k \in S PROVE k + 1 \in S
  <2> SUFFICES ASSUME j + (k + 1) <= N PROVE x[j + (k + 1)] = x[j]
    OBVIOUS
  <2>1. j + k <= N /\ j + (k + 1) \in 1..N /\ (j + (k + 1)) - 1 = j + k
    OBVIOUS
  <2>2. x[j + k] = x[j]
    BY <1>3, <2>1
  <2>3. PICK c : x[j + (k + 1)] = ScanTurn(x[j + k], c)
    BY <1>1, <2>1 DEF Pass, Turns
  <2>4. PICK r : r = x[j] /\ r.phase \notin {"header", "rows"}
    OBVIOUS
  <2>5. ScanTurn(r, c) = r
    BY <2>4 DEF ScanTurn
  <2> QED
    BY <2>2, <2>3, <2>4, <2>5
<1>4. PICK d \in Nat : j + d = N
  <2>1. N - j \in Nat /\ j + (N - j) = N
    BY <1>1
  <2> QED
    BY <2>1
<1>5. d \in S
  <2> HIDE DEF S
  <2> QED
    BY <1>2, <1>3, SetInduction
<1> QED
  BY <1>1, <1>4, <1>5

(* A scan that is over stays over.                                           *)
LEMMA PassFinished ==
  ASSUME input \in Inputs, NEW x, NEW text, Pass(x, text), NEW j \in Nat, j <= Len(text), Finished(x[j])
  PROVE  Finished(x[Len(text)])
<1>1. x[j].phase \notin {"header", "rows"}
  BY DEF Finished
<1>2. x[Len(text)] = x[j]
  BY <1>1, PassStops
<1> QED
  BY <1>2

(* and goes from cell to cell until then.                                    *)
Here(x, l, c) == At(x[CellAt(input.lines, l, c)], l, c, CellAt(input.lines, l, c))

(* A pass before a cell gets before the next one or is over,                 *)
LEMMA PassCell ==
  ASSUME input \in Inputs, NEW x, NEW text, Pass(x, text),
         NEW l \in 1..Len(input.lines), NEW c \in 1..Len(input.lines[l]), Here(x, l, c)
  PROVE  \/ Finished(x[Len(text)])
         \/ c # Len(input.lines[l]) /\ Here(x, l, c + 1)
         \/ c = Len(input.lines[l]) /\ l # Len(input.lines) /\ Here(x, l + 1, 1)
         \/ /\ c = Len(input.lines[l]) /\ l = Len(input.lines) /\ input.eol
            /\ At(x[Len(text) - 1], l + 1, 1, Len(text) - 1)
<1>1. PICK p, n, cell, ch, lines, eol :
        /\ p = CellAt(input.lines, l, c) /\ cell = input.lines[l][c] /\ n = Len(Raw(cell))
        /\ lines = input.lines /\ eol = input.eol /\ ch = Delimiter(lines, eol, l, c)
  OBVIOUS
<1>2. lines \in Lines /\ eol \in BOOLEAN /\ text = FileText(lines, eol) /\ cell \in Cells
  BY <1>1, InputIs, LineIs DEF Pass
<1>3. Placed(text, lines, eol, l, c)
  BY <1>1, <1>2, Layout
<1>4. /\ p \in Nat /\ n \in Nat /\ p + n + 1 <= Len(text) /\ Appears(Raw(cell), text, p)
      /\ text[p + n + 1] = ch
      /\ c # Len(lines[l]) => CellAt(lines, l, c + 1) = p + n + 1
      /\ c = Len(lines[l]) /\ l # Len(lines) => CellAt(lines, l + 1, 1) = p + n + 1
      /\ c = Len(lines[l]) /\ l = Len(lines) => p + n + 1 = Len(text) - IF eol THEN 1 ELSE 0
  BY <1>1, <1>3 DEF Placed
<1>5. PICK r : r = x[p] /\ At(r, l, c, p)
  BY <1>1 DEF Here
<1>6. ScanRecord(r) /\ r.phase \in {"header", "rows"} /\ Fresh(r.tk)
  BY <1>5 DEF At
<1>7. ch \in {Comma, NewLine, EndOfFile}
  BY <1>1 DEF Delimiter
<1>8. Turns(x, text) /\ Len(text) \in Nat
  BY PassText DEF Pass
<1>9. PICK u : Ended(u, r.tk, cell, ch, Skipping(r)) /\ x[p + n + 1] = AfterToken(Fed(r, u))
  <2>1. PICK p1 \in Nat, n1 \in Nat, c1 \in {Comma, NewLine, EndOfFile} : p1 = p /\ n1 = n /\ c1 = ch
    BY <1>4, <1>7
  <2>2. /\ n1 = Len(Raw(cell)) /\ p1 + n1 + 1 <= Len(text) /\ Appears(Raw(cell), text, p1)
        /\ text[p1 + n1 + 1] = c1 /\ r = x[p1]
    BY <1>1, <1>4, <1>5, <2>1
  <2>3. \E u : Ended(u, r.tk, cell, c1, Skipping(r)) /\ x[p1 + n1 + 1] = AfterToken(Fed(r, u))
    BY <1>2, <1>6, <1>8, <2>2, ScanCell
  <2> QED
    BY <2>1, <2>3
<1>10. PICK q, v : q = p + n + 1 /\ v = x[q] /\ v = AfterToken(Fed(r, u))
  BY <1>9
<1>11. q \in Nat /\ q <= Len(text)
  BY <1>4, <1>10
<1>12. Finished(v) => Finished(x[Len(text)])
  BY <1>10, <1>11, PassFinished
<1>13. c = 1 => p = CellAt(input.lines, l, 1)
  BY <1>1
<1>14. (v.phase = "segv" /\ FirstTokenSkipped) => Finished(v)
  BY DEF Finished
<1>15. CASE c # Len(lines[l])
  <2>1. ch = Comma
    BY <1>1, <1>15 DEF Delimiter
  <2>2. Ended(u, r.tk, input.lines[l][c], Comma, Skipping(r))
    BY <1>1, <1>9, <2>1
  <2>3. At(v, l, c + 1, q) \/ (v.phase = "segv" /\ FirstTokenSkipped)
    BY <1>1, <1>4, <1>5, <1>10, <1>13, <2>2, NextCell
  <2>4. CellAt(input.lines, l, c + 1) = q
    BY <1>1, <1>4, <1>10, <1>15
  <2> QED
    BY <1>1, <1>10, <1>12, <1>14, <1>15, <2>3, <2>4 DEF Here
<1>16. CASE c = Len(lines[l]) /\ (l # Len(lines) \/ eol)
  <2>1. ch = NewLine
    BY <1>1, <1>16 DEF Delimiter
  <2>2. Ended(u, r.tk, input.lines[l][c], NewLine, Skipping(r))
    BY <1>1, <1>9, <2>1
  <2>3. At(v, l + 1, 1, q) \/ (v.phase = "segv" /\ FirstTokenSkipped)
    <3>1. PICK p1 \in Nat, n1 \in Nat : p1 = p /\ n1 = n
      BY <1>4
    <3>2. /\ c = Len(input.lines[l]) /\ At(r, l, c, p1) /\ (c = 1 => p1 = CellAt(input.lines, l, 1))
          /\ n1 = Len(Raw(input.lines[l][c]))
      BY <1>1, <1>5, <1>13, <1>16, <3>1
    <3>3. At(v, l + 1, 1, p1 + n1 + 1) \/ (v.phase = "segv" /\ FirstTokenSkipped)
      BY <1>10, <2>2, <3>2, NextLine
    <3> QED
      BY <1>10, <3>1, <3>3
  <2>4. l # Len(lines) => CellAt(input.lines, l + 1, 1) = q
    BY <1>1, <1>4, <1>10, <1>16
  <2>5. l = Len(lines) => q = Len(text) - 1 /\ eol
    BY <1>4, <1>10, <1>16
  <2> QED
    BY <1>1, <1>10, <1>12, <1>14, <1>16, <2>3, <2>4, <2>5 DEF Here
<1>17. CASE c = Len(lines[l]) /\ l = Len(lines) /\ ~eol
  <2>1. ch = EndOfFile
    BY <1>1, <1>17 DEF Delimiter
  <2>2. Ended(u, r.tk, input.lines[l][c], EndOfFile, Skipping(r))
    BY <1>1, <1>9, <2>1
  <2>3. Finished(v)
    BY <1>1, <1>5, <1>10, <1>13, <1>17, <2>2, NextEnd
  <2> QED
    BY <1>12, <2>3
<1> QED
  BY <1>15, <1>16, <1>17

(* and is over at the end of the file.                                       *)
LEMMA PassNothing ==
  ASSUME input \in Inputs, NEW x, NEW text, Pass(x, text), input.eol,
         At(x[Len(text) - 1], Len(input.lines) + 1, 1, Len(text) - 1)
  PROVE  Finished(x[Len(text)])
<1>1. PICK p \in Nat, n \in Nat, ch \in {Comma, NewLine, EndOfFile} :
        p = Len(text) - 1 /\ n = 0 /\ ch = EndOfFile /\ p + n + 1 = Len(text)
  <2>1. Len(text) \in Nat /\ Len(text) > 0
    BY PassText DEF Pass
  <2>2. Len(text) - 1 \in Nat /\ (Len(text) - 1) + 0 + 1 = Len(text)
    BY <2>1
  <2> QED
    BY <2>2
<1>2. PICK l : l = Len(input.lines) + 1
  OBVIOUS
<1>3. PICK r : r = x[p] /\ At(r, l, 1, p)
  BY <1>1, <1>2
<1>4. ScanRecord(r) /\ r.phase \in {"header", "rows"} /\ Fresh(r.tk)
  BY <1>3 DEF At
<1>5. PICK cell \in Cells : cell = Nothing /\ Raw(cell) = <<>>
  BY NothingIs
<1>6. n = Len(Raw(cell)) /\ p + n + 1 <= Len(text) /\ Appears(Raw(cell), text, p) /\ text[p + n + 1] = ch
  <2>1. Len(Raw(cell)) = 0
    BY <1>5, EmptySeq
  <2>2. Len(text) \in Nat /\ text[Len(text)] = EndOfFile
    BY PassText DEF Pass
  <2>3. Appears(Raw(cell), text, p)
    BY <1>1, <2>1, <2>2 DEF Appears
  <2> QED
    BY <1>1, <2>1, <2>2, <2>3
<1>7. Turns(x, text) /\ Len(text) \in Nat
  BY PassText DEF Pass
<1>8. PICK u : Ended(u, r.tk, cell, ch, Skipping(r)) /\ x[p + n + 1] = AfterToken(Fed(r, u))
  BY <1>3, <1>4, <1>6, <1>7, ScanCell
<1>9. PICK v : v = x[Len(text)] /\ v = AfterToken(Fed(r, u))
  BY <1>1, <1>8
<1>10. Ended(u, r.tk, Nothing, EndOfFile, Skipping(r))
  BY <1>1, <1>5, <1>8
<1> QED
  BY <1>2, <1>3, <1>9, <1>10, NextNothing

(* It begins before the first cell.                                          *)
LEMMA ScanBegins ==
  ASSUME input \in Inputs, NEW r, r = ScanStart(input.header, input.interval)
  PROVE  At(r, 1, 1, 0)
<1>1. PICK tk, nil, no : tk = Start(0) /\ nil = <<>> /\ no = FALSE
  OBVIOUS
<1>2. r = [interval |-> input.interval, tk |-> tk, phase |-> IF input.header THEN "header" ELSE "rows",
           row |-> 0, column |-> 0, types |-> nil, names |-> nil, offsets |-> nil, rows |-> 0, erange |-> no]
  BY <1>1 DEF ScanStart
<1>3. /\ ScanRecord(r) /\ r.tk = tk /\ r.interval = input.interval /\ r.row = 0 /\ r.column = 0
      /\ r.types = nil /\ r.offsets = nil /\ r.rows = 0 /\ r.erange = no
      /\ r.phase = IF input.header THEN "header" ELSE "rows"
  BY <1>2 DEF ScanRecord
<1>4. Fresh(tk) /\ tk.offset = 0 /\ tk.last = 0
  <2>1. tk = [state |-> "field", offset |-> 0, last |-> 0,
              buf |-> nil, max |-> InitialBuffer, bytes |-> InitialBuffer, over |-> FALSE,
              result |-> "MORE", token |-> NoToken]
    BY <1>1 DEF Start
  <2>2. nil \in Seq(Char)
    BY <1>1, EmptySeq
  <2>3. Tokenizer(tk)
    BY <2>1 DEF Tokenizer
  <2>4. tk.state = "field" /\ tk.offset = 0 /\ tk.last = 0 /\ tk.buf = nil
    BY <2>1
  <2>5. Collects(tk)
    BY <2>2, <2>3, <2>4 DEF Collects
  <2> QED
    BY <1>1, <2>4, <2>5 DEF Fresh
<1>5. PICK h \in {0, 1} : h = HeaderLines /\ (1 <= h <=> input.header)
  BY InputIs DEF HeaderLines
<1>6. RowOf(1) = 0 /\ Begun(1, 1) = 0 /\ \A col \in Nat : Above(1, 1, col) = 0
  <2>1. RowOf(1) = 0
    BY <1>5 DEF RowOf
  <2>2. Begun(1, 1) = 0
    BY <1>5, <2>1 DEF Begun
  <2>3. ASSUME NEW col \in Nat PROVE Above(1, 1, col) = 0
    <3>1. ~(col < 1 - 1) /\ 0 + 0 = 0
      OBVIOUS
    <3> QED
      BY <2>1, <3>1 DEF Above
  <2> QED
    BY <2>1, <2>2, <2>3
<1>7. Follows(tk, 1, 1, 0)
  BY <1>4 DEF Follows
<1>8. Len(nil) = 0 /\ nil \in Seq(SUBSET AllTypes)
  BY <1>1, EmptySeq
<1>9. TypesOk(nil, no, 1, 1)
  <2>1. ASSUME NEW col \in Nat PROVE Agrees(Has(nil, col), Above(1, 1, col), col)
    <3>1. Has(nil, col) = {}
      BY <1>8 DEF Has
    <3>2. PICK none, above : none = {} /\ above = TypesAbove(Rows, 0, col) /\ none = above
      BY TypesAboveNone
    <3>3. \A k \in 1..0 : FALSE
      OBVIOUS
    <3>4. "STRING" \in none <=> "STRING" \in above
      BY <3>2
    <3>5. Agrees(none, 0, col)
      BY <3>2, <3>3, <3>4 DEF Agrees
    <3> QED
      BY <1>6, <3>1, <3>2, <3>5
  <2> QED
    BY <1>1, <1>8, <2>1 DEF TypesOk
<1>10. OffsetsOk(nil, Begun(1, 1))
  BY <1>1, <1>6, OffsetsFirst
<1>11. WidthOk(Len(nil), 1, 1)
  BY <1>8 DEF WidthOk
<1>12. r.phase = IF 1 <= HeaderLines THEN "header" ELSE "rows"
  BY <1>3, <1>5
<1> QED
  BY <1>3, <1>4, <1>6, <1>7, <1>9, <1>10, <1>11, <1>12 DEF At

(* A pass before a line gets before the next one or is over,                 *)
LEMMA PassLine ==
  ASSUME input \in Inputs, NEW x, NEW text, Pass(x, text), NEW l \in 1..Len(input.lines), Here(x, l, 1)
  PROVE  \/ Finished(x[Len(text)])
         \/ l # Len(input.lines) /\ Here(x, l + 1, 1)
<1>1. PICK n \in Nat : n = Len(input.lines[l]) /\ n > 0
  BY LineIs
<1>2. PICK fin \in BOOLEAN : fin = Finished(x[Len(text)])
  BY DEF Finished
<1> DEFINE S == {d \in Nat : d + 1 <= n => fin \/ Here(x, l, d + 1)}
<1>3. 0 \in S
  <2>1. 0 + 1 = 1
    OBVIOUS
  <2> QED
    BY <2>1
<1>4. ASSUME NEW d \in Nat, d \in S PROVE d + 1 \in S
  <2> SUFFICES ASSUME (d + 1) + 1 <= n, ~fin PROVE Here(x, l, (d + 1) + 1)
    OBVIOUS
  <2>1. PICK c \in 1..Len(input.lines[l]) : c = d + 1 /\ c # Len(input.lines[l])
    BY <1>1
  <2>2. Here(x, l, c)
    BY <1>1, <1>4, <2>1
  <2>3. Here(x, l, c + 1)
    BY <1>2, <2>1, <2>2, PassCell
  <2> QED
    BY <2>1, <2>3
<1>5. PICK d \in Nat : d + 1 = n
  <2>1. n - 1 \in Nat /\ (n - 1) + 1 = n
    BY <1>1
  <2> QED
    BY <2>1
<1>6. d \in S
  <2> HIDE DEF S
  <2> QED
    BY <1>3, <1>4, SetInduction
<1>7. fin \/ Here(x, l, n)
  BY <1>5, <1>6
<1>8. CASE Here(x, l, n)
  <2>1. PICK c \in 1..Len(input.lines[l]) : c = n /\ c = Len(input.lines[l])
    BY <1>1
  <2>2. \/ fin
        \/ l # Len(input.lines) /\ Here(x, l + 1, 1)
        \/ /\ l = Len(input.lines) /\ input.eol
           /\ At(x[Len(text) - 1], l + 1, 1, Len(text) - 1)
    BY <1>2, <1>8, <2>1, PassCell
  <2> QED
    BY <1>2, <2>2, PassNothing
<1> QED
  BY <1>2, <1>7, <1>8

(* so it is over at the end.                                                 *)
LEMMA PassEnds ==
  ASSUME input \in Inputs, NEW x, NEW text, Pass(x, text), x[0] = ScanStart(input.header, input.interval)
  PROVE  Finished(x[Len(text)])
<1>1. PICK n \in Nat : n = Len(input.lines) /\ n > 0
  <2>1. PICK lines : lines = input.lines /\ lines \in Lines
    BY InputIs
  <2>2. Len(lines) \in Nat /\ Len(lines) > 0
    BY <2>1, LinesAre
  <2> QED
    BY <2>1, <2>2
<1>2. PICK fin \in BOOLEAN : fin = Finished(x[Len(text)])
  BY DEF Finished
<1> DEFINE S == {d \in Nat : d + 1 <= n => fin \/ Here(x, d + 1, 1)}
<1>3. 0 \in S
  <2>1. 0 + 1 = 1
    OBVIOUS
  <2>2. At(x[0], 1, 1, 0)
    BY ScanBegins
  <2>3. CellAt(input.lines, 1, 1) = 0
    <3>1. PICK lines, one : lines = input.lines /\ lines \in Lines /\ one = 1 /\ one \in 1..Len(lines)
      BY <1>1, InputIs
    <3>2. LineOffset(lines, one) = CellAt(lines, one, 1)
      BY <3>1, LineOffsetAt
    <3>3. LineOffset(lines, one) = 0
      BY <3>1 DEF LineOffset
    <3> QED
      BY <3>1, <3>2, <3>3
  <2> QED
    BY <2>1, <2>2, <2>3 DEF Here
<1>4. ASSUME NEW d \in Nat, d \in S PROVE d + 1 \in S
  <2> SUFFICES ASSUME (d + 1) + 1 <= n, ~fin PROVE Here(x, (d + 1) + 1, 1)
    OBVIOUS
  <2>1. PICK l \in 1..Len(input.lines) : l = d + 1 /\ l # Len(input.lines)
    BY <1>1
  <2>2. Here(x, l, 1)
    BY <1>1, <1>4, <2>1
  <2>3. Here(x, l + 1, 1)
    BY <1>2, <2>1, <2>2, PassLine
  <2> QED
    BY <2>1, <2>3
<1>5. PICK d \in Nat : d + 1 = n
  <2>1. n - 1 \in Nat /\ (n - 1) + 1 = n
    BY <1>1
  <2> QED
    BY <2>1
<1>6. d \in S
  <2> HIDE DEF S
  <2> QED
    BY <1>3, <1>4, SetInduction
<1>7. PICK l \in 1..Len(input.lines) : l = Len(input.lines) /\ l = n
  BY <1>1
<1>8. fin \/ Here(x, l, 1)
  BY <1>5, <1>6, <1>7
<1> QED
  BY <1>2, <1>7, <1>8, PassLine

(* The scan of a table's file.                                               *)
LEMMA ScanFinishes ==
  ASSUME input \in Inputs
  PROVE  Finished(Scanned(input))
<1>1. PICK text, lines, eol : text = FileText(lines, eol) /\ lines = input.lines /\ eol = input.eol
  OBVIOUS
<1>2. PICK n \in Nat : n = Len(text) /\ DOMAIN text = 1..n
  <2>1. lines \in Lines /\ eol \in BOOLEAN
    BY <1>1, InputIs
  <2>2. PICK body : body = Joined(RowTexts(lines), NewLine)
    OBVIOUS
  <2>3. text \in Seq(Char)
    BY <1>1, <2>1, <2>2, FileIs
  <2> QED
    BY <2>3, LenProperties
<1>3. PICK start : start = ScanStart(input.header, input.interval)
  OBVIOUS
<1>4. PICK x : ScanTurns(x, n, text, start)
  BY <1>2, ScanSteps
<1>5. Pass(x, text) /\ x[0] = start
  BY <1>1, <1>2, <1>4 DEF Pass, Turns, ScanTurns
<1>6. Scanned(input) = x[n]
  <2>1. ScanAll(start, text) = x[n]
    BY <1>4 DEF ScanTurns
  <2>2. Scanned(input) = ScanAll(start, text)
    BY <1>1, <1>3 DEF Scanned, InitialScan, ScanAll, FileText
  <2> QED
    BY <2>1, <2>2
<1> QED
  BY <1>2, <1>3, <1>5, <1>6, PassEnds

-----------------------------------------------------------------------------
(* The types of the columns once the scan is over.                           *)

(* The type of a column is the most general one seen.                        *)
LEMMA TypeOfColumnIs ==
  ASSUME NEW h
  PROVE  TypeOfColumn(h) = IF "STRING" \in h THEN "STRING" ELSE IF "DOUBLE" \in h THEN "DOUBLE"
                           ELSE IF "INTEGER" \in h THEN "INTEGER" ELSE IF "BOOLEAN" \in h THEN "BOOLEAN"
                           ELSE IF "NA" \in h THEN "NA" ELSE "EMPTY"
<1>1. PICK found : found = {i \in 1..5 : Generality[i] \in h}
  OBVIOUS
<1>2. /\ Generality[1] = "STRING" /\ Generality[2] = "DOUBLE" /\ Generality[3] = "INTEGER"
      /\ Generality[4] = "BOOLEAN" /\ Generality[5] = "NA"
  BY DEF Generality
<1>3. TypeOfColumn(h) = IF found = {} THEN "EMPTY" ELSE Generality[CHOOSE i \in found : \A j \in found : i <= j]
  <2>1. DOMAIN Generality = 1..5
    BY DEF Generality
  <2> QED
    BY <1>1, <2>1 DEF TypeOfColumn
<1>4. ASSUME NEW m \in found, \A j \in found : m <= j
      PROVE  TypeOfColumn(h) = Generality[m]
  <2>1. PICK i : i = CHOOSE first \in found : \A j \in found : first <= j
    OBVIOUS
  <2>2. i \in found /\ \A j \in found : i <= j
    BY <1>4, <2>1
  <2>3. i = m
    BY <1>1, <1>4, <2>2
  <2> QED
    BY <1>3, <2>1, <2>3
<1>5. CASE "STRING" \in h
  <2>1. 1 \in found /\ \A j \in found : 1 <= j
    BY <1>1, <1>2, <1>5
  <2> QED
    BY <1>2, <1>4, <1>5, <2>1
<1>6. CASE "STRING" \notin h /\ "DOUBLE" \in h
  <2>1. 2 \in found /\ \A j \in found : 2 <= j
    BY <1>1, <1>2, <1>6
  <2> QED
    BY <1>2, <1>4, <1>6, <2>1
<1>7. CASE "STRING" \notin h /\ "DOUBLE" \notin h /\ "INTEGER" \in h
  <2>1. 3 \in found /\ \A j \in found : 3 <= j
    BY <1>1, <1>2, <1>7
  <2> QED
    BY <1>2, <1>4, <1>7, <2>1
<1>8. CASE "STRING" \notin h /\ "DOUBLE" \notin h /\ "INTEGER" \notin h /\ "BOOLEAN" \in h
  <2>1. 4 \in found /\ \A j \in found : 4 <= j
    BY <1>1, <1>2, <1>8
  <2> QED
    BY <1>2, <1>4, <1>8, <2>1
<1>9. CASE "STRING" \notin h /\ "DOUBLE" \notin h /\ "INTEGER" \notin h /\ "BOOLEAN" \notin h /\ "NA" \in h
  <2>1. 5 \in found /\ \A j \in found : 5 <= j
    BY <1>1, <1>2, <1>9
  <2> QED
    BY <1>2, <1>4, <1>9, <2>1
<1>10. CASE "STRING" \notin h /\ "DOUBLE" \notin h /\ "INTEGER" \notin h /\ "BOOLEAN" \notin h /\ "NA" \notin h
  <2>1. found = {}
    BY <1>1, <1>2, <1>10
  <2> QED
    BY <1>3, <1>10, <2>1
<1> QED
  BY <1>5, <1>6, <1>7, <1>8, <1>9, <1>10

(* If no integer overflows it is the type of the column in the table,        *)
LEMMA TypesMatch ==
  ASSUME NEW h, NEW col, TypesSeen(h, col), ~Overflows
  PROVE  TypeOfColumn(h) = ColumnType(Rows, col)
<1>1. PICK g : Agrees(g, Len(Rows), col) /\ (h = g \/ h = g \cup {"EMPTY"})
  BY DEF TypesSeen
<1>2. PICK above : above = TypesAbove(Rows, Len(Rows), col)
  OBVIOUS
<1>3. "STRING" \in g <=> "STRING" \in above
  BY <1>1, <1>2 DEF Agrees
<1>4. "STRING" \notin g => g = above
  BY <1>1, <1>2 DEF Agrees
<1>5. TypeOfColumn(h) = TypeOfColumn(g)
  <2>1. \A type : type # "EMPTY" => (type \in h <=> type \in g)
    BY <1>1
  <2>2. /\ ("STRING" \in h <=> "STRING" \in g) /\ ("DOUBLE" \in h <=> "DOUBLE" \in g)
        /\ ("INTEGER" \in h <=> "INTEGER" \in g) /\ ("BOOLEAN" \in h <=> "BOOLEAN" \in g)
        /\ ("NA" \in h <=> "NA" \in g)
    BY <2>1
  <2> QED
    BY <2>2, TypeOfColumnIs
<1>6. TypeOfColumn(g) = TypeOfColumn(above)
  <2>1. CASE "STRING" \in g
    BY <1>3, <2>1, TypeOfColumnIs
  <2>2. CASE "STRING" \notin g
    BY <1>4, <2>2
  <2> QED
    BY <2>1, <2>2
<1> QED
  BY <1>2, <1>5, <1>6 DEF ColumnType

(* and its cells fit it.                                                     *)
LEMMA CellsFit ==
  ASSUME input \in Inputs, NEW h, NEW col \in Nat, TypesSeen(h, col), NEW type, type = TypeOfColumn(h), type # "STRING",
         NEW k \in 1..Len(Rows), col < Len(Rows[k]), NEW s, s = Text(Rows[k][col + 1])
  PROVE  s \in Seq(Char) /\ FitsColumn(s, type)
<1>1. PICK g : Agrees(g, Len(Rows), col) /\ (h = g \/ h = g \cup {"EMPTY"})
  BY DEF TypesSeen
<1>2. s \in Seq(Char)
  <2>1. PICK row : row = Rows[k] /\ row \in Seq(Cells) /\ Len(row) \in Nat
    BY RowsAre
  <2>2. PICK c \in 1..Len(row) : c = col + 1
    BY <2>1
  <2>3. row[c] \in Cells
    BY <2>1, ElementOfSeq
  <2> QED
    BY <2>1, <2>2, <2>3, TextChars
<1>3. "STRING" \notin h
  BY TypeOfColumnIs
<1>4. PICK e \in BOOLEAN : DeduceType(s, e) \in g
  <2>1. "STRING" \notin g
    BY <1>1, <1>3
  <2> QED
    BY <1>1, <2>1 DEF Agrees
<1>5. PICK d : d = DeduceType(s, e) /\ d \in h /\ d \in {"EMPTY", "NA", "BOOLEAN", "INTEGER", "DOUBLE", "STRING"}
  <2>1. DeduceType(s, e) \in AllTypes
    BY <1>2, DeduceIs
  <2> QED
    BY <1>1, <1>4, <2>1 DEF AllTypes
<1>6. CASE type = "BOOLEAN"
  <2>1. "DOUBLE" \notin h /\ "INTEGER" \notin h
    BY <1>6, TypeOfColumnIs
  <2>2. d \in {"BOOLEAN", "NA", "EMPTY"}
    BY <1>3, <1>5, <2>1
  <2> QED
    BY <1>2, <1>5, <1>6, <2>2 DEF FitsColumn
<1>7. CASE type = "INTEGER"
  <2>1. "DOUBLE" \notin h
    BY <1>7, TypeOfColumnIs
  <2>2. d \in {"INTEGER", "BOOLEAN", "NA", "EMPTY"}
    BY <1>3, <1>5, <2>1
  <2> QED
    BY <1>2, <1>5, <1>7, <2>2 DEF FitsColumn
<1>8. CASE type = "DOUBLE"
  <2>1. d # "STRING"
    BY <1>3, <1>5
  <2> QED
    BY <1>2, <1>5, <1>8, <2>1 DEF FitsColumn
<1>9. CASE type \notin {"BOOLEAN", "INTEGER", "DOUBLE"}
  BY <1>2, <1>9 DEF FitsColumn
<1> QED
  BY <1>6, <1>7, <1>8, <1>9

(* There are as many columns as the longest row has cells.                   *)
LEMMA WidthIs ==
  ASSUME input \in Inputs, NEW n, WidthOk(n, Len(input.lines) + 1, 1)
  PROVE  n = Width(input.lines)
<1>9. PICK lines : lines = input.lines /\ lines \in Lines
  BY InputIs
<1>10. DOMAIN lines = 1..Len(lines) /\ Len(lines) \in Nat /\ Len(lines) > 0
  BY <1>9, LinesAre
<1>1. PICK L \in Nat : lines = input.lines /\ L = Len(lines) /\ L > 0 /\ DOMAIN lines = 1..L
  BY <1>9, <1>10
<1>2. \A k \in 1..L : Len(lines[k]) \in Nat /\ Len(lines[k]) > 0
  BY <1>1, LineIs
<1>3. PICK W : W = {Len(lines[k]) : k \in 1..L}
  OBVIOUS
<1>4. n \in Nat /\ \A k \in 1..L : Len(lines[k]) <= n
  <2>1. (L + 1) - 1 = L
    BY <1>1
  <2> QED
    BY <1>1, <2>1 DEF WidthOk
<1>5. n \in W
  <2>1. n # 0
    <3>1. Len(lines[1]) > 0 /\ Len(lines[1]) <= n /\ Len(lines[1]) \in Nat
      BY <1>1, <1>2, <1>4
    <3> QED
      BY <1>4, <3>1
  <2>2. PICK k \in 1..L : n <= Len(lines[k])
    BY <1>1, <2>1 DEF WidthOk
  <2>3. n = Len(lines[k])
    BY <1>2, <1>4, <2>2
  <2> QED
    BY <1>3, <2>3
<1>6. W \in SUBSET Int /\ \A y \in W : n >= y
  BY <1>2, <1>3, <1>4
<1>7. Max(W) = n
  BY <1>5, <1>6, MaxIs
<1> QED
  BY <1>1, <1>3, <1>7 DEF Width

(* What is known once a file is loaded.                                      *)
LEMMA ScanResults ==
  ASSUME input \in Inputs, NEW r, r = Scanned(input), r.phase = "done"
  PROVE  /\ Results(r) /\ ~QuotedEnd /\ ~FirstTokenSkipped
         /\ r.rows \in Nat /\ r.rows <= Len(Rows) /\ Len(r.types) \in Nat /\ Len(r.types) = Width(input.lines)
<1>1. Finished(r)
  BY ScanFinishes
<1>2. Results(r) /\ ~QuotedEnd
  BY <1>1 DEF Finished
<1>3. PICK begun : begun = Len(Rows) + (IF input.eol THEN 1 ELSE 0) /\ OffsetsOk(r.offsets, begun)
  BY <1>2 DEF Results
<1>4. ~FirstTokenSkipped
  BY <1>3, SkipsNone
<1>5. r.rows \in Nat /\ r.rows <= Len(Rows)
  <2>1. PICK n \in Nat : n = Len(Rows)
    BY RowsAre
  <2>2. LastRowDropped => n # 0
    BY <2>1, EmptySeq, RowsAre DEF LastRowDropped
  <2>3. r.rows = n - IF LastRowDropped THEN 1 ELSE 0
    BY <1>2, <2>1 DEF Results
  <2> QED
    BY <2>1, <2>2, <2>3
<1>6. PICK n : n = Len(r.types) /\ WidthOk(n, Len(input.lines) + 1, 1)
  BY <1>2 DEF Results
<1>7. n = Width(input.lines)
  BY <1>6, WidthIs
<1> QED
  BY <1>2, <1>4, <1>5, <1>6, <1>7 DEF WidthOk

-----------------------------------------------------------------------------
(* A token of a pass that reads rows of a column.                            *)

(* What a pass that reads a column holds, and what becomes of it when its    *)
(* tokenizer is u.                                                           *)
ReadRecord(r) ==
    r = [tk |-> r.tk, row |-> r.row, column |-> r.column, target |-> r.target, first |-> r.first, last |-> r.last,
         tokens |-> r.tokens, found |-> r.found, done |-> r.done, bad |-> r.bad]

ReadFed(r, u) == [r EXCEPT !.tk = u]

(* A tokenizer step changes nothing else of a reading,                       *)
LEMMA ReadFedIs ==
  ASSUME NEW r, ReadRecord(r), NEW u
  PROVE  /\ ReadRecord(ReadFed(r, u)) /\ ReadFed(r, u).tk = u /\ ReadFed(r, r.tk) = r
         /\ \A v : ReadFed(ReadFed(r, u), v) = ReadFed(r, v)
         /\ ReadFed(r, u).done = r.done /\ ReadFed(r, u).column = r.column /\ ReadFed(r, u).target = r.target
         /\ ReadFed(r, u).row = r.row /\ ReadFed(r, u).first = r.first /\ ReadFed(r, u).last = r.last
         /\ ReadFed(r, u).tokens = r.tokens /\ ReadFed(r, u).found = r.found /\ ReadFed(r, u).bad = r.bad
<1>1. \A w : ReadFed(r, w) =
        [tk |-> w, row |-> r.row, column |-> r.column, target |-> r.target, first |-> r.first, last |-> r.last,
         tokens |-> r.tokens, found |-> r.found, done |-> r.done, bad |-> r.bad]
  BY DEF ReadRecord, ReadFed
<1>2. /\ ReadRecord(ReadFed(r, u)) /\ ReadFed(r, u).tk = u
      /\ ReadFed(r, u).done = r.done /\ ReadFed(r, u).column = r.column /\ ReadFed(r, u).target = r.target
      /\ ReadFed(r, u).row = r.row /\ ReadFed(r, u).first = r.first /\ ReadFed(r, u).last = r.last
      /\ ReadFed(r, u).tokens = r.tokens /\ ReadFed(r, u).found = r.found /\ ReadFed(r, u).bad = r.bad
  BY <1>1 DEF ReadRecord
<1>3. ReadFed(r, r.tk) = r
  BY <1>1 DEF ReadRecord
<1>4. \A v : ReadFed(ReadFed(r, u), v) = ReadFed(r, v)
  <2> SUFFICES ASSUME NEW v PROVE ReadFed(ReadFed(r, u), v) = ReadFed(r, v)
    OBVIOUS
  <2>1. PICK f : f = ReadFed(r, u)
    OBVIOUS
  <2>2. f = [tk |-> u, row |-> r.row, column |-> r.column, target |-> r.target, first |-> r.first, last |-> r.last,
             tokens |-> r.tokens, found |-> r.found, done |-> r.done, bad |-> r.bad]
    BY <1>1, <2>1
  <2>3. [f EXCEPT !.tk = v] =
            [tk |-> v, row |-> r.row, column |-> r.column, target |-> r.target, first |-> r.first, last |-> r.last,
             tokens |-> r.tokens, found |-> r.found, done |-> r.done, bad |-> r.bad]
    BY <2>2
  <2>4. ReadFed(f, v) = [f EXCEPT !.tk = v]
    BY DEF ReadFed
  <2> QED
    BY <1>1, <2>1, <2>3, <2>4
<1> QED
  BY <1>2, <1>3, <1>4

(* The token is one that was asked for; the texts with it, and with the      *)
(* empty one of a row that has no such token; the pass ends with the token.  *)
Mine(r) == r.column = r.target /\ InRange(r)

TokensWith(r, u) == IF Mine(r) THEN Append(r.tokens, u.token.text) ELSE r.tokens

Missing(r) == ~(Mine(r) \/ r.found) /\ InRange(r)

TokensEnded(r, u) == IF Missing(r) THEN Append(TokensWith(r, u), <<>>) ELSE TokensWith(r, u)

Ending(r, u) == u.result = "END_OF_FILE" \/ (r.last # 0 /\ r.row >= r.last)

TokenRead(v, r, u) ==
    /\ ReadRecord(v) /\ v.tk = u /\ v.target = r.target /\ v.first = r.first /\ v.last = r.last /\ v.bad = r.bad
    /\ u.result = "OK" =>
         /\ v.row = r.row /\ v.column = r.column + 1 /\ v.done = r.done /\ v.tokens = TokensWith(r, u)
         /\ IF Mine(r) THEN v.found = TRUE ELSE v.found = r.found
    /\ u.result # "OK" =>
         /\ v.column = 0 /\ v.tokens = TokensEnded(r, u) /\ v.found = FALSE
         /\ IF Ending(r, u) THEN v.done = TRUE ELSE v.done = r.done /\ v.row = r.row + 1

(* and a token is read by the turn that ends it.                             *)
LEMMA ReadTurnIs ==
  ASSUME NEW r, ReadRecord(r), r.done = FALSE, r.found \in BOOLEAN, NEW c,
         NEW u, u = Feed(r.tk, c, r.column # r.target)
  PROVE  /\ u.result = "MORE" => ReadTurn(r, c) = ReadFed(r, u)
         /\ u.result \in {"OK", "END_OF_ROW", "END_OF_FILE"} => TokenRead(ReadTurn(r, c), r, u)
<1>1. PICK fed, text : fed = ReadFed(r, u) /\ text = u.token.text
  OBVIOUS
<1>2. fed = [tk |-> u, row |-> r.row, column |-> r.column, target |-> r.target, first |-> r.first, last |-> r.last,
             tokens |-> r.tokens, found |-> r.found, done |-> r.done, bad |-> r.bad]
  BY <1>1 DEF ReadFed, ReadRecord
<1>3. fed = [r EXCEPT !.tk = Feed(@, c, r.column # r.target)]
  BY <1>1 DEF ReadFed
<1>4. PICK mine \in BOOLEAN : mine <=> Mine(r)
  BY DEF Mine
<1>5. PICK stored : stored = IF mine THEN [fed EXCEPT !.tokens = Append(@, text), !.found = TRUE] ELSE fed
  OBVIOUS
<1>6. PICK found, tokens : found \in BOOLEAN /\ found = (IF mine THEN TRUE ELSE r.found) /\ tokens = TokensWith(r, u)
  OBVIOUS
<1>7. stored = [tk |-> u, row |-> r.row, column |-> r.column, target |-> r.target, first |-> r.first, last |-> r.last,
                tokens |-> tokens, found |-> found, done |-> r.done, bad |-> r.bad]
  <2>1. CASE mine
    <3>1. tokens = Append(r.tokens, text) /\ found = TRUE
      BY <1>1, <1>4, <1>6, <2>1 DEF TokensWith
    <3>2. stored = [fed EXCEPT !.tokens = tokens, !.found = TRUE]
      BY <1>2, <1>5, <2>1, <3>1
    <3> QED
      BY <1>2, <3>1, <3>2
  <2>2. CASE ~mine
    <3>1. tokens = r.tokens /\ found = r.found
      BY <1>4, <1>6, <2>2 DEF TokensWith
    <3> QED
      BY <1>2, <1>5, <2>2, <3>1
  <2> QED
    BY <2>1, <2>2
<1>8. PICK missing \in BOOLEAN : missing <=> ~found /\ InRange(r)
  OBVIOUS
<1>19. PICK nil : nil = <<>>
  OBVIOUS
<1>9. PICK ended : ended = [stored EXCEPT !.column = 0,
                                          !.tokens = IF missing THEN Append(@, nil) ELSE @,
                                          !.found = IF missing THEN @ ELSE FALSE]
  OBVIOUS
<1>10. PICK all : all = TokensEnded(r, u)
  OBVIOUS
<1>11. missing <=> Missing(r)
  BY <1>4, <1>6, <1>8 DEF Missing
<1>12. ended = [tk |-> u, row |-> r.row, column |-> 0, target |-> r.target, first |-> r.first, last |-> r.last,
                tokens |-> all, found |-> FALSE, done |-> r.done, bad |-> r.bad]
  <2>1. CASE missing
    <3>1. all = Append(tokens, nil) /\ found = FALSE
      BY <1>6, <1>8, <1>10, <1>11, <1>19, <2>1 DEF TokensEnded
    <3>2. ended = [stored EXCEPT !.column = 0, !.tokens = all, !.found = FALSE]
      BY <1>7, <1>9, <2>1, <3>1
    <3> QED
      BY <1>7, <3>2
  <2>2. CASE ~missing
    <3>1. all = tokens
      BY <1>6, <1>10, <1>11, <2>2 DEF TokensEnded
    <3>2. ended = [stored EXCEPT !.column = 0, !.tokens = all, !.found = FALSE]
      BY <1>7, <1>9, <2>2, <3>1
    <3> QED
      BY <1>7, <3>2
  <2> QED
    BY <2>1, <2>2
<1>13. PICK ending \in BOOLEAN : ending <=> Ending(r, u)
  BY DEF Ending
<1>14. PICK v : v = ReadTurn(r, c)
  OBVIOUS
<1>15. v = CASE u.result = "MORE"                     -> fed
             [] u.result \in {"PARSE_ERROR", "ERROR"} -> [fed EXCEPT !.done = TRUE, !.bad = TRUE]
             [] u.result = "OK"                       -> [stored EXCEPT !.column = @ + 1]
             [] OTHER -> IF ending THEN [ended EXCEPT !.done = TRUE] ELSE [ended EXCEPT !.row = @ + 1]
  <2>1. fed.tk = u /\ stored.found = found
    BY <1>2, <1>7
  <2>2. v = IF r.done THEN r ELSE
            CASE u.result = "MORE"                     -> fed
              [] u.result \in {"PARSE_ERROR", "ERROR"} -> [fed EXCEPT !.done = TRUE, !.bad = TRUE]
              [] u.result = "OK"                       -> [stored EXCEPT !.column = @ + 1]
              [] OTHER -> IF u.result = "END_OF_FILE" \/ (r.last # 0 /\ r.row >= r.last)
                          THEN [ended EXCEPT !.done = TRUE] ELSE [ended EXCEPT !.row = @ + 1]
    <3>1. stored = IF r.column = r.target /\ InRange(r)
                   THEN [fed EXCEPT !.tokens = Append(@, fed.tk.token.text), !.found = TRUE] ELSE fed
      BY <1>1, <1>4, <1>5, <2>1 DEF Mine
    <3>2. ended = [stored EXCEPT !.column = 0,
                                 !.tokens = IF ~stored.found /\ InRange(r) THEN Append(@, <<>>) ELSE @,
                                 !.found = IF ~stored.found /\ InRange(r) THEN @ ELSE FALSE]
      <4>1. missing = (~stored.found /\ InRange(r))
        BY <1>8, <2>1
      <4> QED
        BY <1>9, <1>19, <4>1
    <3>3. v = IF r.done THEN r ELSE
              CASE fed.tk.result = "MORE"                     -> fed
                [] fed.tk.result \in {"PARSE_ERROR", "ERROR"} -> [fed EXCEPT !.done = TRUE, !.bad = TRUE]
                [] fed.tk.result = "OK"                       -> [stored EXCEPT !.column = @ + 1]
                [] OTHER -> IF fed.tk.result = "END_OF_FILE" \/ (r.last # 0 /\ r.row >= r.last)
                            THEN [ended EXCEPT !.done = TRUE] ELSE [ended EXCEPT !.row = @ + 1]
      BY <1>3, <1>14, <3>1, <3>2 DEF ReadTurn
    <3>4. u = fed.tk
      BY <2>1
    <3> QED
      BY <3>3, <3>4, Zenon
  <2>3. r.done <=> FALSE
    OBVIOUS
  <2> QED
    BY <1>13, <2>2, <2>3, Zenon DEF Ending
<1>16. ASSUME u.result = "OK" PROVE TokenRead(v, r, u)
  <2>1. v = [stored EXCEPT !.column = @ + 1]
    BY <1>15, <1>16
  <2>2. v = [tk |-> u, row |-> r.row, column |-> r.column + 1, target |-> r.target, first |-> r.first, last |-> r.last,
             tokens |-> tokens, found |-> found, done |-> r.done, bad |-> r.bad]
    BY <1>7, <2>1
  <2>3. IF Mine(r) THEN found = TRUE ELSE found = r.found
    BY <1>4, <1>6
  <2> QED
    BY <1>6, <1>16, <2>2, <2>3 DEF TokenRead, ReadRecord
<1>17. ASSUME u.result \in {"END_OF_ROW", "END_OF_FILE"} PROVE TokenRead(v, r, u)
  <2>1. v = IF ending THEN [ended EXCEPT !.done = TRUE] ELSE [ended EXCEPT !.row = @ + 1]
    BY <1>15, <1>17
  <2>2. CASE ending
    <3>1. v = [ended EXCEPT !.done = TRUE]
      BY <2>1, <2>2
    <3>2. v = [tk |-> u, row |-> r.row, column |-> 0, target |-> r.target, first |-> r.first, last |-> r.last,
               tokens |-> all, found |-> FALSE, done |-> TRUE, bad |-> r.bad]
      BY <1>12, <3>1
    <3> QED
      BY <1>10, <1>13, <1>17, <2>2, <3>2 DEF TokenRead, ReadRecord
  <2>3. CASE ~ending
    <3>1. v = [ended EXCEPT !.row = @ + 1]
      BY <2>1, <2>3
    <3>2. v = [tk |-> u, row |-> r.row + 1, column |-> 0, target |-> r.target, first |-> r.first, last |-> r.last,
               tokens |-> all, found |-> FALSE, done |-> r.done, bad |-> r.bad]
      BY <1>12, <3>1
    <3> QED
      BY <1>10, <1>13, <1>17, <2>3, <3>2 DEF TokenRead, ReadRecord
  <2> QED
    BY <2>2, <2>3
<1>18. u.result = "MORE" => v = fed
  BY <1>15
<1> QED
  BY <1>1, <1>14, <1>16, <1>17, <1>18

(* The turns of a pass that enters a file at from, and the one after a cell. *)
TurnsFrom(z, text, from) == \A k \in (from + 1)..Len(text) : z[k] = ReadTurn(z[k - 1], text[k])

(* A column that was not asked for is passed by.                            *)
PassingBy(r) == r.column # r.target

Reading(r) == ReadRecord(r) /\ r.done = FALSE /\ r.found \in BOOLEAN /\ Fresh(r.tk)

Lexes(cell, c) == Outcome(cell, c) # "PARSE_ERROR"

Lies(text, cell, p, c, at) ==
    /\ p \in Nat /\ Len(Raw(cell)) \in Nat /\ at = p + Len(Raw(cell)) + 1 /\ at <= Len(text)
    /\ Appears(Raw(cell), text, p) /\ text[at] = c

(* The turns over the characters of a cell read its token.                   *)
LEMMA ReadCell ==
  ASSUME NEW text, Len(text) \in Nat, NEW from \in Nat, NEW z, TurnsFrom(z, text, from),
         NEW cell \in Cells, NEW c \in {Comma, NewLine, EndOfFile}, NEW p, NEW at, Lies(text, cell, p, c, at),
         from <= p, NEW r, r = z[p], Reading(r), Lexes(cell, c)
  PROVE  \E u : Ended(u, r.tk, cell, c, PassingBy(r)) /\ TokenRead(z[at], r, u)
<1>21. PICK n \in Nat : n = Len(Raw(cell)) /\ at = p + n + 1 /\ at <= Len(text) /\ p \in Nat
  BY DEF Lies
<1>20. ReadRecord(r) /\ r.done = FALSE /\ r.found \in BOOLEAN
  BY DEF Reading
<1>1. PICK raw : raw = Raw(cell)
  OBVIOUS
<1>2. PICK skip \in BOOLEAN : skip = PassingBy(r) /\ skip = (r.column # r.target)
  BY DEF PassingBy
<1>3. PICK T : /\ Runs(T, r.tk, raw, skip) /\ \A j \in 1..n : T[j].result = "MORE"
               /\ Ended(Feed(T[n], c, skip), r.tk, cell, c, skip)
  BY <1>1, <1>21, TokenRuns DEF Reading, Fresh
<1>4. T[0] = r.tk /\ \A j \in 1..n : T[j] = Feed(T[j - 1], raw[j], skip)
  BY <1>1, <1>3, <1>21 DEF Runs
<1>5. \A j \in 1..n : text[p + j] = raw[j]
  BY <1>1, <1>21 DEF Appears, Lies
<1> DEFINE S == {j \in Nat : j <= n => z[p + j] = ReadFed(r, T[j])}
<1>6. 0 \in S
  <2>1. p + 0 = p
    BY <1>21
  <2> QED
    BY <1>4, <1>20, <2>1, ReadFedIs
<1>7. ASSUME NEW j \in Nat, j \in S PROVE j + 1 \in S
  <2> SUFFICES ASSUME j + 1 <= n PROVE z[p + (j + 1)] = ReadFed(r, T[j + 1])
    OBVIOUS
  <2>1. j + 1 \in 1..n /\ (j + 1) - 1 = j /\ p + (j + 1) \in (from + 1)..Len(text) /\ (p + (j + 1)) - 1 = p + j
    BY <1>21
  <2>2. PICK v, d, f, w : v = T[j] /\ d = raw[j + 1] /\ f = ReadFed(r, v) /\ w = T[j + 1]
    OBVIOUS
  <2>3. z[p + j] = f
    BY <1>7, <2>1, <2>2
  <2>4. z[p + (j + 1)] = ReadTurn(f, d)
    BY <1>5, <2>1, <2>2, <2>3 DEF TurnsFrom
  <2>5. w = Feed(v, d, skip) /\ w.result = "MORE"
    BY <1>3, <1>4, <2>1, <2>2
  <2>6. ReadRecord(f) /\ f.tk = v /\ f.done = FALSE /\ f.found \in BOOLEAN /\ (f.column # f.target) = skip
    <3>1. ReadRecord(f) /\ f.tk = v /\ f.done = r.done /\ f.column = r.column /\ f.target = r.target /\ f.found = r.found
      BY <1>20, <2>2, ReadFedIs
    <3> QED
      BY <1>2, <1>20, <3>1
  <2>7. w = Feed(f.tk, d, f.column # f.target)
    BY <2>5, <2>6
  <2>8. ReadTurn(f, d) = ReadFed(f, w)
    BY <2>5, <2>6, <2>7, ReadTurnIs
  <2>9. ReadFed(f, w) = ReadFed(r, w)
    BY <1>20, <2>2, ReadFedIs
  <2> QED
    BY <2>2, <2>4, <2>8, <2>9
<1>8. z[p + n] = ReadFed(r, T[n])
  <2>1. n \in S
    <3> HIDE DEF S
    <3> QED
      BY <1>6, <1>7, SetInduction
  <2> QED
    BY <2>1
<1>9. PICK v, u, f : v = T[n] /\ u = Feed(v, c, skip) /\ f = ReadFed(r, v)
  OBVIOUS
<1>10. z[at] = ReadTurn(f, c)
  <2>1. at \in (from + 1)..Len(text) /\ at - 1 = p + n
    BY <1>21
  <2>2. text[at] = c
    BY DEF Lies
  <2> QED
    BY <1>8, <1>9, <2>1, <2>2 DEF TurnsFrom
<1>11. /\ ReadRecord(f) /\ f.tk = v /\ f.done = FALSE /\ f.found \in BOOLEAN /\ (f.column # f.target) = skip
       /\ f.row = r.row /\ f.column = r.column /\ f.target = r.target /\ f.first = r.first /\ f.last = r.last
       /\ f.tokens = r.tokens /\ f.found = r.found /\ f.done = r.done /\ f.bad = r.bad
  <2>1. /\ ReadRecord(f) /\ f.tk = v /\ f.done = r.done /\ f.column = r.column /\ f.target = r.target /\ f.found = r.found
        /\ f.row = r.row /\ f.first = r.first /\ f.last = r.last /\ f.tokens = r.tokens /\ f.bad = r.bad
    BY <1>9, <1>20, ReadFedIs
  <2> QED
    BY <1>2, <1>20, <2>1
<1>12. Ended(u, r.tk, cell, c, skip)
  BY <1>3, <1>9
<1>13. u.result \in {"OK", "END_OF_ROW", "END_OF_FILE"}
  BY <1>12 DEF Ended, Outcome, Lexes
<1>14. TokenRead(ReadTurn(f, c), f, u)
  <2>1. u = Feed(f.tk, c, f.column # f.target)
    BY <1>9, <1>11
  <2> QED
    BY <1>11, <1>13, <2>1, ReadTurnIs
<1>15. TokenRead(z[at], r, u)
  <2>1. Mine(f) <=> Mine(r)
    BY <1>11 DEF Mine, InRange
  <2>2. TokensWith(f, u) = TokensWith(r, u) /\ (Missing(f) <=> Missing(r)) /\ (Ending(f, u) <=> Ending(r, u))
    BY <1>11, <2>1 DEF TokensWith, Missing, InRange, Ending
  <2>3. TokensEnded(f, u) = TokensEnded(r, u)
    BY <2>2 DEF TokensEnded
  <2> QED
    BY <1>10, <1>11, <1>14, <2>1, <2>2, <2>3 DEF TokenRead
<1> QED
  BY <1>2, <1>12, <1>15

(* Rows that are asked for, what has been read of them, and how many.        *)
Wanted(q) ==
    q.column \in Nat /\ q.first \in Nat /\ q.end \in Nat /\ q.first < q.end /\ q.end <= Len(Rows)

Slice(tokens, n, q) ==
    /\ tokens \in Seq(Seq(Char)) /\ Len(tokens) = n
    /\ \A i \in 1..n : tokens[i] = CellText(Rows, q.first + i - 1, q.column)

Got(l, c, q) ==
    IF RowOf(l) < q.first THEN 0 ELSE RowOf(l) - q.first + IF q.column < c - 1 THEN 1 ELSE 0

(* No row is stored at first,                                                *)
LEMMA SliceNone ==
  ASSUME NEW q
  PROVE  Slice(<<>>, 0, q)
<1>1. PICK nil : nil = <<>>
  OBVIOUS
<1>2. nil \in Seq(Seq(Char)) /\ Len(nil) = 0 /\ \A i \in 1..0 : FALSE
  BY <1>1, EmptySeq
<1> QED
  BY <1>1, <1>2 DEF Slice

(* and the next one is added at the end.                                     *)
LEMMA SliceGrows ==
  ASSUME NEW q, q.first \in Nat, NEW n \in Nat, NEW tokens, Slice(tokens, n, q),
         NEW s \in Seq(Char), s = CellText(Rows, q.first + n, q.column),
         NEW more, more = Append(tokens, s)
  PROVE  Slice(more, n + 1, q)
<1>1. PICK T : T = Seq(Char) /\ tokens \in Seq(T) /\ s \in T /\ Len(tokens) = n
  BY DEF Slice
<1>2. /\ more \in Seq(T) /\ Len(more) = n + 1 /\ more[n + 1] = s
      /\ \A i \in 1..n : more[i] = tokens[i]
  BY <1>1, AppendProperties
<1>3. ASSUME NEW i \in 1..(n + 1) PROVE more[i] = CellText(Rows, q.first + i - 1, q.column)
  <2>1. CASE i = n + 1
    <3>1. q.first + i - 1 = q.first + n
      BY <2>1
    <3> QED
      BY <1>2, <2>1, <3>1
  <2>2. CASE i # n + 1
    <3>1. i \in 1..n
      BY <2>2
    <3> QED
      BY <1>2, <3>1 DEF Slice
  <2> QED
    BY <2>1, <2>2
<1> QED
  BY <1>1, <1>2, <1>3 DEF Slice

(* The pass is before cell c of line l.                                      *)
ReadAt(r, l, c, q) ==
    /\ ReadRecord(r) /\ Fresh(r.tk) /\ r.done = FALSE /\ r.bad = FALSE
    /\ r.target = q.column /\ r.first = q.first /\ r.last = q.end
    /\ l > HeaderLines /\ r.row = RowOf(l) /\ r.row <= q.end /\ r.column = c - 1
    /\ r.found \in BOOLEAN /\ (r.found <=> RowOf(l) >= q.first /\ q.column < c - 1)
    /\ Slice(r.tokens, Got(l, c, q), q)

(* The pass is over.                                                         *)
ReadDone(r, q) ==
    /\ r.done = TRUE /\ r.bad = FALSE /\ r.tokens \in Seq(Seq(Char))
    /\ Len(r.tokens) \in {q.end - q.first, q.end - q.first + 1}
    /\ \A i \in 1..(q.end - q.first) : r.tokens[i] = CellText(Rows, q.first + i - 1, q.column)

(* A token is kept if it is of a row and the column asked for.               *)
LEMMA TokenStored ==
  ASSUME input \in Inputs, NEW q, Wanted(q), NEW l \in 1..Len(input.lines), NEW c \in 1..Len(input.lines[l]),
         NEW r, ReadAt(r, l, c, q), NEW ch, NEW u, Ended(u, r.tk, input.lines[l][c], ch, PassingBy(r))
  PROVE  /\ Slice(TokensWith(r, u), Got(l, c + 1, q), q)
         /\ (Mine(r) \/ r.found) <=> (RowOf(l) >= q.first /\ q.column < c)
         /\ InRange(r) <=> RowOf(l) >= q.first
<1>1. l > HeaderLines
  BY DEF ReadAt
<1>2. PICK k \in Nat : k = RowOf(l) /\ k + 1 \in 1..Len(Rows) /\ Rows[k + 1] = input.lines[l]
  BY <1>1, RowCell
<1>3. PICK n \in Nat : n = Len(input.lines[l]) /\ c \in 1..n
  BY LineIs
<1>4. PICK col \in Nat, first \in Nat, end \in Nat :
        col = q.column /\ first = q.first /\ end = q.end /\ first < end
  BY DEF Wanted
<1>5. /\ r.target = col /\ r.first = first /\ r.last = end /\ r.row = k /\ k <= end /\ r.column = c - 1
      /\ (r.found <=> k >= first /\ col < c - 1) /\ Slice(r.tokens, Got(l, c, q), q)
  BY <1>2, <1>4 DEF ReadAt
<1>6. InRange(r) <=> k >= first
  BY <1>4, <1>5 DEF InRange
<1>7. Mine(r) <=> c - 1 = col /\ k >= first
  BY <1>5, <1>6 DEF Mine
<1>8. /\ Got(l, c, q) = IF k < first THEN 0 ELSE k - first + IF col < c - 1 THEN 1 ELSE 0
      /\ Got(l, c + 1, q) = IF k < first THEN 0 ELSE k - first + IF col < (c + 1) - 1 THEN 1 ELSE 0
  BY <1>2, <1>4 DEF Got
<1>9. CASE Mine(r)
  <2>1. PICK d \in Nat : d + first = k /\ Got(l, c, q) = d /\ Got(l, c + 1, q) = d + 1
    <3>1. k - first \in Nat /\ (k - first) + first = k /\ Got(l, c, q) = k - first /\ Got(l, c + 1, q) = (k - first) + 1
      BY <1>7, <1>8, <1>9
    <3> QED
      BY <3>1
  <2>2. PICK s : s = u.token.text /\ s = Text(input.lines[l][c])
    <3>1. ~PassingBy(r)
      BY <1>9 DEF Mine, PassingBy
    <3> QED
      BY <3>1 DEF Ended
  <2>3. s \in Seq(Char)
    BY <2>2, LineIs, TextChars
  <2>4. s = CellText(Rows, first + d, col)
    <3>1. first + d = k /\ col < Len(Rows[k + 1]) /\ col + 1 = c
      <4>1. col + 1 = c /\ col < Len(input.lines[l])
        BY <1>3, <1>7, <1>9
      <4>2. first + d = k
        BY <2>1
      <4> QED
        BY <1>2, <4>1, <4>2
    <3> QED
      BY <1>2, <2>2, <3>1 DEF CellText
  <2>5. PICK tokens, more : tokens = r.tokens /\ more = Append(tokens, s) /\ Slice(tokens, d, q)
    BY <1>5, <2>1
  <2>6. Slice(more, d + 1, q)
    BY <1>4, <2>3, <2>4, <2>5, SliceGrows
  <2>7. TokensWith(r, u) = more
    BY <1>9, <2>2, <2>5 DEF TokensWith
  <2>8. RowOf(l) >= q.first /\ q.column < c
    BY <1>2, <1>3, <1>4, <1>7, <1>9
  <2>9. InRange(r) <=> RowOf(l) >= q.first
    BY <1>2, <1>4, <1>6
  <2>10. Slice(TokensWith(r, u), Got(l, c + 1, q), q)
    BY <2>1, <2>6, <2>7
  <2> QED
    BY <1>9, <2>8, <2>9, <2>10
<1>10. CASE ~Mine(r)
  <2>1. Got(l, c + 1, q) = Got(l, c, q)
    <3>1. CASE k < first
      BY <1>8, <3>1
    <3>2. CASE ~(k < first)
      <4>1. (col < c - 1) <=> (col < (c + 1) - 1)
        BY <1>3, <1>4, <1>7, <1>10, <3>2
      <4> QED
        BY <1>8, <4>1
    <3> QED
      BY <3>1, <3>2
  <2>2. TokensWith(r, u) = r.tokens
    BY <1>10 DEF TokensWith
  <2>3. r.found <=> k >= first /\ col < c
    BY <1>3, <1>4, <1>5, <1>7, <1>10
  <2> QED
    BY <1>2, <1>4, <1>5, <1>6, <1>10, <2>1, <2>2, <2>3
<1> QED
  BY <1>9, <1>10

(* At the end of a row its element is there, empty if it has no such cell.   *)
LEMMA RowStored ==
  ASSUME input \in Inputs, NEW q, Wanted(q), NEW l \in 1..Len(input.lines), NEW c, c = Len(input.lines[l]),
         NEW r, ReadAt(r, l, c, q), NEW ch, NEW u, Ended(u, r.tk, input.lines[l][c], ch, PassingBy(r))
  PROVE  Slice(TokensEnded(r, u), Got(l + 1, 1, q), q)
<1>1. l > HeaderLines
  BY DEF ReadAt
<1>2. PICK k \in Nat : k = RowOf(l) /\ k + 1 \in 1..Len(Rows) /\ Rows[k + 1] = input.lines[l]
  BY <1>1, RowCell
<1>3. c \in Nat /\ c \in 1..Len(input.lines[l]) /\ l \in Nat /\ l > 0
  BY LineIs
<1>4. PICK col \in Nat, first \in Nat, end \in Nat :
        col = q.column /\ first = q.first /\ end = q.end /\ first < end
  BY DEF Wanted
<1>5. /\ Slice(TokensWith(r, u), Got(l, c + 1, q), q)
      /\ (Mine(r) \/ r.found) <=> (k >= first /\ col < c)
      /\ InRange(r) <=> k >= first
  BY <1>2, <1>3, <1>4, TokenStored
<1>6. RowOf(l + 1) = k + 1
  <2>1. 1 \in Nat /\ 1 > 0 /\ 0 \in Nat
    OBVIOUS
  <2>2. Position(l, 1, 0)
    BY <1>3, <2>1, PositionIs
  <2> QED
    BY <1>1, <1>2, <2>2 DEF Position
<1>7. /\ Got(l, c + 1, q) = IF k < first THEN 0 ELSE k - first + IF col < (c + 1) - 1 THEN 1 ELSE 0
      /\ Got(l + 1, 1, q) = IF k + 1 < first THEN 0 ELSE k + 1 - first
  <2>1. Got(l, c + 1, q) = IF k < first THEN 0 ELSE k - first + IF col < (c + 1) - 1 THEN 1 ELSE 0
    BY <1>2, <1>4 DEF Got
  <2>2. PICK m \in Nat : m = l + 1 /\ RowOf(m) = k + 1
    BY <1>3, <1>6
  <2>3. ~(col < 1 - 1)
    BY <1>4
  <2>4. Got(m, 1, q) = IF k + 1 < first THEN 0 ELSE k + 1 - first
    <3>1. PICK j \in Nat : j = k + 1
      OBVIOUS
    <3>2. Got(m, 1, q) = IF j < first THEN 0 ELSE j - first + IF col < 1 - 1 THEN 1 ELSE 0
      BY <1>4, <2>2, <3>1 DEF Got
    <3>3. Got(m, 1, q) = IF j < first THEN 0 ELSE j - first + 0
      BY <2>3, <3>2, Zenon
    <3> QED
      BY <3>1, <3>3
  <2> QED
    BY <2>1, <2>2, <2>4
<1>8. Missing(r) <=> k >= first /\ ~(col < c)
  BY <1>5 DEF Missing
<1>9. CASE Missing(r)
  <2>1. PICK d \in Nat : d + first = k /\ Got(l, c + 1, q) = d /\ Got(l + 1, 1, q) = d + 1
    <3>1. /\ k - first \in Nat /\ (k - first) + first = k /\ Got(l, c + 1, q) = k - first
          /\ Got(l + 1, 1, q) = (k - first) + 1
      BY <1>3, <1>7, <1>8, <1>9
    <3> QED
      BY <3>1
  <2>2. PICK s \in Seq(Char) : s = <<>>
    BY EmptySeq
  <2>3. s = CellText(Rows, first + d, col)
    <3>1. first + d = k /\ ~(col < Len(Rows[k + 1]))
      BY <1>2, <1>8, <1>9, <2>1
    <3> QED
      BY <2>2, <3>1 DEF CellText
  <2>4. PICK tokens, more : tokens = TokensWith(r, u) /\ more = Append(tokens, s) /\ Slice(tokens, d, q)
    BY <1>5, <2>1
  <2>5. Slice(more, d + 1, q)
    BY <1>4, <2>2, <2>3, <2>4, SliceGrows
  <2>6. TokensEnded(r, u) = more
    BY <1>9, <2>2, <2>4 DEF TokensEnded
  <2> QED
    BY <2>1, <2>5, <2>6
<1>10. CASE ~Missing(r)
  <2>1. Got(l + 1, 1, q) = Got(l, c + 1, q)
    <3>1. CASE k < first
      <4>1. Got(l + 1, 1, q) = 0
        BY <1>4, <1>7, <3>1
      <4> QED
        BY <1>7, <3>1, <4>1
    <3>2. CASE ~(k < first)
      <4>1. col < c
        BY <1>4, <1>8, <1>10, <3>2
      <4>2. Got(l, c + 1, q) = k - first + 1
        BY <1>3, <1>7, <3>2, <4>1
      <4>3. Got(l + 1, 1, q) = k + 1 - first
        BY <1>4, <1>7, <3>2
      <4> QED
        BY <1>4, <4>2, <4>3
    <3> QED
      BY <3>1, <3>2
  <2>2. TokensEnded(r, u) = TokensWith(r, u)
    BY <1>10 DEF TokensEnded
  <2> QED
    BY <1>5, <2>1, <2>2
<1> QED
  BY <1>9, <1>10

-----------------------------------------------------------------------------
(* The pass from a cell to the next one,                                     *)

(* The next cell of a line,                                                  *)
LEMMA ReadNextCell ==
  ASSUME input \in Inputs, NEW q, Wanted(q), NEW l \in 1..Len(input.lines), NEW c \in 1..Len(input.lines[l]),
         NEW r, ReadAt(r, l, c, q), NEW u, Ended(u, r.tk, input.lines[l][c], Comma, PassingBy(r)),
         NEW v, TokenRead(v, r, u)
  PROVE  ReadAt(v, l, c + 1, q)
<1>1. u.result = "OK" /\ Fresh(u)
  BY OutcomeIs DEF Ended, Fresh
<1>2. c \in Nat /\ c > 0 /\ (c + 1) - 1 = c
  BY LineIs
<1>3. /\ ReadRecord(v) /\ v.tk = u /\ v.target = r.target /\ v.first = r.first /\ v.last = r.last /\ v.bad = r.bad
      /\ v.row = r.row /\ v.column = r.column + 1 /\ v.done = r.done /\ v.tokens = TokensWith(r, u)
      /\ IF Mine(r) THEN v.found = TRUE ELSE v.found = r.found
  BY <1>1 DEF TokenRead
<1>4. /\ Slice(TokensWith(r, u), Got(l, c + 1, q), q)
      /\ (Mine(r) \/ r.found) <=> (RowOf(l) >= q.first /\ q.column < c)
  BY TokenStored
<1>5. v.found \in BOOLEAN /\ (v.found <=> Mine(r) \/ r.found)
  BY <1>3 DEF ReadAt
<1>6. v.column = (c + 1) - 1
  <2>1. r.column = c - 1
    BY DEF ReadAt
  <2> QED
    BY <1>2, <1>3, <2>1
<1> QED
  BY <1>1, <1>2, <1>3, <1>4, <1>5, <1>6 DEF ReadAt

(* the first of the next line, if it is still one that was asked for,        *)
LEMMA ReadNextLine ==
  ASSUME input \in Inputs, NEW q, Wanted(q), NEW l \in 1..Len(input.lines), NEW c, c = Len(input.lines[l]),
         NEW r, ReadAt(r, l, c, q), NEW u, Ended(u, r.tk, input.lines[l][c], NewLine, PassingBy(r)),
         NEW v, TokenRead(v, r, u)
  PROVE  ReadAt(v, l + 1, 1, q) \/ ReadDone(v, q)
<1>1. u.result = "END_OF_ROW" /\ Fresh(u)
  BY OutcomeIs DEF Ended, Fresh
<1>2. c \in Nat /\ c > 0 /\ l \in Nat /\ l > 0
  BY LineIs
<1>3. l > HeaderLines
  BY DEF ReadAt
<1>4. PICK k \in Nat : k = RowOf(l) /\ k + 1 \in 1..Len(Rows) /\ RowOf(l + 1) = k + 1
  <2>1. PICK k \in Nat : k = RowOf(l) /\ k + 1 \in 1..Len(Rows)
    BY <1>3, RowCell
  <2>2. 1 \in Nat /\ 1 > 0 /\ 0 \in Nat
    OBVIOUS
  <2>3. Position(l, 1, 0)
    BY <1>2, <2>2, PositionIs
  <2> QED
    BY <1>3, <2>1, <2>3 DEF Position
<1>5. PICK col \in Nat, first \in Nat, end \in Nat :
        col = q.column /\ first = q.first /\ end = q.end /\ first < end
  BY DEF Wanted
<1>6. /\ ReadRecord(v) /\ v.tk = u /\ v.target = r.target /\ v.first = r.first /\ v.last = r.last /\ v.bad = r.bad
      /\ v.column = 0 /\ v.tokens = TokensEnded(r, u) /\ v.found = FALSE
      /\ IF Ending(r, u) THEN v.done = TRUE ELSE v.done = r.done /\ v.row = r.row + 1
  BY <1>1 DEF TokenRead
<1>7. Slice(v.tokens, Got(l + 1, 1, q), q)
  BY <1>6, RowStored
<1>8. r.row = k /\ k <= end /\ r.last = end /\ r.target = col /\ r.first = first /\ r.done = FALSE /\ r.bad = FALSE
  BY <1>4, <1>5 DEF ReadAt
<1>9. Ending(r, u) <=> k = end
  BY <1>1, <1>5, <1>8 DEF Ending
<1>10. CASE k = end
  <2>1. PICK n \in Nat : n = end - first + 1 /\ Got(l + 1, 1, q) = n
    <3>1. PICK m, j \in Nat : m = l + 1 /\ j = k + 1 /\ RowOf(m) = j
      BY <1>4
    <3>2. Got(m, 1, q) = IF j < first THEN 0 ELSE j - first + IF col < 1 - 1 THEN 1 ELSE 0
      BY <1>5, <3>1 DEF Got
    <3>3. ~(col < 1 - 1) /\ ~(j < first)
      BY <1>5, <1>10, <3>1
    <3>4. Got(m, 1, q) = j - first + 0
      BY <3>2, <3>3, Zenon
    <3>5. j - first + 0 = end - first + 1 /\ end - first + 1 \in Nat
      <4>1. j = end + 1
        BY <1>10, <3>1
      <4>2. first \in Nat /\ end \in Nat /\ first < end
        BY <1>5
      <4> QED
        BY <4>1, <4>2
    <3> QED
      BY <3>1, <3>4, <3>5
  <2>2. /\ v.tokens \in Seq(Seq(Char)) /\ Len(v.tokens) = n
        /\ \A i \in 1..n : v.tokens[i] = CellText(Rows, q.first + i - 1, q.column)
    BY <1>7, <2>1 DEF Slice
  <2>3. \A i \in 1..(end - first) : i \in 1..n
    BY <1>5, <2>1
  <2>4. v.done = TRUE /\ v.bad = FALSE
    BY <1>6, <1>8, <1>9, <1>10
  <2> QED
    BY <1>5, <2>1, <2>2, <2>3, <2>4 DEF ReadDone
<1>11. CASE k # end
  <2>1. v.done = FALSE /\ v.bad = FALSE /\ v.row = k + 1 /\ k + 1 <= end
    BY <1>4, <1>5, <1>6, <1>8, <1>9, <1>11
  <2>2. l + 1 > HeaderLines
    <3>1. HeaderLines \in {0, 1}
      BY InputIs
    <3> QED
      BY <1>2, <1>3, <3>1
  <2>3. ~(q.column < 1 - 1) /\ v.column = 1 - 1
    BY <1>5, <1>6
  <2> QED
    BY <1>1, <1>4, <1>5, <1>6, <1>7, <1>8, <2>1, <2>2, <2>3 DEF ReadAt
<1> QED
  BY <1>10, <1>11

(* the end of the file after the last cell,                                  *)
LEMMA ReadEnds ==
  ASSUME input \in Inputs, NEW q, Wanted(q), NEW l, l = Len(input.lines), NEW c, c = Len(input.lines[l]),
         NEW r, ReadAt(r, l, c, q), NEW u, Ended(u, r.tk, input.lines[l][c], EndOfFile, PassingBy(r)),
         u.result = "END_OF_FILE", NEW v, TokenRead(v, r, u)
  PROVE  ReadDone(v, q)
<1>1. l \in 1..Len(input.lines) /\ RowOf(l + 1) = Len(Rows)
  <2>1. 1 \in Nat /\ 1 > 0 /\ 0 \in Nat
    OBVIOUS
  <2> QED
    BY <2>1, LastLine
<1>2. PICK N \in Nat : N = Len(Rows)
  BY RowsAre
<1>3. PICK col \in Nat, first \in Nat, end \in Nat :
        col = q.column /\ first = q.first /\ end = q.end /\ first < end /\ end <= N
  BY <1>2 DEF Wanted
<1>4. v.done = TRUE /\ v.bad = FALSE /\ v.tokens = TokensEnded(r, u)
  <2>1. Ending(r, u) /\ r.bad = FALSE
    BY DEF Ending, ReadAt
  <2> QED
    BY <2>1 DEF TokenRead
<1>5. Slice(v.tokens, Got(l + 1, 1, q), q)
  BY <1>1, <1>4, RowStored
<1>6. PICK n \in Nat : n = N - first /\ Got(l + 1, 1, q) = n
  <2>1. PICK m : m = l + 1 /\ RowOf(m) = N
    BY <1>1, <1>2
  <2>2. Got(m, 1, q) = IF N < first THEN 0 ELSE N - first + IF col < 1 - 1 THEN 1 ELSE 0
    BY <1>3, <2>1 DEF Got
  <2>3. ~(col < 1 - 1) /\ ~(N < first)
    BY <1>3
  <2>4. Got(m, 1, q) = N - first + 0
    BY <2>2, <2>3, Zenon
  <2>5. N - first + 0 = N - first /\ N - first \in Nat
    BY <1>3
  <2> QED
    BY <2>1, <2>4, <2>5
<1>7. N <= end + 1
  <2>1. ~(l <= HeaderLines)
    <3>1. HeaderLines \in {0, 1} /\ l > HeaderLines /\ l \in Nat
      BY <1>1, InputIs, LineIs DEF ReadAt
    <3> QED
      BY <3>1
  <2>2. RowOf(l) + 1 = N
    <3>1. 1 \in Nat /\ 1 > 0 /\ 0 \in Nat
      OBVIOUS
    <3> QED
      BY <1>2, <2>1, <3>1, LastLine
  <2>3. RowOf(l) <= end
    BY <1>3 DEF ReadAt
  <2>4. RowOf(l) \in Nat
    <3>1. l > HeaderLines
      BY DEF ReadAt
    <3> QED
      BY <1>1, <3>1, RowCell
  <2> QED
    BY <1>3, <2>2, <2>3, <2>4
<1>8. n \in {end - first, end - first + 1} /\ \A i \in 1..(end - first) : i \in 1..n
  <2>1. first < end /\ end <= N /\ N <= end + 1
    BY <1>3, <1>7
  <2>2. n = N - first
    BY <1>6
  <2>3. n = end - first \/ n = end - first + 1
    BY <2>1, <2>2
  <2>4. end - first <= n
    BY <2>1, <2>2
  <2> QED
    BY <2>3, <2>4
<1>9. /\ v.tokens \in Seq(Seq(Char)) /\ Len(v.tokens) = n
      /\ \A i \in 1..n : v.tokens[i] = CellText(Rows, q.first + i - 1, q.column)
  BY <1>5, <1>6 DEF Slice
<1> QED
  BY <1>3, <1>4, <1>8, <1>9 DEF ReadDone

(* and the end of the file after the end of the last line.                   *)
LEMMA ReadNothing ==
  ASSUME input \in Inputs, NEW q, Wanted(q), NEW l, l = Len(input.lines) + 1,
         NEW r, ReadAt(r, l, 1, q), NEW u, Ended(u, r.tk, Nothing, EndOfFile, PassingBy(r)),
         NEW v, TokenRead(v, r, u)
  PROVE  ReadDone(v, q)
<1>1. PICK N \in Nat : N = Len(Rows) /\ RowOf(l) = N
  <2>1. PICK L : L = Len(input.lines)
    OBVIOUS
  <2>2. 1 \in Nat /\ 1 > 0 /\ 0 \in Nat
    OBVIOUS
  <2>3. RowOf(L + 1) = Len(Rows)
    BY <2>1, <2>2, LastLine
  <2> QED
    BY <2>1, <2>3, RowsAre
<1>2. PICK col \in Nat, first \in Nat, end \in Nat :
        col = q.column /\ first = q.first /\ end = q.end /\ first < end /\ end <= N
  BY <1>1 DEF Wanted
<1>3. /\ r.row = N /\ r.column = 1 - 1 /\ r.target = col /\ r.first = first /\ r.last = end /\ N <= end
      /\ r.bad = FALSE /\ r.found \in BOOLEAN /\ (r.found <=> N >= first /\ col < 1 - 1)
      /\ Slice(r.tokens, Got(l, 1, q), q)
  BY <1>1, <1>2 DEF ReadAt
<1>4. N = end /\ ~r.found /\ InRange(r) /\ r.column = 0
  BY <1>2, <1>3 DEF InRange
<1>5. u.result = "END_OF_FILE"
  BY NothingIs, OutcomeIs DEF Ended
<1>6. v.done = TRUE /\ v.bad = FALSE /\ v.tokens = TokensEnded(r, u)
  BY <1>3, <1>5 DEF TokenRead, Ending
<1>7. PICK n \in Nat : n = end - first /\ Got(l, 1, q) = n
  <2>1. Got(l, 1, q) = IF N < first THEN 0 ELSE N - first + IF col < 1 - 1 THEN 1 ELSE 0
    BY <1>1, <1>2 DEF Got
  <2>2. ~(col < 1 - 1) /\ ~(N < first)
    BY <1>2
  <2>3. Got(l, 1, q) = N - first + 0
    BY <2>1, <2>2, Zenon
  <2>4. N - first + 0 = end - first /\ end - first \in Nat
    BY <1>2, <1>4
  <2> QED
    BY <2>3, <2>4
<1>8. PICK tokens, nil : tokens = r.tokens /\ nil = <<>> /\ nil \in Seq(Char)
  BY EmptySeq
<1>9. v.tokens = Append(tokens, nil)
  <2>1. CASE Mine(r)
    <3>1. u.token.text = nil
      <4>1. ~PassingBy(r)
        BY <2>1 DEF Mine, PassingBy
      <4> QED
        BY <1>8, <4>1, NothingIs DEF Ended
    <3>2. ~Missing(r)
      BY <2>1 DEF Missing
    <3> QED
      BY <1>6, <1>8, <2>1, <3>1, <3>2 DEF TokensEnded, TokensWith
  <2>2. CASE ~Mine(r)
    <3>1. Missing(r)
      BY <1>4, <2>2 DEF Missing
    <3> QED
      BY <1>6, <1>8, <2>2, <3>1 DEF TokensEnded, TokensWith
  <2> QED
    BY <2>1, <2>2
<1>10. /\ tokens \in Seq(Seq(Char)) /\ Len(tokens) = n
       /\ \A i \in 1..n : tokens[i] = CellText(Rows, q.first + i - 1, q.column)
  BY <1>3, <1>7, <1>8 DEF Slice
<1>11. /\ v.tokens \in Seq(Seq(Char)) /\ Len(v.tokens) = n + 1
       /\ \A i \in 1..n : v.tokens[i] = tokens[i]
  <2>1. PICK T : T = Seq(Char) /\ tokens \in Seq(T) /\ nil \in T
    BY <1>8, <1>10
  <2> QED
    BY <1>9, <1>10, <2>1, AppendProperties
<1> QED
  BY <1>2, <1>6, <1>7, <1>10, <1>11 DEF ReadDone

(* A reading pass over a file,                                               *)
ReadPass(z, text, from) ==
    text = FileText(input.lines, input.eol) /\ from \in Nat /\ TurnsFrom(z, text, from)

(* which does nothing once it is over,                                       *)
LEMMA ReadStops ==
  ASSUME input \in Inputs, NEW z, NEW text, NEW from, ReadPass(z, text, from), NEW q,
         NEW j \in Nat, from <= j, j <= Len(text), ReadDone(z[j], q)
  PROVE  ReadDone(z[Len(text)], q)
<1>1. PICK N \in Nat : N = Len(text)
  BY PassText DEF ReadPass
<1> DEFINE S == {k \in Nat : j + k <= N => z[j + k] = z[j]}
<1>2. 0 \in S
  <2>1. j + 0 = j
    OBVIOUS
  <2> QED
    BY <2>1
<1>3. ASSUME NEW k \in Nat, k \in S PROVE k + 1 \in S
  <2> SUFFICES ASSUME j + (k + 1) <= N PROVE z[j + (k + 1)] = z[j]
    OBVIOUS
  <2>1. j + k <= N /\ (j + (k + 1)) - 1 = j + k /\ from \in Nat /\ j + (k + 1) \in (from + 1)..N
    BY DEF ReadPass
  <2>2. z[j + k] = z[j]
    BY <1>3, <2>1
  <2>3. PICK c : z[j + (k + 1)] = ReadTurn(z[j + k], c)
    BY <1>1, <2>1 DEF ReadPass, TurnsFrom
  <2>4. PICK r : r = z[j] /\ r.done = TRUE
    BY DEF ReadDone
  <2>5. ReadTurn(r, c) = r
    BY <2>4 DEF ReadTurn
  <2> QED
    BY <2>2, <2>3, <2>4, <2>5
<1>4. PICK d \in Nat : j + d = N
  <2>1. N - j \in Nat /\ j + (N - j) = N
    BY <1>1
  <2> QED
    BY <2>1
<1>5. d \in S
  <2> HIDE DEF S
  <2> QED
    BY <1>2, <1>3, SetInduction
<1>6. z[N] = z[j]
  BY <1>4, <1>5
<1> QED
  BY <1>1, <1>6

(* and goes from cell to cell until then.                                    *)
ReadHere(z, from, l, c, q) ==
    from <= CellAt(input.lines, l, c) /\ ReadAt(z[CellAt(input.lines, l, c)], l, c, q)

(* A reading before a cell gets before the next one or is over,              *)
LEMMA ReadGoes ==
  ASSUME input \in Inputs, ~QuotedEnd, NEW z, NEW text, NEW from, ReadPass(z, text, from), NEW q, Wanted(q),
         NEW l \in 1..Len(input.lines), NEW c \in 1..Len(input.lines[l]), ReadHere(z, from, l, c, q)
  PROVE  \/ ReadDone(z[Len(text)], q)
         \/ c # Len(input.lines[l]) /\ ReadHere(z, from, l, c + 1, q)
         \/ c = Len(input.lines[l]) /\ l # Len(input.lines) /\ ReadHere(z, from, l + 1, 1, q)
         \/ /\ c = Len(input.lines[l]) /\ l = Len(input.lines) /\ input.eol
            /\ from <= Len(text) - 1 /\ ReadAt(z[Len(text) - 1], l + 1, 1, q)
<1>1. PICK p, n, cell, ch, lines, eol :
        /\ p = CellAt(input.lines, l, c) /\ cell = input.lines[l][c] /\ n = Len(Raw(cell))
        /\ lines = input.lines /\ eol = input.eol /\ ch = Delimiter(lines, eol, l, c)
  OBVIOUS
<1>2. lines \in Lines /\ eol \in BOOLEAN /\ text = FileText(lines, eol) /\ cell \in Cells
  BY <1>1, InputIs, LineIs DEF ReadPass
<1>3. Placed(text, lines, eol, l, c)
  BY <1>1, <1>2, Layout
<1>4. /\ p \in Nat /\ n \in Nat /\ p + n + 1 <= Len(text) /\ Appears(Raw(cell), text, p)
      /\ text[p + n + 1] = ch
      /\ c # Len(lines[l]) => CellAt(lines, l, c + 1) = p + n + 1
      /\ c = Len(lines[l]) /\ l # Len(lines) => CellAt(lines, l + 1, 1) = p + n + 1
      /\ c = Len(lines[l]) /\ l = Len(lines) => p + n + 1 = Len(text) - IF eol THEN 1 ELSE 0
  BY <1>1, <1>3 DEF Placed
<1>5. PICK r : r = z[p] /\ ReadAt(r, l, c, q) /\ from <= p
  BY <1>1 DEF ReadHere
<1>6. Reading(r)
  BY <1>5 DEF ReadAt, Reading
<1>7. ch \in {Comma, NewLine, EndOfFile}
  BY <1>1 DEF Delimiter
<1>8. TurnsFrom(z, text, from) /\ Len(text) \in Nat /\ from \in Nat
  BY PassText DEF ReadPass
<1>18. ch = EndOfFile => c = Len(lines[l]) /\ l = Len(lines) /\ ~eol
  BY <1>1, OutcomeIs DEF Delimiter
<1>19. Lexes(cell, ch) /\ (ch = EndOfFile => Outcome(cell, ch) = "END_OF_FILE")
  <2>1. CASE ch = EndOfFile
    <3>1. cell = Last(Last(input.lines))
      BY <1>1, <1>18, <2>1 DEF Last
    <3>2. ~(cell.quoted /\ cell.after = <<>>)
      BY <1>1, <1>18, <2>1, <3>1 DEF QuotedEnd
    <3>3. Outcome(cell, EndOfFile) = "END_OF_FILE"
      BY <3>2, OutcomeIs
    <3> QED
      BY <2>1, <3>3 DEF Lexes
  <2>2. CASE ch # EndOfFile
    BY <1>7, <2>2 DEF Outcome, Lexes
  <2> QED
    BY <2>1, <2>2
<1>9. PICK u : Ended(u, r.tk, cell, ch, PassingBy(r)) /\ TokenRead(z[p + n + 1], r, u)
  <2>1. PICK at : at = p + n + 1
    OBVIOUS
  <2>2. Lies(text, cell, p, ch, at)
    BY <1>1, <1>4, <2>1 DEF Lies
  <2>3. \E u : Ended(u, r.tk, cell, ch, PassingBy(r)) /\ TokenRead(z[at], r, u)
    BY <1>2, <1>5, <1>6, <1>7, <1>8, <1>19, <2>2, ReadCell
  <2> QED
    BY <2>1, <2>3
<1>10. PICK at, v : at = p + n + 1 /\ v = z[at] /\ TokenRead(v, r, u)
  BY <1>9
<1>11. at \in Nat /\ at <= Len(text) /\ from <= at
  BY <1>4, <1>5, <1>8, <1>10
<1>12. ReadDone(v, q) => ReadDone(z[Len(text)], q)
  BY <1>10, <1>11, ReadStops
<1>15. CASE c # Len(lines[l])
  <2>1. ch = Comma
    BY <1>1, <1>15 DEF Delimiter
  <2>2. Ended(u, r.tk, input.lines[l][c], Comma, PassingBy(r))
    BY <1>1, <1>9, <2>1
  <2>3. ReadAt(v, l, c + 1, q)
    BY <1>5, <1>10, <2>2, ReadNextCell
  <2>4. CellAt(input.lines, l, c + 1) = at
    BY <1>1, <1>4, <1>10, <1>15
  <2> QED
    BY <1>1, <1>10, <1>11, <1>15, <2>3, <2>4 DEF ReadHere
<1>16. CASE c = Len(lines[l]) /\ (l # Len(lines) \/ eol)
  <2>1. ch = NewLine
    BY <1>1, <1>16 DEF Delimiter
  <2>2. Ended(u, r.tk, input.lines[l][c], NewLine, PassingBy(r))
    BY <1>1, <1>9, <2>1
  <2>3. ReadAt(v, l + 1, 1, q) \/ ReadDone(v, q)
    <3>1. c = Len(input.lines[l])
      BY <1>1, <1>16
    <3> QED
      BY <1>5, <1>10, <2>2, <3>1, ReadNextLine
  <2>4. l # Len(lines) => CellAt(input.lines, l + 1, 1) = at
    BY <1>1, <1>4, <1>10, <1>16
  <2>5. l = Len(lines) => at = Len(text) - 1 /\ eol
    BY <1>4, <1>10, <1>16
  <2> QED
    BY <1>1, <1>10, <1>11, <1>12, <1>16, <2>3, <2>4, <2>5 DEF ReadHere
<1>17. CASE c = Len(lines[l]) /\ l = Len(lines) /\ ~eol
  <2>1. ch = EndOfFile
    BY <1>1, <1>17 DEF Delimiter
  <2>2. Ended(u, r.tk, input.lines[l][c], EndOfFile, PassingBy(r)) /\ u.result = "END_OF_FILE"
    BY <1>1, <1>9, <1>19, <2>1 DEF Ended
  <2>3. ReadDone(v, q)
    <3>1. c = Len(input.lines[l]) /\ l = Len(input.lines)
      BY <1>1, <1>17
    <3> QED
      BY <1>5, <1>10, <2>2, <3>1, ReadEnds
  <2> QED
    BY <1>12, <2>3
<1> QED
  BY <1>15, <1>16, <1>17

(* and is over at the end of the file.                                       *)
LEMMA ReadGoesNothing ==
  ASSUME input \in Inputs, NEW z, NEW text, NEW from, ReadPass(z, text, from), NEW q, Wanted(q),
         from <= Len(text) - 1, ReadAt(z[Len(text) - 1], Len(input.lines) + 1, 1, q)
  PROVE  ReadDone(z[Len(text)], q)
<1>1. PICK p \in Nat, f \in Nat, ch \in {Comma, NewLine, EndOfFile} :
        p = Len(text) - 1 /\ f = from /\ ch = EndOfFile /\ p + 0 + 1 = Len(text)
  <2>1. Len(text) \in Nat /\ Len(text) > 0 /\ from \in Nat
    BY PassText DEF ReadPass
  <2>2. Len(text) - 1 \in Nat /\ (Len(text) - 1) + 0 + 1 = Len(text)
    BY <2>1
  <2> QED
    BY <2>1, <2>2
<1>2. PICK l : l = Len(input.lines) + 1
  OBVIOUS
<1>3. PICK r : r = z[p] /\ ReadAt(r, l, 1, q)
  BY <1>1, <1>2
<1>4. Reading(r)
  BY <1>3 DEF ReadAt, Reading
<1>5. PICK cell \in Cells : cell = Nothing /\ Raw(cell) = <<>>
  BY NothingIs
<1>6. PICK at : at = Len(text) /\ Lies(text, cell, p, ch, at)
  <2>1. Len(Raw(cell)) = 0
    BY <1>5, EmptySeq
  <2>2. Len(text) \in Nat /\ text[Len(text)] = EndOfFile
    BY PassText DEF ReadPass
  <2>3. Appears(Raw(cell), text, p)
    BY <1>1, <2>1, <2>2 DEF Appears
  <2> QED
    BY <1>1, <2>1, <2>2, <2>3 DEF Lies
<1>7. TurnsFrom(z, text, f) /\ Len(text) \in Nat /\ f <= p
  BY <1>1, PassText DEF ReadPass
<1>8. Lexes(cell, ch)
  BY <1>1, <1>5, NothingIs, OutcomeIs DEF Lexes
<1>9. PICK u : Ended(u, r.tk, cell, ch, PassingBy(r)) /\ TokenRead(z[at], r, u)
  BY <1>3, <1>4, <1>6, <1>7, <1>8, ReadCell
<1>10. PICK v : v = z[Len(text)] /\ TokenRead(v, r, u)
  BY <1>6, <1>9
<1>11. Ended(u, r.tk, Nothing, EndOfFile, PassingBy(r))
  BY <1>1, <1>5, <1>9
<1> QED
  BY <1>2, <1>3, <1>10, <1>11, ReadNothing

-----------------------------------------------------------------------------
(* and from a recorded offset to the last row asked for.                     *)

(* A pass that is at the start of a line gets to the next one or is over.    *)
LEMMA ReadLine ==
  ASSUME input \in Inputs, ~QuotedEnd, NEW z, NEW text, NEW from, ReadPass(z, text, from), NEW q, Wanted(q),
         NEW l \in 1..Len(input.lines), ReadHere(z, from, l, 1, q)
  PROVE  \/ ReadDone(z[Len(text)], q)
         \/ l # Len(input.lines) /\ ReadHere(z, from, l + 1, 1, q)
<1>1. PICK n \in Nat : n = Len(input.lines[l]) /\ n > 0
  BY LineIs
<1>2. PICK fin \in BOOLEAN : fin = ReadDone(z[Len(text)], q)
  BY DEF ReadDone
<1> DEFINE S == {d \in Nat : d + 1 <= n => fin \/ ReadHere(z, from, l, d + 1, q)}
<1>3. 0 \in S
  <2>1. 0 + 1 = 1
    OBVIOUS
  <2> QED
    BY <2>1
<1>4. ASSUME NEW d \in Nat, d \in S PROVE d + 1 \in S
  <2> SUFFICES ASSUME (d + 1) + 1 <= n, ~fin PROVE ReadHere(z, from, l, (d + 1) + 1, q)
    OBVIOUS
  <2>1. PICK c \in 1..Len(input.lines[l]) : c = d + 1 /\ c # Len(input.lines[l])
    BY <1>1
  <2>2. ReadHere(z, from, l, c, q)
    BY <1>1, <1>4, <2>1
  <2>3. ReadHere(z, from, l, c + 1, q)
    BY <1>2, <2>1, <2>2, ReadGoes
  <2> QED
    BY <2>1, <2>3
<1>5. PICK d \in Nat : d + 1 = n
  <2>1. n - 1 \in Nat /\ (n - 1) + 1 = n
    BY <1>1
  <2> QED
    BY <2>1
<1>6. d \in S
  <2> HIDE DEF S
  <2> QED
    BY <1>3, <1>4, SetInduction
<1>7. fin \/ ReadHere(z, from, l, n, q)
  BY <1>5, <1>6
<1>8. CASE ReadHere(z, from, l, n, q)
  <2>1. PICK c \in 1..Len(input.lines[l]) : c = n /\ c = Len(input.lines[l])
    BY <1>1
  <2>2. \/ fin
        \/ l # Len(input.lines) /\ ReadHere(z, from, l + 1, 1, q)
        \/ /\ l = Len(input.lines) /\ input.eol
           /\ from <= Len(text) - 1 /\ ReadAt(z[Len(text) - 1], l + 1, 1, q)
    BY <1>2, <1>8, <2>1, ReadGoes
  <2> QED
    BY <1>2, <2>2, ReadGoesNothing
<1> QED
  BY <1>2, <1>7, <1>8

(* A reading before a line gets to its end.                                  *)
LEMMA ReadLines ==
  ASSUME input \in Inputs, ~QuotedEnd, NEW z, NEW text, NEW from, ReadPass(z, text, from), NEW q, Wanted(q),
         NEW l \in 1..Len(input.lines), ReadHere(z, from, l, 1, q)
  PROVE  ReadDone(z[Len(text)], q)
<1>1. PICK n \in Nat : n = Len(input.lines) /\ l \in 1..n
  BY LineIs
<1>2. PICK fin \in BOOLEAN : fin = ReadDone(z[Len(text)], q)
  BY DEF ReadDone
<1> DEFINE S == {d \in Nat : l + d <= n => fin \/ ReadHere(z, from, l + d, 1, q)}
<1>3. 0 \in S
  <2>1. l + 0 = l
    BY <1>1
  <2> QED
    BY <2>1
<1>4. ASSUME NEW d \in Nat, d \in S PROVE d + 1 \in S
  <2> SUFFICES ASSUME l + (d + 1) <= n, ~fin PROVE ReadHere(z, from, l + (d + 1), 1, q)
    OBVIOUS
  <2>1. PICK k \in 1..Len(input.lines) : k = l + d /\ k # Len(input.lines) /\ l + (d + 1) = k + 1
    BY <1>1
  <2>2. ReadHere(z, from, k, 1, q)
    BY <1>1, <1>4, <2>1
  <2>3. ReadHere(z, from, k + 1, 1, q)
    BY <1>2, <2>1, <2>2, ReadLine
  <2> QED
    BY <2>1, <2>3
<1>5. PICK d \in Nat : l + d = n
  <2>1. n - l \in Nat /\ l + (n - l) = n
    BY <1>1
  <2> QED
    BY <2>1
<1>6. d \in S
  <2> HIDE DEF S
  <2> QED
    BY <1>3, <1>4, SetInduction
<1>7. PICK k \in 1..Len(input.lines) : k = Len(input.lines) /\ k = n
  BY <1>1
<1>8. fin \/ ReadHere(z, from, k, 1, q)
  BY <1>5, <1>6, <1>7
<1> QED
  BY <1>2, <1>7, <1>8, ReadLine

(* The recorded row at or before a row, its line, and where that starts.     *)
EntryRow(q) == (q.first \div input.interval) * input.interval

Enters(results, q, l, from) ==
    /\ l \in 1..Len(input.lines) /\ l > HeaderLines /\ RowOf(l) = EntryRow(q) /\ EntryRow(q) <= q.first
    /\ from \in Nat /\ from = CellAt(input.lines, l, 1)
    /\ Entry(results, q.first) = [offset |-> from, row |-> RowOf(l)]

(* The recorded offset is where that line starts.                            *)
LEMMA EntryIs ==
  ASSUME input \in Inputs, NEW results, Results(results), NEW q, Wanted(q), Reliable(EntryRow(q))
  PROVE  \E l, from : Enters(results, q, l, from)
<1>16. PICK i \in Nat \ {0} : i = input.interval
  BY InputIs
<1>1. PICK h \in {0, 1}, N \in Nat : i = input.interval /\ h = HeaderLines /\ N = Len(Rows)
  BY <1>16, InputIs, RowsAre
<1>2. PICK first \in Nat : first = q.first /\ first < N
  <2>1. q.first \in Nat /\ q.end \in Nat /\ q.first < q.end /\ q.end <= N
    BY <1>1 DEF Wanted
  <2> QED
    BY <1>1, <2>1
<1>3. PICK d \in Nat, e \in Nat : d = first \div i /\ e = d * i /\ e <= first
  <2>1. first \div i \in Nat /\ first % i \in Nat /\ first = (first \div i) * i + (first % i)
    BY Quotient
  <2>2. PICK d \in Nat : d = first \div i
    BY <2>1
  <2>3. PICK e \in Nat : e = d * i
    BY SMT
  <2>4. e <= first
    BY <2>1, <2>2, <2>3
  <2> QED
    BY <2>2, <2>3, <2>4
<1>4. EntryRow(q) = e /\ Reliable(e)
  BY <1>1, <1>2, <1>3 DEF EntryRow
<1>15. PICK offsets : offsets = results.offsets
  OBVIOUS
<1>5. PICK begun \in Nat : offsets = results.offsets /\ OffsetsOk(offsets, begun) /\ N <= begun
  <2>1. PICK begun \in Nat : begun = Len(Rows) + (IF input.eol THEN 1 ELSE 0) /\ N <= begun
    BY <1>1
  <2> QED
    BY <1>15, <2>1 DEF Results
<1>6. PICK m \in Nat : m = Len(offsets) /\ begun <= m * i /\ offsets \in Seq(Nat)
  BY <1>1, <1>5 DEF OffsetsOk, Within
<1>7. d < m
  <2>1. PICK w \in Nat : w = m * i
    BY SMT
  <2>2. e < w
    BY <1>2, <1>3, <1>5, <1>6, <2>1
  <2>3. d * i < m * i
    BY <1>3, <2>1, <2>2
  <2> QED
    BY <2>3, TimesLess
<1>8. PICK k \in 1..m : k = d + 1 /\ k - 1 = d
  BY <1>7
<1>9. PICK from \in Nat : from = offsets[k]
  BY <1>6, <1>8, ElementOfSeq
<1>10. Exact(e, from)
  <2>1. Exact((k - 1) * input.interval, offsets[k])
    BY <1>5, <1>6, <1>8 DEF OffsetsOk
  <2> QED
    BY <1>1, <1>3, <1>8, <1>9, <2>1
<1>11. PICK l \in 1..Len(input.lines) : l = e + 1 + h /\ l > HeaderLines /\ l = LineOfRow(e) /\ RowOf(l) = e
  <2>1. Len(input.lines) = N + h
    BY <1>1, RowsAre
  <2>2. PICK l \in 1..Len(input.lines) : l = e + 1 + h
    <3>1. e + 1 + h \in Nat /\ e + 1 + h >= 1 /\ e + 1 + h <= N + h
      BY <1>2, <1>3
    <3> QED
      BY <2>1, <3>1
  <2>3. LineOfRow(e) = e + 1 + h
    BY <1>1 DEF LineOfRow, HeaderLines
  <2>4. ~(l <= h) /\ l - 1 - h = e /\ l > h
    BY <2>2
  <2>5. RowOf(l) = e
    BY <1>1, <2>4 DEF RowOf
  <2> QED
    BY <1>1, <2>2, <2>3, <2>4, <2>5
<1>12. from = LineOffset(input.lines, l)
  <2>1. e < Len(Rows)
    BY <1>1, <1>2, <1>3
  <2> QED
    BY <1>4, <1>10, <1>11, <2>1 DEF Exact
<1>13. from = CellAt(input.lines, l, 1)
  <2>1. PICK lines \in Lines : lines = input.lines
    BY InputIs
  <2>2. LineOffset(lines, l) = CellAt(lines, l, 1)
    BY <2>1, LineOffsetAt
  <2> QED
    BY <1>12, <2>1, <2>2
<1>14. Entry(results, q.first) = [offset |-> from, row |-> e]
  <2>1. results.interval = i
    BY <1>1 DEF Results
  <2>2. Entry(results, first) = [offset |-> results.offsets[d + 1], row |-> d * i]
    BY <1>3, <2>1 DEF Entry
  <2> QED
    BY <1>2, <1>3, <1>5, <1>8, <1>9, <2>2
<1> QED
  BY <1>2, <1>3, <1>4, <1>11, <1>13, <1>14 DEF Enters

(* A pass begins before the first cell of a recorded row.                    *)
LEMMA ReadBegins ==
  ASSUME input \in Inputs, NEW q, Wanted(q), NEW results, NEW l, NEW from, Enters(results, q, l, from),
         NEW r, r = ReadStart(results, q.column, q.first, q.end)
  PROVE  ReadAt(r, l, 1, q)
<1>1. PICK col \in Nat, first \in Nat, end \in Nat, row \in Nat :
        col = q.column /\ first = q.first /\ end = q.end /\ first < end /\ row = RowOf(l) /\ row <= first
  <2>1. RowOf(l) \in Nat
    BY RowCell DEF Enters
  <2> QED
    BY <2>1 DEF Wanted, Enters
<1>2. Entry(results, first) = [offset |-> from, row |-> row] /\ from \in Nat /\ l > HeaderLines
  BY <1>1 DEF Enters
<1>3. PICK tk, nil : tk = Start(from) /\ nil = <<>>
  OBVIOUS
<1>4. r = [tk |-> tk, row |-> row, column |-> 0, target |-> col, first |-> first, last |-> end,
           tokens |-> nil, found |-> FALSE, done |-> FALSE, bad |-> FALSE]
  <2>1. end # 0
    BY <1>1
  <2> QED
    BY <1>1, <1>2, <1>3, <2>1 DEF ReadStart
<1>5. Fresh(tk)
  <2>1. tk = [state |-> "field", offset |-> from, last |-> 0,
              buf |-> nil, max |-> InitialBuffer, bytes |-> InitialBuffer, over |-> FALSE,
              result |-> "MORE", token |-> NoToken]
    BY <1>3 DEF Start
  <2>2. nil \in Seq(Char)
    BY <1>3, EmptySeq
  <2>3. Tokenizer(tk)
    BY <2>1 DEF Tokenizer
  <2>4. tk.state = "field" /\ tk.offset = from /\ tk.buf = nil
    BY <2>1
  <2>5. Collects(tk)
    BY <1>2, <2>2, <2>3, <2>4 DEF Collects
  <2> QED
    BY <1>3, <2>4, <2>5 DEF Fresh
<1>6. ~(col < 1 - 1)
  BY <1>1
<1>7. Got(l, 1, q) = 0
  <2>1. Got(l, 1, q) = IF row < first THEN 0 ELSE row - first + IF col < 1 - 1 THEN 1 ELSE 0
    BY <1>1 DEF Got
  <2>2. Got(l, 1, q) = IF row < first THEN 0 ELSE row - first + 0
    BY <1>6, <2>1, Zenon
  <2> QED
    BY <1>1, <2>2
<1>8. Slice(nil, 0, q)
  BY <1>3, SliceNone
<1>9. ReadRecord(r)
  BY <1>4 DEF ReadRecord
<1>10. /\ r.tk = tk /\ r.row = row /\ r.column = 1 - 1 /\ r.target = col /\ r.first = first /\ r.last = end
       /\ r.tokens = nil /\ r.found = FALSE /\ r.done = FALSE /\ r.bad = FALSE /\ row <= end
  BY <1>1, <1>4
<1> QED
  BY <1>1, <1>2, <1>5, <1>6, <1>7, <1>8, <1>9, <1>10 DEF ReadAt

(* The characters from a position on.                                        *)
LEMMA FromIs ==
  ASSUME input \in Inputs, NEW text, text = FileText(input.lines, input.eol), NEW from \in Nat, from < Len(text),
         NEW chars, chars = FileFrom(File, from)
  PROVE  /\ Len(text) \in Nat /\ DOMAIN chars = 1..(Len(text) - from)
         /\ \A k \in (from + 1)..Len(text) : chars[k - from] = text[k]
<1>1. PICK lines \in Lines, eol \in BOOLEAN : lines = input.lines /\ eol = input.eol
  BY InputIs
<1>2. PICK file, body : file = Render(lines, eol) /\ body = Joined(RowTexts(lines), NewLine)
  OBVIOUS
<1>3. file \in Seq(Char) /\ Len(text) = Len(file) + 1 /\ \A i \in 1..Len(file) : text[i] = file[i]
  BY <1>1, <1>2, FileIs
<1>4. text[Len(text)] = EndOfFile
  BY PassText
<1>5. PICK n \in Nat : n = Len(file) /\ Len(text) = n + 1 /\ from <= n
  BY <1>3
<1>6. PICK part : part = SubSeq(file, from + 1, n)
  OBVIOUS
<1>7. PICK m \in Nat : m + from = n
  <2>1. n - from \in Nat /\ (n - from) + from = n
    BY <1>5
  <2> QED
    BY <2>1
<1>8. part \in Seq(Char) /\ Len(part) = m /\ \A i \in 1..m : part[i] = file[from + i]
  <2>1. from + 1 \in 1..(n + 1) /\ n \in (from + 1 - 1)..n
    BY <1>5
  <2>2. Len(part) = m
    BY <1>3, <1>5, <1>6, <1>7
  <2>3. part \in Seq(Char)
    BY <1>3, <1>5, <1>6, <2>1
  <2>4. \A i \in 1..m : part[i] = file[from + i]
    BY <1>3, <1>5, <1>6, <1>7
  <2> QED
    BY <2>2, <2>3, <2>4
<1>9. PICK f \in Char : f = EndOfFile
  BY NamedChars
<1>10. chars = Append(part, f)
  <2>1. File = file
    BY <1>1, <1>2 DEF File
  <2> QED
    BY <1>5, <1>6, <1>9, <2>1 DEF FileFrom
<1>11. chars \in Seq(Char) /\ Len(chars) = m + 1 /\ chars[m + 1] = f /\ \A i \in 1..m : chars[i] = part[i]
  BY <1>8, <1>9, <1>10
<1>12. DOMAIN chars = 1..(m + 1)
  BY <1>11
<1>13. Len(text) - from = m + 1
  BY <1>5, <1>7
<1>14. ASSUME NEW k \in (from + 1)..Len(text) PROVE chars[k - from] = text[k]
  <2>1. PICK j \in 1..(m + 1) : j = k - from /\ k = from + j
    BY <1>5, <1>7
  <2>2. CASE j = m + 1
    <3>1. k = Len(text)
      BY <1>5, <1>7, <2>1, <2>2
    <3> QED
      BY <1>4, <1>9, <1>11, <2>1, <2>2, <3>1
  <2>3. CASE j # m + 1
    <3>1. j \in 1..m /\ k \in 1..n
      BY <1>7, <2>1, <2>3
    <3> QED
      BY <1>3, <1>5, <1>8, <1>11, <2>1, <3>1
  <2> QED
    BY <2>2, <2>3
<1> QED
  BY <1>5, <1>12, <1>13, <1>14

(* Reading rows of a column of a loaded table finds their cells.             *)
LEMMA ReadFinishes ==
  ASSUME input \in Inputs, ~QuotedEnd, NEW results, Results(results), NEW q, Wanted(q), Reliable(EntryRow(q)),
         NEW r, r = ReadColumn(File, results, q.column, q.first, q.end)
  PROVE  ReadDone(r, q)
<1>1. PICK l, from : Enters(results, q, l, from)
  BY EntryIs
<1>2. PICK text, start, chars :
        /\ text = FileText(input.lines, input.eol) /\ start = ReadStart(results, q.column, q.first, q.end)
        /\ chars = FileFrom(File, from)
  OBVIOUS
<1>3. from \in Nat /\ l \in 1..Len(input.lines) /\ from = CellAt(input.lines, l, 1)
  BY <1>1 DEF Enters
<1>4. from < Len(text) /\ Len(text) \in Nat
  <2>1. PICK lines \in Lines, eol \in BOOLEAN : lines = input.lines /\ eol = input.eol
    BY InputIs
  <2>2. PICK one : one = 1 /\ one \in 1..Len(lines[l])
    <3>1. Len(input.lines[l]) \in Nat /\ Len(input.lines[l]) > 0
      BY <1>3, LineIs
    <3> QED
      BY <2>1, <3>1
  <2>3. Placed(text, lines, eol, l, one)
    BY <1>2, <1>3, <2>1, <2>2, Layout
  <2>4. Len(text) \in Nat
    BY <1>2, PassText
  <2>5. PICK n \in Nat : from + n + 1 <= Len(text)
    BY <1>3, <2>1, <2>2, <2>3 DEF Placed
  <2> QED
    BY <1>3, <2>4, <2>5
<1>5. DOMAIN chars = 1..(Len(text) - from) /\ \A k \in (from + 1)..Len(text) : chars[k - from] = text[k]
  BY <1>2, <1>3, <1>4, FromIs
<1>6. PICK n \in Nat : n + from = Len(text) /\ DOMAIN chars = 1..n
  <2>1. PICK n : n = Len(text) - from
    OBVIOUS
  <2>2. n \in Nat /\ n + from = Len(text)
    BY <1>3, <1>4, <2>1
  <2> QED
    BY <1>5, <2>1, <2>2
<1>7. PICK y : ReadTurns(y, n, chars, start)
  BY <1>6, ReadSteps
<1>8. PICK z : z = [k \in Nat |-> y[k - from]]
  OBVIOUS
<1>9. z[from] = start /\ z[Len(text)] = r
  <2>1. y[0] = start /\ ReadAll(start, chars) = y[n]
    BY <1>7 DEF ReadTurns
  <2>2. r = ReadAll(start, chars)
    <3>1. Entry(results, q.first).offset = from
      BY <1>1 DEF Enters
    <3> QED
      BY <1>2, <3>1 DEF ReadColumn, ReadAll
  <2>3. from - from = 0 /\ Len(text) - from = n /\ Len(text) \in Nat
    BY <1>3, <1>4, <1>6
  <2> QED
    BY <1>3, <1>8, <2>1, <2>2, <2>3
<1>10. TurnsFrom(z, text, from)
  <2> SUFFICES ASSUME NEW k \in (from + 1)..Len(text) PROVE z[k] = ReadTurn(z[k - 1], text[k])
    BY DEF TurnsFrom
  <2>1. PICK j \in 1..n : j = k - from /\ j - 1 = (k - 1) - from
    <3>1. PICK f \in Nat, m \in Nat : f = from /\ m = Len(text) /\ n + f = m
      BY <1>3, <1>4, <1>6
    <3>2. k \in (f + 1)..m
      BY <3>1
    <3>3. k - f \in 1..n /\ (k - f) - 1 = (k - 1) - f
      BY <3>1, <3>2
    <3> QED
      BY <3>1, <3>3
  <2>2. y[j] = ReadTurn(y[j - 1], chars[j])
    BY <1>7 DEF ReadTurns
  <2>3. k \in Nat /\ k - 1 \in Nat
    BY <1>3, <1>4
  <2>4. z[k] = y[j] /\ z[k - 1] = y[j - 1]
    BY <1>8, <2>1, <2>3
  <2>5. chars[j] = text[k]
    BY <1>5, <2>1
  <2> QED
    BY <2>2, <2>4, <2>5
<1>11. ReadPass(z, text, from)
  BY <1>2, <1>3, <1>10 DEF ReadPass
<1>12. ReadHere(z, from, l, 1, q)
  <2>1. ReadAt(start, l, 1, q)
    BY <1>1, <1>2, ReadBegins
  <2>2. from <= from
    BY <1>3
  <2> QED
    BY <1>3, <1>9, <2>1, <2>2 DEF ReadHere
<1>13. ReadDone(z[Len(text)], q)
  BY <1>3, <1>11, <1>12, ReadLines
<1> QED
  BY <1>9, <1>13

-----------------------------------------------------------------------------
(* A column of a loaded table: the invariant and its theorems.               *)

(* How a column is represented: by the type of its cells, or as strings.     *)
Represents(type, seen) ==
    \/ type \in {"INTERNED", "FREE"}
    \/ type = TypeOfColumn(seen) /\ type # "STRING"

(* ufo_csv's choice is one of them.                                          *)
LEMMA RepresentationIs ==
  ASSUME NEW results, NEW c
  PROVE  Represents(Representation(results, c), results.types[c + 1])
<1>1. PICK type, n : /\ type = TypeOfColumn(results.types[c + 1])
                    /\ n = Cardinality(UniqueValues(File, results, c, Limit).texts)
  OBVIOUS
<1>2. Representation(results, c) = CASE type # "STRING" -> type [] n = Limit -> "FREE" [] OTHER -> "INTERNED"
  BY <1>1, Zenon DEF Representation
<1>3. CASE type # "STRING"
  <2>1. Representation(results, c) \in {type, "FREE"}
    BY <1>2, <1>3
  <2> QED
    BY <1>1, <1>3, <2>1 DEF Represents
<1>4. CASE type = "STRING"
  BY <1>2, <1>4 DEF Represents
<1> QED
  BY <1>3, <1>4

(* The recorded row is a row of the table.                                   *)
LEMMA EntryRowIs ==
  ASSUME input \in Inputs, NEW q, Wanted(q)
  PROVE  EntryRow(q) \in 0..(Len(Rows) - 1)
<1>1. PICK i \in Nat \ {0}, n \in Nat : i = input.interval /\ n = Len(Rows)
  <2>1. PICK i \in Nat \ {0} : i = input.interval
    BY InputIs
  <2> QED
    BY <2>1, RowsAre
<1>2. PICK first \in Nat : first = q.first /\ first < n
  <2>1. q.first \in Nat /\ q.end \in Nat /\ q.first < q.end /\ q.end <= n
    BY <1>1 DEF Wanted
  <2> QED
    BY <1>1, <2>1
<1>3. first \div i \in Nat /\ first % i \in Nat /\ first = (first \div i) * i + (first % i)
  BY Quotient
<1>4. PICK d \in Nat : d = first \div i
  BY <1>3
<1>5. PICK e \in Nat : e = d * i
  BY SMT
<1>6. e <= first
  BY <1>3, <1>4, <1>5
<1>7. EntryRow(q) = e
  BY <1>1, <1>2, <1>4, <1>5 DEF EntryRow
<1> QED
  BY <1>1, <1>2, <1>6, <1>7

(* What is shown for a row that has no such cell fits any column.            *)
LEMMA NothingFits ==
  ASSUME NEW type
  PROVE  FitsColumn(<<>>, type)
<1>1. DeduceType(<<>>, FALSE) = "EMPTY"
  BY DEF DeduceType
<1>2. PICK e, s : e \in BOOLEAN /\ s = <<>> /\ DeduceType(s, e) = "EMPTY"
  <2>1. PICK e : e = FALSE
    OBVIOUS
  <2> QED
    BY <1>1, <2>1
<1>3. FitsColumn(s, type)
  BY <1>2 DEF FitsColumn
<1> QED
  BY <1>2, <1>3

(* The cells of a column fit its representation.                             *)
LEMMA CellConverts ==
  ASSUME input \in Inputs, NEW h, NEW col \in Nat, TypesSeen(h, col), NEW type, Represents(type, h),
         NEW row \in Nat, row < Len(Rows), NEW s, s = CellText(Rows, row, col), ConversionKeeps(s, type)
  PROVE  Convert(s, type) = Shown(s, type)
<1>1. PICK k \in 1..Len(Rows) : k = row + 1
  <2>1. Len(Rows) \in Nat
    BY RowsAre
  <2> QED
    BY <2>1
<1>2. s = IF col < Len(Rows[k]) THEN Text(Rows[k][col + 1]) ELSE <<>>
  BY <1>1 DEF CellText
<1>3. type \in {"BOOLEAN", "INTEGER", "DOUBLE", "INTERNED", "FREE", "EMPTY", "NA"}
  BY TypeOfColumnIs DEF Represents
<1>4. s \in Seq(Char)
  <2>1. CASE col < Len(Rows[k])
    <3>1. PICK r : r = Rows[k] /\ r \in Seq(Cells) /\ Len(r) \in Nat
      BY RowsAre
    <3>2. PICK c \in 1..Len(r) : c = col + 1
      BY <2>1, <3>1
    <3>3. r[c] \in Cells
      BY <3>1, <3>2, ElementOfSeq
    <3> QED
      BY <1>2, <2>1, <3>1, <3>2, <3>3, TextChars
  <2>2. CASE ~(col < Len(Rows[k]))
    BY <1>2, <2>2, EmptySeq
  <2> QED
    BY <2>1, <2>2
<1>5. FitsColumn(s, type)
  <2>1. CASE ~(col < Len(Rows[k]))
    BY <1>2, <2>1, NothingFits
  <2>2. CASE col < Len(Rows[k]) /\ type \in {"INTERNED", "FREE"}
    BY <2>2 DEF FitsColumn
  <2>3. CASE col < Len(Rows[k]) /\ type \notin {"INTERNED", "FREE"}
    <3>1. type = TypeOfColumn(h) /\ type # "STRING"
      BY <2>3 DEF Represents
    <3>2. s = Text(Rows[k][col + 1])
      BY <1>2, <2>3
    <3> QED
      BY <2>3, <3>1, <3>2, CellsFit
  <2> QED
    BY <2>1, <2>2, <2>3
<1> QED
  BY <1>3, <1>4, <1>5, ConvertShows

(* What reading rows of a column of a loaded table stores.                   *)
Sliced(t, types) ==
    t.column # -1 /\ Reliable(EntryRow(t)) =>
        /\ Len(t.values) \in {t.end - t.first, t.end - t.first + 1}
        /\ \A i \in 1..(t.end - t.first) :
             LET text == CellText(Rows, t.first + i - 1, t.column)
                 type == types[t.column + 1]
             IN ConversionKeeps(text, type) => t.values[i] = Shown(text, type)

(* A reading from a reliable offset succeeds and stores its slice.           *)
LEMMA PopulateSlices ==
  ASSUME input \in Inputs, NEW results, results = Scanned(input), results.phase = "done",
         NEW types, \A c \in 1..Len(results.types) : Represents(types[c], results.types[c]),
         NEW col \in 0..(Len(results.types) - 1), NEW first \in 0..results.rows, NEW end \in 0..results.rows, first < end,
         NEW r, r = ReadColumn(File, results, col, first, end)
  PROVE  /\ r.bad => \E row \in 0..(Len(Rows) - 1) : ~Reliable(row)
         /\ Sliced([column |-> col, first |-> first, end |-> end,
                    values |-> [i \in DOMAIN r.tokens |-> Convert(r.tokens[i], types[col + 1])]], types)
<1>1. /\ Results(results) /\ ~QuotedEnd /\ results.rows \in Nat /\ results.rows <= Len(Rows)
      /\ Len(results.types) \in Nat
  BY ScanResults
<1>2. PICK n \in Nat, w \in Nat : n = Len(Rows) /\ w = Len(results.types) /\ col < w /\ end <= n
  <2>1. PICK n \in Nat : n = Len(Rows)
    BY RowsAre
  <2>2. PICK w \in Nat : w = Len(results.types)
    BY <1>1
  <2> QED
    BY <1>1, <2>1, <2>2
<1>3. col \in Nat /\ first \in Nat /\ end \in Nat
  BY <1>1
<1>4. PICK type, h : type = types[col + 1] /\ h = results.types[col + 1]
  OBVIOUS
<1>5. PICK t : t = [column |-> col, first |-> first, end |-> end,
                    values |-> [i \in DOMAIN r.tokens |-> Convert(r.tokens[i], types[col + 1])]]
  OBVIOUS
<1>6. t.column = col /\ t.first = first /\ t.end = end
      /\ t.values = [i \in DOMAIN r.tokens |-> Convert(r.tokens[i], type)]
  BY <1>4, <1>5
<1>7. Wanted(t)
  BY <1>2, <1>3, <1>6 DEF Wanted
<1>8. EntryRow(t) \in 0..(Len(Rows) - 1)
  BY <1>7, EntryRowIs
<1>9. Reliable(EntryRow(t)) => ReadDone(r, t)
  <2>1. r = ReadColumn(File, results, t.column, t.first, t.end)
    BY <1>6
  <2> QED
    BY <1>1, <1>7, <2>1, ReadFinishes
<1>10. r.bad => \E row \in 0..(Len(Rows) - 1) : ~Reliable(row)
  <2>1. r.bad => ~ReadDone(r, t)
    BY DEF ReadDone
  <2> QED
    BY <1>8, <1>9, <2>1
<1>11. Represents(type, h) /\ TypesSeen(h, col)
  <2>1. col + 1 \in 1..w /\ col + 1 <= w
    BY <1>2, <1>3
  <2>2. Has(results.types, col) = h
    BY <1>2, <1>4, <2>1 DEF Has
  <2>3. TypesSeen(Has(results.types, col), col)
    BY <1>1, <1>3 DEF Results
  <2> QED
    BY <1>2, <1>4, <2>1, <2>2, <2>3
<1>12. ASSUME ReadDone(r, t)
       PROVE  /\ Len(t.values) \in {end - first, end - first + 1}
              /\ \A i \in 1..(end - first) :
                   ConversionKeeps(CellText(Rows, first + i - 1, col), type)
                     => t.values[i] = Shown(CellText(Rows, first + i - 1, col), type)
  <2>1. PICK T, tokens : T = Seq(Char) /\ tokens = r.tokens /\ tokens \in Seq(T)
    BY <1>12 DEF ReadDone
  <2>2. PICK m \in Nat : m = Len(tokens) /\ DOMAIN tokens = 1..m
    BY <2>1, LenProperties
  <2>3. PICK k \in Nat : k = end - first /\ k + first = end
    <3>1. end - first \in Nat /\ (end - first) + first = end
      BY <1>3
    <3> QED
      BY <3>1
  <2>4. /\ tokens = r.tokens /\ m = Len(tokens) /\ DOMAIN tokens = 1..m /\ k + first = end
        /\ m \in {k, k + 1} /\ k = end - first
        /\ \A i \in 1..k : tokens[i] = CellText(Rows, first + i - 1, col)
    <3>1. Len(tokens) \in {k, k + 1} /\ \A i \in 1..k : tokens[i] = CellText(Rows, first + i - 1, col)
      BY <1>6, <1>12, <2>1, <2>3 DEF ReadDone
    <3> QED
      BY <2>1, <2>2, <2>3, <3>1
  <2>5. t.values = [i \in 1..m |-> Convert(tokens[i], type)]
    BY <1>6, <2>4
  <2>6. Len(t.values) = m
    BY <2>5
  <2>7. ASSUME NEW i \in 1..k, NEW s, s = CellText(Rows, first + i - 1, col), ConversionKeeps(s, type)
        PROVE  t.values[i] = Shown(s, type)
    <3>1. i \in 1..m
      BY <2>4
    <3>2. t.values[i] = Convert(s, type)
      <4>1. tokens[i] = s
        BY <2>4, <2>7
      <4>2. t.values[i] = Convert(tokens[i], type)
        BY <2>5, <3>1
      <4> QED
        BY <4>1, <4>2
    <3>3. PICK row \in Nat : row = first + i - 1 /\ row < n
      <4>1. first + i - 1 \in Nat /\ first + i - 1 < n
        BY <1>2, <1>3, <2>4
      <4> QED
        BY <4>1
    <3> QED
      BY <1>2, <1>3, <1>11, <2>7, <3>2, <3>3, CellConverts
  <2> QED
    BY <2>4, <2>6, <2>7
<1>13. Sliced(t, types)
  <2> SUFFICES ASSUME Reliable(EntryRow(t))
               PROVE  /\ Len(t.values) \in {t.end - t.first, t.end - t.first + 1}
                      /\ \A i \in 1..(t.end - t.first) :
                           ConversionKeeps(CellText(Rows, t.first + i - 1, t.column), types[t.column + 1])
                             => t.values[i] = Shown(CellText(Rows, t.first + i - 1, t.column), types[t.column + 1])
    BY Zenon DEF Sliced
  <2> QED
    BY <1>4, <1>6, <1>9, <1>12
<1> QED
  BY <1>5, <1>10, <1>13

(* What loading and reading leave: the columns represent what the scan saw,  *)
(* the last reading stored its slice, and what failed had a reason.          *)
Excused == QuotedEnd \/ FirstTokenSkipped \/ \E r \in 0..(Len(Rows) - 1) : ~Reliable(r)

LoadedOk ==
    /\ scan = Scanned(input) /\ scan.phase = "done"
    /\ alive \subseteq Columns
    /\ Len(ctype) = Len(scan.types)
    /\ \A c \in 1..Len(scan.types) : Represents(ctype[c], scan.types[c])

TableInv ==
    /\ input \in Inputs
    /\ status \in {"start", "loaded", "crashed"}
    /\ status = "start" => target = NoTarget
    /\ status = "loaded" => LoadedOk
    /\ status = "crashed" => Excused
    /\ Sliced(target, ctype)

(* Before any reading there is nothing to compare.                           *)
LEMMA NothingSliced ==
  ASSUME NEW types
  PROVE  Sliced(NoTarget, types)
BY DEF Sliced, NoTarget

(* The file does not change, nor what can be said of its rows.               *)
LEMMA SameRows ==
  ASSUME input' = input
  PROVE  /\ Excused' <=> Excused
         /\ \A t, types : Sliced(t, types)' <=> Sliced(t, types)
<1>1. Rows' = Rows
  BY DEF Rows
<1>2. \A r : LineOfRow(r)' = LineOfRow(r)
  BY DEF LineOfRow
<1>3. \A l : StrayEscapeBefore(l)' <=> StrayEscapeBefore(l)
  BY DEF StrayEscapeBefore
<1>4. \A r : LastTokenSkipped(r)' <=> LastTokenSkipped(r)
  BY <1>1 DEF LastTokenSkipped
<1>5. \A r : Reliable(r)' <=> Reliable(r)
  BY <1>2, <1>3, <1>4 DEF Reliable
<1>6. QuotedEnd' <=> QuotedEnd
  BY DEF QuotedEnd
<1>7. FirstTokenSkipped' <=> FirstTokenSkipped
  BY <1>1 DEF FirstTokenSkipped
<1>8. \A t : EntryRow(t)' = EntryRow(t)
  BY DEF EntryRow
<1>9. ASSUME NEW t, NEW types PROVE Sliced(t, types)' <=> Sliced(t, types)
  <2>1. EntryRow(t)' = EntryRow(t)
    BY <1>8
  <2>2. Reliable(EntryRow(t))' <=> Reliable(EntryRow(t))
    BY <1>5, <2>1
  <2> QED
    BY <1>1, <2>2 DEF Sliced
<1> QED
  BY <1>1, <1>5, <1>6, <1>7, <1>9 DEF Excused

(* It holds at first,                                                        *)
LEMMA TableInit == Init => TableInv
<1> SUFFICES ASSUME Init PROVE TableInv
  OBVIOUS
<1>1. input \in Inputs /\ status = "start" /\ target = NoTarget
  BY DEF Init
<1>2. Sliced(target, ctype)
  BY <1>1, NothingSliced
<1> QED
  BY <1>1, <1>2 DEF TableInv

(* when the file is loaded,                                                  *)
LEMMA TableLoad ==
  ASSUME TableInv, LoadCsv
  PROVE  TableInv'
<1>1. input \in Inputs /\ input' = input /\ target = NoTarget /\ target' = NoTarget /\ input' \in Inputs
  BY DEF TableInv, LoadCsv
<1>2. Sliced(target, ctype)'
  <2>1. \A types : Sliced(NoTarget, types)
    BY NothingSliced
  <2> QED
    BY <1>1, <2>1, SameRows
<1>3. PICK results : results = Scanned(input)
  OBVIOUS
<1>4. CASE results.phase = "done"
  <2>1. /\ status' = "loaded" /\ scan' = results
        /\ ctype' = [c \in 1..Len(results.types) |-> Representation(results, c - 1)]
        /\ alive' = 0..(Len(results.types) - 1)
    BY <1>3, <1>4 DEF LoadCsv
  <2>2. PICK n, seen : n \in Nat /\ seen = results.types /\ n = Len(seen)
    BY <1>1, <1>3, <1>4, ScanResults
  <2>3. Len(ctype') = n
    BY <2>1, <2>2
  <2>4. ASSUME NEW c \in 1..n PROVE Represents(ctype'[c], seen[c])
    <3>1. PICK d : d = c - 1 /\ d + 1 = c
      OBVIOUS
    <3>2. Represents(Representation(results, d), results.types[d + 1])
      BY RepresentationIs
    <3>3. ctype'[c] = Representation(results, d)
      BY <2>1, <2>2, <3>1
    <3> QED
      BY <2>2, <3>1, <3>2, <3>3
  <2>5. Scanned(input)' = results
    BY <1>1, <1>3
  <2>6. LoadedOk'
    BY <1>4, <2>1, <2>2, <2>3, <2>4, <2>5 DEF LoadedOk, Columns
  <2> QED
    BY <1>1, <1>2, <2>1, <2>6 DEF TableInv
<1>5. CASE results.phase # "done"
  <2>1. status' = "crashed"
    BY <1>3, <1>5 DEF LoadCsv
  <2>2. Finished(results)
    BY <1>1, <1>3, ScanFinishes
  <2>3. Excused
    BY <1>5, <2>2 DEF Finished, Excused
  <2>4. Excused'
    BY <1>1, <2>3, SameRows
  <2> QED
    BY <1>1, <1>2, <2>1, <2>4 DEF TableInv
<1> QED
  BY <1>4, <1>5

(* when rows are read,                                                       *)
LEMMA TablePopulate ==
  ASSUME TableInv, NEW c \in alive, NEW first \in 0..scan.rows, NEW end \in 0..scan.rows, first < end,
         Populate(c, first, end)
  PROVE  TableInv'
<1>1. /\ input \in Inputs /\ LoadedOk /\ input' = input /\ scan' = scan /\ ctype' = ctype /\ alive' = alive
      /\ input' \in Inputs
  BY DEF TableInv, Populate
<1>2. PICK r : r = ReadColumn(File, scan, c, first, end)
  OBVIOUS
<1>3. PICK stored :
        stored = [column |-> c, first |-> first, end |-> end,
                  values |-> [i \in DOMAIN r.tokens |-> Convert(r.tokens[i], ctype[c + 1])]]
  OBVIOUS
<1>4. (r.bad => Excused) /\ Sliced(stored, ctype)
  <2>1. c \in 0..(Len(scan.types) - 1)
    BY <1>1 DEF LoadedOk, Columns
  <2>2. (r.bad => \E row \in 0..(Len(Rows) - 1) : ~Reliable(row)) /\ Sliced(stored, ctype)
    BY <1>1, <1>2, <1>3, <2>1, PopulateSlices DEF LoadedOk
  <2> QED
    BY <2>2 DEF Excused
<1>5. LoadedOk'
  <2>1. Scanned(input)' = Scanned(input)
    BY <1>1
  <2>2. Columns' = Columns
    BY <1>1 DEF Columns
  <2> QED
    BY <1>1, <2>1, <2>2 DEF LoadedOk
<1>6. CASE r.bad
  <2>1. status' = "crashed" /\ target' = target
    BY <1>2, <1>6 DEF Populate
  <2>2. Sliced(target, ctype)
    BY DEF TableInv
  <2>3. Sliced(target, ctype)' /\ Excused'
    BY <1>1, <1>4, <1>6, <2>1, <2>2, SameRows
  <2> QED
    BY <1>1, <2>1, <2>3 DEF TableInv
<1>7. CASE ~r.bad
  <2>1. status' = "loaded" /\ target' = stored
    BY <1>2, <1>3, <1>7 DEF Populate
  <2>2. Sliced(target, ctype)'
    BY <1>1, <1>4, <2>1, SameRows
  <2> QED
    BY <1>1, <1>5, <2>1, <2>2 DEF TableInv
<1> QED
  BY <1>6, <1>7

(* when a column is destroyed,                                               *)
LEMMA TableDestroy ==
  ASSUME TableInv, NEW c, Destroy(c)
  PROVE  TableInv'
<1>1. /\ input \in Inputs /\ LoadedOk /\ input' = input /\ scan' = scan /\ ctype' = ctype /\ alive' = alive \ {c}
      /\ status' = "loaded" /\ target' = NoTarget /\ input' \in Inputs
  BY DEF TableInv, Destroy
<1>2. Sliced(target, ctype)'
  <2>1. \A types : Sliced(NoTarget, types)
    BY NothingSliced
  <2> QED
    BY <1>1, <2>1, SameRows
<1>3. LoadedOk'
  <2>1. Scanned(input)' = Scanned(input)
    BY <1>1
  <2>2. Columns' = Columns
    BY <1>1 DEF Columns
  <2> QED
    BY <1>1, <2>1, <2>2 DEF LoadedOk
<1> QED
  BY <1>1, <1>2, <1>3 DEF TableInv

(* at every step,                                                            *)
LEMMA TableStep == TableInv /\ [Next]_vars => TableInv'
<1> SUFFICES ASSUME TableInv, [Next]_vars PROVE TableInv'
  OBVIOUS
<1>1. CASE LoadCsv
  BY <1>1, TableLoad
<1>2. ASSUME NEW c \in alive, NEW first \in 0..scan.rows, NEW end \in 0..scan.rows, first < end, Populate(c, first, end)
      PROVE  TableInv'
  BY <1>2, TablePopulate
<1>3. ASSUME NEW c \in alive, Destroy(c) PROVE TableInv'
  BY <1>3, TableDestroy
<1>4. CASE UNCHANGED vars
  <2>1. /\ input' = input /\ status' = status /\ scan' = scan /\ ctype' = ctype /\ alive' = alive
        /\ target' = target
    BY <1>4 DEF vars
  <2>2. Sliced(target, ctype)' /\ (Excused' <=> Excused)
    BY <2>1, SameRows DEF TableInv
  <2>3. LoadedOk' <=> LoadedOk
    <3>1. Scanned(input)' = Scanned(input)
      BY <2>1
    <3>2. Columns' = Columns
      BY <2>1 DEF Columns
    <3> QED
      BY <2>1, <3>1, <3>2 DEF LoadedOk
  <2> QED
    BY <2>1, <2>2, <2>3 DEF TableInv
<1> QED
  BY <1>1, <1>2, <1>3, <1>4 DEF Next

(* and always.                                                               *)
LEMMA TableAlways == Spec => []TableInv
BY TableInit, TableStep, PTL DEF Spec

(* Loading fails for the two reasons the table shows or reading for a row    *)
(* that is not reliable; every other table is loaded with its rows and, if no*)
(* integer overflows, its columns' most general types, for every file        *)
(* (ufo_csv_perform_initial_scan).                                           *)
THEOREM SpecScanMatchesTable == Spec => []ScanMatchesTable
<1>1. ASSUME TableInv PROVE ScanMatchesTable
  <2>1. CASE status = "start"
    BY <2>1 DEF ScanMatchesTable
  <2>2. CASE status = "crashed"
    <3>1. Excused
      BY <1>1, <2>2 DEF TableInv
    <3> QED
      BY <2>2, <3>1 DEF ScanMatchesTable, Excused
  <2>3. CASE status = "loaded"
    <3>1. input \in Inputs /\ LoadedOk
      BY <1>1, <2>3 DEF TableInv
    <3>2. PICK r : r = scan /\ r = Scanned(input) /\ r.phase = "done"
      BY <3>1 DEF LoadedOk
    <3>3. /\ Results(r) /\ ~QuotedEnd /\ ~FirstTokenSkipped
          /\ Len(r.types) \in Nat /\ Len(r.types) = Width(input.lines)
      BY <3>1, <3>2, ScanResults
    <3>4. r.rows = Len(Rows) - IF LastRowDropped THEN 1 ELSE 0
      BY <3>3 DEF Results
    <3>5. Len(ctype) = Width(input.lines)
      BY <3>1, <3>2, <3>3 DEF LoadedOk
    <3>6. ASSUME ~Overflows, NEW c \in Columns
          PROVE  TypeOfColumn(scan.types[c + 1]) = ColumnType(Rows, c)
      <4>1. c \in Nat /\ c + 1 <= Len(r.types)
        BY <3>2, <3>3, <3>6 DEF Columns
      <4>2. TypesSeen(Has(r.types, c), c)
        BY <3>3, <4>1 DEF Results
      <4>3. Has(r.types, c) = scan.types[c + 1]
        BY <3>2, <4>1 DEF Has
      <4> QED
        BY <3>6, <4>2, <4>3, TypesMatch
    <3> QED
      BY <2>3, <3>2, <3>3, <3>4, <3>5, <3>6, Zenon DEF ScanMatchesTable
  <2> QED
    BY <1>1, <2>1, <2>2, <2>3 DEF TableInv
<1> QED
  BY <1>1, TableAlways, PTL

(* The offset recorded for every interval-th row is the place of that row in *)
(* the file, unless a token is skipped or an escape stray before it, for     *)
(* every file and interval (offset_record_add).                              *)
THEOREM SpecOffsetsExact == Spec => []OffsetsExact
<1>1. ASSUME TableInv, status = "loaded", NEW k \in DOMAIN scan.offsets,
             NEW r, r = (k - 1) * input.interval, r < Len(Rows), Reliable(r)
      PROVE  scan.offsets[k] = LineOffset(input.lines, LineOfRow(r))
  <2>1. input \in Inputs /\ scan = Scanned(input) /\ scan.phase = "done"
    BY <1>1 DEF TableInv, LoadedOk
  <2>2. Results(scan)
    BY <2>1, ScanResults
  <2>3. PICK offsets, begun : offsets = scan.offsets /\ OffsetsOk(offsets, begun)
    BY <2>2 DEF Results
  <2>4. k \in 1..Len(offsets)
    <3>1. offsets \in Seq(Nat)
      BY <2>3 DEF OffsetsOk
    <3> QED
      BY <1>1, <2>3, <3>1, LenProperties
  <2>5. Exact((k - 1) * input.interval, offsets[k])
    BY <2>3, <2>4 DEF OffsetsOk
  <2> QED
    BY <1>1, <2>3, <2>5 DEF Exact
<1>2. TableInv => OffsetsExact
  BY <1>1, Zenon DEF OffsetsExact
<1> QED
  BY <1>2, TableAlways, PTL

(* Element i of what a reading stores is what R shows for the cell of row    *)
(* first + i, whatever the file, the interval, the column and the rows asked *)
(* for, and whatever is skipped on the way (ufo_csv_read_column called by    *)
(* load_column_from_csv).                                                    *)
THEOREM SpecReadIsSlice == Spec => []ReadIsSlice
<1>1. TableInv => ReadIsSlice
  <2>1. TableInv => Sliced(target, ctype)
    BY DEF TableInv
  <2> QED
    BY <2>1, Zenon DEF ReadIsSlice, Sliced, EntryRow
<1> QED
  BY <1>1, TableAlways, PTL

-----------------------------------------------------------------------------
(* Whatever the file, its scan keeps to the buffer and knows a column.       *)
LEMMA ScannedOk ==
  ASSUME NEW i \in Inputs
  PROVE  ScanOk(Scanned(i))
<1>1. PICK lines \in Lines, eol \in BOOLEAN : lines = i.lines /\ eol = i.eol
  BY InputsAssumption
<1>2. PICK file : file = Append(Render(i.lines, i.eol), EndOfFile)
  OBVIOUS
<1>3. Sequence(file)
  <2>1. PICK text : text = Render(lines, eol) /\ text \in Seq(Char)
    BY FileIs
  <2>2. Sequence(text)
    BY <2>1, SeqSequence
  <2> QED
    BY <1>1, <1>2, <2>1, <2>2, AppendSequence
<1>4. Scanned(i) = ScanAll(ScanStart(i.header, i.interval), file)
  BY <1>2, Zenon DEF Scanned, InitialScan, ScanAll
<1> QED
  BY <1>3, <1>4, ScanAllOk, ScanStartOk
-----------------------------------------------------------------------------

(* The count of references is the number of columns, as long as there are    *)
(* any; nothing exists before the file is loaded.                            *)
RefsCounted ==
    /\ status = "start" => alive = {} /\ freed = 0
    /\ status = "loaded" =>
         /\ IsFiniteSet(alive)
         /\ IF alive = {} THEN freed = 1
            ELSE freed = 0 /\ refs = Cardinality(alive)

OwnInv == input \in Inputs /\ RefsCounted
-----------------------------------------------------------------------------
(* It holds at first,                                                        *)
LEMMA OwnInit == Init => OwnInv
  BY DEF Init, OwnInv, RefsCounted

(* when the file is loaded,                                                  *)
LEMMA OwnLoad ==
  ASSUME OwnInv, LoadCsv
  PROVE  OwnInv'
<1> DEFINE columns == Len(Scanned(input).types)
<1>1. CASE Scanned(input).phase = "done"
  <2>1. columns \in Nat \ {0}
    <3>1. ScanOk(Scanned(input))
      BY ScannedOk DEF OwnInv
    <3>2. PICK r : r = Scanned(input)
      OBVIOUS
    <3> QED
      BY <1>1, <3>1, <3>2 DEF ScanOk, Knows
  <2>2. IsFiniteSet(0..(columns - 1)) /\ Cardinality(0..(columns - 1)) = columns
    BY <2>1, FS_Interval
  <2>3. alive' = 0..(columns - 1) /\ refs' = columns /\ freed' = 0
    BY <1>1 DEF LoadCsv, OwnInv, RefsCounted
  <2>4. status' = "loaded" /\ input' = input
    BY <1>1 DEF LoadCsv
  <2>5. alive' # {}
    BY <2>1, <2>2, <2>3, FS_EmptySet
  <2> QED
    BY <2>2, <2>3, <2>4, <2>5 DEF OwnInv, RefsCounted
<1>2. CASE Scanned(input).phase # "done"
  BY <1>2 DEF LoadCsv, OwnInv, RefsCounted
<1> QED
  BY <1>1, <1>2

(* Destroying a column: the last one finds a count of one.                   *)
LEMMA OwnDestroy ==
  ASSUME OwnInv, NEW c, Destroy(c)
  PROVE  OwnInv'
<1>1. /\ IsFiniteSet(alive) /\ freed = 0 /\ refs = Cardinality(alive)
      /\ status' = "loaded" /\ alive' = alive \ {c} /\ input' = input
  BY DEF Destroy, OwnInv, RefsCounted
<1>2. IsFiniteSet(alive') /\ Cardinality(alive') = refs - 1
  BY <1>1, FS_RemoveElement DEF Destroy
<1>3. refs \in Nat
  BY <1>1, FS_CardinalityType
<1>4. alive' = {} <=> refs = 1
  BY <1>2, <1>3, FS_EmptySet
<1>5. IF refs = 1 THEN freed' = 1 ELSE freed' = 0 /\ refs' = refs - 1
  BY <1>1 DEF Destroy
<1> QED
  BY <1>1, <1>2, <1>4, <1>5 DEF OwnInv, RefsCounted

(* and at every step.                                                        *)
LEMMA OwnStep == OwnInv /\ [Next]_vars => OwnInv'
<1> SUFFICES ASSUME OwnInv, [Next]_vars
             PROVE  OwnInv'
  OBVIOUS
<1>1. CASE LoadCsv
  BY <1>1, OwnLoad
<1>2. ASSUME NEW c, NEW first, NEW end, Populate(c, first, end)
      PROVE  OwnInv'
  BY <1>2 DEF Populate, OwnInv, RefsCounted
<1>3. ASSUME NEW c, Destroy(c)
      PROVE  OwnInv'
  BY <1>3, OwnDestroy
<1>4. CASE UNCHANGED vars
  BY <1>4 DEF vars, OwnInv, RefsCounted
<1> QED
  BY <1>1, <1>2, <1>3, <1>4 DEF Next

(* The results of the scan are freed exactly when the last column goes, for  *)
(* any number of columns and any order of their destruction (destroy_column).*)
THEOREM SpecMetadataOutlivesColumns == Spec => []MetadataOutlivesColumns
<1>1. OwnInv => MetadataOutlivesColumns
  BY DEF OwnInv, RefsCounted, MetadataOutlivesColumns
<1> QED
  BY <1>1, OwnInit, OwnStep, PTL DEF Spec

(* What the columns share is what the scan of their file left.               *)
ScanKept == input \in Inputs /\ (status = "loaded" => scan = Scanned(input))

(* It is kept by every step.                                                 *)
LEMMA ScanKeptStep == ScanKept /\ [Next]_vars => ScanKept'
<1> SUFFICES ASSUME ScanKept, [Next]_vars
             PROVE  ScanKept'
  OBVIOUS
<1>1. CASE LoadCsv
  <2>1. PICK results : results = Scanned(input)
    OBVIOUS
  <2>2. input' = input /\ (status' = "loaded" => scan' = results)
    BY <1>1, <2>1 DEF LoadCsv
  <2>3. Scanned(input)' = Scanned(input')
    OBVIOUS
  <2> QED
    BY <2>1, <2>2, <2>3 DEF ScanKept
<1>2. ASSUME NEW c, NEW first, NEW end, Populate(c, first, end)
      PROVE  ScanKept'
  <2>1. input' = input /\ scan' = scan /\ status = "loaded"
    BY <1>2 DEF Populate
  <2> QED
    BY <2>1 DEF ScanKept
<1>3. ASSUME NEW c, Destroy(c)
      PROVE  ScanKept'
  BY <1>3 DEF Destroy, ScanKept
<1>4. CASE UNCHANGED vars
  BY <1>4 DEF vars, ScanKept
<1> QED
  BY <1>1, <1>2, <1>3, <1>4 DEF Next

(* No character of any file is written beyond the memory of the buffer, for  *)
(* any number of bytes a character takes and any initial size of two or more *)
(* (tokenizer_token_buffer_append).                                          *)
THEOREM SpecBufferFits == Spec => []BufferFits
<1>1. Init => ScanKept
  BY DEF Init, ScanKept
<1>2. ScanKept => BufferFits
  BY ScannedOk DEF ScanKept, BufferFits, ScanOk, Fits
<1> QED
  BY <1>1, <1>2, ScanKeptStep, PTL DEF Spec
=============================================================================
