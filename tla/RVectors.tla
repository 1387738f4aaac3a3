------------------------------ MODULE RVectors ------------------------------
(***************************************************************************)
(* R's atomic vectors as the operators of ufovectors see them, and the      *)
(* element conversions of ufo_coerce.c. A vector is [type, elems, names].   *)
(* Numbers are counted in halves, so that a double can lie between two      *)
(* integers: 3 is 1.5. LGL, INT and REAL elements are numbers or NA, a CPLX *)
(* element is a pair of them, a RAW element a byte below 5, a STR element   *)
(* NA or [text, enc]: what it spells and the encoding it is marked with.    *)
(***************************************************************************)
EXTENDS Integers, Sequences, FiniteSets, SequencesExt

CONSTANTS
    NA,         \* the missing value of every type but RAW
    IntMax      \* the largest int, a whole number

ASSUME IntMaxAssumption == IntMax \in Nat \ {0}

Types == {"NULL", "RAW", "LGL", "INT", "REAL", "CPLX", "STR"}

(* The order in which an assignment of R widens a vector (external).         *)
Rank == [NULL |-> 0, RAW |-> 1, LGL |-> 2, INT |-> 3, REAL |-> 4, CPLX |-> 5, STR |-> 6]

TRUE_ == 2          \* the logicals, in halves
FALSE_ == 0

Recycled(seq, i) == seq[(i % Len(seq)) + 1]

Ok(value) == [status |-> "ok", value |-> value]
Failed == [status |-> "error"]          \* Rf_error: back to the prompt
Undefined == [status |-> "undefined"]   \* x % 0, or an access outside the vector
Hung == [status |-> "hung"]             \* a ufo without elements is never made

(* safely_get_<type> and safely_set_<type>, by an index from 0: their test   *)
(* lets the index pass that is one too large, and every negative one.        *)
Outside(elems, i) == IF i > Len(elems) THEN Failed ELSE Undefined

SafelyGet(elems, i) == IF i + 1 \in DOMAIN elems THEN Ok(elems[i + 1]) ELSE Outside(elems, i)

SafelySet(elems, i, value) ==
    IF i + 1 \in DOMAIN elems THEN Ok([elems EXCEPT ![i + 1] = value]) ELSE Outside(elems, i)

-----------------------------------------------------------------------------
(* What a string can spell.                                                  *)
Spelled(n) == [spells |-> "number", n |-> n]
SpelledPair(c) == [spells |-> "complex", c |-> c]
SpelledByte(b) == [spells |-> "byte", n |-> 2 * b]
Word(w) == [spells |-> "word", w |-> w]
Blank == Word("")

String(text) == [text |-> text, enc |-> "ascii"]

Texts ==
    [spells : {"number", "byte"}, n : Int] \cup [spells : {"complex"}, c : Int \X Int]
    \cup [spells : {"word"}, w : STRING] \cup {Word("TRUE"), Word("FALSE")}
Strings == [text : Texts, enc : {"ascii", "utf8", "latin1"}]

(* No number and no string is the missing value.                             *)
ASSUME NaAssumption == NA \notin Int /\ NA \notin Strings

(* The elements a vector of a type can have.                                 *)
ElementsOf(type) ==
    CASE type = "LGL"  -> {TRUE_, FALSE_, NA}
      [] type = "INT"  -> {2 * i : i \in -IntMax..IntMax} \cup {NA}
      [] type = "REAL" -> Int \cup {NA}
      [] type = "CPLX" -> (Int \cup {NA}) \X (Int \cup {NA})
      [] type = "RAW"  -> Nat
      [] type = "STR"  -> Strings \cup {NA}
      [] OTHER         -> {}

TypedElements(v) == v.type \in Types /\ v.elems \in Seq(ElementsOf(v.type))

Truncate(n) == IF n >= 0 THEN 2 * (n \div 2) ELSE -2 * ((-n) \div 2)

InIntRange(n) == n < 2 * (IntMax + 1) /\ n > -2 * (IntMax + 1)

(* R_strtod over a whole string: its number, or NA when something follows it.*)
NumberIn(s) ==
    IF s # NA /\ s.text.spells \in {"number", "byte"} THEN s.text.n ELSE NA

-----------------------------------------------------------------------------
(* ufo_coerce.c: element_as_<type>, by the type of the source.               *)
IntegerFrom(n) == IF n = NA \/ ~InIntRange(n) THEN NA ELSE Truncate(n)

AsInteger(from, v) ==
    CASE from = "CPLX" -> IF NA \in {v[1], v[2]} THEN NA ELSE IntegerFrom(v[1])
      [] from = "STR"  -> IntegerFrom(NumberIn(v))
      [] OTHER         -> IntegerFrom(v)

AsReal(from, v) ==
    CASE from = "CPLX" -> IF NA \in {v[1], v[2]} THEN NA ELSE v[1]
      [] from = "STR"  -> NumberIn(v)
      [] OTHER         -> v

(* string_as_complex looks for blanks where the imaginary part still stands, *)
(* so no string with an imaginary part is a complex number.                  *)
AsComplex(from, v) ==
    CASE from = "CPLX" -> v
      [] from = "REAL" -> <<v, 0>>
      [] from = "STR"  -> IF NumberIn(v) = NA THEN <<NA, NA>> ELSE <<NumberIn(v), 0>>
      [] OTHER         -> IF v = NA THEN <<NA, NA>> ELSE <<v, 0>>

LogicalFrom(n) == IF n = NA THEN NA ELSE IF n = 0 THEN FALSE_ ELSE TRUE_

AsLogical(from, v) ==
    CASE from = "CPLX" -> IF NA \in {v[1], v[2]} THEN NA ELSE
                          IF v = <<0, 0>> THEN FALSE_ ELSE TRUE_
      [] from = "STR"  -> IF v = NA \/ v.text \notin {Word("TRUE"), Word("FALSE")} THEN NA
                          ELSE IF v.text = Word("TRUE") THEN TRUE_ ELSE FALSE_
      [] OTHER         -> LogicalFrom(v)

AsString(from, v) ==
    CASE from = "STR"  -> v
      [] from = "RAW"  -> String(SpelledByte(v))
      [] from = "CPLX" -> IF NA \in {v[1], v[2]} THEN NA ELSE String(SpelledPair(v))
      [] from = "LGL"  -> IF v = NA THEN NA ELSE String(Word(IF v = TRUE_ THEN "TRUE" ELSE "FALSE"))
      [] OTHER         -> IF v = NA THEN NA ELSE String(Spelled(v))

(* Whether element_as_<to> takes a source of type from, or ends in Rf_error. *)
Coercible(to, from) == to = from \/ to = "STR" \/ "RAW" \notin {to, from}

ElementAs(to, from, v) ==
    CASE to = "INT"  -> IF from = "INT" THEN v ELSE AsInteger(from, v)
      [] to = "REAL" -> AsReal(from, v)
      [] to = "CPLX" -> AsComplex(from, v)
      [] to = "LGL"  -> AsLogical(from, v)
      [] to = "STR"  -> AsString(from, v)
      [] to = "RAW"  -> v

(* The element at an NA index: RAW has no NA.                                *)
NaOf(type) == CASE type = "RAW" -> 0 [] type = "CPLX" -> <<NA, NA>> [] OTHER -> NA
=============================================================================
