------------------------------ MODULE CsvToken ------------------------------
(***************************************************************************)
(* What a token is taken for and what it is converted to,                   *)
(* ufovectors/src/csv/token.c. Texts are sequences of the symbols of        *)
(* CsvTokenizer; "1" and "2" stand for digits, "d" for a decimal number,    *)
(* "big" for an integer that does not fit a long, "T" and "F" for R's       *)
(* spellings of the truth values, "NA" for the two letters.                 *)
(***************************************************************************)
EXTENDS CsvTokenizer

IsBlankString(s) == \A i \in DOMAIN s : IsSpace(s[i])

TrimStart(s) ==
    IF IsBlankString(s) THEN <<>>
    ELSE SubSeq(s, SelectInSeq(s, LAMBDA c : ~IsSpace(c)), Len(s))

Digits(s) == s # <<>> /\ \A i \in DOMAIN s : s[i] \in {"1", "2"}

(* strtol read the whole text, and errno did not already hold ERANGE: it is  *)
(* not cleared before the call, so one overflow spoils the tests after it.   *)
DeduceInteger(s, erange) == Digits(TrimStart(s)) /\ ~erange

(* R_strtod reads a number or NA; white space may follow, or be all there is.*)
DeduceNumeric(s) ==
    LET core == TrimEnd(TrimStart(s)) IN
    core = <<>> \/ Digits(core) \/ core \in {<<"d">>, <<"big">>, <<"NA">>}

DeduceType(s, erange) ==
    IF s = <<>> THEN "EMPTY"
    ELSE IF s = <<"NA">> THEN "NA"
    ELSE IF s \in {<<"T">>, <<"F">>} THEN "BOOLEAN"
    ELSE IF DeduceInteger(s, erange) THEN "INTEGER"
    ELSE IF DeduceNumeric(s) THEN "DOUBLE"
    ELSE "STRING"

(* errno after the tests of a token: strtol reports a number out of range.   *)
ErangeAfter(s, erange) ==
    erange \/ (~IsBlankString(s) /\ Head(TrimStart(s)) = "big")

-----------------------------------------------------------------------------
(* The element a token becomes, by the type of its column: a sequence of     *)
(* symbols, NaValue for R's missing values.                                  *)
NaValue == <<"missing">>

ToLogical(s) == IF s \in {<<"T">>, <<"F">>} THEN s ELSE NaValue

(* strtol stops where the number ends and says 0 when there is none; only a  *)
(* text of white space is missing, NA is not.                                *)
LeadingDigits(s) ==
    IF s = <<>> \/ Digits(s) THEN s
    ELSE SubSeq(s, 1, SelectInSeq(s, LAMBDA c : c \notin {"1", "2"}) - 1)

ToInteger(s) ==
    LET core == TrimStart(s) IN
    IF core = <<>> \/ Head(core) = "big" THEN NaValue
    ELSE IF LeadingDigits(core) = <<>> THEN <<"0">>
    ELSE LeadingDigits(core)

ToNumeric(s) ==
    LET core == TrimEnd(TrimStart(s)) IN
    IF DeduceNumeric(s) /\ core \notin {<<>>, <<"NA">>} THEN core ELSE NaValue

(* The branches of load_column_from_csv. Strings are taken as they are, NA   *)
(* and the empty text included.                                              *)
Convert(s, type) ==
    CASE type = "BOOLEAN"                      -> ToLogical(s)
      [] type = "INTEGER"                      -> ToInteger(s)
      [] type = "DOUBLE"                       -> ToNumeric(s)
      [] type \in {"INTERNED", "FREE"}         -> s
      [] OTHER                                 -> NaValue
=============================================================================
