----------------------------- MODULE Subscripts -----------------------------
(***************************************************************************)
(* ufo_subscript of ufo_operators.c: from a vector and a subscript of any   *)
(* type to a vector of indices, which count from 1, with NA where nothing   *)
(* is. The outcome holds the indices and their type, INT or REAL.           *)
(***************************************************************************)
EXTENDS Rash

CONSTANTS
    ShortMax,       \* R_SHORT_LEN_MAX: longer index vectors hold doubles
    LongLength,     \* 1000 in string_subscript
    LoopCost        \* 15 there

ASSUME ShortMaxAssumption == {ShortMax, LongLength, LoopCost} \subseteq Nat

Kept(subscript) == Cardinality({i \in DOMAIN subscript : subscript[i] # FALSE_})

Positions(n) == [i \in 1..n |-> i]

(* The loop that appends the elements of a set to a result.                  *)
Chosen(seq, set) ==
    FoldLeft(LAMBDA kept, e : IF e \in set THEN Append(kept, e) ELSE kept, <<>>, seq)

IndexType(length) == IF length > ShortMax THEN "REAL" ELSE "INT"

Indices(type, seq) == Ok([type |-> type, elems |-> seq])

(* A new ufo with these elements. One without elements has no chunks, and    *)
(* the core looks for ever for a number coprime to zero.                     *)
NewIndices(type, seq) == IF seq = <<>> THEN Hung ELSE Indices(type, seq)

-----------------------------------------------------------------------------
WholeTimesLength(n, subscript) ==
    IF n <= Len(subscript) THEN Kept(subscript) ELSE (n \div Len(subscript)) * Kept(subscript)

(* logical_subscript_length.                                                 *)
LogicalLength(n, subscript) ==
    LET length == Len(subscript)
    IN IF n <= length THEN Kept(subscript)
       ELSE (n \div length) * Kept(subscript) + Kept(SubSeq(subscript, 1, n % length))

(* The loop of logical_subscript, then its padding with NA: it would write   *)
(* past the result if the length above were too small.                       *)
LogicalSubscript(n, subscript) ==
    IF subscript = <<>> THEN Indices("INT", <<>>) ELSE
    LET length == LogicalLength(n, subscript)
        kept == Chosen(Positions(n), {i \in 1..n : Recycled(subscript, i - 1) # FALSE_})
        index(i) == IF Recycled(subscript, i - 1) = NA THEN NA ELSE i
    IN IF Len(kept) > length THEN Undefined ELSE
       NewIndices(IndexType(length),
                  [k \in 1..length |-> IF k <= Len(kept) THEN index(kept[k]) ELSE NA])

-----------------------------------------------------------------------------
(* integer_subscript_stats and real_subscript_stats, in halves. The doubles  *)
(* in [0, 1) are counted together with the zeros and then ignored.           *)
Nas(s) == Cardinality({i \in DOMAIN s : s[i] = NA})
Negatives(s) == Cardinality({i \in DOMAIN s : s[i] # NA /\ s[i] < 0})
Positives(s) == Cardinality({i \in DOMAIN s : s[i] # NA /\ s[i] >= 2})

Mixed(s) == Negatives(s) > 0 /\ Nas(s) + Positives(s) > 0

(* positive_integer_subscript and positive_real_subscript.                   *)
PositiveSubscript(n, subscript) ==
    LET kept == Chosen(subscript, {v \in ToSet(subscript) : v = NA \/ v >= 2})
        index(v) == IF v = NA \/ Truncate(v) > 2 * n THEN NA ELSE v \div 2
    IN NewIndices(IndexType(Len(kept)), [k \in DOMAIN kept |-> index(kept[k])])

(* The element of the bitmap that a value excludes, counting from 0.         *)
Excluded(v) == Truncate(-v - 2) \div 2

(* negative_integer_subscript and negative_real_subscript. A double in (0, 1)*)
(* among negative ones is written before the start of the bitmap.            *)
NegativeSubscript(n, subscript) ==
    LET written == {Excluded(v) : v \in {w \in ToSet(subscript) :
                                            w \notin {0, NA} /\ -w <= 2 * n}}
    IN IF \E e \in written : e < 0 THEN Undefined ELSE
       LogicalSubscript(n, [i \in 1..n |-> IF i - 1 \in written THEN FALSE_ ELSE TRUE_])

(* integer_subscript and real_subscript.                                     *)
NumberSubscript(n, subscript) ==
    IF Nas(subscript) + Positives(subscript) + Negatives(subscript) = 0
    THEN Indices("INT", <<>>)
    ELSE IF Mixed(subscript) THEN Failed
    ELSE IF Negatives(subscript) > 0 THEN NegativeSubscript(n, subscript)
    ELSE PositiveSubscript(n, subscript)

-----------------------------------------------------------------------------
(* NonNullStringMatch of R (external): neither NA nor the empty string.      *)
NonNullMatch(a, b) ==
    /\ NA \notin {a, b}
    /\ Blank \notin {a.text, b.text}
    /\ StringsAreEqual(a, b)

FirstMatch(names, string) ==
    LET found == {i \in DOMAIN names : NonNullMatch(string, names[i])}
    IN IF found = {} THEN NA ELSE CHOOSE i \in found : \A j \in found : i <= j

LoopedStringSubscript(names, subscript) ==
    NewIndices("INT", [k \in DOMAIN subscript |-> FirstMatch(names, subscript[k])])

HashStringSubscript(names, subscript) ==
    NewIndices("REAL", MemberIndices(names, subscript))

NullStringSubscript(subscript) ==
    NewIndices("INT", [k \in DOMAIN subscript |-> NA])

UseHashing(n, length) ==
    \/ length > LongLength /\ n > 0
    \/ n > LongLength /\ length > 0
    \/ length * n > LoopCost * n + length

(* A vector without names has the names <<>>.                                *)
StringSubscript(vector, subscript) ==
    IF vector.names = <<>> THEN NullStringSubscript(subscript)
    ELSE IF UseHashing(Len(vector.elems), Len(subscript))
         THEN HashStringSubscript(vector.names, subscript)
         ELSE LoopedStringSubscript(vector.names, subscript)

-----------------------------------------------------------------------------
Subscript(vector, s) ==
    CASE s.type = "NULL"            -> Indices("INT", <<>>)
      [] s.type = "LGL"             -> LogicalSubscript(Len(vector.elems), s.elems)
      [] s.type \in {"INT", "REAL"} -> NumberSubscript(Len(vector.elems), s.elems)
      [] s.type = "STR"             -> StringSubscript(vector, s.elems)
      [] OTHER                      -> Failed
=============================================================================
