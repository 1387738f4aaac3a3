--------------------------- MODULE VectorSources ----------------------------
(***************************************************************************)
(* What the elements of a vector come from: a binary file, an arithmetic    *)
(* sequence, or nothing (an empty vector, full of one value). A file is a   *)
(* sequence of units; an element of a type takes ElementSize units.         *)
(*                                                                         *)
(* C arithmetic: an int times a size_t is a size_t, so a term of a sequence *)
(* is computed modulo Word. Stored to an int it is the number again; stored *)
(* to a double a negative number has become a large one.                    *)
(***************************************************************************)
EXTENDS Integers, Sequences, FiniteSets

CONSTANTS
    Paths,          \* the files
    ElementSize,    \* [types -> units]
    Scalarised,     \* the types of which R makes scalars without the allocator
    Word            \* the modulus of size_t

Types == DOMAIN ElementSize

ASSUME SizesAssumption == \A t \in Types : ElementSize[t] \in Nat \ {0}
ASSUME WordAssumption == Word \in Nat \ {0}

VARIABLE disk       \* [Paths -> Seq(unit)]

Garbage == -1       \* memory nobody wrote, as an element

FileSource(p) == [kind |-> "file", path |-> p]
SeqSource(from, to, by) == [kind |-> "seq", from |-> from, to |-> to, by |-> by]
EmptySource(fill) == [kind |-> "empty", fill |-> fill]

-----------------------------------------------------------------------------
(* An element of a vector is the sequence of its units.                      *)
FromFile(p, type, first, end) ==
    [i \in 1..(end - first) |->
        SubSeq(disk[p], ElementSize[type] * (first + i - 1) + 1, ElementSize[type] * (first + i))]

UnitsIn(elements, size) ==
    [u \in 1..(Len(elements) * size) |-> elements[((u - 1) \div size) + 1][((u - 1) % size) + 1]]

(* __get_vector_length_from_file_or_die.                                     *)
WholeElements(p, type) == Len(disk[p]) % ElementSize[type] = 0
FileLength(p, type) == Len(disk[p]) \div ElementSize[type]

(* __load_from_file when nothing comes between its calls: 0 and the elements *)
(* first..end-1, or the status of the test that failed and no elements.      *)
LoadStatus(p, type, first, end) ==
    IF ElementSize[type] * first > Len(disk[p]) THEN 42
    ELSE IF ElementSize[type] * end > Len(disk[p]) THEN 43
    ELSE IF first = end THEN 44
    ELSE 0

-----------------------------------------------------------------------------
(* Division of C: towards zero.                                              *)
Quotient(a, b) ==
    LET abs(n) == IF n < 0 THEN -n ELSE n
        q == abs(a) \div abs(b)
    IN IF (a < 0) = (b < 0) THEN q ELSE -q

SeqLength(s) == Quotient(s.to - s.from, s.by) + 1

Term(s, i) == s.from + s.by * i

(* from, to and by are ints, by is not 0 (the length divides by it), and the *)
(* terms are numbers an int can hold.                                        *)
IntSequence(s) ==
    /\ {s.from, s.to, s.by} \subseteq Int /\ s.by # 0
    /\ \A i \in 0..(SeqLength(s) - 1) : -Word <= 2 * Term(s, i) /\ 2 * Term(s, i) < Word

IntOf(n) == LET m == n % Word IN IF 2 * m >= Word THEN m - Word ELSE m
DoubleOf(n) == n % Word

(* populate_integer_seq and populate_double_seq, of both packages.           *)
SeqTerms(s, type, first, end) ==
    [i \in 1..(end - first) |->
        <<IF type = "REAL" THEN DoubleOf(Term(s, first + i - 1)) ELSE IntOf(Term(s, first + i - 1))>>]

(* __populate_empty. A complex NA goes through a variable of an integer type *)
(* and is no NA any more.                                                    *)
NaFill == -2
MinInt == -3

EmptyValues(s, type, first, end) ==
    LET value ==
          IF s.fill # "na" THEN 0 ELSE IF type = "CPLX" THEN MinInt ELSE NaFill
    IN [i \in 1..(end - first) |-> [u \in 1..ElementSize[type] |-> value]]
=============================================================================
