----------------------- MODULE VectorOperators_proofs -----------------------
(* Proofs about a session: names are found, subsets and assignments are R's, *)
(* and so are the operators that are computed chunk by chunk, for vectors,   *)
(* subscripts, values and operands of any length and chunks of any size.     *)
EXTENDS VectorOperators, SequenceTheorems, FiniteSetTheorems, WellFoundedInduction, TLAPS

(* Induction over the natural numbers, from the fact that < is well founded  *)
(* on them.                                                                  *)
Less == {p \in Nat \X Nat : p[1] < p[2]}

(* Every set of natural numbers has a least one,                             *)
LEMMA LeastElement ==
  ASSUME NEW S \in SUBSET Nat, S # {}
  PROVE  \E n \in S : \A m \in S : n <= m
<1>1. IsWellFoundedOn(Less, Nat)
  BY NatLessThanWellFounded DEF OpToRel, Less
<1>2. PICK n \in S : \A m \in S : <<m, n>> \notin Less
  BY <1>1, WFMin, Zenon
<1>3. \A m \in S : ~(m < n)
  BY <1>2 DEF Less
<1> QED
  BY <1>3

(* so a set that has 0 and every successor has them all.                     *)
LEMMA SetInduction ==
  ASSUME NEW S, 0 \in S, \A n \in Nat : n \in S => n + 1 \in S
  PROVE  Nat \subseteq S
<1> SUFFICES ASSUME NEW k \in Nat, k \notin S PROVE FALSE
  OBVIOUS
<1> DEFINE T == {n \in Nat : n \notin S}
<1>1. PICK n \in T : \A m \in T : n <= m
  BY LeastElement, T # {}
<1>2. n # 0 /\ n - 1 \in Nat /\ n - 1 \notin T
  BY <1>1
<1> QED
  BY <1>2

(* The same up to a number.                                                  *)
LEMMA UptoInduction ==
  ASSUME NEW n \in Nat, NEW S, 0 \in S, \A k \in 0..(n - 1) : k \in S => k + 1 \in S
  PROVE  0..n \subseteq S
<1> DEFINE T == {k \in Nat : k <= n => k \in S}
<1>1. 0 \in T
  OBVIOUS
<1>2. ASSUME NEW k \in Nat, k \in T PROVE k + 1 \in T
  BY <1>2
<1>3. Nat \subseteq T
  <2> HIDE DEF T
  <2> QED
    BY <1>1, <1>2, SetInduction
<1> QED
  BY <1>3

(* The greatest of some indices.                                             *)
LEMMA MaxIs ==
  ASSUME NEW s \in SUBSET Int, NEW m \in s, \A y \in s : m >= y
  PROVE  Max(s) = m
<1>1. \A x \in s : (\A y \in s : x >= y) => x = m
  OBVIOUS
<1>2. Max(s) \in s /\ \A y \in s : Max(s) >= y
  BY DEF Max
<1> QED
  BY <1>1, <1>2

(* It is the last index where that is in the set,                            *)
LEMMA LastIndex ==
  ASSUME NEW k \in Nat, NEW s \in SUBSET (1..(k + 1)), k + 1 \in s
  PROVE  Max(s) = k + 1
<1>1. s \in SUBSET Int /\ \A y \in s : k + 1 >= y
  OBVIOUS
<1> QED
  BY <1>1, MaxIs

(* and the end of an initial segment.                                        *)
LEMMA LastOfUpto ==
  ASSUME NEW n \in Nat, NEW k \in 1..n
  PROVE  Max(1..k) = k
<1>1. 1..k \in SUBSET Int /\ k \in 1..k /\ \A y \in 1..k : k >= y
  OBVIOUS
<1> QED
  BY <1>1, MaxIs

(* Without the last index a set is one of the indices before it.             *)
LEMMA SmallerIndices ==
  ASSUME NEW k \in Nat, NEW s \in SUBSET (1..(k + 1)), k + 1 \notin s, NEW m
  PROVE  s \in SUBSET (1..k) /\ s \ {m} \in SUBSET (1..(k + 1)) /\ k + 1 \notin s \ {m}
<1>1. \A y \in s : y \in 1..k
  OBVIOUS
<1> QED
  BY <1>1

(* Initial segments of the indices, and how one comes from the one before.   *)
LEMMA IndicesUpto ==
  ASSUME NEW n \in Nat, NEW k \in 1..n
  PROVE  /\ 1..k \in SUBSET (1..n) /\ 1..k # {} /\ (1..k) \ {k} = 1..(k - 1)
         /\ k \in 0..n /\ k - 1 \in 0..n
<1>1. \A y \in 1..k : y \in 1..n
  OBVIOUS
<1>2. \A y : y \in (1..k) \ {k} <=> y \in 1..(k - 1)
  OBVIOUS
<1>3. k \in 1..k /\ k \in 0..n /\ k - 1 \in 0..n
  OBVIOUS
<1> QED
  BY <1>1, <1>2, <1>3

(* A set of indices has a greatest one.                                      *)
LEMMA MaxUpto ==
  ASSUME NEW n \in Nat, NEW s \in SUBSET (1..n), s # {}
  PROVE  Max(s) \in s
<1> DEFINE S == {n - y : y \in s}
<1>1. S \in SUBSET Nat /\ S # {}
  <2>1. \A y \in s : y \in 1..n /\ n - y \in Nat
    OBVIOUS
  <2> QED
    BY <2>1
<1>2. PICK y \in s : \A z \in s : n - y <= n - z
  <2>1. PICK m \in S : \A k \in S : m <= k
    BY <1>1, LeastElement
  <2> QED
    BY <2>1
<1>3. \A z \in s : y >= z
  BY <1>2
<1>4. Max(s) = y
  BY <1>3, MaxIs
<1> QED
  BY <1>4

(* A fold exists: for a step, given as a function from a state and an        *)
(* element to a state, there is what the definition of a fold asks for.      *)
Folded(h, turn, seq, base, k) ==
    \A s \in SUBSET (1..k) : h[s] = IF s = {} THEN base ELSE turn[<<h[s \ {Max(s)}], seq[Max(s)]>>]

IsFold(h, turn, seq, base, n, States, Elems) ==
    /\ Folded(h, turn, seq, base, n)
    /\ h \in [SUBSET (1..n) -> States]
    /\ \A s \in SUBSET (1..n) : s # {} => h[s \ {Max(s)}] \in States /\ seq[Max(s)] \in Elems

(* There is one for every sequence, by induction on its length.              *)
LEMMA FoldExists ==
  ASSUME NEW n \in Nat, NEW States, NEW Elems, NEW turn \in [States \X Elems -> States],
         NEW seq, \A k \in 1..n : seq[k] \in Elems, NEW base \in States
  PROVE  \E h : IsFold(h, turn, seq, base, n, States, Elems)
<1> DEFINE Solves(h, k) == h \in [SUBSET (1..k) -> States] /\ Folded(h, turn, seq, base, k)
           S == {k \in 0..n : \E h : Solves(h, k)}
<1>1. 0 \in S
  <2>1. Solves([s \in SUBSET (1..0) |-> base], 0)
    BY DEF Folded
  <2> QED
    BY <2>1
<1>2. ASSUME NEW k \in 0..(n - 1), k \in S PROVE k + 1 \in S
  <2>1. PICK h : Solves(h, k)
    BY <1>2
  <2>a. k \in Nat /\ k + 1 \in 1..n /\ seq[k + 1] \in Elems
    OBVIOUS
  <2> DEFINE g == [s \in SUBSET (1..(k + 1)) |->
                     IF k + 1 \in s THEN turn[<<h[s \ {k + 1}], seq[k + 1]>>] ELSE h[s]]
  <2>0. ASSUME NEW s \in SUBSET (1..(k + 1)) PROVE s \ {k + 1} \in SUBSET (1..k)
    <3>1. k + 1 \notin s \ {k + 1} /\ s \ {k + 1} \in SUBSET (1..(k + 1))
      OBVIOUS
    <3> QED
      BY <2>a, <3>1, SmallerIndices
  <2>2. ASSUME NEW s \in SUBSET (1..(k + 1)), k + 1 \in s
        PROVE  g[s] = IF s = {} THEN base ELSE turn[<<g[s \ {Max(s)}], seq[Max(s)]>>]
    <3>1. Max(s) = k + 1
      BY <2>2, <2>a, LastIndex
    <3>2. g[s \ {k + 1}] = h[s \ {k + 1}]
      BY <2>2
    <3> QED
      BY <2>2, <3>1, <3>2
  <2>3. ASSUME NEW s \in SUBSET (1..(k + 1)), k + 1 \notin s
        PROVE  g[s] = IF s = {} THEN base ELSE turn[<<g[s \ {Max(s)}], seq[Max(s)]>>]
    <3>1. s \in SUBSET (1..k) /\ s \ {Max(s)} \in SUBSET (1..(k + 1)) /\ k + 1 \notin s \ {Max(s)}
      BY <2>3, <2>a, SmallerIndices
    <3>2. g[s] = h[s] /\ g[s \ {Max(s)}] = h[s \ {Max(s)}]
      BY <2>3, <3>1
    <3>3. h[s] = IF s = {} THEN base ELSE turn[<<h[s \ {Max(s)}], seq[Max(s)]>>]
      BY <2>1, <3>1 DEF Folded
    <3> QED
      BY <3>2, <3>3
  <2>4. Folded(g, turn, seq, base, k + 1)
    <3> HIDE DEF g
    <3> QED
      BY <2>2, <2>3 DEF Folded
  <2>5. g \in [SUBSET (1..(k + 1)) -> States]
    <3>1. ASSUME NEW s \in SUBSET (1..(k + 1)) PROVE g[s] \in States
      <4>1. CASE k + 1 \in s
        <5>1. h[s \ {k + 1}] \in States
          BY <2>0, <2>1
        <5> QED
          BY <2>a, <4>1, <5>1
      <4>2. CASE k + 1 \notin s
        <5>1. s \in SUBSET (1..k)
          BY <2>a, <4>2, SmallerIndices
        <5> QED
          BY <2>1, <4>2, <5>1
      <4> QED
        BY <4>1, <4>2
    <3> QED
      BY <3>1
  <2>6. \E f : Solves(f, k + 1)
    BY <2>4, <2>5
  <2> HIDE DEF Solves
  <2> QED
    BY <1>2, <2>6
<1>3. n \in S
  <2> HIDE DEF S
  <2> QED
    BY <1>1, <1>2, UptoInduction
<1>4. PICK h : Solves(h, n)
  BY <1>3
<1>5. ASSUME NEW s \in SUBSET (1..n), s # {}
      PROVE  h[s \ {Max(s)}] \in States /\ seq[Max(s)] \in Elems
  <2>1. Max(s) \in 1..n /\ s \ {Max(s)} \in SUBSET (1..n)
    BY <1>5, MaxUpto
  <2> QED
    BY <1>4, <2>1
<1> QED
  BY <1>4, <1>5 DEF IsFold

(* x is what there is after every turn of the loop that doubles the length   *)
(* of a table, of the loop that fills it, and of the one that chooses.       *)
DoubledTurns(x, n) ==
    x[0] = 2 /\ (\A k \in 1..n : x[k] = Doubled(x[k - 1], n)) /\ TableLength(n) = x[n]
AddTurns(x, table, origin, n) ==
    /\ x[0] = table
    /\ \A k \in 1..n : x[k] = Add(x[k - 1], origin, k - 1)
    /\ AddAll(table, origin) = x[n]

(* the doubling of a length,                                                 *)
LEMMA DoubledSteps ==
  ASSUME NEW n \in Nat
  PROVE  \E x : DoubledTurns(x, n)
<1> DEFINE seq == [turn \in 1..n |-> turn]
           Turn(size, turn) == Doubled(size, n)
           Solves(h) == h = [s \in SUBSET (1..n) |->
                     IF s = {} THEN 2 ELSE Turn(h[s \ {Max(s)}], seq[Max(s)])]
           iter == CHOOSE h : Solves(h)
           x == [k \in 0..n |-> iter[1..k]]
<1>1. TableLength(n) = iter[1..n]
  BY DEF TableLength, FoldLeft, MapThenFoldSet
<1>2. Solves(iter)
  <2> DEFINE turn == [p \in Nat \X Nat |-> Turn(p[1], p[2])]
  <2>1. turn \in [Nat \X Nat -> Nat]
    BY DEF Doubled
  <2>2. \A k \in 1..n : seq[k] \in Nat
    OBVIOUS
  <2>3. \A a, b \in Nat : turn[<<a, b>>] = Turn(a, b)
    OBVIOUS
  <2> HIDE DEF Turn, seq, turn
  <2>4. PICK h : IsFold(h, turn, seq, 2, n, Nat, Nat)
    <3>1. 2 \in Nat
      OBVIOUS
    <3> QED
      BY <2>1, <2>2, <3>1, FoldExists
  <2>5. Solves(h)
    BY <2>3, <2>4 DEF Folded, IsFold
  <2> QED
    BY <2>5
<1> HIDE DEF iter, Turn, seq
<1>3. x[0] = 2 /\ x[n] = iter[1..n]
  <2>1. 1..0 \in SUBSET (1..n) /\ 1..0 = {} /\ 0 \in 0..n /\ n \in 0..n
    OBVIOUS
  <2>2. iter[1..0] = 2
    <3> HIDE DEF x
    <3> QED
      BY <1>2, <2>1
  <2> HIDE DEF Solves
  <2> QED
    BY <2>1, <2>2
<1>4. ASSUME NEW k \in 1..n PROVE x[k] = Turn(x[k - 1], seq[k])
  <2>1. /\ 1..k \in SUBSET (1..n) /\ 1..k # {} /\ (1..k) \ {k} = 1..(k - 1)
        /\ k \in 0..n /\ k - 1 \in 0..n
    BY IndicesUpto
  <2>2. Max(1..k) = k
    BY LastOfUpto
  <2>3. iter[1..k] = Turn(iter[(1..k) \ {Max(1..k)}], seq[Max(1..k)])
    BY <1>2, <2>1
  <2> QED
    BY <2>1, <2>2, <2>3
<1> HIDE DEF x
<1>5. \A k \in 1..n : x[k] = Doubled(x[k - 1], n)
  BY <1>4 DEF Turn
<1> QED
  BY <1>1, <1>3, <1>5 DEF DoubledTurns

(* the filling of a table,                                                   *)
LEMMA AddSteps ==
  ASSUME NEW n \in Nat, NEW origin, origin \in Seq(Strings \cup {NA}), Len(origin) = n,
         NEW m \in Nat, NEW table \in [0..(m - 1) -> Int \cup {NA}]
  PROVE  \E x : AddTurns(x, table, origin, n)
<1> DEFINE seq == [i \in 1..Len(origin) |-> i - 1]
           Turn(t, i) == Add(t, origin, i)
           Tables == [0..(m - 1) -> Int \cup {NA}]
           Solves(h) == h = [s \in SUBSET (1..n) |->
                     IF s = {} THEN table ELSE Turn(h[s \ {Max(s)}], seq[Max(s)])]
           iter == CHOOSE h : Solves(h)
           x == [k \in 0..n |-> iter[1..k]]
<1>1. AddAll(table, origin) = iter[1..n]
  BY DEF AddAll, FoldLeft, MapThenFoldSet
<1>2. Solves(iter)
  <2> DEFINE turn == [p \in Tables \X Int |-> Turn(p[1], p[2])]
  <2>1. turn \in [Tables \X Int -> Tables]
    BY DEF Add
  <2>2. \A k \in 1..n : seq[k] \in Int
    OBVIOUS
  <2>3. \A a \in Tables, b \in Int : turn[<<a, b>>] = Turn(a, b)
    OBVIOUS
  <2> HIDE DEF Turn, seq, turn, Tables
  <2>4. PICK h : IsFold(h, turn, seq, table, n, Tables, Int)
    <3>1. table \in Tables
      BY DEF Tables
    <3> QED
      BY <2>1, <2>2, <3>1, FoldExists
  <2>5. Solves(h)
    BY <2>3, <2>4 DEF Folded, IsFold
  <2> QED
    BY <2>5
<1>a. \A k \in 1..n : seq[k] = k - 1
  OBVIOUS
<1> HIDE DEF iter, Turn, seq
<1>3. x[0] = table /\ x[n] = iter[1..n]
  <2>1. 1..0 \in SUBSET (1..n) /\ 1..0 = {} /\ 0 \in 0..n /\ n \in 0..n
    OBVIOUS
  <2>2. iter[1..0] = table
    <3> HIDE DEF x
    <3> QED
      BY <1>2, <2>1
  <2> HIDE DEF Solves
  <2> QED
    BY <2>1, <2>2
<1>4. ASSUME NEW k \in 1..n PROVE x[k] = Turn(x[k - 1], seq[k])
  <2>1. /\ 1..k \in SUBSET (1..n) /\ 1..k # {} /\ (1..k) \ {k} = 1..(k - 1)
        /\ k \in 0..n /\ k - 1 \in 0..n
    BY IndicesUpto
  <2>2. Max(1..k) = k
    BY LastOfUpto
  <2>3. iter[1..k] = Turn(iter[(1..k) \ {Max(1..k)}], seq[Max(1..k)])
    BY <1>2, <2>1
  <2> QED
    BY <2>1, <2>2, <2>3
<1> HIDE DEF x
<1>5. \A k \in 1..n : x[k] = Add(x[k - 1], origin, k - 1)
  BY <1>a, <1>4 DEF Turn
<1> QED
  BY <1>1, <1>3, <1>5 DEF AddTurns

(* A table is long enough for twice the strings.                             *)
LEMMA TableLengthIs ==
  ASSUME NEW n \in Nat
  PROVE  TableLength(n) \in Nat /\ TableLength(n) >= 2 /\ TableLength(n) >= 2 * n
<1>1. PICK x : DoubledTurns(x, n)
  BY DoubledSteps
<1> DEFINE S == {k \in 0..n : x[k] \in Nat /\ x[k] >= 2 /\ (x[k] >= 2 * n \/ x[k] >= 2 * (k + 1))}
<1>2. 0 \in S
  BY <1>1 DEF DoubledTurns
<1>3. ASSUME NEW k \in 0..(n - 1), k \in S PROVE k + 1 \in S
  <2>1. x[k + 1] = IF x[k] < 2 * n THEN 2 * x[k] ELSE x[k]
    <3>1. k + 1 \in 1..n /\ (k + 1) - 1 = k
      OBVIOUS
    <3> QED
      BY <1>1, <3>1 DEF DoubledTurns, Doubled
  <2> QED
    BY <1>3, <2>1
<1>4. n \in S
  <2> HIDE DEF S
  <2> QED
    BY <1>2, <1>3, UptoInduction
<1> QED
  BY <1>1, <1>4 DEF DoubledTurns

-----------------------------------------------------------------------------
Strs == Strings \cup {NA}

(* Two strings are equal if they are the same or have the same text.         *)
LEMMA EqualIs ==
  ASSUME NEW a \in Strs, NEW b \in Strs
  PROVE  StringsAreEqual(a, b) <=> (a = NA /\ b = NA) \/ SameText(a, b)
<1>1. CASE a = NA \/ b = NA
  BY <1>1 DEF StringsAreEqual, SameText
<1>2. CASE a # NA /\ b # NA
  <2>1. a.text = b.text /\ a.enc = b.enc => a = b
    BY <1>2 DEF Strs, Strings
  <2> QED
    BY <1>2, <2>1 DEF StringsAreEqual, SameText
<1> QED
  BY <1>1, <1>2

(* Equality of strings is an equivalence,                                    *)
LEMMA EqualAgain ==
  ASSUME NEW a \in Strs, NEW b \in Strs, NEW c \in Strs, StringsAreEqual(a, b)
  PROVE  /\ StringsAreEqual(b, a) /\ StringsAreEqual(a, a)
         /\ StringsAreEqual(b, c) <=> StringsAreEqual(a, c)
         /\ StringsAreEqual(c, b) <=> StringsAreEqual(c, a)
  BY EqualIs DEF SameText

(* which hashing respects, when both strings come from vectors that are      *)
(* hashed in the same way.                                                   *)
Plain(s) == s = NA \/ s.enc = "ascii"

(* Equal strings hash alike if both are hashed by their text, or if neither  *)
(* has an encoding other than ASCII.                                         *)
LEMMA EqualHash ==
  ASSUME NEW a \in Strs, NEW b \in Strs, StringsAreEqual(a, b),
         NEW utf8 \in BOOLEAN, ~utf8 => Plain(a) /\ Plain(b), NEW slots
  PROVE  Hash(a, utf8, slots) = Hash(b, utf8, slots)
<1>1. CASE a = NA /\ b = NA
  BY <1>1
<1>2. CASE SameText(a, b)
  <2>1. a # NA /\ b # NA /\ a.text = b.text
    BY <1>2 DEF SameText
  <2>2. ~utf8 => a = b
    BY <2>1 DEF Strs, Strings, Plain
  <2> QED
    BY <2>1, <2>2 DEF Hash
<1> QED
  BY <1>1, <1>2, EqualIs

(* In a vector that needs no UTF-8 all strings are plain.                    *)
LEMMA PlainStrings ==
  ASSUME NEW seq \in Seq(Strs)
  PROVE  UsesUtf8(seq) \in BOOLEAN /\ (~UsesUtf8(seq) => \A i \in DOMAIN seq : Plain(seq[i]))
<1>1. ASSUME ~UsesUtf8(seq), NEW i \in DOMAIN seq PROVE Plain(seq[i])
  <2>1. seq[i] \in Strs
    OBVIOUS
  <2>2. seq[i] # NA => seq[i].enc \notin {"utf8", "latin1"}
    BY <1>1 DEF UsesUtf8
  <2> QED
    BY <2>1, <2>2 DEF Strs, Strings, Plain
<1> QED
  BY <1>1 DEF UsesUtf8

-----------------------------------------------------------------------------
(* The slots on the way from a hash.                                         *)
Way(hash, slots, i) == (hash + i - 1) % slots

(* The i-th slot on the way of a string is where its probe ends.             *)
EndsAt(table, origin, string, utf8, slots, i) ==
    LET hash == Hash(string, utf8, slots)
    IN /\ StopsAt(table, origin, string, Way(hash, slots, i))
       /\ \A j \in 1..(i - 1) : ~StopsAt(table, origin, string, Way(hash, slots, j))

(* The way from a hash stays in the table and comes by every slot.           *)
LEMMA WayReaches ==
  ASSUME NEW m \in Nat \ {0}, NEW hash \in 0..(m - 1)
  PROVE  /\ \A i \in 1..m : Way(hash, m, i) \in 0..(m - 1)
         /\ \A slot \in 0..(m - 1) : \E i \in 1..m : Way(hash, m, i) = slot
<1>1. ASSUME NEW i \in 1..m PROVE Way(hash, m, i) \in 0..(m - 1)
  BY DEF Way
<1>2. ASSUME NEW slot \in 0..(m - 1) PROVE \E i \in 1..m : Way(hash, m, i) = slot
  <2>1. CASE slot >= hash
    <3>1. slot - hash + 1 \in 1..m /\ hash + (slot - hash + 1) - 1 = slot /\ slot % m = slot
      BY <2>1
    <3> QED
      BY <3>1 DEF Way
  <2>2. CASE slot < hash
    <3>1. slot + m - hash + 1 \in 1..m /\ hash + (slot + m - hash + 1) - 1 = slot + m
      BY <2>2
    <3>2. (slot + m) % m = slot
      OBVIOUS
    <3> QED
      BY <3>1, <3>2 DEF Way
  <2> QED
    BY <2>1, <2>2
<1> QED
  BY <1>1, <1>2

(* A table with slots 0 to m - 1 has m slots.                                *)
LEMMA UptoCardinality ==
  ASSUME NEW m \in Nat
  PROVE  IsFiniteSet(0..(m - 1)) /\ Cardinality(0..(m - 1)) = m
<1>1. CASE m = 0
  BY <1>1, FS_Interval
<1>2. CASE m # 0
  BY <1>2, FS_Interval
<1> QED
  BY <1>1, <1>2

(* A probe ends where the way from its hash first stops. Where it never does *)
(* no slot of the table stops it.                                            *)
LEMMA ProbeIs ==
  ASSUME NEW m \in Nat \ {0}, NEW table, DOMAIN table = 0..(m - 1), NEW origin, NEW string,
         NEW utf8, Hash(string, utf8, m) \in 0..(m - 1)
  PROVE  /\ \A i \in 1..m : EndsAt(table, origin, string, utf8, m, i) =>
              Probe(table, origin, string, utf8) = Way(Hash(string, utf8, m), m, i)
         /\ \/ \E i \in 1..m : EndsAt(table, origin, string, utf8, m, i)
            \/ \A slot \in 0..(m - 1) : ~StopsAt(table, origin, string, slot)
<1> DEFINE hash == Hash(string, utf8, m)
           slots == Cardinality(DOMAIN table)
           path == ProbesFrom(Hash(string, utf8, slots), slots)
           stops == {i \in DOMAIN path : StopsAt(table, origin, string, path[i])}
           first == CHOOSE i \in stops : \A j \in stops : i <= j
<1>1. Cardinality(DOMAIN table) = m
  BY UptoCardinality
<1>2. Probe(table, origin, string, utf8) = IF stops = {} THEN -1 ELSE path[first]
  BY DEF Probe
<1>3. DOMAIN path = 1..m /\ \A i \in 1..m : path[i] = Way(hash, m, i)
  BY <1>1 DEF ProbesFrom, Way
<1>4. \A i \in 1..m : i \in stops <=> StopsAt(table, origin, string, Way(hash, m, i))
  BY <1>3
<1>5. stops \in SUBSET (1..m)
  BY <1>3
<1> HIDE DEF stops, path
<1>6. ASSUME NEW i \in 1..m, EndsAt(table, origin, string, utf8, m, i)
      PROVE  Probe(table, origin, string, utf8) = Way(hash, m, i)
  <2>1. i \in stops
    BY <1>4, <1>6 DEF EndsAt
  <2>2. \A j \in 1..(i - 1) : j \notin stops
    BY <1>4, <1>6 DEF EndsAt
  <2>3. \A j \in stops : i <= j
    BY <1>5, <2>2
  <2>4. \A k \in stops : (\A j \in stops : k <= j) => k = i
    BY <1>5, <2>1, <2>3
  <2>5. first = i
    BY <2>1, <2>3, <2>4
  <2> QED
    BY <1>2, <1>3, <2>1, <2>5
<1>7. ASSUME stops # {} PROVE \E i \in 1..m : EndsAt(table, origin, string, utf8, m, i)
  <2>1. stops \in SUBSET Nat
    BY <1>5
  <2>2. PICK i \in stops : \A j \in stops : i <= j
    BY <1>7, <2>1, LeastElement
  <2>3. i \in 1..m /\ \A j \in 1..(i - 1) : j \in 1..m /\ j \notin stops
    BY <1>5, <2>2
  <2> QED
    BY <1>4, <2>2, <2>3 DEF EndsAt
<1>8. ASSUME stops = {}, NEW slot \in 0..(m - 1) PROVE ~StopsAt(table, origin, string, slot)
  <2>1. PICK i \in 1..m : Way(hash, m, i) = slot
    BY WayReaches
  <2> QED
    BY <1>4, <1>8, <2>1
<1> QED
  BY <1>6, <1>7, <1>8

Occupied(t) == {slot \in DOMAIN t : t[slot] # NA}

(* Where the i-th string on a way ends.                                      *)
EndsIn(t, origin, string, m, e) ==
    LET utf8 == UsesUtf8(origin)
    IN /\ EndsAt(t, origin, string, utf8, m, e)
       /\ t[Way(Hash(string, utf8, m), m, e)] # NA

(* A table that holds the first k strings of its origin: an entry is a first *)
(* occurrence, every string leads to an entry that equals it.                *)
TableInv(t, origin, m, k) ==
    /\ t \in [0..(m - 1) -> 0..(k - 1) \cup {NA}]
    /\ \A slot \in 0..(m - 1) : t[slot] # NA =>
          \A j \in 0..(t[slot] - 1) : ~StringsAreEqual(origin[j + 1], origin[t[slot] + 1])
    /\ \A i \in 0..(k - 1) : \E e \in 1..m : EndsIn(t, origin, origin[i + 1], m, e)
    /\ Cardinality(Occupied(t)) <= k

(* What a table is made for.                                                 *)
Origin(origin, m) ==
    /\ origin \in Seq(Strs)
    /\ m \in Nat \ {0} /\ m >= 2 * Len(origin)
    /\ \A i \in 1..Len(origin) : Hash(origin[i], UsesUtf8(origin), m) \in 0..(m - 1)

(* Equal strings take the same way to the same end.                          *)
LEMMA EqualEnds ==
  ASSUME NEW origin \in Seq(Strs), NEW k \in 0..Len(origin), NEW m \in Nat \ {0},
         NEW t \in [0..(m - 1) -> 0..(k - 1) \cup {NA}],
         NEW a \in Strs, NEW b \in Strs, StringsAreEqual(a, b),
         NEW utf8, Hash(a, utf8, m) = Hash(b, utf8, m), Hash(a, utf8, m) \in 0..(m - 1),
         NEW e \in 1..m
  PROVE  EndsAt(t, origin, a, utf8, m, e) <=> EndsAt(t, origin, b, utf8, m, e)
<1>1. ASSUME NEW slot \in 0..(m - 1) PROVE StopsAt(t, origin, a, slot) <=> StopsAt(t, origin, b, slot)
  <2>1. CASE t[slot] = NA
    BY <2>1 DEF StopsAt
  <2>2. CASE t[slot] # NA
    <3>1. t[slot] + 1 \in 1..Len(origin)
      BY <2>2
    <3>2. origin[t[slot] + 1] \in Strs
      BY <3>1
    <3>3. StringsAreEqual(origin[t[slot] + 1], b) <=> StringsAreEqual(origin[t[slot] + 1], a)
      BY <3>2, EqualAgain
    <3> QED
      BY <2>2, <3>3 DEF StopsAt
  <2> QED
    BY <2>1, <2>2
<1>2. \A i \in 1..m : Way(Hash(a, utf8, m), m, i) \in 0..(m - 1)
  BY WayReaches
<1>3. \A j \in 1..(e - 1) : j \in 1..m
  OBVIOUS
<1> QED
  BY <1>1, <1>2, <1>3 DEF EndsAt

(* Equal strings of an origin have one hash.                                 *)
LEMMA OriginHash ==
  ASSUME NEW origin, NEW m, Origin(origin, m), NEW i \in 1..Len(origin), NEW j \in 1..Len(origin),
         StringsAreEqual(origin[i], origin[j])
  PROVE  Hash(origin[i], UsesUtf8(origin), m) = Hash(origin[j], UsesUtf8(origin), m)
<1>1. origin \in Seq(Strs) /\ origin[i] \in Strs /\ origin[j] \in Strs
  BY DEF Origin
<1> QED
  BY <1>1, PlainStrings, EqualHash

(* The empty table.                                                          *)
LEMMA EmptyTable ==
  ASSUME NEW origin, NEW m, Origin(origin, m)
  PROVE  TableInv([slot \in 0..(m - 1) |-> NA], origin, m, 0)
<1> DEFINE t == [slot \in 0..(m - 1) |-> NA]
<1>1. Occupied(t) = {}
  BY DEF Occupied
<1>2. Cardinality({}) = 0
  BY FS_EmptySet
<1>3. m \in Nat /\ 0..(0 - 1) = {}
  BY DEF Origin
<1> HIDE DEF t
<1>4. t \in [0..(m - 1) -> 0..(0 - 1) \cup {NA}] /\ \A slot \in 0..(m - 1) : t[slot] = NA
  BY DEF t
<1>5. \A slot \in 0..(m - 1) : t[slot] # NA =>
        \A j \in 0..(t[slot] - 1) : ~StringsAreEqual(origin[j + 1], origin[t[slot] + 1])
  BY <1>4
<1>6. \A i \in 0..(0 - 1) : \E e \in 1..m : EndsIn(t, origin, origin[i + 1], m, e)
  OBVIOUS
<1>7. Cardinality(Occupied(t)) <= 0
  BY <1>1, <1>2
<1>8. TableInv(t, origin, m, 0)
  BY <1>4, <1>5, <1>6, <1>7 DEF TableInv
<1> QED
  BY <1>8 DEF t

(* Adding the next string.                                                   *)
LEMMA AddKeeps ==
  ASSUME NEW origin, NEW m, Origin(origin, m), NEW k \in 0..(Len(origin) - 1),
         NEW t, TableInv(t, origin, m, k)
  PROVE  TableInv(Add(t, origin, k), origin, m, k + 1)
<1> DEFINE utf8 == UsesUtf8(origin)
           new == origin[k + 1]
           hash(i) == Hash(origin[i + 1], utf8, m)
<1>1. /\ origin \in Seq(Strs) /\ Len(origin) \in Nat /\ k \in Nat /\ m \in Nat \ {0} /\ m > k
      /\ DOMAIN t = 0..(m - 1) /\ k + 1 \in 1..Len(origin) /\ new \in Strs
  BY DEF Origin, TableInv
<1>2. \A i \in 0..k : hash(i) \in 0..(m - 1) /\ i + 1 \in 1..Len(origin) /\ origin[i + 1] \in Strs
  BY <1>1 DEF Origin
<1>3. t \in [0..(m - 1) -> 0..(k - 1) \cup {NA}]
  BY DEF TableInv
<1>4. Occupied(t) \in SUBSET (0..(m - 1)) /\ IsFiniteSet(Occupied(t))
  BY <1>1, UptoCardinality, FS_Subset DEF Occupied
<1>5. \E slot \in 0..(m - 1) : t[slot] = NA
  <2>1. Occupied(t) # 0..(m - 1)
    BY <1>1, UptoCardinality DEF TableInv
  <2> QED
    BY <1>1, <2>1 DEF Occupied
<1>6. PICK e \in 1..m : EndsAt(t, origin, new, utf8, m, e)
  <2>1. \E slot \in 0..(m - 1) : StopsAt(t, origin, new, slot)
    BY <1>5 DEF StopsAt
  <2>2. hash(k) \in 0..(m - 1)
    BY <1>1, <1>2
  <2> QED
    BY <1>1, <2>1, <2>2, ProbeIs
<1> DEFINE slot == Way(hash(k), m, e)
<1>7. slot \in 0..(m - 1) /\ Probe(t, origin, new, utf8) = slot /\ slot # -1
  <2>1. hash(k) \in 0..(m - 1)
    BY <1>1, <1>2
  <2>2. slot \in 0..(m - 1)
    BY <1>1, <2>1, WayReaches
  <2> QED
    BY <1>1, <1>6, <2>1, <2>2, ProbeIs
<1>8. \A i \in 0..(k - 1) : i \in 0..k /\ \E f \in 1..m : EndsIn(t, origin, origin[i + 1], m, f)
  BY DEF TableInv
(* An equal string that is there already is found.                           *)
<1>9. ASSUME NEW i \in 0..(k - 1), StringsAreEqual(origin[i + 1], new)
      PROVE  EndsIn(t, origin, new, m, e)
  <2>1. PICK f \in 1..m : EndsIn(t, origin, origin[i + 1], m, f)
    BY <1>8
  <2>2. hash(i) = hash(k) /\ hash(i) \in 0..(m - 1) /\ origin[i + 1] \in Strs
    BY <1>1, <1>2, <1>9, OriginHash
  <2>3. EndsAt(t, origin, new, utf8, m, f)
    <3>1. /\ k \in 0..Len(origin) /\ EndsAt(t, origin, origin[i + 1], utf8, m, f)
          /\ Hash(origin[i + 1], utf8, m) = Hash(new, utf8, m)
          /\ Hash(origin[i + 1], utf8, m) \in 0..(m - 1)
      BY <1>1, <2>1, <2>2 DEF EndsIn
    <3> HIDE DEF utf8, new
    <3> QED
      BY <1>1, <1>3, <1>9, <2>2, <3>1, EqualEnds
  <2>4. Probe(t, origin, new, utf8) = Way(hash(k), m, f)
    BY <1>1, <2>2, <2>3, ProbeIs
  <2>5. t[slot] # NA
    BY <1>7, <2>1, <2>2, <2>4 DEF EndsIn
  <2> QED
    BY <1>6, <2>5 DEF EndsIn
<1>10. CASE t[slot] # NA
  <2>1. Add(t, origin, k) = t
    BY <1>7, <1>10 DEF Add
  <2>2. EndsIn(t, origin, new, m, e)
    BY <1>6, <1>10 DEF EndsIn
  <2>3. \A i \in 0..k : \E f \in 1..m : EndsIn(t, origin, origin[i + 1], m, f)
    <3>1. \A i \in 0..k : i = k \/ i \in 0..(k - 1)
      BY <1>1
    <3> QED
      BY <1>8, <2>2, <3>1
  <2>4. Cardinality(Occupied(t)) <= k + 1
    BY <1>1, <1>4, FS_CardinalityType DEF TableInv
  <2>5. t \in [0..(m - 1) -> 0..k \cup {NA}]
    BY <1>1, <1>3
  <2>6. (k + 1) - 1 = k
    BY <1>1
  <2> QED
    BY <2>1, <2>3, <2>4, <2>5, <2>6 DEF TableInv
<1>11. CASE t[slot] = NA
  <2> DEFINE g == [t EXCEPT ![slot] = k]
  <2>1. Add(t, origin, k) = g
    BY <1>7, <1>11 DEF Add
  <2> HIDE DEF slot
  <2>2. /\ g \in [0..(m - 1) -> 0..k \cup {NA}] /\ g[slot] = k
        /\ \A s \in 0..(m - 1) : s # slot => g[s] = t[s]
    BY <1>1, <1>3, <1>7
  <2>3. k # NA
    BY <1>1, NaAssumption
  <2> HIDE DEF g
  <2>4. \A j \in 0..(k - 1) : ~StringsAreEqual(origin[j + 1], new)
    BY <1>9, <1>11 DEF EndsIn, slot
  <2>5. ASSUME NEW s \in 0..(m - 1), g[s] # NA
        PROVE  \A j \in 0..(g[s] - 1) : ~StringsAreEqual(origin[j + 1], origin[g[s] + 1])
    <3>1. CASE s = slot
      BY <2>2, <2>4, <3>1
    <3>2. CASE s # slot
      BY <2>2, <2>5, <3>2 DEF TableInv
    <3> QED
      BY <3>1, <3>2
  (* A string that is stopped at an entry is stopped there still.            *)
  <2>6. ASSUME NEW i \in 0..(k - 1) PROVE \E f \in 1..m : EndsIn(g, origin, origin[i + 1], m, f)
    <3>1. PICK f \in 1..m : EndsIn(t, origin, origin[i + 1], m, f)
      BY <1>8
    <3>2. hash(i) \in 0..(m - 1) /\ \A j \in 1..m : Way(hash(i), m, j) \in 0..(m - 1)
      BY <1>1, <1>2, <1>8, WayReaches
    <3>3. Way(hash(i), m, f) # slot
      BY <1>11, <3>1 DEF EndsIn
    <3>4. ASSUME NEW j \in 1..(f - 1) PROVE Way(hash(i), m, j) # slot /\ j \in 1..m
      <4>1. ~StopsAt(t, origin, origin[i + 1], Way(hash(i), m, j))
        BY <3>1 DEF EndsIn, EndsAt
      <4>2. Way(hash(i), m, j) # slot
        BY <1>11, <4>1 DEF StopsAt
      <4>3. j \in 1..m
        BY <1>1
      <4> QED
        BY <4>2, <4>3
    <3>5. \A s \in 0..(m - 1) : s # slot =>
             (StopsAt(g, origin, origin[i + 1], s) <=> StopsAt(t, origin, origin[i + 1], s))
      BY <2>2 DEF StopsAt
    <3>6. EndsAt(g, origin, origin[i + 1], utf8, m, f)
      BY <3>1, <3>2, <3>3, <3>4, <3>5 DEF EndsIn, EndsAt
    <3>7. g[Way(hash(i), m, f)] # NA
      BY <2>2, <3>1, <3>2, <3>3 DEF EndsIn
    <3> QED
      BY <3>6, <3>7 DEF EndsIn
  <2>7. EndsIn(g, origin, new, m, e)
    <3>1. hash(k) \in 0..(m - 1) /\ \A j \in 1..m : Way(hash(k), m, j) \in 0..(m - 1)
      <4>1. k \in 0..k /\ hash(k) \in 0..(m - 1)
        BY <1>1, <1>2
      <4> QED
        BY <1>1, <4>1, WayReaches
    <3>2. StopsAt(g, origin, new, slot)
      BY <1>1, <2>2, EqualAgain, EqualIs DEF StopsAt, StringsAreEqual
    <3>3. ASSUME NEW j \in 1..(e - 1) PROVE ~StopsAt(g, origin, new, Way(hash(k), m, j))
      <4>0. ~StopsAt(t, origin, new, Way(hash(k), m, j))
        BY <1>6 DEF EndsAt
      <4>a. j \in 1..m
        BY <1>1
      <4>1. ~StopsAt(t, origin, new, Way(hash(k), m, j)) /\ Way(hash(k), m, j) \in 0..(m - 1)
        BY <3>1, <4>0, <4>a
      <4>2. Way(hash(k), m, j) # slot
        BY <1>11, <4>1 DEF StopsAt
      <4> QED
        BY <2>2, <4>1, <4>2 DEF StopsAt
    <3> QED
      BY <2>2, <2>3, <3>2, <3>3 DEF EndsIn, EndsAt, slot
  <2>8. \A i \in 0..k : \E f \in 1..m : EndsIn(g, origin, origin[i + 1], m, f)
    <3>1. \A i \in 0..k : i = k \/ i \in 0..(k - 1)
      BY <1>1
    <3> QED
      BY <2>6, <2>7, <3>1
  <2>9. Cardinality(Occupied(g)) <= k + 1
    <3>1. Occupied(g) = Occupied(t) \cup {slot} /\ slot \notin Occupied(t)
      BY <1>1, <1>7, <1>11, <2>2, <2>3 DEF Occupied
    <3>2. Cardinality(Occupied(g)) = Cardinality(Occupied(t)) + 1
      BY <1>4, <3>1, FS_AddElement
    <3>3. Cardinality(Occupied(t)) \in Nat /\ Cardinality(Occupied(t)) <= k
      BY <1>4, FS_CardinalityType DEF TableInv
    <3> QED
      BY <1>1, <3>2, <3>3
  <2>10. (k + 1) - 1 = k
    BY <1>1
  <2> QED
    BY <2>1, <2>2, <2>5, <2>8, <2>9, <2>10 DEF TableInv
<1> QED
  BY <1>10, <1>11

(* The table that is made from an origin holds all of it.                    *)
LEMMA TableOfIs ==
  ASSUME NEW origin, NEW m, m = TableLength(Len(origin)), Origin(origin, m)
  PROVE  TableInv(TableOf(origin), origin, m, Len(origin))
<1> DEFINE n == Len(origin)
           empty == [slot \in 0..(m - 1) |-> NA]
<1>1. n \in Nat /\ m \in Nat /\ origin \in Seq(Strings \cup {NA})
  BY DEF Origin, Strs
<1>2. empty \in [0..(m - 1) -> Int \cup {NA}]
  OBVIOUS
<1>3. TableInv(empty, origin, m, 0)
  BY EmptyTable
<1>4. TableOf(origin) = AddAll(empty, origin)
  BY DEF TableOf
<1> HIDE DEF empty
<1>5. PICK x : AddTurns(x, empty, origin, n)
  BY <1>1, <1>2, AddSteps
<1> DEFINE S == {k \in 0..n : TableInv(x[k], origin, m, k)}
<1>6. 0 \in S
  BY <1>1, <1>3, <1>5 DEF AddTurns
<1>7. ASSUME NEW k \in 0..(n - 1), k \in S PROVE k + 1 \in S
  <2>1. TableInv(x[k], origin, m, k)
    BY <1>7
  <2>2. k + 1 \in 1..n /\ (k + 1) - 1 = k /\ k + 1 \in 0..n
    BY <1>1
  <2>3. x[k + 1] = Add(x[k], origin, k)
    BY <1>5, <2>2 DEF AddTurns
  <2>4. TableInv(Add(x[k], origin, k), origin, m, k + 1)
    BY <2>1, AddKeeps
  <2> QED
    BY <2>2, <2>3, <2>4
<1>8. n \in S
  <2> HIDE DEF S
  <2>1. 0..n \subseteq S
    BY <1>1, <1>6, <1>7, UptoInduction
  <2> QED
    BY <1>1, <2>1
<1> QED
  BY <1>4, <1>5, <1>8 DEF AddTurns

(* What a string finds in a table of all of its origin.                      *)
Positioned(origin, string) == {i \in DOMAIN origin : SameText(origin[i], string)}

(* irash_member finds the first string with the same text or none, and does  *)
(* find it if both vectors of strings are hashed in the same way.            *)
LEMMA MemberIs ==
  ASSUME NEW origin, NEW m, Origin(origin, m), NEW t, TableInv(t, origin, m, Len(origin)),
         NEW string \in Strings, NEW utf8 \in BOOLEAN, Hash(string, utf8, m) \in 0..(m - 1)
  PROVE  LET found == Member(t, origin, string, utf8)
             there == Positioned(origin, string)
         IN /\ found # NA => /\ found \in Nat /\ found + 1 \in there
                             /\ \A j \in there : found + 1 <= j
            /\ there # {} /\ UsesUtf8(origin) = utf8 /\ (~utf8 => Plain(string)) => found # NA
<1> DEFINE n == Len(origin)
           hash == Hash(string, utf8, m)
           found == Member(t, origin, string, utf8)
           there == Positioned(origin, string)
<1>1. /\ origin \in Seq(Strs) /\ n \in Nat /\ m \in Nat \ {0} /\ m > n /\ DOMAIN origin = 1..n
      /\ DOMAIN t = 0..(m - 1) /\ string \in Strs /\ string # NA
      /\ t \in [0..(m - 1) -> 0..(n - 1) \cup {NA}]
  BY NaAssumption DEF Origin, TableInv, Strs
<1>2. \E slot \in 0..(m - 1) : t[slot] = NA
  <2>1. Occupied(t) # 0..(m - 1)
    BY <1>1, UptoCardinality DEF TableInv
  <2> QED
    BY <1>1, <2>1 DEF Occupied
<1>3. PICK e \in 1..m : EndsAt(t, origin, string, utf8, m, e)
  <2>1. \E slot \in 0..(m - 1) : StopsAt(t, origin, string, slot)
    BY <1>2 DEF StopsAt
  <2> QED
    BY <1>1, <2>1, ProbeIs
<1>4. /\ Probe(t, origin, string, utf8) = Way(hash, m, e) /\ Way(hash, m, e) \in 0..(m - 1)
      /\ StopsAt(t, origin, string, Way(hash, m, e))
  BY <1>1, <1>3, ProbeIs, WayReaches DEF EndsAt
<1>5. found = t[Way(hash, m, e)]
  BY <1>4 DEF Member
<1> DEFINE slot == Way(hash, m, e)
<1>6. ASSUME found # NA
      PROVE  found \in Nat /\ found + 1 \in there /\ \A j \in there : found + 1 <= j
  <2>1. found \in 0..(n - 1) /\ found \in Nat /\ found + 1 \in DOMAIN origin
        /\ t[slot] = found /\ t[slot] # NA
    BY <1>1, <1>4, <1>5, <1>6
  <2>2. StringsAreEqual(origin[found + 1], string) /\ origin[found + 1] \in Strs
    BY <1>1, <1>4, <2>1 DEF StopsAt
  <2>3. found + 1 \in there
    BY <1>1, <2>1, <2>2, EqualIs DEF Positioned
  <2>4. ASSUME NEW j \in there PROVE found + 1 <= j
    <3>1. j \in 1..n /\ SameText(origin[j], string) /\ origin[j] \in Strs
      BY <1>1 DEF Positioned
    <3>2. StringsAreEqual(origin[j], string)
      BY <1>1, <3>1, EqualIs
    <3>3. StringsAreEqual(origin[j], origin[found + 1])
      BY <1>1, <2>2, <3>1, <3>2, EqualAgain
    <3>4. ASSUME j - 1 < found PROVE FALSE
      <4>1. j - 1 \in 0..(t[slot] - 1) /\ (j - 1) + 1 = j
        BY <2>1, <3>1, <3>4
      <4>2. ~StringsAreEqual(origin[j], origin[found + 1])
        BY <1>4, <2>1, <4>1 DEF TableInv
      <4> QED
        BY <3>3, <4>2
    <3> QED
      BY <2>1, <3>1, <3>4
  <2> QED
    BY <2>1, <2>3, <2>4
<1>7. ASSUME there # {}, UsesUtf8(origin) = utf8, ~utf8 => Plain(string) PROVE found # NA
  <2>1. PICK i \in 1..n : SameText(origin[i], string)
    BY <1>1, <1>7 DEF Positioned
  <2>2. origin[i] \in Strs /\ StringsAreEqual(origin[i], string)
    BY <1>1, <2>1, EqualIs
  <2>3. Hash(origin[i], utf8, m) = hash
    <3>1. ~utf8 => Plain(origin[i])
      BY <1>1, <1>7, PlainStrings
    <3> HIDE DEF hash
    <3> QED
      BY <1>1, <1>7, <2>2, <3>1, EqualHash DEF hash
  <2>4. PICK f \in 1..m : EndsIn(t, origin, origin[i], m, f)
    <3>1. i - 1 \in 0..(n - 1) /\ (i - 1) + 1 = i
      BY <1>1
    <3> QED
      BY <3>1 DEF TableInv
  <2>5. EndsAt(t, origin, origin[i], utf8, m, f) /\ t[Way(hash, m, f)] # NA
    BY <1>7, <2>3, <2>4 DEF EndsIn
  <2>6. EndsAt(t, origin, string, utf8, m, f)
    <3>1. n \in 0..Len(origin)
      BY <1>1
    <3>2. Hash(origin[i], utf8, m) = Hash(string, utf8, m) /\ Hash(origin[i], utf8, m) \in 0..(m - 1)
      BY <2>3
    <3> QED
      BY <1>1, <2>2, <2>5, <3>1, <3>2, EqualEnds
  <2>7. Probe(t, origin, string, utf8) = Way(hash, m, f)
    BY <1>1, <2>6, ProbeIs
  <2>8. Way(hash, m, f) \in 0..(m - 1)
    BY <1>1, WayReaches
  <2>9. Way(hash, m, f) # -1
    BY <1>1, <2>8
  <2> QED
    BY <2>5, <2>7, <2>9 DEF Member
<1> QED
  BY <1>6, <1>7

(* the choosing of elements.                                                 *)
ChosenTurns(x, seq, set) ==
    /\ x[0] = <<>>
    /\ \A k \in 1..Len(seq) : x[k] = IF seq[k] \in set THEN Append(x[k - 1], seq[k]) ELSE x[k - 1]
    /\ \A k \in 0..Len(seq) : x[k] \in Seq(ToSet(seq))
    /\ Chosen(seq, set) = x[Len(seq)]

(* The loop that chooses has its turns, whatever the sequence and the set.   *)
LEMMA ChosenSteps ==
  ASSUME NEW E, NEW seq \in Seq(E), NEW set
  PROVE  \E x : ChosenTurns(x, seq, set)
<1> DEFINE n == Len(seq)
           Turn(kept, e) == IF e \in set THEN Append(kept, e) ELSE kept
           Elems == ToSet(seq)
           States == Seq(Elems)
           Solves(h) == h = [s \in SUBSET (DOMAIN seq) |->
                     IF s = {} THEN <<>> ELSE Turn(h[s \ {Max(s)}], seq[Max(s)])]
           iter == CHOOSE h : Solves(h)
           x == [k \in 0..n |-> iter[1..k]]
<1>a. Chosen(seq, set) = iter[DOMAIN seq]
  BY DEF Chosen, FoldLeft, MapThenFoldSet
<1>0. n \in Nat /\ DOMAIN seq = 1..n
  OBVIOUS
<1>1. Chosen(seq, set) = iter[1..n]
  BY <1>a, <1>0
<1>2. \E f : IsFold(f, [p \in States \X Elems |-> Turn(p[1], p[2])], seq, <<>>, n, States, Elems)
             /\ Solves(f)
  <2> DEFINE turn == [p \in States \X Elems |-> Turn(p[1], p[2])]
  <2>1. turn \in [States \X Elems -> States]
    <3>1. \A a \in States, b \in Elems : Turn(a, b) \in States
      <4> HIDE DEF Elems
      <4> QED
        BY AppendProperties
    <3> HIDE DEF Turn, States, Elems
    <3> QED
      BY <3>1
  <2>2. \A k \in 1..n : seq[k] \in Elems
    BY DEF ToSet
  <2>3. \A a \in States, b \in Elems : turn[<<a, b>>] = Turn(a, b)
    OBVIOUS
  <2>5. <<>> \in States
    OBVIOUS
  <2> HIDE DEF Turn, turn, States, Elems, n
  <2>4. PICK h : IsFold(h, turn, seq, <<>>, n, States, Elems)
    BY <1>0, <2>1, <2>2, <2>5, FoldExists
  <2>6. Solves(h)
    BY <1>0, <2>3, <2>4 DEF Folded, IsFold
  <2> QED
    BY <2>4, <2>6 DEF turn
<1>3. Solves(iter)
  <2> HIDE DEF Solves
  <2> QED
    BY <1>2
<1> HIDE DEF iter, Turn, n
<1>4. x[0] = <<>> /\ x[n] = iter[1..n]
  <2>1. 1..0 \in SUBSET (1..n) /\ 1..0 = {} /\ 0 \in 0..n /\ n \in 0..n
    BY <1>0
  <2>2. iter[1..0] = <<>>
    <3> HIDE DEF x
    <3> QED
      BY <1>0, <1>3, <2>1
  <2> HIDE DEF Solves
  <2> QED
    BY <2>1, <2>2
<1>5. ASSUME NEW k \in 1..n PROVE x[k] = Turn(x[k - 1], seq[k])
  <2>1. /\ 1..k \in SUBSET (1..n) /\ 1..k # {} /\ (1..k) \ {k} = 1..(k - 1)
        /\ k \in 0..n /\ k - 1 \in 0..n
    BY <1>0, IndicesUpto
  <2>2. Max(1..k) = k
    BY <1>0, LastOfUpto
  <2>3. iter[1..k] = Turn(iter[(1..k) \ {Max(1..k)}], seq[Max(1..k)])
    BY <1>0, <1>3, <2>1
  <2> QED
    BY <2>1, <2>2, <2>3
<1> HIDE DEF x
<1>6. \A k \in 0..n : x[k] \in States
  <2> DEFINE S == {k \in 0..n : x[k] \in States}
  <2>1. 0 \in S
    <3>1. 0 \in 0..n /\ <<>> \in States
      BY <1>0
    <3> QED
      BY <1>4, <3>1
  <2>2. ASSUME NEW k \in 0..(n - 1), k \in S PROVE k + 1 \in S
    <3>1. k + 1 \in 1..n /\ k + 1 \in 0..n /\ (k + 1) - 1 = k
      BY <1>0
    <3>2. x[k + 1] = Turn(x[k], seq[k + 1])
      BY <1>5, <3>1
    <3>3. seq[k + 1] \in Elems
      BY <3>1 DEF ToSet, n
    <3>4. x[k] \in States
      BY <2>2
    <3> HIDE DEF Elems
    <3>5. Turn(x[k], seq[k + 1]) \in States
      BY <3>3, <3>4, AppendProperties DEF Turn
    <3> QED
      BY <3>1, <3>2, <3>5
  <2> HIDE DEF S
  <2>3. 0..n \subseteq S
    BY <1>0, <2>1, <2>2, UptoInduction
  <2> QED
    BY <2>3 DEF S
<1>7. \A k \in 1..n : x[k] = IF seq[k] \in set THEN Append(x[k - 1], seq[k]) ELSE x[k - 1]
  BY <1>5 DEF Turn
<1> QED
  BY <1>1, <1>4, <1>6, <1>7 DEF ChosenTurns, n

(* What is chosen at the same places is chosen together.                     *)
LEMMA ChosenAlike ==
  ASSUME NEW A, NEW B, NEW a \in Seq(A), NEW b \in Seq(B), NEW S, NEW T, Len(a) = Len(b),
         \A k \in 1..Len(a) : a[k] \in S <=> b[k] \in T
  PROVE  LET c == Chosen(a, S)
             d == Chosen(b, T)
         IN /\ c \in Seq(ToSet(a)) /\ d \in Seq(ToSet(b)) /\ Len(c) = Len(d)
            /\ \A j \in 1..Len(c) : \E k \in 1..Len(a) : c[j] = a[k] /\ d[j] = b[k] /\ a[k] \in S
<1> DEFINE n == Len(a)
<1>1. PICK x : ChosenTurns(x, a, S)
  BY ChosenSteps
<1>2. PICK y : ChosenTurns(y, b, T)
  BY ChosenSteps
<1> DEFINE Same(k) == /\ x[k] \in Seq(ToSet(a)) /\ y[k] \in Seq(ToSet(b)) /\ Len(x[k]) = Len(y[k])
                      /\ \A j \in 1..Len(x[k]) :
                           \E i \in 1..n : x[k][j] = a[i] /\ y[k][j] = b[i] /\ a[i] \in S
           U == {k \in 0..n : Same(k)}
<1>3. n \in Nat
  OBVIOUS
<1>4. 0 \in U
  <2>1. x[0] = <<>> /\ y[0] = <<>>
    BY <1>1, <1>2 DEF ChosenTurns
  <2>2. Same(0)
    BY <2>1
  <2>3. 0 \in 0..n
    BY <1>3
  <2> QED
    BY <2>2, <2>3
<1>5. ASSUME NEW k \in 0..(n - 1), k \in U PROVE k + 1 \in U
  <2>1. k + 1 \in 1..n /\ (k + 1) - 1 = k /\ k + 1 \in 0..n /\ k + 1 \in 1..Len(b)
    BY <1>3
  <2>2. /\ x[k + 1] = IF a[k + 1] \in S THEN Append(x[k], a[k + 1]) ELSE x[k]
        /\ y[k + 1] = IF b[k + 1] \in T THEN Append(y[k], b[k + 1]) ELSE y[k]
        /\ x[k + 1] \in Seq(ToSet(a)) /\ y[k + 1] \in Seq(ToSet(b))
    BY <1>1, <1>2, <2>1 DEF ChosenTurns
  <2>3. Same(k)
    BY <1>5
  <2>4. CASE a[k + 1] \in S
    <3>1. x[k + 1] = Append(x[k], a[k + 1]) /\ y[k + 1] = Append(y[k], b[k + 1])
      BY <2>1, <2>2, <2>4
    <3>0. a[k + 1] \in ToSet(a) /\ b[k + 1] \in ToSet(b)
      BY <2>1 DEF ToSet
    <3>2. /\ Len(x[k + 1]) = Len(x[k]) + 1 /\ Len(y[k + 1]) = Len(y[k]) + 1
          /\ \A i \in 1..Len(x[k]) : x[k + 1][i] = x[k][i] /\ y[k + 1][i] = y[k][i]
          /\ x[k + 1][Len(x[k]) + 1] = a[k + 1] /\ y[k + 1][Len(x[k]) + 1] = b[k + 1]
      BY <2>3, <3>0, <3>1, AppendProperties
    <3>3. ASSUME NEW j \in 1..Len(x[k + 1])
          PROVE \E i \in 1..n : x[k + 1][j] = a[i] /\ y[k + 1][j] = b[i] /\ a[i] \in S
      <4>0. Len(x[k]) \in Nat
        BY <2>3
      <4>1. CASE j = Len(x[k]) + 1
        BY <2>1, <2>4, <3>2, <4>1
      <4>2. CASE j \in 1..Len(x[k])
        BY <2>3, <3>2, <4>2
      <4> QED
        BY <3>2, <4>0, <4>1, <4>2
    <3> QED
      BY <2>1, <2>2, <2>3, <3>2, <3>3
  <2>5. CASE a[k + 1] \notin S
    <3>1. x[k + 1] = x[k] /\ y[k + 1] = y[k]
      BY <2>1, <2>2, <2>5
    <3> HIDE DEF Same
    <3>2. Same(k + 1)
      BY <2>3, <3>1 DEF Same
    <3> QED
      BY <2>1, <3>2
  <2> QED
    BY <2>4, <2>5
<1>6. n \in U
  <2> HIDE DEF U
  <2>1. 0..n \subseteq U
    BY <1>3, <1>4, <1>5, UptoInduction
  <2> QED
    BY <1>3, <2>1
<1>7. Chosen(a, S) = x[n] /\ Chosen(b, T) = y[n]
  BY <1>1, <1>2 DEF ChosenTurns
<1>8. Same(n)
  BY <1>6
<1>9. /\ x[n] \in Seq(ToSet(a)) /\ y[n] \in Seq(ToSet(b)) /\ Len(x[n]) = Len(y[n])
      /\ \A j \in 1..Len(x[n]) : \E k \in 1..Len(a) : x[n][j] = a[k] /\ y[n][j] = b[k] /\ a[k] \in S
  BY <1>8
<1> QED
  BY <1>7, <1>9

(* The positions that are chosen: as many as there are, in their order.      *)
Upto(x, D, k) ==
    /\ x[k] \in Seq(Int)
    /\ Len(x[k]) = Cardinality(D \cap (1..k))
    /\ \A i \in 1..Len(x[k]) : x[k][i] \in D \cap (1..k)

Beyond(x, m, k) ==
    /\ Len(x[m]) <= Len(x[k])
    /\ \A i \in 1..Len(x[m]) : x[k][i] = x[m][i]
    /\ \A i \in 1..Len(x[k]) : i > Len(x[m]) => x[k][i] > m

(* A sequence is one of the set its elements are in.                         *)
LEMMA SeqIn ==
  ASSUME NEW E, NEW F, NEW s \in Seq(E), \A i \in 1..Len(s) : s[i] \in F
  PROVE  s \in Seq(F)
<1>1. Len(s) \in Nat /\ s \in [1..Len(s) -> F]
  BY LenProperties
<1> QED
  BY <1>1, SeqDef

(* The positions are the numbers from 1, in their order.                     *)
LEMMA PositionsAre ==
  ASSUME NEW n \in Nat
  PROVE  Positions(n) \in Seq(1..n) /\ Len(Positions(n)) = n /\ \A k \in 1..n : Positions(n)[k] = k
  BY DEF Positions

(* A turn over the positions adds its own position, or nothing.              *)
LEMMA PositionTurn ==
  ASSUME NEW n \in Nat, NEW D, NEW x, ChosenTurns(x, Positions(n), D), NEW k \in 0..(n - 1)
  PROVE  /\ k + 1 \in D => x[k + 1] = Append(x[k], k + 1)
         /\ k + 1 \notin D => x[k + 1] = x[k]
<1>1. k + 1 \in 1..n /\ (k + 1) - 1 = k
  OBVIOUS
<1> QED
  BY <1>1, PositionsAre DEF ChosenTurns

(* After k turns the positions chosen are those up to k: as many as there    *)
(* are.                                                                      *)
LEMMA UptoTurns ==
  ASSUME NEW n \in Nat, NEW D, NEW x, ChosenTurns(x, Positions(n), D)
  PROVE  \A k \in 0..n : Upto(x, D, k)
<1> DEFINE U == {k \in 0..n : Upto(x, D, k)}
<1>1. 0 \in U
  <2>1. x[0] = <<>> /\ D \cap (1..0) = {} /\ 0 \in 0..n
    BY DEF ChosenTurns
  <2>2. Upto(x, D, 0)
    BY <2>1, FS_EmptySet DEF Upto
  <2> QED
    BY <2>1, <2>2
<1>2. ASSUME NEW k \in 0..(n - 1), k \in U PROVE k + 1 \in U
  <2>0. k \in Nat /\ k + 1 \in 0..n
    OBVIOUS
  <2>1. Upto(x, D, k)
    BY <1>2
  <2>2. CASE k + 1 \in D
    <3>1. x[k + 1] = Append(x[k], k + 1)
      BY <2>2, PositionTurn
    <3>2. /\ x[k + 1] \in Seq(Int) /\ Len(x[k + 1]) = Len(x[k]) + 1
          /\ \A i \in 1..Len(x[k]) : x[k + 1][i] = x[k][i]
          /\ x[k + 1][Len(x[k]) + 1] = k + 1
      <4>1. x[k] \in Seq(Int) /\ k + 1 \in Int
        BY <2>1 DEF Upto
      <4> QED
        BY <3>1, <4>1, AppendProperties
    <3>3. D \cap (1..(k + 1)) = (D \cap (1..k)) \cup {k + 1} /\ k + 1 \notin D \cap (1..k)
      BY <2>0, <2>2
    <3>4. IsFiniteSet(D \cap (1..k))
      BY <2>0, FS_Interval, FS_Subset
    <3>5. Len(x[k + 1]) = Cardinality(D \cap (1..(k + 1)))
      BY <2>1, <3>2, <3>3, <3>4, FS_AddElement DEF Upto
    <3>6. ASSUME NEW i \in 1..Len(x[k + 1]) PROVE x[k + 1][i] \in D \cap (1..(k + 1))
      <4>1. Len(x[k]) \in Nat
        BY <2>1 DEF Upto
      <4>2. CASE i = Len(x[k]) + 1
        BY <2>0, <2>2, <3>2, <4>2
      <4>3. CASE i \in 1..Len(x[k])
        BY <2>1, <3>2, <3>3, <4>3 DEF Upto
      <4> QED
        BY <3>2, <4>1, <4>2, <4>3
    <3>7. Upto(x, D, k + 1)
      BY <3>2, <3>5, <3>6 DEF Upto
    <3> QED
      BY <2>0, <3>7
  <2>3. CASE k + 1 \notin D
    <3>1. x[k + 1] = x[k]
      BY <2>3, PositionTurn
    <3>2. D \cap (1..(k + 1)) = D \cap (1..k)
      BY <2>0, <2>3
    <3>3. Upto(x, D, k + 1)
      BY <2>1, <3>1, <3>2 DEF Upto
    <3> QED
      BY <2>0, <3>3
  <2> QED
    BY <2>2, <2>3
<1> HIDE DEF U
<1>3. 0..n \subseteq U
  BY <1>1, <1>2, UptoInduction
<1> QED
  BY <1>3 DEF U

(* The later turns add positions beyond those the earlier ones came to.      *)
LEMMA BeyondTurns ==
  ASSUME NEW n \in Nat, NEW D, NEW x, ChosenTurns(x, Positions(n), D), NEW m \in 0..n
  PROVE  Beyond(x, m, n)
<1>1. \A k \in 0..n : Upto(x, D, k)
  BY UptoTurns
<1> DEFINE U == {k \in 0..(n - m) : Beyond(x, m, m + k)}
<1>2. 0 \in U
  <2>1. Len(x[m]) \in Nat
    BY <1>1 DEF Upto
  <2>2. Beyond(x, m, m) /\ m + 0 = m /\ 0 \in 0..(n - m)
    BY <2>1 DEF Beyond
  <2> QED
    BY <2>2
<1>3. ASSUME NEW j \in 0..((n - m) - 1), j \in U PROVE j + 1 \in U
  <2> DEFINE k == m + j
  <2>0. /\ k \in 0..(n - 1) /\ k \in 0..n /\ k \in Nat /\ m + (j + 1) = k + 1
        /\ j + 1 \in 0..(n - m) /\ k + 1 > m
    OBVIOUS
  <2>1. Beyond(x, m, k)
    BY <1>3
  <2> HIDE DEF k
  <2>a. x[k] \in Seq(Int) /\ x[m] \in Seq(Int)
    BY <1>1, <2>0 DEF Upto
  <2>2. x[k] \in Seq(Int) /\ x[m] \in Seq(Int) /\ Len(x[k]) \in Nat /\ Len(x[m]) \in Nat
    BY <2>a, LenProperties
  <2>3. CASE k + 1 \in D
    <3>1. x[k + 1] = Append(x[k], k + 1)
      BY <2>0, <2>3, PositionTurn
    <3>2. /\ x[k + 1] \in Seq(Int) /\ Len(x[k + 1]) = Len(x[k]) + 1
          /\ \A i \in 1..Len(x[k]) : x[k + 1][i] = x[k][i]
          /\ x[k + 1][Len(x[k]) + 1] = k + 1
      BY <2>2, <3>1, <2>0
    <3>3. ASSUME NEW i \in 1..Len(x[k + 1]), i > Len(x[m]) PROVE x[k + 1][i] > m
      <4>1. CASE i = Len(x[k]) + 1
        BY <2>0, <3>2, <4>1
      <4>2. CASE i \in 1..Len(x[k])
        BY <2>1, <3>2, <3>3, <4>2 DEF Beyond
      <4> QED
        BY <2>2, <3>2, <4>1, <4>2
    <3>4. Len(x[m]) <= Len(x[k]) /\ \A i \in 1..Len(x[m]) : x[k][i] = x[m][i]
      BY <2>1 DEF Beyond
    <3>5. \A i \in 1..Len(x[m]) : x[k + 1][i] = x[m][i]
      BY <2>2, <3>2, <3>4
    <3>6. Beyond(x, m, k + 1)
      BY <2>2, <3>2, <3>3, <3>4, <3>5 DEF Beyond
    <3> QED
      BY <2>0, <3>6
  <2>4. CASE k + 1 \notin D
    <3>1. x[k + 1] = x[k]
      BY <2>0, <2>4, PositionTurn
    <3>2. Beyond(x, m, k + 1)
      BY <2>1, <3>1 DEF Beyond
    <3> QED
      BY <2>0, <3>2
  <2> QED
    BY <2>3, <2>4
<1>4. 0..(n - m) \subseteq U
  <2> HIDE DEF U
  <2>1. n - m \in Nat
    OBVIOUS
  <2> QED
    BY <1>2, <1>3, <2>1, UptoInduction
<1>5. n - m \in 0..(n - m) /\ m + (n - m) = n
  OBVIOUS
<1> QED
  BY <1>4, <1>5

(* Of two lists of positions the shorter is where the longer begins.         *)
Begins(c, m, C, d, n, D) ==
    /\ c \in Seq(1..m) /\ d \in Seq(1..n)
    /\ Len(c) = Cardinality(C \cap (1..m))
    /\ Len(c) <= Len(d)
    /\ \A i \in 1..Len(c) : d[i] = c[i] /\ c[i] \in C
    /\ \A i \in 1..Len(d) : d[i] \in D /\ (i > Len(c) => d[i] > m)

(* Choosing from more positions begins with what is chosen from fewer.       *)
LEMMA ChosenPositions ==
  ASSUME NEW n \in Nat, NEW m \in 0..n, NEW C, NEW D, \A i \in 1..m : i \in C <=> i \in D
  PROVE  Begins(Chosen(Positions(m), C), m, C, Chosen(Positions(n), D), n, D)
<1>0. m \in Nat
  OBVIOUS
<1>1. PICK x : ChosenTurns(x, Positions(m), C)
  BY <1>0, PositionsAre, ChosenSteps
<1>2. PICK y : ChosenTurns(y, Positions(n), D)
  BY PositionsAre, ChosenSteps
<1> DEFINE U == {k \in 0..m : x[k] = y[k]}
<1>3. 0 \in U
  BY <1>1, <1>2 DEF ChosenTurns
<1>4. ASSUME NEW k \in 0..(m - 1), k \in U PROVE k + 1 \in U
  <2>1. m \in Nat /\ k \in 0..(n - 1) /\ k + 1 \in 1..m /\ k + 1 \in 0..m
    OBVIOUS
  <2>2. k + 1 \in C => x[k + 1] = Append(x[k], k + 1) /\ y[k + 1] = Append(y[k], k + 1)
    BY <1>1, <1>2, <2>1, PositionTurn
  <2>3. k + 1 \notin C => x[k + 1] = x[k] /\ y[k + 1] = y[k]
    BY <1>1, <1>2, <2>1, PositionTurn
  <2> QED
    BY <1>4, <2>1, <2>2, <2>3
<1>5. m \in U
  <2> HIDE DEF U
  <2>1. m \in Nat /\ m \in 0..m
    OBVIOUS
  <2>2. 0..m \subseteq U
    BY <1>3, <1>4, <2>1, UptoInduction
  <2> QED
    BY <2>1, <2>2
<1>6. Chosen(Positions(m), C) = x[m] /\ Chosen(Positions(n), D) = y[n] /\ x[m] = y[m]
  <2>1. m \in Nat
    OBVIOUS
  <2> QED
    BY <1>1, <1>2, <1>5, <2>1, PositionsAre DEF ChosenTurns
<1>7. Upto(x, C, m) /\ Upto(y, D, n) /\ Beyond(y, m, n)
  BY <1>1, <1>2, UptoTurns, BeyondTurns
<1>8. x[m] \in Seq(1..m) /\ y[n] \in Seq(1..n)
  <2>1. \A i \in 1..Len(x[m]) : x[m][i] \in 1..m
    BY <1>7 DEF Upto
  <2>2. \A i \in 1..Len(y[n]) : y[n][i] \in 1..n
    BY <1>7 DEF Upto
  <2>3. x[m] \in Seq(Int) /\ y[n] \in Seq(Int)
    BY <1>7 DEF Upto
  <2> QED
    BY <2>1, <2>2, <2>3, SeqIn
<1> QED
  BY <1>6, <1>7, <1>8 DEF Upto, Beyond, Begins

(* One position more.                                                        *)
LEMMA CountStep ==
  ASSUME NEW D, NEW k \in Nat
  PROVE  /\ IsFiniteSet(D \cap (1..k)) /\ Cardinality(D \cap (1..k)) \in Nat
         /\ Cardinality(D \cap (1..(k + 1))) = Cardinality(D \cap (1..k)) + IF k + 1 \in D THEN 1 ELSE 0
<1>1. IsFiniteSet(D \cap (1..k))
  <2>1. IsFiniteSet(1..k)
    BY FS_Interval
  <2> QED
    BY <2>1, FS_Subset
<1>2. Cardinality(D \cap (1..k)) \in Nat
  BY <1>1, FS_CardinalityType
<1>3. CASE k + 1 \in D
  <2>1. D \cap (1..(k + 1)) = (D \cap (1..k)) \cup {k + 1} /\ k + 1 \notin D \cap (1..k)
    BY <1>3
  <2> QED
    BY <1>1, <1>2, <1>3, <2>1, FS_AddElement
<1>4. CASE k + 1 \notin D
  <2>1. D \cap (1..(k + 1)) = D \cap (1..k)
    BY <1>4
  <2> QED
    BY <1>1, <1>2, <1>4, <2>1
<1> QED
  BY <1>3, <1>4

(* Division by counting.                                                     *)
LEMMA NextQuotient ==
  ASSUME NEW k \in Nat, NEW n \in Nat \ {0}
  PROVE  /\ k \div n \in Nat /\ k % n \in 0..(n - 1)
         /\ (k % n) + 1 < n => (k + 1) \div n = k \div n /\ (k + 1) % n = (k % n) + 1
         /\ (k % n) + 1 = n => (k + 1) \div n = k \div n + 1 /\ (k + 1) % n = 0
<1> DEFINE q == k \div n
           r == k % n
<1>1. q \in Nat /\ r \in 0..(n - 1) /\ k = n * q + r
  OBVIOUS
<1>2. n * q \in Nat /\ n * (q + 1) = n * q + n
  BY <1>1
<1> HIDE DEF q, r
<1>3. ASSUME r + 1 < n PROVE (k + 1) \div n = q /\ (k + 1) % n = r + 1
  <2>1. k + 1 = n * q + (r + 1) /\ r + 1 \in 0..(n - 1)
    BY <1>1, <1>2, <1>3
  <2> QED
    BY <1>1, <1>2, <2>1
<1>4. ASSUME r + 1 = n PROVE (k + 1) \div n = q + 1 /\ (k + 1) % n = 0
  <2>1. k + 1 = n * (q + 1)
    BY <1>1, <1>2, <1>4
  <2> QED
    BY <1>1, <1>2, <2>1
<1> QED
  BY <1>1, <1>3, <1>4 DEF q, r

(* The places of a recycled sequence that are in a set, up to a place.       *)
LEMMA CountRecycled ==
  ASSUME NEW n \in Nat \ {0}, NEW F \in SUBSET (1..n), NEW G,
         \A i \in Nat \ {0} : i \in G <=> ((i - 1) % n) + 1 \in F, NEW k \in Nat
  PROVE  Cardinality(G \cap (1..k)) =
            (k \div n) * Cardinality(F) + Cardinality(F \cap (1..(k % n)))
<1> DEFINE Right(m) == Cardinality(G \cap (1..m)) =
                         (m \div n) * Cardinality(F) + Cardinality(F \cap (1..(m % n)))
           S == {m \in Nat : Right(m)}
<1>0. Cardinality(F) \in Nat /\ F = F \cap (1..n)
  <2>1. F = F \cap (1..n)
    OBVIOUS
  <2> QED
    BY <2>1, CountStep
<1>1. 0 \in S
  <2>1. 0 \div n = 0 /\ 0 % n = 0
    OBVIOUS
  <2>2. G \cap (1..0) = {} /\ F \cap (1..0) = {}
    OBVIOUS
  <2>3. Cardinality({}) = 0 /\ 0 * Cardinality(F) = 0
    BY <1>0, FS_EmptySet
  <2>4. Cardinality(G \cap (1..0)) = 0 /\ Cardinality(F \cap (1..(0 % n))) = 0
    BY <2>1, <2>2, <2>3
  <2>5. (0 \div n) * Cardinality(F) = 0
    BY <2>1, <2>3
  <2> QED
    BY <2>4, <2>5
<1>2. ASSUME NEW m \in Nat, m \in S PROVE m + 1 \in S
  <2> DEFINE q == m \div n
             r == m % n
             all == Cardinality(F)
             some == Cardinality(F \cap (1..r))
             add == IF r + 1 \in F THEN 1 ELSE 0
  <2>1. q \in Nat /\ r \in 0..(n - 1) /\ r \in Nat
    <3>1. q \in Nat /\ r \in 0..(n - 1)
      BY NextQuotient
    <3> HIDE DEF q, r
    <3> QED
      BY <3>1
  <2>2. Cardinality(G \cap (1..m)) = q * all + some
    BY <1>2
  <2>3. m + 1 \in G <=> r + 1 \in F
    <3>1. m + 1 \in Nat \ {0} /\ (m + 1) - 1 = m
      OBVIOUS
    <3> QED
      BY <3>1
  <2>4. /\ Cardinality(G \cap (1..(m + 1))) = q * all + some + add
        /\ some \in Nat /\ Cardinality(F \cap (1..(r + 1))) = some + add
    <3> HIDE DEF q, r, all
    <3>1. /\ some \in Nat /\ Cardinality(F \cap (1..(r + 1))) = some + add
          /\ Cardinality(G \cap (1..m)) \in Nat
          /\ Cardinality(G \cap (1..(m + 1))) = Cardinality(G \cap (1..m)) + IF m + 1 \in G THEN 1 ELSE 0
      BY <2>1, CountStep
    <3> QED
      BY <2>2, <2>3, <3>1
  <2>5. CASE r + 1 < n
    <3>1. (m + 1) \div n = q /\ (m + 1) % n = r + 1
      BY <2>5, NextQuotient
    <3> HIDE DEF q, r, some, add, all
    <3>2. q * all \in Nat
      BY <1>0, <2>1 DEF all
    <3>3. add \in {0, 1}
      BY DEF add
    <3>4. Cardinality(G \cap (1..(m + 1))) = q * all + Cardinality(F \cap (1..(r + 1)))
      BY <2>4, <3>2, <3>3
    <3>5. Right(m + 1)
      BY <3>1, <3>4 DEF all
    <3> QED
      BY <3>5
  <2>6. CASE r + 1 = n
    <3>1. (m + 1) \div n = q + 1 /\ (m + 1) % n = 0
      BY <2>6, NextQuotient
    <3>2. some + add = all
      BY <1>0, <2>4, <2>6
    <3>5. Cardinality(F \cap (1..0)) = 0
      <4>1. F \cap (1..0) = {}
        OBVIOUS
      <4> QED
        BY <4>1, FS_EmptySet
    <3> HIDE DEF q, r, some, add, all
    <3>3. q * all \in Nat /\ (q + 1) * all = q * all + all /\ all \in Nat
      BY <1>0, <2>1 DEF all
    <3>6. add \in {0, 1}
      BY DEF add
    <3>7. Cardinality(G \cap (1..(m + 1))) = (q + 1) * all + 0
      BY <2>4, <3>2, <3>3, <3>6
    <3>4. Right(m + 1)
      BY <3>1, <3>5, <3>7 DEF all
    <3> QED
      BY <3>4
  <2> QED
    BY <2>1, <2>5, <2>6
<1>3. k \in S
  <2> HIDE DEF S
  <2> QED
    BY <1>1, <1>2, SetInduction
<1> QED
  BY <1>3

(* logical_subscript_length is the number of elements a subscript takes.     *)
LEMMA LogicalLengthIs ==
  ASSUME NEW n \in Nat, NEW E, NEW s \in Seq(E), s # <<>>, NEW N \in Nat,
         N = IF n >= Len(s) THEN n ELSE Len(s)
  PROVE  LogicalLength(n, s) = Cardinality({i \in 1..N : Recycled(s, i - 1) # FALSE_} \cap (1..N))
<1> DEFINE m == Len(s)
           F == {i \in 1..m : s[i] # FALSE_}
           G == {i \in 1..N : Recycled(s, i - 1) # FALSE_}
           H == {i \in Nat \ {0} : ((i - 1) % m) + 1 \in F}
<1>1. m \in Nat \ {0} /\ DOMAIN s = 1..m /\ s \in [1..m -> E]
  BY EmptySeq, LenProperties
<1> HIDE DEF m
<1>2. Kept(s) = Cardinality(F)
  BY <1>1 DEF Kept
<1>N. N = IF n >= m THEN n ELSE m
  BY DEF m
<1>L. Len(s) = m
  BY DEF m
<1>3. \A i \in Nat \ {0} : ((i - 1) % m) + 1 \in 1..m
  BY <1>1
<1>4. \A i \in 1..m : ((i - 1) % m) + 1 = i
  BY <1>1
<1>5. CASE n <= m
  <2>1. N = m
    BY <1>1, <1>5, <1>N
  <2>2. G \cap (1..N) = F
    BY <1>4, <2>1 DEF Recycled, m
  <2> HIDE DEF F, G
  <2> QED
    BY <1>2, <1>5, <2>2 DEF LogicalLength, m, G
<1>6. CASE n > m
  <2>1. N = n
    BY <1>1, <1>6, <1>N
  <2>2. G \cap (1..N) = H \cap (1..n)
    <3>1. \A i \in 1..n : i \in G <=> i \in H
      BY <1>3, <2>1 DEF Recycled, m
    <3> QED
      BY <2>1, <3>1
  <2>3. Cardinality(H \cap (1..n)) = (n \div m) * Cardinality(F) + Cardinality(F \cap (1..(n % m)))
    <3>1. m \in Nat \ {0} /\ F \in SUBSET (1..m)
      BY <1>1
    <3>2. \A i \in Nat \ {0} : i \in H <=> ((i - 1) % m) + 1 \in F
      OBVIOUS
    <3> HIDE DEF F, H
    <3>3. \A k \in Nat : Cardinality(H \cap (1..k)) =
             (k \div m) * Cardinality(F) + Cardinality(F \cap (1..(k % m)))
      BY <3>1, <3>2, CountRecycled
    <3> QED
      BY <3>3
  <2>4. Kept(SubSeq(s, 1, n % m)) = Cardinality(F \cap (1..(n % m)))
    <3> DEFINE r == n % m
    <3>1. r \in 0..(m - 1)
      BY <1>1
    <3> HIDE DEF r
    <3>2. DOMAIN SubSeq(s, 1, r) = 1..r /\ \A i \in 1..r : SubSeq(s, 1, r)[i] = s[i]
      <4>1. r \in Int /\ r >= 0 /\ r <= Len(s)
        BY <1>1, <3>1, <1>L
      <4> QED
        BY <4>1, SubSeqProperties
    <3>3. {i \in DOMAIN SubSeq(s, 1, r) : SubSeq(s, 1, r)[i] # FALSE_} = F \cap (1..r)
      BY <1>1, <3>1, <3>2
    <3> QED
      BY <3>3 DEF Kept, r
  <2> HIDE DEF F, G, H
  <2>5. ~(n <= Len(s))
    BY <1>1, <1>6, <1>L
  <2> QED
    BY <1>1, <1>2, <2>5, <2>2, <2>3, <2>4 DEF LogicalLength, m, G
<1> QED
  BY <1>1, <1>5, <1>6

(* What a logical subscript selects, a recycled one or one that is too long. *)
Flags(s, n) == {i \in 1..n : Recycled(s, i - 1) # FALSE_}
Taken(n, s) == Chosen(Positions(IF n >= Len(s) THEN n ELSE Len(s)),
                      Flags(s, IF n >= Len(s) THEN n ELSE Len(s)))
Selected(n, s) ==
    [k \in DOMAIN Taken(n, s) |->
        IF Recycled(s, Taken(n, s)[k] - 1) = NA \/ Taken(n, s)[k] > n THEN NA ELSE Taken(n, s)[k]]

(* logical_subscript selects what recycled logicals select: its length is the*)
(* number of selected positions, its indices are they, and NAs beyond.       *)
LEMMA LogicalIs ==
  ASSUME NEW n \in Nat, NEW E, NEW s \in Seq(E), s # <<>>
  PROVE  /\ LogicalSubscript(n, s) = NewIndices(IndexType(Len(Selected(n, s))), Selected(n, s))
         /\ Selected(n, s) \in Seq(1..n \cup {NA})
<1> DEFINE N == IF n >= Len(s) THEN n ELSE Len(s)
           taken == Chosen(Positions(N), Flags(s, N))
           kept == Chosen(Positions(n), Flags(s, n))
<1>1. N \in Nat /\ n \in 0..N
  BY LenProperties
<1>2. LogicalLength(n, s) = Cardinality(Flags(s, N) \cap (1..N))
  BY <1>1, LogicalLengthIs DEF Flags
<1>t. Taken(n, s) = taken
  BY DEF Taken
<1> HIDE DEF N
<1>3. /\ taken \in Seq(1..N) /\ Len(taken) = LogicalLength(n, s)
      /\ kept \in Seq(1..n) /\ Len(kept) <= Len(taken)
      /\ \A i \in 1..Len(kept) : taken[i] = kept[i]
      /\ \A i \in 1..Len(taken) : i > Len(kept) => taken[i] > n
  <2>1. N \in 0..N /\ \A i \in 1..N : i \in Flags(s, N) <=> i \in Flags(s, N)
    BY <1>1
  <2>2. taken \in Seq(1..N) /\ Len(taken) = Cardinality(Flags(s, N) \cap (1..N))
    BY <1>1, <2>1, ChosenPositions DEF Begins
  <2>3. \A i \in 1..n : i \in Flags(s, n) <=> i \in Flags(s, N)
    BY <1>1 DEF Flags
  <2>4. /\ kept \in Seq(1..n) /\ Len(kept) <= Len(taken)
        /\ \A i \in 1..Len(kept) : taken[i] = kept[i]
        /\ \A i \in 1..Len(taken) : i > Len(kept) => taken[i] > n
    <3>1. Begins(kept, n, Flags(s, n), taken, N, Flags(s, N))
      BY <1>1, <2>3, ChosenPositions
    <3> HIDE DEF kept, taken
    <3> QED
      BY <3>1 DEF Begins
  <2> QED
    BY <1>2, <2>2, <2>4
<1> DEFINE sel == Selected(n, s)
           index(i) == IF Recycled(s, i - 1) = NA THEN NA ELSE i
<1> HIDE DEF taken, kept
<1>4. /\ Len(taken) \in Nat /\ DOMAIN taken = 1..Len(taken)
      /\ Len(kept) \in Nat /\ DOMAIN kept = 1..Len(kept)
  BY <1>3, LenProperties
<1>5. /\ sel = [k \in 1..Len(taken) |->
                  IF Recycled(s, taken[k] - 1) = NA \/ taken[k] > n THEN NA ELSE taken[k]]
  BY <1>t, <1>4 DEF Selected
<1>6. ASSUME NEW k \in 1..Len(taken)
      PROVE  /\ sel[k] \in 1..n \cup {NA}
             /\ sel[k] = IF k <= Len(kept) THEN index(kept[k]) ELSE NA
  <2>1. CASE k <= Len(kept)
    <3>1. k \in 1..Len(kept)
      BY <1>4, <2>1
    <3>2. kept[k] \in 1..n /\ taken[k] = kept[k]
      BY <1>3, <3>1
    <3>3. ~(taken[k] > n) /\ taken[k] \in 1..n
      BY <3>2
    <3> QED
      BY <1>5, <2>1, <3>2, <3>3
  <2>2. CASE ~(k <= Len(kept))
    <3>1. taken[k] > n
      BY <1>3, <1>4, <2>2
    <3> QED
      BY <1>5, <2>2, <3>1
  <2> QED
    BY <2>1, <2>2
<1>7. sel \in Seq(1..n \cup {NA}) /\ Len(sel) = Len(taken)
  <2>1. sel \in [1..Len(taken) -> 1..n \cup {NA}]
    BY <1>5, <1>6
  <2> HIDE DEF sel
  <2> QED
    BY <1>4, <2>1, SeqDef, LenProperties
<1>8. sel = [k \in 1..LogicalLength(n, s) |-> IF k <= Len(kept) THEN index(kept[k]) ELSE NA]
  <2>1. DOMAIN sel = 1..Len(taken)
    BY <1>5
  <2> HIDE DEF index
  <2> QED
    BY <1>3, <1>5, <1>6, <2>1
<1>9. LogicalSubscript(n, s) = NewIndices(IndexType(LogicalLength(n, s)),
          [k \in 1..LogicalLength(n, s) |-> IF k <= Len(kept) THEN index(kept[k]) ELSE NA])
  <2>1. ~(Len(kept) > LogicalLength(n, s))
    BY <1>3, <1>4
  <2> QED
    BY <2>1 DEF LogicalSubscript, kept, Flags
<1> QED
  BY <1>3, <1>7, <1>8, <1>9

(* Truncation, in halves.                                                    *)
LEMMA TruncateIs ==
  ASSUME NEW v \in Int
  PROVE  LET whole == Truncate(v) \div 2 IN
         /\ whole \in Int
         /\ v >= 0 => /\ whole = v \div 2 /\ whole \in Nat /\ (whole > 0 <=> v >= 2)
                      /\ \A n \in Nat : Truncate(v) > 2 * n <=> whole > n
         /\ v <= -2 => /\ whole = -((-v) \div 2) /\ whole < 0 /\ Excluded(v) = (-v) \div 2 - 1
                       /\ (-v) \div 2 \in Nat \ {0}
  BY DEF Truncate, Excluded

(* A selection of whole numbers or NAs, and the indices it is.               *)
Selects(n, indices, selection) ==
    \E sel \in Seq(1..n \cup {NA}) :
        /\ selection = Ok(sel)
        /\ indices = NewIndices(IndexType(Len(sel)), sel)

(* Positive numbers,                                                         *)
LEMMA PositiveIs ==
  ASSUME NEW n \in Nat, NEW seq \in Seq(Int \cup {NA}),
         \A k \in 1..Len(seq) : seq[k] = NA \/ seq[k] >= 0
  PROVE  Selects(n, PositiveSubscript(n, seq), RNumberSelection(n, seq))
<1> DEFINE whole == [k \in DOMAIN seq |-> IF seq[k] = NA THEN NA ELSE Truncate(seq[k]) \div 2]
           values == ToSet(whole)
           inside == [k \in DOMAIN whole |-> IF whole[k] # NA /\ whole[k] > n THEN NA ELSE whole[k]]
           S == {v \in ToSet(seq) : v = NA \/ v >= 2}
           T == ToSet(inside) \ {0}
           index(v) == IF v = NA \/ Truncate(v) > 2 * n THEN NA ELSE v \div 2
           kept == Chosen(seq, S)
           sel == Chosen(inside, T)
           m == Len(seq)
<1>1. m \in Nat /\ DOMAIN seq = 1..m /\ \A k \in 1..m : seq[k] \in Int \cup {NA}
  BY LenProperties
<1>2. DOMAIN whole = 1..m /\ DOMAIN inside = 1..m
  BY <1>1
<1>3. ASSUME NEW k \in 1..m
      PROVE  /\ whole[k] \in Int \cup {NA} /\ (whole[k] # NA => whole[k] >= 0)
             /\ inside[k] \in 0..n \cup {NA}
             /\ seq[k] \in S <=> inside[k] \in T
             /\ seq[k] \in S => index(seq[k]) = inside[k] /\ inside[k] \in 1..n \cup {NA}
  <2>1. seq[k] \in ToSet(seq) /\ inside[k] \in ToSet(inside)
    BY <1>1, <1>2 DEF ToSet
  <2>2. whole[k] = (IF seq[k] = NA THEN NA ELSE Truncate(seq[k]) \div 2) /\
        inside[k] = (IF whole[k] # NA /\ whole[k] > n THEN NA ELSE whole[k])
    BY <1>1, <1>2
  <2>3. (seq[k] \in S <=> seq[k] = NA \/ seq[k] >= 2) /\ (inside[k] \in T <=> inside[k] # 0)
    BY <2>1
  <2> HIDE DEF whole, inside, S, T
  <2>4. CASE seq[k] = NA
    BY <2>2, <2>3, <2>4, NaAssumption
  <2>5. CASE seq[k] # NA
    <3>1. seq[k] \in Int /\ seq[k] >= 0
      BY <1>1, <2>5
    <3>2. /\ whole[k] = seq[k] \div 2 /\ whole[k] \in Nat /\ (whole[k] > 0 <=> seq[k] >= 2)
          /\ Truncate(seq[k]) > 2 * n <=> whole[k] > n
      <4> DEFINE v == seq[k]
      <4>1. v \in Int /\ v >= 0 /\ whole[k] = Truncate(v) \div 2
        BY <2>2, <2>5, <3>1
      <4>2. n \in Nat
        OBVIOUS
      <4> HIDE DEF v
      <4>3. /\ whole[k] = v \div 2 /\ whole[k] \in Nat /\ (whole[k] > 0 <=> v >= 2)
            /\ Truncate(v) > 2 * n <=> whole[k] > n
        BY <4>1, <4>2, TruncateIs
      <4> QED
        BY <4>3 DEF v
    <3>3. whole[k] # NA
      BY <3>2, NaAssumption
    <3> QED
      BY <2>2, <2>3, <2>5, <3>2, <3>3, NaAssumption
  <2> QED
    BY <2>4, <2>5
<1>4. \A i \in values \ {NA} : ~(i < 0)
  <2>1. \A i \in values : \E k \in 1..m : i = whole[k]
    BY <1>2 DEF ToSet
  <2>2. \A k \in 1..m : whole[k] \in Int \cup {NA} /\ (whole[k] # NA => whole[k] >= 0)
    BY <1>3
  <2> HIDE DEF whole, values, m
  <2> QED
    BY <2>1, <2>2
<1>5. RNumberSelection(n, seq) = Ok(sel)
  BY <1>4 DEF RNumberSelection
<1>6. PositiveSubscript(n, seq) =
        NewIndices(IndexType(Len(kept)), [k \in DOMAIN kept |-> index(kept[k])])
  BY DEF PositiveSubscript
<1> HIDE DEF m, whole, inside, S, T, index
<1>7. inside \in Seq(0..n \cup {NA}) /\ Len(inside) = m
  <2>1. inside \in [1..m -> 0..n \cup {NA}]
    BY <1>1, <1>2, <1>3 DEF inside, whole
  <2> QED
    BY <1>1, <2>1, SeqDef, LenProperties
<1>8. /\ kept \in Seq(ToSet(seq)) /\ sel \in Seq(ToSet(inside)) /\ Len(kept) = Len(sel)
      /\ \A j \in 1..Len(kept) :
           \E k \in 1..m : kept[j] = seq[k] /\ sel[j] = inside[k] /\ seq[k] \in S
  <2>1. \A k \in 1..Len(seq) : seq[k] \in S <=> inside[k] \in T
    BY <1>3 DEF m
  <2>2. Len(seq) = Len(inside)
    BY <1>7 DEF m
  <2> QED
    BY <1>7, <2>1, <2>2, ChosenAlike DEF m
<1> HIDE DEF kept, sel
<1>9. \A j \in 1..Len(kept) : index(kept[j]) = sel[j] /\ sel[j] \in 1..n \cup {NA}
  BY <1>3, <1>8
<1>10. Len(kept) \in Nat /\ DOMAIN kept = 1..Len(kept) /\ DOMAIN sel = 1..Len(kept)
  BY <1>8, LenProperties
<1>11. sel \in Seq(1..n \cup {NA})
  BY <1>8, <1>9, SeqIn
<1>12. [k \in DOMAIN kept |-> index(kept[k])] = sel
  <2>1. sel = [k \in 1..Len(kept) |-> sel[k]]
    BY <1>8, <1>10
  <2> QED
    BY <1>9, <1>10, <2>1
<1> QED
  BY <1>5, <1>6, <1>8, <1>11, <1>12 DEF Selects

(* and negative ones.                                                        *)
LEMMA NegativeIs ==
  ASSUME NEW n \in Nat \ {0}, NEW seq \in Seq(Int),
         \A k \in 1..Len(seq) : seq[k] = 0 \/ (seq[k] <= -2 /\ seq[k] # -2 * n - 1),
         NEW some \in 1..Len(seq), seq[some] # 0
  PROVE  Selects(n, NegativeSubscript(n, seq), RNumberSelection(n, seq))
<1> DEFINE whole == [k \in DOMAIN seq |-> IF seq[k] = NA THEN NA ELSE Truncate(seq[k]) \div 2]
           values == ToSet(whole)
           written == {Excluded(v) : v \in {w \in ToSet(seq) : w \notin {0, NA} /\ -w <= 2 * n}}
           bits == [i \in 1..n |-> IF i - 1 \in written THEN FALSE_ ELSE TRUE_]
           chosen == Chosen(Positions(n), {i \in 1..n : -i \notin values})
           m == Len(seq)
<1>1. m \in Nat /\ DOMAIN seq = 1..m /\ \A k \in 1..m : seq[k] \in Int /\ seq[k] # NA
  BY NaAssumption, LenProperties
<1>2. ASSUME NEW k \in 1..m
      PROVE  /\ whole[k] = Truncate(seq[k]) \div 2
             /\ seq[k] = 0 => whole[k] = 0
             /\ seq[k] # 0 => /\ whole[k] = -((-seq[k]) \div 2) /\ whole[k] < 0 /\ whole[k] \in Int
                              /\ Excluded(seq[k]) = (-seq[k]) \div 2 - 1
                              /\ (-seq[k]) \div 2 \in Nat \ {0}
  <2>1. whole[k] = Truncate(seq[k]) \div 2
    BY <1>1
  <2>2. seq[k] \in Int /\ (seq[k] = 0 \/ seq[k] <= -2)
    BY <1>1 DEF m
  <2> HIDE DEF whole
  <2>3. CASE seq[k] = 0
    <3>1. Truncate(0) \div 2 = 0
      BY DEF Truncate
    <3> QED
      BY <2>1, <2>3, <3>1
  <2>4. CASE seq[k] # 0
    BY <2>1, <2>2, <2>4, TruncateIs
  <2> QED
    BY <2>1, <2>3, <2>4
<1>b. \A k \in 1..m : /\ whole[k] \in Int /\ whole[k] <= 0
                      /\ seq[k] # 0 => Excluded(seq[k]) \in Int /\ Excluded(seq[k]) >= 0
  <2>1. ASSUME NEW k \in 1..m
        PROVE  /\ whole[k] \in Int /\ whole[k] <= 0
               /\ seq[k] # 0 => Excluded(seq[k]) \in Int /\ Excluded(seq[k]) >= 0
    <3> HIDE DEF whole, m
    <3>1. CASE seq[k] = 0
      BY <1>2, <3>1
    <3>2. CASE seq[k] # 0
      <4> DEFINE h == (-seq[k]) \div 2
      <4>1. h \in Nat \ {0} /\ whole[k] = -h /\ Excluded(seq[k]) = h - 1
        BY <1>2, <3>2
      <4> HIDE DEF h
      <4> QED
        BY <4>1
    <3> QED
      BY <3>1, <3>2
  <2> QED
    BY <2>1
<1>3. \A i : i \in values <=> \E k \in 1..m : i = whole[k]
  BY <1>1 DEF ToSet
<1>4. \A e : e \in written <=> \E k \in 1..m : seq[k] # 0 /\ -seq[k] <= 2 * n /\ e = Excluded(seq[k])
  BY <1>1 DEF ToSet
<1>5. /\ \E i \in values \ {NA} : i < 0
      /\ NA \notin values /\ ~\E i \in values \ {NA} : i > 0
  <2> HIDE DEF whole, values
  <2>1. some \in 1..m /\ whole[some] < 0 /\ whole[some] \in Int /\ whole[some] # NA
    BY <1>2, NaAssumption DEF m
  <2>2. \A k \in 1..m : whole[k] \in Int /\ ~(whole[k] > 0)
    <3> HIDE DEF m
    <3> QED
      BY <1>b
  <2> HIDE DEF m
  <2> QED
    BY <1>3, <2>1, <2>2, NaAssumption
<1>6. RNumberSelection(n, seq) = Ok(chosen)
  BY <1>5 DEF RNumberSelection
<1>7. ~\E e \in written : e < 0
  <2> HIDE DEF written, whole, m
  <2> QED
    BY <1>b, <1>4
<1>8. NegativeSubscript(n, seq) = LogicalSubscript(n, bits)
  BY <1>7 DEF NegativeSubscript
<1>9. ASSUME NEW i \in 1..n PROVE i - 1 \in written <=> -i \in values
  <2> HIDE DEF written, whole, values
  <2>1. ASSUME NEW k \in 1..m, seq[k] # 0 PROVE
          (-seq[k] <= 2 * n /\ i - 1 = Excluded(seq[k])) <=> -i = whole[k]
    <3>1. /\ seq[k] \in Int /\ seq[k] <= -2 /\ seq[k] # -2 * n - 1
          /\ whole[k] = -((-seq[k]) \div 2) /\ Excluded(seq[k]) = (-seq[k]) \div 2 - 1
      BY <1>1, <1>2, <2>1 DEF m
    <3> HIDE DEF m
    <3> DEFINE x == -seq[k]
               h == x \div 2
    <3>2. x \in Nat /\ x # 2 * n + 1 /\ h \in Nat /\ 2 * h <= x /\ x <= 2 * h + 1
      <4>1. x \in Nat /\ x # 2 * n + 1
        <5>1. seq[k] \in Int /\ seq[k] <= -2 /\ seq[k] # -2 * n - 1
          BY <3>1
        <5>2. \A y \in Int : y <= -2 /\ y # -2 * n - 1 => -y \in Nat /\ -y # 2 * n + 1
          OBVIOUS
        <5> QED
          BY <5>1, <5>2
      <4> HIDE DEF x
      <4> QED
        BY <4>1
    <3>3. whole[k] = -h /\ Excluded(seq[k]) = h - 1
      BY <3>1
    <3> HIDE DEF h, x
    <3>4. x > 2 * n => h > n
      BY <3>2
    <3>5. (x <= 2 * n /\ i - 1 = Excluded(seq[k])) <=> -i = whole[k]
      BY <3>2, <3>3, <3>4
    <3> QED
      BY <3>5 DEF x
  <2>2. ASSUME NEW k \in 1..m, -i = whole[k] PROVE seq[k] # 0
    <3> HIDE DEF m
    <3>1. seq[k] = 0 => whole[k] = 0
      BY <1>2
    <3> QED
      BY <2>2, <3>1
  <2> HIDE DEF m
  <2> QED
    BY <1>3, <1>4, <2>1, <2>2
<1> HIDE DEF written, whole, values, m
<1>10. bits \in Seq({TRUE_, FALSE_}) /\ Len(bits) = n /\ bits # <<>>
  <2>1. bits \in [1..n -> {TRUE_, FALSE_}]
    OBVIOUS
  <2> HIDE DEF bits
  <2> QED
    BY <2>1, SeqDef, LenProperties
<1>11. \A i \in 1..n : Recycled(bits, i - 1) = bits[i]
  <2>1. \A i \in 1..n : ((i - 1) % n) + 1 = i
    OBVIOUS
  <2> HIDE DEF bits
  <2> QED
    BY <1>10, <2>1 DEF Recycled
<1>12. Flags(bits, n) = {i \in 1..n : -i \notin values} /\ \A i \in 1..n : bits[i] # NA
  <2>1. \A i \in 1..n : bits[i] = IF -i \in values THEN FALSE_ ELSE TRUE_
    BY <1>9
  <2>2. TRUE_ # FALSE_ /\ NA # TRUE_ /\ NA # FALSE_
    BY NaAssumption DEF TRUE_, FALSE_
  <2> HIDE DEF bits
  <2> QED
    BY <1>11, <2>1, <2>2 DEF Flags
<1> HIDE DEF bits
<1>13. Taken(n, bits) = chosen
  BY <1>10, <1>12 DEF Taken
<1>14. chosen \in Seq(1..n)
  <2>1. n \in 0..n
    OBVIOUS
  <2> QED
    BY <2>1, ChosenPositions DEF Begins
<1> HIDE DEF chosen
<1>15. Selected(n, bits) = chosen
  <2>1. \A k \in DOMAIN chosen : chosen[k] \in 1..n
    BY <1>14
  <2>2. \A k \in DOMAIN chosen : Recycled(bits, chosen[k] - 1) # NA /\ ~(chosen[k] > n)
    <3>1. ASSUME NEW k \in DOMAIN chosen
          PROVE  Recycled(bits, chosen[k] - 1) # NA /\ ~(chosen[k] > n)
      <4>1. chosen[k] \in 1..n
        BY <2>1
      <4>2. Recycled(bits, chosen[k] - 1) = bits[chosen[k]] /\ bits[chosen[k]] # NA
        BY <1>11, <1>12, <4>1
      <4> QED
        BY <4>1, <4>2
    <3> QED
      BY <3>1
  <2>3. chosen = [k \in DOMAIN chosen |-> chosen[k]]
    BY <1>14
  <2> QED
    BY <1>13, <2>2, <2>3 DEF Selected
<1>16. /\ LogicalSubscript(n, bits) = NewIndices(IndexType(Len(chosen)), chosen)
       /\ chosen \in Seq(1..n \cup {NA})
  BY <1>10, <1>15, LogicalIs
<1> QED
  BY <1>6, <1>8, <1>16 DEF Selects

(* What the statistics of a subscript say.                                   *)
LEMMA CountIs ==
  ASSUME NEW n \in Nat, NEW D \in SUBSET (1..n)
  PROVE  Cardinality(D) \in Nat /\ (Cardinality(D) > 0 <=> D # {})
<1>1. IsFiniteSet(1..n)
  BY FS_Interval
<1>2. IsFiniteSet(D)
  BY <1>1, FS_Subset
<1> QED
  BY <1>2, FS_CardinalityType, FS_EmptySet

(* integer_subscript_stats and real_subscript_stats see what there is.       *)
LEMMA StatisticsAre ==
  ASSUME NEW s \in Seq(Int \cup {NA})
  PROVE  /\ Nas(s) \in Nat /\ Negatives(s) \in Nat /\ Positives(s) \in Nat
         /\ Nas(s) > 0 <=> \E k \in 1..Len(s) : s[k] = NA
         /\ Negatives(s) > 0 <=> \E k \in 1..Len(s) : s[k] # NA /\ s[k] < 0
         /\ Positives(s) > 0 <=> \E k \in 1..Len(s) : s[k] # NA /\ s[k] >= 2
<1> DEFINE n == Len(s)
           A == {i \in DOMAIN s : s[i] = NA}
           B == {i \in DOMAIN s : s[i] # NA /\ s[i] < 0}
           C == {i \in DOMAIN s : s[i] # NA /\ s[i] >= 2}
<1>1. n \in Nat /\ DOMAIN s = 1..n
  BY LenProperties
<1>2. A \in SUBSET (1..n) /\ B \in SUBSET (1..n) /\ C \in SUBSET (1..n)
  BY <1>1
<1>3. /\ A # {} <=> \E k \in 1..n : s[k] = NA
      /\ B # {} <=> \E k \in 1..n : s[k] # NA /\ s[k] < 0
      /\ C # {} <=> \E k \in 1..n : s[k] # NA /\ s[k] >= 2
  BY <1>1
<1>4. Nas(s) = Cardinality(A) /\ Negatives(s) = Cardinality(B) /\ Positives(s) = Cardinality(C)
  BY DEF Nas, Negatives, Positives
<1> HIDE DEF A, B, C
<1>5. /\ Cardinality(A) \in Nat /\ (Cardinality(A) > 0 <=> A # {})
      /\ Cardinality(B) \in Nat /\ (Cardinality(B) > 0 <=> B # {})
      /\ Cardinality(C) \in Nat /\ (Cardinality(C) > 0 <=> C # {})
  BY <1>1, <1>2, CountIs
<1> QED
  BY <1>3, <1>4, <1>5

(* The numbers of a subscript are numbers in halves.                         *)
LEMMA NumbersAre ==
  ASSUME NEW s, TypedElements(s), s.type \in {"INT", "REAL"}
  PROVE  /\ s.elems \in Seq(Int \cup {NA})
         /\ s.type = "INT" => \A k \in 1..Len(s.elems) : s.elems[k] = NA \/ \E i \in Int : s.elems[k] = 2 * i
<1>0. IntMax \in Int
  BY IntMaxAssumption
<1>1. CASE s.type = "INT"
  <2> DEFINE E == {2 * i : i \in -IntMax..IntMax} \cup {NA}
  <2>1. s.elems \in Seq(E)
    BY <1>1 DEF TypedElements, ElementsOf
  <2>2. \A e \in E : e \in Int \cup {NA} /\ (e = NA \/ \E i \in Int : e = 2 * i)
    BY <1>0
  <2> HIDE DEF E
  <2>3. \A k \in 1..Len(s.elems) : s.elems[k] \in E
    BY <2>1
  <2>4. s.elems \in Seq(Int \cup {NA})
    BY <2>1, <2>2, <2>3, SeqIn
  <2> QED
    BY <2>2, <2>3, <2>4
<1>2. CASE s.type = "REAL"
  BY <1>2 DEF TypedElements, ElementsOf
<1> QED
  BY <1>1, <1>2


(* What ufo_subscript finds, when no hash table is made: R's selection, of   *)
(* integers unless it is long, or nothing.                                   *)
Located(n, given, selection, short) ==
    \/ given = Failed /\ selection = Failed
    \/ \E sel \in Seq(1..n \cup {NA}) :
          /\ selection = Ok(sel)
          /\ IF sel = <<>> THEN given \in {Hung, Indices("INT", <<>>)}
             ELSE given = Indices(IF short THEN "INT" ELSE IndexType(Len(sel)), sel)

(* A non-empty selection is located by itself, an empty one hangs.           *)
LEMMA SelectsLocated ==
  ASSUME NEW n, NEW given, NEW selection, Selects(n, given, selection)
  PROVE  Located(n, given, selection, FALSE)
  BY DEF Selects, Located, NewIndices

(* Numbers,                                                                  *)
LEMMA NumberLocated ==
  ASSUME NEW n \in Nat, NEW s, TypedElements(s), s.type \in {"INT", "REAL"}, ~OddFraction(n, s)
  PROVE  Located(n, NumberSubscript(n, s.elems), RNumberSelection(n, s.elems), FALSE)
<1> DEFINE seq == s.elems
           m == Len(seq)
<1>1. /\ seq \in Seq(Int \cup {NA})
      /\ s.type = "INT" => \A k \in 1..m : seq[k] = NA \/ \E i \in Int : seq[k] = 2 * i
  BY NumbersAre
<1>2. m \in Nat /\ DOMAIN seq = 1..m /\ \A k \in 1..m : seq[k] \in Int \cup {NA}
  BY <1>1, LenProperties
<1>3. ASSUME s.type = "REAL", NEW k \in 1..m
      PROVE  /\ seq[k] # -1 /\ seq[k] # -2 * n - 1
             /\ seq[k] = 1 => Negatives(seq) = 0
  <2>1. seq[k] \in ToSet(seq)
    BY <1>2 DEF ToSet
  <2>2. -1 \notin ToSet(seq) /\ -2 * n - 1 \notin ToSet(seq)
    BY <1>3 DEF OddFraction
  <2>3. seq[k] = 1 => ~(Negatives(seq) > 0)
    BY <1>3, <2>1 DEF OddFraction
  <2>4. Negatives(seq) \in Nat
    BY <1>1, StatisticsAre
  <2> QED
    BY <2>1, <2>2, <2>3, <2>4
<1>s. /\ Nas(seq) \in Nat /\ Negatives(seq) \in Nat /\ Positives(seq) \in Nat
      /\ Nas(seq) > 0 <=> \E k \in 1..m : seq[k] = NA
      /\ Negatives(seq) > 0 <=> \E k \in 1..m : seq[k] # NA /\ seq[k] < 0
      /\ Positives(seq) > 0 <=> \E k \in 1..m : seq[k] # NA /\ seq[k] >= 2
  BY <1>1, StatisticsAre
<1> HIDE DEF seq, m
<1>4. ASSUME NEW k \in 1..m, seq[k] # NA
      PROVE  /\ seq[k] \in Int /\ seq[k] # -1 /\ seq[k] # -2 * n - 1
             /\ Negatives(seq) > 0 => seq[k] # 1
  <2>1. CASE s.type = "INT"
    <3>1. PICK i \in Int : seq[k] = 2 * i
      BY <1>1, <1>4, <2>1
    <3> QED
      BY <3>1
  <2>2. CASE s.type = "REAL"
    BY <1>2, <1>3, <1>4, <2>2
  <2> QED
    BY <2>1, <2>2
<1> DEFINE whole == [k \in DOMAIN seq |-> IF seq[k] = NA THEN NA ELSE Truncate(seq[k]) \div 2]
           values == ToSet(whole)
<1>5. ASSUME NEW k \in 1..m
      PROVE  /\ whole[k] \in values
             /\ seq[k] = NA => whole[k] = NA
             /\ seq[k] # NA => /\ whole[k] \in Int /\ whole[k] # NA
                               /\ seq[k] < 0 => whole[k] < 0
                               /\ seq[k] >= 2 => whole[k] > 0
  <2>1. whole[k] \in values /\ whole[k] = IF seq[k] = NA THEN NA ELSE Truncate(seq[k]) \div 2
    BY <1>2 DEF ToSet
  <2> HIDE DEF whole, values
  <2>2. CASE seq[k] = NA
    BY <2>1, <2>2
  <2>3. CASE seq[k] # NA
    <3> DEFINE v == seq[k]
               w == Truncate(v) \div 2
    <3>1. v \in Int /\ v # -1 /\ whole[k] = w
      BY <1>4, <2>1, <2>3
    <3> HIDE DEF v
    <3>2. /\ w \in Int
          /\ v >= 0 => (w > 0 <=> v >= 2)
          /\ v <= -2 => w < 0
      BY <3>1, TruncateIs
    <3> HIDE DEF w
    <3>3. w \in Int /\ (v < 0 => w < 0) /\ (v >= 2 => w > 0) /\ w # NA
      BY <3>1, <3>2, NaAssumption
    <3> QED
      BY <2>1, <2>3, <3>1, <3>3 DEF v
  <2> QED
    BY <2>2, <2>3
<1>6. RNumberSelection(n, seq) = Failed
        \/ ~(\E i \in values \ {NA} : i < 0)
        \/ ~(NA \in values \/ \E i \in values \ {NA} : i > 0)
  BY DEF RNumberSelection
<1>7. (\E i \in values \ {NA} : i < 0) /\ (NA \in values \/ \E i \in values \ {NA} : i > 0) =>
        RNumberSelection(n, seq) = Failed
  BY DEF RNumberSelection
<1> HIDE DEF whole, values
<1>8. CASE Mixed(seq)
  <2>1. PICK k \in 1..m : seq[k] # NA /\ seq[k] < 0
    BY <1>s, <1>8 DEF Mixed
  <2>2. PICK j \in 1..m : seq[j] = NA \/ seq[j] >= 2
    BY <1>s, <1>8 DEF Mixed
  <2>3. RNumberSelection(n, seq) = Failed
    BY <1>5, <1>7, <2>1, <2>2
  <2>4. ~(Nas(seq) + Positives(seq) + Negatives(seq) = 0)
    BY <1>s, <1>8 DEF Mixed
  <2>5. NumberSubscript(n, seq) = Failed
    BY <1>8, <2>4 DEF NumberSubscript
  <2> QED
    BY <2>3, <2>5 DEF Located, seq
<1>9. CASE Negatives(seq) > 0 /\ ~Mixed(seq)
  <2>1. \A k \in 1..m : seq[k] \in Int /\ (seq[k] = 0 \/ (seq[k] <= -2 /\ seq[k] # -2 * n - 1))
    <3>1. Nas(seq) = 0 /\ Positives(seq) = 0
      BY <1>s, <1>9 DEF Mixed
    <3>2. ASSUME NEW k \in 1..m
          PROVE  seq[k] \in Int /\ (seq[k] = 0 \/ (seq[k] <= -2 /\ seq[k] # -2 * n - 1))
      <4>1. seq[k] # NA /\ ~(seq[k] >= 2)
        BY <1>s, <3>1
      <4>2. seq[k] \in Int /\ seq[k] # -1 /\ seq[k] # 1 /\ seq[k] # -2 * n - 1
        BY <1>4, <1>9, <4>1
      <4> QED
        BY <4>1, <4>2
    <3> QED
      BY <3>2
  <2>2. PICK some \in 1..m : seq[some] # 0
    BY <1>s, <1>9
  <2>3. seq \in Seq(Int)
    BY <1>1, <2>1, SeqIn DEF m
  <2>4. NumberSubscript(n, seq) = NegativeSubscript(n, seq)
    <3>1. ~(Nas(seq) + Positives(seq) + Negatives(seq) = 0)
      BY <1>s, <1>9
    <3> QED
      BY <1>9, <3>1 DEF NumberSubscript
  <2>5. CASE n # 0
    <3>1. Selects(n, NegativeSubscript(n, seq), RNumberSelection(n, seq))
      <4>1. n \in Nat \ {0}
        BY <2>5
      <4> QED
        BY <2>1, <2>2, <2>3, <4>1, NegativeIs DEF m
    <3> QED
      BY <2>4, <3>1, SelectsLocated DEF seq
  <2>6. CASE n = 0
    <3>1. ~\E e \in {Excluded(v) : v \in {w \in ToSet(seq) : w \notin {0, NA} /\ -w <= 2 * n}} : e < 0
      <4>1. \A w \in ToSet(seq) : w \in Int /\ (w = 0 \/ w <= -2)
        BY <1>2, <2>1 DEF ToSet
      <4> QED
        BY <2>6, <4>1
    <3>2. NegativeSubscript(n, seq) = Indices("INT", <<>>)
      <4>1. [i \in 1..n |-> IF i - 1 \in {Excluded(v) : v \in {w \in ToSet(seq) :
                                 w \notin {0, NA} /\ -w <= 2 * n}} THEN FALSE_ ELSE TRUE_] = <<>>
        BY <2>6
      <4> QED
        BY <3>1, <4>1 DEF NegativeSubscript, LogicalSubscript
    <3>3. RNumberSelection(n, seq) = Ok(<<>>)
      <4>1. \A D : Chosen(Positions(n), D) = <<>>
        <5>1. ASSUME NEW D PROVE Chosen(Positions(n), D) = <<>>
          <6>1. PICK x : ChosenTurns(x, Positions(n), D)
            BY PositionsAre, ChosenSteps
          <6> QED
            BY <2>6, <6>1, PositionsAre DEF ChosenTurns
        <5> QED
          BY <5>1
      <4>2. \E i \in values \ {NA} : i < 0
        <5>1. PICK k \in 1..m : seq[k] # NA /\ seq[k] < 0
          BY <1>s, <1>9
        <5> QED
          BY <1>5, <5>1
      <4>3. NA \notin values /\ ~\E i \in values \ {NA} : i > 0
        <5>1. \A i \in values : \E k \in 1..m : i = whole[k]
          BY <1>2 DEF ToSet, values, whole
        <5>2. ASSUME NEW k \in 1..m PROVE whole[k] \in Int /\ whole[k] <= 0
          <6>1. seq[k] \in Int /\ seq[k] # NA /\ (seq[k] = 0 \/ seq[k] <= -2)
            BY <2>1, NaAssumption
          <6>2. CASE seq[k] = 0
            <7>1. whole[k] = Truncate(0) \div 2
              BY <1>2, <6>1, <6>2 DEF whole
            <7> QED
              BY <7>1 DEF Truncate
          <6>3. CASE seq[k] <= -2
            <7>1. whole[k] < 0 /\ whole[k] \in Int
              BY <1>5, <6>1, <6>3
            <7> QED
              BY <7>1
          <6> QED
            BY <6>1, <6>2, <6>3
        <5> QED
          BY <5>1, <5>2, NaAssumption
      <4> QED
        BY <4>1, <4>2, <4>3 DEF RNumberSelection, values, whole
    <3>4. <<>> \in Seq(1..n \cup {NA})
      OBVIOUS
    <3> QED
      BY <2>4, <3>2, <3>3, <3>4 DEF Located, seq
  <2> QED
    BY <2>5, <2>6
<1>10. CASE ~(Negatives(seq) > 0)
  <2>1. \A k \in 1..m : seq[k] = NA \/ seq[k] >= 0
    <3>1. ASSUME NEW k \in 1..m, seq[k] # NA PROVE seq[k] >= 0
      BY <1>s, <1>4, <1>10, <3>1
    <3> QED
      BY <3>1
  <2>2. Selects(n, PositiveSubscript(n, seq), RNumberSelection(n, seq))
    BY <1>1, <2>1, PositiveIs DEF m
  <2>3. CASE Nas(seq) + Positives(seq) + Negatives(seq) = 0
    <3>1. NumberSubscript(n, seq) = Indices("INT", <<>>)
      BY <2>3 DEF NumberSubscript
    <3>2. \A k \in 1..m : seq[k] # NA /\ ~(seq[k] >= 2)
      <4>1. Nas(seq) = 0 /\ Positives(seq) = 0
        BY <1>s, <2>3
      <4> QED
        BY <1>s, <4>1
    <3>3. PositiveSubscript(n, seq) = Hung
      <4> DEFINE S == {v \in ToSet(seq) : v = NA \/ v >= 2}
      <4>1. \A v \in ToSet(seq) : \E k \in 1..m : v = seq[k]
        BY <1>2 DEF ToSet
      <4>2. S = {}
        BY <3>2, <4>1
      <4>3. Chosen(seq, {}) = <<>>
        <5>1. /\ Chosen(seq, {}) \in Seq(ToSet(seq))
              /\ \A j \in 1..Len(Chosen(seq, {})) : \E k \in 1..Len(seq) : seq[k] \in {}
          BY <1>1, ChosenAlike
        <5>2. Len(Chosen(seq, {})) \in Nat /\ 1..Len(Chosen(seq, {})) = {}
          BY <5>1
        <5> QED
          BY <5>1, <5>2, EmptySeq
      <4> QED
        <5> DEFINE kept == Chosen(seq, S)
                   index(v) == IF v = NA \/ Truncate(v) > 2 * n THEN NA ELSE v \div 2
        <5>1. PositiveSubscript(n, seq) =
                NewIndices(IndexType(Len(kept)), [k \in DOMAIN kept |-> index(kept[k])])
          BY DEF PositiveSubscript
        <5>2. kept = <<>>
          BY <4>2, <4>3
        <5> HIDE DEF kept, index
        <5>3. [k \in DOMAIN kept |-> index(kept[k])] = <<>>
          BY <5>2
        <5> QED
          BY <5>1, <5>3 DEF NewIndices
    <3> QED
      BY <2>2, <3>1, <3>3 DEF Selects, Located, NewIndices, Indices, Hung, Ok, seq
  <2>4. CASE ~(Nas(seq) + Positives(seq) + Negatives(seq) = 0)
    <3>1. NumberSubscript(n, seq) = PositiveSubscript(n, seq)
      BY <1>10, <2>4 DEF NumberSubscript, Mixed
    <3> QED
      BY <2>2, <3>1, SelectsLocated DEF seq
  <2> QED
    BY <2>3, <2>4
<1> QED
  BY <1>8, <1>9, <1>10

(* The first of some positions.                                              *)
LEMMA FirstIs ==
  ASSUME NEW S \in SUBSET Nat
  PROVE  /\ S # {} => First(S) \in S /\ \A j \in S : First(S) <= j
         /\ \A i \in S : (\A j \in S : i <= j) => First(S) = i
<1>1. S # {} => \E i \in S : \A j \in S : i <= j
  BY LeastElement
<1>2. ASSUME NEW i \in S, \A j \in S : i <= j PROVE First(S) = i
  <2>1. \A k \in S : (\A j \in S : k <= j) => k = i
    BY <1>2
  <2> QED
    BY <1>2, <2>1 DEF First
<1> QED
  BY <1>1, <1>2 DEF First

(* What the loop over the names finds.                                       *)
Unnamed(names, string) ==
    string = NA \/ string.text = Blank \/ Positioned(names, string) = {}

(* It is the first name of the same text, but for NA and the empty string.   *)
LEMMA FirstMatchIs ==
  ASSUME NEW names \in Seq(Strs), NEW string \in Strs
  PROVE  /\ Positioned(names, string) \in SUBSET (1..Len(names))
         /\ FirstMatch(names, string) =
              IF Unnamed(names, string) THEN NA ELSE First(Positioned(names, string))
<1> DEFINE named == Positioned(names, string)
           found == {i \in DOMAIN names : NonNullMatch(string, names[i])}
<1>1. DOMAIN names = 1..Len(names) /\ \A i \in DOMAIN names : names[i] \in Strs
  BY LenProperties
<1>2. named \in SUBSET (1..Len(names))
  BY <1>1 DEF Positioned
<1>3. CASE string = NA \/ string.text = Blank
  <2>1. found = {}
    BY <1>3 DEF NonNullMatch
  <2> QED
    BY <1>2, <1>3, <2>1 DEF FirstMatch, Unnamed
<1>4. CASE ~(string = NA \/ string.text = Blank)
  <2>1. ASSUME NEW i \in DOMAIN names
        PROVE  NonNullMatch(string, names[i]) <=> SameText(names[i], string)
    <3>1. StringsAreEqual(string, names[i]) <=> (string = NA /\ names[i] = NA) \/ SameText(string, names[i])
      BY <1>1, EqualIs
    <3> QED
      BY <1>4, <3>1 DEF NonNullMatch, SameText
  <2>2. found = named
    BY <2>1 DEF Positioned
  <2>3. FirstMatch(names, string) = IF found = {} THEN NA ELSE First(found)
    BY DEF FirstMatch, First
  <2> HIDE DEF found, named
  <2> QED
    BY <1>2, <1>4, <2>2, <2>3 DEF Unnamed, named
<1> QED
  BY <1>3, <1>4

(* Every subscript that makes no hash table selects what R selects.          *)
LEMMA SubscriptLocated ==
  ASSUME NEW v, WellFormed(v), NEW s, TypedElements(s),
         ~Hashes(v, s), ~OddFraction(Len(v.elems), s)
  PROVE  Located(Len(v.elems), Subscript(v, s), RSelection(v, s), s.type = "STR")
<1> DEFINE n == Len(v.elems)
<1>1. n \in Nat /\ v.names \in Seq(Strs) /\ Len(v.names) \in {0, n}
  BY LenProperties DEF WellFormed, TypedElements, Strs
<1>2. s.type \in Types /\ s.elems \in Seq(ElementsOf(s.type)) /\ <<>> \in Seq(1..n \cup {NA})
  BY DEF TypedElements
<1>3. CASE s.type \in {"RAW", "CPLX"}
  <2>1. Subscript(v, s) = Failed
    BY <1>3 DEF Subscript
  <2>2. RSelection(v, s) = Failed
    BY <1>3 DEF RSelection
  <2> QED
    BY <2>1, <2>2 DEF Located
<1>4. CASE s.elems = <<>> /\ s.type \notin {"RAW", "CPLX"}
  <2>1. RSelection(v, s) = Ok(<<>>)
    BY <1>4 DEF RSelection
  <2>2. Subscript(v, s) \in {Hung, Indices("INT", <<>>)}
    <3>1. CASE s.type = "NULL"
      BY <3>1 DEF Subscript
    <3>2. CASE s.type = "LGL"
      BY <1>4, <3>2 DEF Subscript, LogicalSubscript
    <3>3. CASE s.type \in {"INT", "REAL"}
      <4>1. <<>> \in Seq(Int \cup {NA}) /\ Len(<<>>) = 0
        OBVIOUS
      <4>2. Nas(<<>>) = 0 /\ Positives(<<>>) = 0 /\ Negatives(<<>>) = 0
        <5>1. ASSUME NEW q, q = <<>> PROVE Nas(q) = 0 /\ Positives(q) = 0 /\ Negatives(q) = 0
          <6>1. q \in Seq(Int \cup {NA}) /\ Len(q) = 0
            BY <5>1
          <6>2. /\ Nas(q) \in Nat /\ Negatives(q) \in Nat /\ Positives(q) \in Nat
                /\ Nas(q) > 0 <=> \E k \in 1..Len(q) : q[k] = NA
                /\ Negatives(q) > 0 <=> \E k \in 1..Len(q) : q[k] # NA /\ q[k] < 0
                /\ Positives(q) > 0 <=> \E k \in 1..Len(q) : q[k] # NA /\ q[k] >= 2
            BY <6>1, StatisticsAre
          <6>3. 1..Len(q) = {}
            BY <6>1
          <6> QED
            BY <6>2, <6>3
        <5> QED
          BY <5>1
      <4> QED
        BY <1>4, <3>3, <4>2 DEF Subscript, NumberSubscript
    <3>4. CASE s.type = "STR"
      <4>1. /\ [k \in DOMAIN <<>> |-> NA] = <<>>
            /\ [k \in DOMAIN <<>> |-> FirstMatch(v.names, <<>>[k])] = <<>>
        OBVIOUS
      <4> QED
        BY <1>4, <3>4 DEF Subscript, StringSubscript, NullStringSubscript, LoopedStringSubscript,
                          NewIndices, Hashes
    <3> QED
      BY <1>2, <1>4, <3>1, <3>2, <3>3, <3>4 DEF Types
  <2> QED
    BY <1>2, <2>1, <2>2 DEF Located
<1>5. CASE s.elems # <<>> /\ s.type = "LGL"
  <2>1. Subscript(v, s) = LogicalSubscript(n, s.elems)
    BY <1>5 DEF Subscript
  <2>2. RSelection(v, s) = Ok(Selected(n, s.elems))
    BY <1>5 DEF RSelection, Selected, Taken, Flags
  <2>3. Selects(n, Subscript(v, s), RSelection(v, s))
    BY <1>1, <1>2, <1>5, <2>1, <2>2, LogicalIs DEF Selects
  <2> QED
    BY <1>5, <2>3, SelectsLocated
<1>6. CASE s.elems # <<>> /\ s.type \in {"INT", "REAL"}
  <2>1. Subscript(v, s) = NumberSubscript(n, s.elems) /\ RSelection(v, s) = RNumberSelection(n, s.elems)
    BY <1>6 DEF Subscript, RSelection
  <2>2. Located(n, NumberSubscript(n, s.elems), RNumberSelection(n, s.elems), FALSE)
    BY <1>1, <1>6, NumberLocated
  <2> QED
    BY <1>6, <2>1, <2>2
<1>7. CASE s.elems # <<>> /\ s.type = "STR"
  <2> DEFINE m == Len(s.elems)
             sel == [k \in DOMAIN s.elems |-> IF Unnamed(v.names, s.elems[k]) THEN NA
                                              ELSE First(Positioned(v.names, s.elems[k]))]
  <2>1. m \in Nat \ {0} /\ DOMAIN s.elems = 1..m /\ \A k \in 1..m : s.elems[k] \in Strs
    BY <1>2, <1>7, EmptySeq, LenProperties DEF ElementsOf, Strs
  <2>2. RSelection(v, s) = Ok(sel)
    BY <1>7 DEF RSelection, Unnamed, Positioned
  <2>3. ASSUME NEW k \in 1..m
        PROVE  /\ sel[k] = FirstMatch(v.names, s.elems[k])
               /\ sel[k] \in 1..n \cup {NA}
               /\ v.names = <<>> => sel[k] = NA
    <3>1. /\ Positioned(v.names, s.elems[k]) \in SUBSET (1..Len(v.names))
          /\ FirstMatch(v.names, s.elems[k]) =
              IF Unnamed(v.names, s.elems[k]) THEN NA ELSE First(Positioned(v.names, s.elems[k]))
      BY <1>1, <2>1, FirstMatchIs
    <3>2. sel[k] = FirstMatch(v.names, s.elems[k])
      BY <2>1, <3>1
    <3>3. Positioned(v.names, s.elems[k]) \in SUBSET (1..n) /\ Positioned(v.names, s.elems[k]) \in SUBSET Nat
      BY <1>1, <3>1
    <3>4. ~Unnamed(v.names, s.elems[k]) => First(Positioned(v.names, s.elems[k])) \in 1..n
      BY <3>3, FirstIs DEF Unnamed
    <3>5. v.names = <<>> => Unnamed(v.names, s.elems[k])
      BY <3>1 DEF Unnamed
    <3> QED
      BY <3>1, <3>2, <3>4, <3>5
  <2> HIDE DEF m
  <2>4. sel = [k \in 1..m |-> sel[k]] /\ sel \in [1..m -> 1..n \cup {NA}]
    BY <2>1, <2>3
  <2> HIDE DEF sel
  <2>5. sel \in Seq(1..n \cup {NA}) /\ sel # <<>>
    <3>1. sel \in Seq(1..n \cup {NA}) /\ Len(sel) = m
      BY <2>1, <2>4, SeqDef, LenProperties
    <3> QED
      BY <2>1, <3>1
  <2>6. Subscript(v, s) = NewIndices("INT", sel)
    <3>1. CASE v.names = <<>>
      <4>1. sel = [k \in DOMAIN s.elems |-> NA]
        BY <2>1, <2>3, <2>4, <3>1
      <4> QED
        BY <1>7, <3>1, <4>1 DEF Subscript, StringSubscript, NullStringSubscript
    <3>2. CASE v.names # <<>>
      <4>1. sel = [k \in DOMAIN s.elems |-> FirstMatch(v.names, s.elems[k])]
        BY <2>1, <2>3, <2>4
      <4>2. ~UseHashing(n, Len(s.elems))
        BY <1>7, <3>2 DEF Hashes
      <4> QED
        BY <1>7, <3>2, <4>1, <4>2 DEF Subscript, StringSubscript, LoopedStringSubscript
    <3> QED
      BY <3>1, <3>2
  <2> QED
    BY <1>7, <2>2, <2>5, <2>6 DEF Located, NewIndices
<1>8. s.type = "NULL" => s.elems = <<>>
  <2>1. ASSUME s.type = "NULL" PROVE s.elems = <<>>
    <3>1. ElementsOf("NULL") = {}
      BY DEF ElementsOf
    <3>2. s.elems \in Seq({})
      BY <1>2, <2>1, <3>1
    <3> QED
      BY <3>2, EmptySeq, LenProperties
  <2> QED
    BY <2>1
<1>9. \/ s.type \in {"RAW", "CPLX"}
      \/ s.elems = <<>> /\ s.type \notin {"RAW", "CPLX"}
      \/ s.elems # <<>> /\ s.type = "LGL"
      \/ s.elems # <<>> /\ s.type \in {"INT", "REAL"}
      \/ s.elems # <<>> /\ s.type = "STR"
  BY <1>2, <1>8 DEF Types
<1> QED
  BY <1>3, <1>4, <1>5, <1>6, <1>7, <1>9

(* The getters, at indices that are in the vector or NA.                     *)
ElementAt(v, i) == IF i = NA THEN NaOf(v.type) ELSE v.elems[i]

(* copy_selected_values reads the element at every index, or the NA.         *)
LEMMA GettersGet ==
  ASSUME NEW v, WellFormed(v), NEW sel \in Seq(1..Len(v.elems) \cup {NA})
  PROVE  GettersAtIntegers(v, sel) = Ok([k \in DOMAIN sel |-> ElementAt(v, sel[k])])
<1> DEFINE got == [k \in DOMAIN sel |-> Got(v, sel[k])]
           stops == {k \in DOMAIN got : got[k].status # "ok"}
<1>1. Len(v.elems) \in Nat /\ DOMAIN v.elems = 1..Len(v.elems)
  BY LenProperties DEF WellFormed, TypedElements
<1>2. ASSUME NEW k \in DOMAIN sel PROVE got[k] = Ok(ElementAt(v, sel[k]))
  <2>1. sel[k] \in 1..Len(v.elems) \cup {NA}
    OBVIOUS
  <2>2. CASE sel[k] = NA
    BY <2>2 DEF Got, ElementAt
  <2>3. CASE sel[k] # NA
    <3>1. sel[k] \in 1..Len(v.elems)
      BY <2>1, <2>3
    <3>2. ~(sel[k] > Len(v.elems)) /\ (sel[k] - 1) + 1 = sel[k]
      BY <1>1, <3>1
    <3>3. SafelyGet(v.elems, sel[k] - 1) = Ok(v.elems[sel[k]])
      BY <1>1, <3>1, <3>2 DEF SafelyGet
    <3> QED
      BY <2>3, <3>2, <3>3 DEF Got, ElementAt
  <2> QED
    BY <2>2, <2>3
<1>3. DOMAIN got = DOMAIN sel
  OBVIOUS
<1>4. GettersAtIntegers(v, sel) = IF stops = {} THEN Ok([k \in DOMAIN got |-> got[k].value]) ELSE got[Min(stops)]
  BY DEF GettersAtIntegers
<1> HIDE DEF got
<1>5. stops = {}
  BY <1>2, <1>3 DEF Ok
<1>6. [k \in DOMAIN got |-> got[k].value] = [k \in DOMAIN sel |-> ElementAt(v, sel[k])]
  BY <1>2, <1>3 DEF Ok
<1> QED
  BY <1>4, <1>5, <1>6

(* A subset takes the elements that R takes.                                 *)
LikeR(v, s, selection) ==
    IF selection = Failed THEN Failed
    ELSE IF selection.value = <<>> THEN Hung
    ELSE IF InDoubles(v, s, selection.value) /\ NA \in ToSet(selection.value) THEN Undefined
    ELSE Ok([k \in DOMAIN selection.value |-> ElementAt(v, selection.value[k])])

Copied(v, given) == IF given.status # "ok" THEN given ELSE CopySelected(v, given.value)

(* It fails, hangs or copies just as the selection of R says.                *)
LEMMA SubsetIs ==
  ASSUME NEW v, WellFormed(v), NEW s, TypedElements(s),
         ~Hashes(v, s), ~OddFraction(Len(v.elems), s)
  PROVE  Copied(v, Subscript(v, s)) = LikeR(v, s, RSelection(v, s))
<1> DEFINE given == Subscript(v, s)
           selection == RSelection(v, s)
           n == Len(v.elems)
<1>1. Located(n, given, selection, s.type = "STR")
  BY SubscriptLocated
<1> HIDE DEF given, selection
<1>2. CASE given = Failed /\ selection = Failed
  BY <1>2 DEF Copied, Failed, LikeR, given, selection
<1>3. CASE ~(given = Failed /\ selection = Failed)
  <2>1. PICK sel \in Seq(1..n \cup {NA}) :
          /\ selection = Ok(sel)
          /\ IF sel = <<>> THEN given \in {Hung, Indices("INT", <<>>)}
             ELSE given = Indices(IF s.type = "STR" THEN "INT" ELSE IndexType(Len(sel)), sel)
    BY <1>1, <1>3 DEF Located
  <2>2. selection # Failed /\ selection.value = sel
    BY <2>1 DEF Ok, Failed
  <2>3. CASE sel = <<>>
    <3>1. given = Hung \/ given = Indices("INT", <<>>)
      BY <2>1, <2>3
    <3>2. Copied(v, given) = Hung
      BY <3>1 DEF Copied, Hung, Indices, Ok, CopySelected
    <3> QED
      BY <2>2, <2>3, <3>2 DEF given, selection, LikeR
  <2>4. CASE sel # <<>>
    <3> DEFINE type == IF s.type = "STR" THEN "INT" ELSE IndexType(Len(sel))
    <3>1. given.status = "ok" /\ given.value.elems = sel /\ given.value.type = type
      BY <2>1, <2>4 DEF Indices, Ok
    <3>2. type = IF InDoubles(v, s, sel) THEN "REAL" ELSE "INT"
      BY DEF InDoubles, IndexType
    <3>3. GettersAtIntegers(v, sel) = Ok([k \in DOMAIN sel |-> ElementAt(v, sel[k])])
      BY <2>1, GettersGet
    <3> HIDE DEF type
    <3>4. Copied(v, given) =
            IF InDoubles(v, s, sel) /\ NA \in ToSet(sel) THEN Undefined
            ELSE Ok([k \in DOMAIN sel |-> ElementAt(v, sel[k])])
      BY <2>4, <3>1, <3>2, <3>3 DEF Copied, CopySelected, GettersAtDoubles
    <3> QED
      BY <2>2, <2>4, <3>4 DEF given, selection, LikeR
  <2> QED
    BY <2>3, <2>4
<1> QED
  BY <1>2, <1>3 DEF given, selection

-----------------------------------------------------------------------------
(* The names of a vector that are found by a subscript of strings.           *)
NamesGiven(v) == \E w \in Vectors : v.names = w.names

FindsNames(v, s, given) ==
    \A k \in DOMAIN s.elems :
      LET string == s.elems[k]
          found == given.value.elems[k]
          there == Positioned(v.names, string)
          agree == UsesUtf8(v.names) = UsesUtf8(s.elems)
      IN /\ found # NA => there # {} /\ found = First(there)
         /\ string # NA /\ there # {} /\ (IF Hashes(v, s) THEN agree ELSE string.text # Blank)
              => found # NA

(* string_subscript finds the first of them, by loop or hash table.          *)
LEMMA StringsFound ==
  ASSUME NEW v, WellFormed(v), NamesGiven(v), NEW s \in Subscripted \cup Mutated, s.type = "STR",
         Subscript(v, s).status = "ok"
  PROVE  FindsNames(v, s, Subscript(v, s))
<1> DEFINE given == Subscript(v, s)
           names == v.names
           m == Len(s.elems)
<1>1. /\ names \in Seq(Strs) /\ s.elems \in Seq(Strs) /\ given = StringSubscript(v, s.elems)
      /\ given.status = "ok"
  BY ShapeAssumption DEF WellFormed, TypedElements, ElementsOf, Strs, Subscript
<1>2. /\ m \in Nat /\ DOMAIN s.elems = 1..m /\ \A k \in 1..m : s.elems[k] \in Strs
      /\ DOMAIN names = 1..Len(names) /\ Len(names) \in Nat /\ \A i \in DOMAIN names : names[i] \in Strs
  BY <1>1, LenProperties
<1>p. \A k \in 1..m : Positioned(names, s.elems[k]) \in SUBSET Nat
  BY <1>2 DEF Positioned
<1> HIDE DEF given
<1>3. CASE names = <<>>
  <2>1. given = NewIndices("INT", [k \in DOMAIN s.elems |-> NA])
    BY <1>1, <1>3 DEF StringSubscript, NullStringSubscript
  <2>2. given.value.elems = [k \in DOMAIN s.elems |-> NA]
    BY <1>1, <2>1 DEF NewIndices, Indices, Hung, Ok
  <2>3. \A k \in 1..m : Positioned(names, s.elems[k]) = {}
    BY <1>3 DEF Positioned
  <2> QED
    BY <1>2, <2>2, <2>3 DEF FindsNames, given
<1>4. CASE names # <<>> /\ ~Hashes(v, s)
  <2>1. given = NewIndices("INT", [k \in DOMAIN s.elems |-> FirstMatch(names, s.elems[k])])
    BY <1>1, <1>4 DEF StringSubscript, LoopedStringSubscript, Hashes
  <2>2. given.value.elems = [k \in DOMAIN s.elems |-> FirstMatch(names, s.elems[k])]
    BY <1>1, <2>1 DEF NewIndices, Indices, Hung, Ok
  <2>3. ASSUME NEW k \in 1..m
        PROVE  LET string == s.elems[k]
                   found == given.value.elems[k]
                   there == Positioned(names, string)
               IN /\ found # NA => there # {} /\ found = First(there)
                  /\ string # NA /\ there # {} /\ string.text # Blank => found # NA
    <3> DEFINE string == s.elems[k]
               there == Positioned(names, string)
    <3>1. given.value.elems[k] = IF Unnamed(names, string) THEN NA ELSE First(there)
      BY <1>1, <1>2, <2>2, FirstMatchIs
    <3>2. ~Unnamed(names, string) => there # {} /\ First(there) \in Nat
      BY <1>p, FirstIs DEF Unnamed
    <3>3. string # NA /\ there # {} /\ string.text # Blank => ~Unnamed(names, string)
      BY DEF Unnamed
    <3> HIDE DEF string, there
    <3> QED
      BY <3>1, <3>2, <3>3, NaAssumption DEF string, there
  <2> QED
    BY <1>2, <1>4, <2>3 DEF FindsNames, given
<1>5. CASE names # <<>> /\ Hashes(v, s)
  <2> DEFINE slots == TableLength(Len(names))
             table == TableOf(names)
             utf8 == UsesUtf8(s.elems)
  <2>1. given = NewIndices("REAL", MemberIndices(names, s.elems))
    BY <1>1, <1>5 DEF StringSubscript, HashStringSubscript, Hashes
  <2>2. given.value.elems = MemberIndices(names, s.elems)
    BY <1>1, <2>1 DEF NewIndices, Indices, Hung, Ok
  <2>3. Origin(names, slots)
    <3>1. slots \in Nat \ {0} /\ slots >= 2 * Len(names)
      <4> DEFINE n == Len(names)
      <4>1. n \in Nat
        BY <1>2
      <4> HIDE DEF n
      <4>2. TableLength(n) \in Nat /\ TableLength(n) >= 2 /\ TableLength(n) >= 2 * n
        BY <4>1, TableLengthIs
      <4> QED
        BY <4>1, <4>2 DEF n
    <3>2. PICK w \in Vectors : names = w.names
      BY DEF NamesGiven
    <3>3. \A i \in 1..Len(names) : names[i] \in Named
      <4>1. ToSet(names) \in {ToSet(x.names) : x \in Vectors}
        BY <3>2
      <4>2. \A i \in 1..Len(names) : names[i] \in ToSet(names)
        BY <1>2 DEF ToSet
      <4> QED
        BY <4>1, <4>2 DEF Named
    <3>4. UsesUtf8(names) \in BOOLEAN
      BY <1>1, PlainStrings
    <3>5. \A i \in 1..Len(names) : Hash(names[i], UsesUtf8(names), slots) \in 0..(slots - 1)
      BY <3>2, <3>3, <3>4, HashAssumption
    <3> QED
      BY <1>1, <3>1, <3>5 DEF Origin
  <2>4. TableInv(table, names, slots, Len(names))
    BY <2>3, TableOfIs
  <2>5. ASSUME NEW k \in 1..m
        PROVE  LET string == s.elems[k]
                   found == given.value.elems[k]
                   there == Positioned(names, string)
               IN /\ found # NA => there # {} /\ found = First(there)
                  /\ string # NA /\ there # {} /\ UsesUtf8(names) = utf8 => found # NA
    <3> DEFINE string == s.elems[k]
               there == Positioned(names, string)
               index == IF string = NA THEN NA ELSE Member(table, names, string, utf8)
    <3>1. given.value.elems[k] = IF index = NA THEN NA ELSE index + 1
      BY <1>2, <2>2 DEF MemberIndices
    <3>2. CASE string = NA
      BY <3>1, <3>2
    <3>3. CASE string # NA
      <4>1. string \in Strings /\ utf8 \in BOOLEAN /\ (~utf8 => Plain(string))
        BY <1>1, <1>2, <3>3, PlainStrings DEF Strs
      <4>2. string \in Named
        <5>1. ToSet(s.elems) \in {ToSet(x.elems) : x \in {t \in Subscripted \cup Mutated : t.type = "STR"}}
          OBVIOUS
        <5>2. string \in ToSet(s.elems)
          BY <1>2 DEF ToSet
        <5> QED
          BY <5>1, <5>2 DEF Named
      <4>3. Hash(string, utf8, slots) \in 0..(slots - 1)
        <5>1. PICK w \in Vectors : names = w.names
          BY DEF NamesGiven
        <5> QED
          BY <4>1, <4>2, <5>1, HashAssumption
      <4> DEFINE found == Member(table, names, string, utf8)
      <4>4. /\ found # NA => /\ found \in Nat /\ found + 1 \in there
                             /\ \A j \in there : found + 1 <= j
            /\ there # {} /\ UsesUtf8(names) = utf8 => found # NA
        <5> HIDE DEF table, slots, utf8, string
        <5> QED
          BY <2>3, <2>4, <4>1, <4>3, MemberIs
      <4>5. index = found
        BY <3>3
      <4>6. there \in SUBSET Nat
        BY <1>p
      <4> HIDE DEF found, index, there, utf8
      <4>7. found # NA => First(there) = found + 1 /\ found + 1 # NA
        BY <4>4, <4>6, FirstIs, NaAssumption
      <4> HIDE DEF string
      <4> QED
        BY <3>1, <4>4, <4>5, <4>7 DEF there, string
    <3> QED
      BY <3>2, <3>3
  <2> HIDE DEF table, slots
  <2> QED
    BY <1>2, <1>5, <2>5 DEF FindsNames, given
<1> QED
  BY <1>3, <1>4, <1>5

(* The conversions end in the type they are to.                              *)
LEMMA ElementAsTyped ==
  ASSUME NEW to \in Types \ {"NULL"}, NEW from \in Types \ {"NULL"}, Coercible(to, from),
         NEW x \in ElementsOf(from)
  PROVE  ElementAs(to, from, x) \in ElementsOf(to)
<1>0. /\ IntMax \in Nat \ {0} /\ NA \notin Int /\ NA \notin Strings
      /\ TRUE_ = 2 /\ FALSE_ = 0
  BY IntMaxAssumption, NaAssumption DEF TRUE_, FALSE_
<1>i. \A n \in Int \cup {NA} : IntegerFrom(n) \in {2 * i : i \in -IntMax..IntMax} \cup {NA}
  <2>1. ASSUME NEW n \in Int, InIntRange(n) PROVE Truncate(n) \in {2 * i : i \in -IntMax..IntMax}
    <3>1. CASE n >= 0
      <4>1. n \div 2 \in -IntMax..IntMax
        BY <1>0, <2>1, <3>1 DEF InIntRange
      <4> QED
        BY <3>1, <4>1 DEF Truncate
    <3>2. CASE n < 0
      <4>1. (-n) \div 2 \in 0..IntMax
        BY <1>0, <2>1, <3>2 DEF InIntRange
      <4>2. -((-n) \div 2) \in -IntMax..IntMax /\ Truncate(n) = 2 * (-((-n) \div 2))
        BY <1>0, <3>2, <4>1 DEF Truncate
      <4> QED
        BY <4>2
    <3> QED
      BY <3>1, <3>2
  <2> QED
    BY <2>1 DEF IntegerFrom
<1>l. \A n : LogicalFrom(n) \in {TRUE_, FALSE_, NA}
  BY DEF LogicalFrom
<1>n. ASSUME NEW s \in Strings \cup {NA} PROVE NumberIn(s) \in Int \cup {NA}
  <2>1. CASE s # NA /\ s.text.spells \in {"number", "byte"}
    <3>1. s.text \in Texts
      BY <2>1 DEF Strings
    <3>2. s.text.n \in Int
      BY <2>1, <3>1 DEF Texts, Word
    <3> QED
      BY <2>1, <3>2 DEF NumberIn
  <2>2. CASE ~(s # NA /\ s.text.spells \in {"number", "byte"})
    BY <2>2 DEF NumberIn
  <2> QED
    BY <2>1, <2>2
<1>t. /\ \A n \in Int : String(Spelled(n)) \in Strings
      /\ \A c \in Int \X Int : String(SpelledPair(c)) \in Strings
      /\ \A b \in Nat : String(SpelledByte(b)) \in Strings
      /\ String(Word("TRUE")) \in Strings /\ String(Word("FALSE")) \in Strings
  BY DEF String, Strings, Texts, Spelled, SpelledPair, SpelledByte, Word
<1> DEFINE Numeric == {"LGL", "INT", "REAL"}
<1>x. /\ from \in Numeric => x \in Int \cup {NA}
      /\ from = "RAW" => x \in Nat
      /\ from = "CPLX" => /\ x \in (Int \cup {NA}) \X (Int \cup {NA})
                          /\ x[1] \in Int \cup {NA} /\ x[2] \in Int \cup {NA} /\ x = <<x[1], x[2]>>
      /\ from = "STR" => x \in Strings \cup {NA}
  BY <1>0 DEF ElementsOf
<1>f. from \in Numeric \/ from = "RAW" \/ from = "CPLX" \/ from = "STR"
  BY DEF Types
<1>r. from = "RAW" => to = "RAW" \/ to = "STR"
  BY DEF Coercible
<1>1. CASE to = "INT"
  <2>1. CASE from = "INT"
    BY <1>1, <2>1 DEF ElementAs
  <2>2. CASE from # "INT"
    <3>1. ElementAs(to, from, x) = AsInteger(from, x)
      BY <1>1, <2>2 DEF ElementAs
    <3>2. AsInteger(from, x) \in {2 * i : i \in -IntMax..IntMax} \cup {NA}
      BY <1>1, <1>i, <1>n, <1>x, <1>f, <1>r DEF AsInteger
    <3> QED
      BY <1>1, <3>1, <3>2 DEF ElementsOf
  <2> QED
    BY <2>1, <2>2
<1>2. CASE to = "REAL"
  <2>1. ElementAs(to, from, x) = AsReal(from, x)
    BY <1>2 DEF ElementAs
  <2>2. AsReal(from, x) \in Int \cup {NA}
    BY <1>2, <1>n, <1>x, <1>f, <1>r DEF AsReal
  <2> QED
    BY <1>2, <2>1, <2>2 DEF ElementsOf
<1>3. CASE to = "CPLX"
  <2>1. ElementAs(to, from, x) = AsComplex(from, x)
    BY <1>3 DEF ElementAs
  <2>2. AsComplex(from, x) \in (Int \cup {NA}) \X (Int \cup {NA})
    BY <1>3, <1>n, <1>x, <1>f, <1>r DEF AsComplex
  <2> QED
    BY <1>3, <2>1, <2>2 DEF ElementsOf
<1>4. CASE to = "LGL"
  <2>1. ElementAs(to, from, x) = AsLogical(from, x)
    BY <1>4 DEF ElementAs
  <2>2. AsLogical(from, x) \in {TRUE_, FALSE_, NA}
    BY <1>4, <1>l DEF AsLogical
  <2> QED
    BY <1>4, <2>1, <2>2 DEF ElementsOf
<1>5. CASE to = "STR"
  <2>1. ElementAs(to, from, x) = AsString(from, x)
    BY <1>5 DEF ElementAs
  <2>2. AsString(from, x) \in Strings \cup {NA}
    BY <1>t, <1>x, <1>f DEF AsString
  <2> QED
    BY <1>5, <2>1, <2>2 DEF ElementsOf
<1>6. CASE to = "RAW"
  BY <1>6 DEF ElementAs, Coercible
<1> QED
  BY <1>1, <1>2, <1>3, <1>4, <1>5, <1>6 DEF Types

(* A number or a string comes back from every wider type.                    *)
LEMMA RoundTrip ==
  ASSUME NEW to \in Types, NEW from \in {"LGL", "INT", "REAL", "STR"}, Rank[from] <= Rank[to],
         NEW x \in ElementsOf(from)
  PROVE  ElementAs(from, to, ElementAs(to, from, x)) = x
<1>0. /\ IntMax \in Nat \ {0} /\ NA \notin Int /\ NA \notin Strings
      /\ TRUE_ = 2 /\ FALSE_ = 0 /\ NA # 0
  BY IntMaxAssumption, NaAssumption DEF TRUE_, FALSE_
<1>i. \A i \in -IntMax..IntMax : IntegerFrom(2 * i) = 2 * i
  <2>1. ASSUME NEW i \in -IntMax..IntMax PROVE InIntRange(2 * i) /\ Truncate(2 * i) = 2 * i
    <3>1. CASE i >= 0
      BY <1>0, <3>1 DEF InIntRange, Truncate
    <3>2. CASE i < 0
      BY <1>0, <3>2 DEF InIntRange, Truncate
    <3> QED
      BY <1>0, <3>1, <3>2
  <2>2. \A i \in -IntMax..IntMax : 2 * i # NA
    BY <1>0
  <2> QED
    BY <2>1, <2>2 DEF IntegerFrom
<1>t. /\ \A n \in Int : String(Spelled(n)) # NA /\ NumberIn(String(Spelled(n))) = n
      /\ String(Word("TRUE")) # NA /\ String(Word("FALSE")) # NA
  <2>1. /\ \A n \in Int : String(Spelled(n)) \in Strings
        /\ String(Word("TRUE")) \in Strings /\ String(Word("FALSE")) \in Strings
    BY DEF String, Strings, Texts, Spelled, Word
  <2>2. /\ \A n \in Int : String(Spelled(n)) # NA
        /\ String(Word("TRUE")) # NA /\ String(Word("FALSE")) # NA
    BY <1>0, <2>1
  <2> QED
    BY <2>2 DEF NumberIn, String, Spelled
<1>r. Rank["LGL"] = 2 /\ Rank["INT"] = 3 /\ Rank["REAL"] = 4 /\ Rank["CPLX"] = 5 /\ Rank["STR"] = 6
      /\ Rank["NULL"] = 0 /\ Rank["RAW"] = 1
  BY DEF Rank
<1>1. CASE from = "LGL"
  <2>1. x \in {2, 0, NA} /\ to \in {"LGL", "INT", "REAL", "CPLX", "STR"}
    BY <1>0, <1>1, <1>r DEF ElementsOf, Types
  <2>2. \A y : ElementAs("LGL", to, y) = AsLogical(to, y)
    BY DEF ElementAs
  <2>3. LogicalFrom(x) = x /\ IntegerFrom(x) = x
    <3>1. IntegerFrom(2 * 1) = 2 * 1 /\ IntegerFrom(2 * 0) = 2 * 0
      BY <1>0, <1>i
    <3>2. IntegerFrom(2) = 2 /\ IntegerFrom(0) = 0
      BY <3>1
    <3>3. IntegerFrom(NA) = NA
      BY DEF IntegerFrom
    <3> QED
      BY <1>0, <2>1, <3>2, <3>3 DEF LogicalFrom
  <2>4. CASE to = "LGL"
    BY <1>1, <2>3, <2>4 DEF ElementAs, AsLogical
  <2>5. CASE to = "INT"
    BY <1>1, <2>3, <2>5 DEF ElementAs, AsLogical, AsInteger
  <2>6. CASE to = "REAL"
    BY <1>1, <2>3, <2>6 DEF ElementAs, AsLogical, AsReal
  <2>7. CASE to = "CPLX"
    <3>1. ElementAs(to, from, x) = IF x = NA THEN <<NA, NA>> ELSE <<x, 0>>
      BY <1>1, <2>7 DEF ElementAs, AsComplex
    <3>2. AsLogical("CPLX", <<NA, NA>>) = NA /\ AsLogical("CPLX", <<2, 0>>) = 2 /\ AsLogical("CPLX", <<0, 0>>) = 0
      BY <1>0 DEF AsLogical
    <3> QED
      BY <1>1, <2>1, <2>2, <2>7, <3>1, <3>2
  <2>8. CASE to = "STR"
    <3>1. ElementAs(to, from, x) = IF x = NA THEN NA
                                   ELSE String(Word(IF x = TRUE_ THEN "TRUE" ELSE "FALSE"))
      BY <1>1, <2>8 DEF ElementAs, AsString
    <3>2. /\ AsLogical("STR", NA) = NA /\ AsLogical("STR", String(Word("TRUE"))) = TRUE_
          /\ AsLogical("STR", String(Word("FALSE"))) = FALSE_
      <4>1. Word("TRUE") # Word("FALSE")
        BY DEF Word
      <4>2. String(Word("TRUE")).text = Word("TRUE") /\ String(Word("FALSE")).text = Word("FALSE")
        BY DEF String
      <4>3. AsLogical("STR", NA) = NA
        BY DEF AsLogical
      <4>4. ASSUME NEW y, y # NA
            PROVE  /\ y.text = Word("TRUE") => AsLogical("STR", y) = TRUE_
                   /\ y.text = Word("FALSE") => AsLogical("STR", y) = FALSE_
        BY <4>1, <4>4 DEF AsLogical
      <4> QED
        BY <1>t, <4>2, <4>3, <4>4
    <3> QED
      BY <1>0, <1>1, <2>1, <2>2, <2>8, <3>1, <3>2
  <2> QED
    BY <2>1, <2>4, <2>5, <2>6, <2>7, <2>8
<1>2. CASE from = "INT"
  <2>1. to \in {"INT", "REAL", "CPLX", "STR"}
    BY <1>2, <1>r DEF Types
  <2>2. x = NA \/ x \in Int
    BY <1>0, <1>2 DEF ElementsOf
  <2>3. IntegerFrom(x) = x
    <3>1. x = NA \/ \E i \in -IntMax..IntMax : x = 2 * i
      BY <1>2 DEF ElementsOf
    <3>2. IntegerFrom(NA) = NA
      BY DEF IntegerFrom
    <3> QED
      BY <1>i, <3>1, <3>2
  <2>4. CASE to = "INT"
    BY <1>2, <2>4 DEF ElementAs
  <2>5. CASE to = "REAL"
    BY <1>2, <2>3, <2>5 DEF ElementAs, AsReal, AsInteger
  <2>6. CASE to = "CPLX"
    <3>1. ElementAs(to, from, x) = IF x = NA THEN <<NA, NA>> ELSE <<x, 0>>
      BY <1>2, <2>6 DEF ElementAs, AsComplex
    <3>2. AsInteger("CPLX", <<NA, NA>>) = NA /\ (x # NA => AsInteger("CPLX", <<x, 0>>) = x)
      BY <1>0, <2>3 DEF AsInteger
    <3> QED
      BY <1>2, <2>6, <3>1, <3>2 DEF ElementAs
  <2>7. CASE to = "STR"
    <3>1. ElementAs(to, from, x) = IF x = NA THEN NA ELSE String(Spelled(x))
      BY <1>2, <2>7 DEF ElementAs, AsString
    <3>2. AsInteger("STR", NA) = NA /\ (x # NA => AsInteger("STR", String(Spelled(x))) = x)
      BY <1>t, <2>2, <2>3 DEF AsInteger, NumberIn, IntegerFrom
    <3> QED
      BY <1>2, <2>7, <3>1, <3>2 DEF ElementAs
  <2> QED
    BY <2>1, <2>4, <2>5, <2>6, <2>7
<1>3. CASE from = "REAL"
  <2>1. to \in {"REAL", "CPLX", "STR"} /\ (x = NA \/ x \in Int)
    BY <1>3, <1>r DEF Types, ElementsOf
  <2>2. CASE to = "REAL"
    BY <1>3, <2>2 DEF ElementAs, AsReal
  <2>3. CASE to = "CPLX"
    BY <1>0, <1>3, <2>3 DEF ElementAs, AsReal, AsComplex
  <2>4. CASE to = "STR"
    <3>1. ElementAs(to, from, x) = IF x = NA THEN NA ELSE String(Spelled(x))
      BY <1>3, <2>4 DEF ElementAs, AsString
    <3>2. AsReal("STR", NA) = NA /\ (x # NA => AsReal("STR", String(Spelled(x))) = x)
      BY <1>t, <2>1 DEF AsReal, NumberIn
    <3> QED
      BY <1>3, <2>4, <3>1, <3>2 DEF ElementAs
  <2> QED
    BY <2>1, <2>2, <2>3, <2>4
<1>4. CASE from = "STR"
  <2>1. to = "STR"
    BY <1>4, <1>r DEF Types
  <2> QED
    BY <1>4, <2>1 DEF ElementAs, AsString
<1> QED
  BY <1>1, <1>2, <1>3, <1>4

(* The values of an assignment, and what a turn of its loop keeps.           *)
SourceOf(v, values) == IF values = Itself THEN v ELSE values

Written(v) == [type : {v.type}, elems : Seq(ElementsOf(v.type)), names : {v.names}]
Rewritten(v) == {w \in Written(v) : Len(w.elems) = Len(v.elems)}

Assignable(v, sel, values) ==
    /\ WellFormed(v)
    /\ sel \in Seq(1..Len(v.elems) \cup {NA})
    /\ values = Itself \/ WellFormed(values)
    /\ Len(SourceOf(v, values).elems) # 0
    /\ Coercible(v.type, SourceOf(v, values).type)

(* Recycling takes an element of the values in every turn.                   *)
LEMMA RecycledIs ==
  ASSUME NEW E, NEW seq \in Seq(E), Len(seq) # 0, NEW i \in Nat
  PROVE  /\ (i % Len(seq)) + 1 \in 1..Len(seq)
         /\ Recycled(seq, i) = seq[(i % Len(seq)) + 1]
         /\ Recycled(seq, i) \in E
<1> DEFINE n == Len(seq)
<1>1. n \in Nat /\ n # 0 /\ DOMAIN seq = 1..n
  BY LenProperties
<1> HIDE DEF n
<1>2. (i % n) + 1 \in 1..n
  BY <1>1
<1>3. (i % Len(seq)) + 1 \in 1..Len(seq)
  BY <1>2 DEF n
<1> QED
  BY <1>3 DEF Recycled

(* One turn writes the converted value at its position, if it has one.       *)
TurnValue(w, sel, values, k) ==
    ElementAs(w.type, SourceOf(w, values).type, Recycled(SourceOf(w, values).elems, k - 1))

(* It keeps type, length and names, and touches that position only.          *)
LEMMA WriteOneIs ==
  ASSUME NEW v, NEW sel, NEW values, Assignable(v, sel, values),
         NEW w \in Rewritten(v), NEW k \in 1..Len(sel)
  PROVE  /\ WriteOne(w, sel, values, k) \in Rewritten(v)
         /\ sel[k] = NA => WriteOne(w, sel, values, k) = w
         /\ sel[k] # NA =>
              WriteOne(w, sel, values, k).elems = [w.elems EXCEPT ![sel[k]] = TurnValue(w, sel, values, k)]
<1> DEFINE source == SourceOf(w, values)
           value == TurnValue(w, sel, values, k)
           n == Len(v.elems)
<1>1. /\ w = [type |-> v.type, elems |-> w.elems, names |-> v.names]
      /\ w.type = v.type /\ w.names = v.names
      /\ w.elems \in Seq(ElementsOf(v.type)) /\ Len(w.elems) = n /\ n \in Nat /\ DOMAIN w.elems = 1..n
  BY LenProperties DEF Rewritten, Written
<1>2. v.type \in Types \ {"NULL"} /\ v.elems \in Seq(ElementsOf(v.type))
  BY DEF Assignable, WellFormed, TypedElements
<1>3. /\ source.type \in Types \ {"NULL"} /\ source.elems \in Seq(ElementsOf(source.type))
      /\ Len(source.elems) # 0 /\ Coercible(v.type, source.type)
  <2>1. CASE values = Itself
    BY <1>1, <1>2, <2>1 DEF Assignable, SourceOf
  <2>2. CASE values # Itself
    BY <2>2 DEF Assignable, SourceOf, WellFormed, TypedElements
  <2> QED
    BY <2>1, <2>2
<1>4. value \in ElementsOf(v.type)
  <2>1. k - 1 \in Nat
    OBVIOUS
  <2> HIDE DEF source
  <2>2. Recycled(source.elems, k - 1) \in ElementsOf(source.type)
    BY <1>3, <2>1, RecycledIs
  <2>3. ElementAs(v.type, source.type, Recycled(source.elems, k - 1)) \in ElementsOf(v.type)
    BY <1>2, <1>3, <2>2, ElementAsTyped
  <2> QED
    BY <1>1, <2>3 DEF TurnValue, source
<1>5. WriteOne(w, sel, values, k) = SetAt(w, sel[k], value)
  BY DEF WriteOne, TurnValue, SourceOf
<1> HIDE DEF value
<1>6. CASE sel[k] = NA
  BY <1>5, <1>6 DEF SetAt
<1>7. CASE sel[k] # NA
  <2>1. sel[k] \in 1..n
    BY <1>7 DEF Assignable
  <2>2. (sel[k] - 1) + 1 = sel[k]
    BY <1>1, <2>1
  <2> DEFINE elems == [w.elems EXCEPT ![sel[k]] = value]
  <2>3. SafelySet(w.elems, sel[k] - 1, value) = Ok(elems)
    BY <1>1, <2>1, <2>2 DEF SafelySet
  <2>4. SetAt(w, sel[k], value) = [w EXCEPT !.elems = elems]
    BY <1>7, <2>3 DEF SetAt, Ok
  <2>5. elems \in Seq(ElementsOf(v.type)) /\ Len(elems) = n
    BY <1>1, <1>4, <2>1, ExceptSeq
  <2> HIDE DEF elems
  <2>6. SetAt(w, sel[k], value) = [type |-> v.type, elems |-> elems, names |-> v.names]
    BY <1>1, <2>4
  <2> QED
    BY <1>5, <1>7, <2>5, <2>6 DEF Rewritten, Written, elems, value
<1> QED
  BY <1>6, <1>7

(* the writing of values.                                                    *)
WriteTurns(x, v, sel, values) ==
    /\ x[0] = v
    /\ \A k \in 0..Len(sel) : x[k] \in Rewritten(v)
    /\ \A k \in 1..Len(sel) : x[k] = WriteOne(x[k - 1], sel, values, k)
    /\ FoldLeft(LAMBDA t, k : WriteOne(t, sel, values, k), v, Positions(Len(sel))) = x[Len(sel)]

(* The loop has its turns, for every list of indices.                        *)
LEMMA WriteSteps ==
  ASSUME NEW v, NEW sel, NEW values, Assignable(v, sel, values)
  PROVE  \E x : WriteTurns(x, v, sel, values)
<1> DEFINE n == Len(sel)
           seq == [i \in 1..Len(sel) |-> i]
           Turn(t, k) == WriteOne(t, sel, values, k)
           States == Rewritten(v)
           Solves(h) == h = [s \in SUBSET (1..n) |->
                     IF s = {} THEN v ELSE Turn(h[s \ {Max(s)}], seq[Max(s)])]
           iter == CHOOSE h : Solves(h)
           x == [k \in 0..n |-> iter[1..k]]
<1>1. FoldLeft(LAMBDA t, k : WriteOne(t, sel, values, k), v, Positions(Len(sel))) = iter[1..n]
  BY DEF Positions, FoldLeft, MapThenFoldSet
<1>0. n \in Nat
  BY LenProperties DEF Assignable
<1>v. v \in States
  BY DEF Assignable, WellFormed, TypedElements, Rewritten, Written
<1>2. Solves(iter)
  <2> DEFINE turn == [p \in States \X (1..n) |-> Turn(p[1], p[2])]
  <2>1. turn \in [States \X (1..n) -> States]
    <3>1. \A a \in States, b \in 1..n : Turn(a, b) \in States
      BY WriteOneIs
    <3> HIDE DEF Turn, States, n
    <3> QED
      BY <3>1
  <2>2. \A k \in 1..n : seq[k] \in 1..n
    OBVIOUS
  <2>3. \A a \in States, b \in 1..n : turn[<<a, b>>] = Turn(a, b)
    OBVIOUS
  <2> HIDE DEF Turn, seq, turn, States, n
  <2>4. PICK h : IsFold(h, turn, seq, v, n, States, 1..n)
    BY <1>0, <1>v, <2>1, <2>2, FoldExists
  <2>5. Solves(h)
    BY <2>3, <2>4 DEF Folded, IsFold
  <2> QED
    BY <2>5
<1>a. \A k \in 1..n : seq[k] = k
  OBVIOUS
<1> HIDE DEF iter, Turn, seq, n
<1>3. x[0] = v /\ x[n] = iter[1..n]
  <2>1. 1..0 \in SUBSET (1..n) /\ 1..0 = {} /\ 0 \in 0..n /\ n \in 0..n
    BY <1>0
  <2>2. iter[1..0] = v
    <3> HIDE DEF x
    <3> QED
      BY <1>2, <2>1
  <2> HIDE DEF Solves
  <2> QED
    BY <2>1, <2>2
<1>4. ASSUME NEW k \in 1..n PROVE x[k] = Turn(x[k - 1], seq[k])
  <2>1. /\ 1..k \in SUBSET (1..n) /\ 1..k # {} /\ (1..k) \ {k} = 1..(k - 1)
        /\ k \in 0..n /\ k - 1 \in 0..n
    BY <1>0, IndicesUpto
  <2>2. Max(1..k) = k
    BY <1>0, LastOfUpto
  <2>3. iter[1..k] = Turn(iter[(1..k) \ {Max(1..k)}], seq[Max(1..k)])
    BY <1>2, <2>1
  <2> QED
    BY <2>1, <2>2, <2>3
<1> HIDE DEF x
<1>5. \A k \in 1..n : x[k] = WriteOne(x[k - 1], sel, values, k)
  BY <1>a, <1>4 DEF Turn
<1>6. \A k \in 0..n : x[k] \in States
  <2> DEFINE S == {k \in 0..n : x[k] \in States}
  <2>1. 0 \in S
    BY <1>0, <1>3, <1>v
  <2>2. ASSUME NEW k \in 0..(n - 1), k \in S PROVE k + 1 \in S
    <3>1. k + 1 \in 1..n /\ k + 1 \in 0..n /\ (k + 1) - 1 = k
      BY <1>0
    <3>2. x[k + 1] = WriteOne(x[k], sel, values, k + 1)
      BY <1>5, <3>1
    <3>3. x[k] \in States
      BY <2>2
    <3>4. WriteOne(x[k], sel, values, k + 1) \in States
      BY <3>1, <3>3, WriteOneIs DEF n
    <3> QED
      BY <3>1, <3>2, <3>4
  <2> HIDE DEF S
  <2>3. 0..n \subseteq S
    BY <1>0, <2>1, <2>2, UptoInduction
  <2> QED
    BY <2>3 DEF S
<1> QED
  BY <1>1, <1>3, <1>5, <1>6 DEF WriteTurns, n

(* Every position ends with the last value written to it, if that was read   *)
(* before it was overwritten.                                                *)
Overwrites(v, sel, values) ==
    /\ values = Itself
    /\ \E j, k \in DOMAIN sel : j < k /\ sel[j] = ((k - 1) % Len(SourceOf(v, values).elems)) + 1

LastWritten(w, v, sel, values, k) ==
    \A p \in 1..Len(v.elems) :
       /\ (\A j \in 1..k : sel[j] # p) => w.elems[p] = v.elems[p]
       /\ \A j \in 1..k : sel[j] = p /\ (\A i \in (j + 1)..k : sel[i] # p) =>
            w.elems[p] = TurnValue(v, sel, values, j)

(* This holds after every turn, by induction on them.                        *)
LEMMA WritesLast ==
  ASSUME NEW v, NEW sel, NEW values, Assignable(v, sel, values), ~Overwrites(v, sel, values),
         NEW x, WriteTurns(x, v, sel, values)
  PROVE  \A k \in 0..Len(sel) : LastWritten(x[k], v, sel, values, k)
<1> DEFINE n == Len(sel)
           m == Len(v.elems)
           S == {k \in 0..n : LastWritten(x[k], v, sel, values, k)}
<1>1. /\ n \in Nat /\ DOMAIN sel = 1..n /\ m \in Nat
      /\ \A k \in 1..n : sel[k] \in 1..m \cup {NA}
  BY LenProperties DEF Assignable, WellFormed, TypedElements
<1>2. 0 \in S
  <2>1. x[0] = v
    BY DEF WriteTurns
  <2>2. 1..0 = {} /\ 0 \in 0..n
    BY <1>1
  <2>3. LastWritten(v, v, sel, values, 0)
    BY <2>2 DEF LastWritten
  <2> QED
    BY <2>1, <2>2, <2>3
<1>3. ASSUME NEW k \in 0..(n - 1), k \in S PROVE k + 1 \in S
  <2>1. k + 1 \in 1..n /\ (k + 1) - 1 = k /\ k + 1 \in 0..n /\ k \in 0..n /\ k \in Nat
    BY <1>1
  <2> DEFINE w == x[k]
             u == x[k + 1]
  <2>2. w \in Rewritten(v) /\ u = WriteOne(w, sel, values, k + 1) /\ LastWritten(w, v, sel, values, k)
    BY <1>3, <2>1 DEF WriteTurns
  <2> HIDE DEF w, u
  <2>3. /\ sel[k + 1] = NA => u = w
        /\ sel[k + 1] # NA => u.elems = [w.elems EXCEPT ![sel[k + 1]] = TurnValue(w, sel, values, k + 1)]
    BY <2>1, <2>2, WriteOneIs
  <2>4. w.elems \in Seq(ElementsOf(v.type)) /\ Len(w.elems) = m /\ DOMAIN w.elems = 1..m /\ w.type = v.type
    BY <2>2, LenProperties DEF Rewritten, Written
  <2>5. TurnValue(w, sel, values, k + 1) = TurnValue(v, sel, values, k + 1)
    <3>1. CASE values # Itself
      BY <2>4, <3>1 DEF TurnValue, SourceOf
    <3>2. CASE values = Itself
      <4>1. m # 0 /\ v.elems \in Seq(ElementsOf(v.type))
        BY <3>2 DEF Assignable, SourceOf, WellFormed, TypedElements
      <4> DEFINE p == (k % m) + 1
      <4>2. /\ p \in 1..m /\ Recycled(v.elems, k) = v.elems[p] /\ Recycled(w.elems, k) = w.elems[p]
        BY <2>1, <2>4, <4>1, RecycledIs
      <4>3. \A j \in 1..k : sel[j] # p
        <5>1. ASSUME NEW j \in 1..k, sel[j] = p PROVE FALSE
          <6>1. j \in 1..n /\ j < k + 1
            BY <1>1, <2>1
          <6>2. sel[j] = (((k + 1) - 1) % m) + 1
            BY <2>1, <5>1
          <6> QED
            BY <1>1, <2>1, <3>2, <6>1, <6>2 DEF Overwrites, SourceOf
        <5> QED
          BY <5>1
      <4> HIDE DEF p
      <4>4. w.elems[p] = v.elems[p]
        BY <2>2, <4>2, <4>3 DEF LastWritten
      <4> QED
        BY <2>1, <2>4, <3>2, <4>2, <4>4 DEF TurnValue, SourceOf
    <3> QED
      BY <3>1, <3>2
  <2>6. ASSUME NEW p \in 1..m
        PROVE  /\ (\A j \in 1..(k + 1) : sel[j] # p) => u.elems[p] = v.elems[p]
               /\ \A j \in 1..(k + 1) : sel[j] = p /\ (\A i \in (j + 1)..(k + 1) : sel[i] # p) =>
                    u.elems[p] = TurnValue(v, sel, values, j)
    <3>1. /\ (\A j \in 1..k : sel[j] # p) => w.elems[p] = v.elems[p]
          /\ \A j \in 1..k : sel[j] = p /\ (\A i \in (j + 1)..k : sel[i] # p) =>
               w.elems[p] = TurnValue(v, sel, values, j)
      BY <2>2 DEF LastWritten
    <3>2. /\ sel[k + 1] # p => u.elems[p] = w.elems[p]
          /\ sel[k + 1] = p => u.elems[p] = TurnValue(v, sel, values, k + 1)
      <4>1. p # NA
        BY <1>1, NaAssumption
      <4> QED
        BY <2>3, <2>4, <2>5, <4>1
    <3>3. \A j \in 1..k : j \in 1..(k + 1) /\ k + 1 \in (j + 1)..(k + 1)
      BY <2>1
    <3>4. (\A j \in 1..(k + 1) : sel[j] # p) => u.elems[p] = v.elems[p]
      BY <2>1, <3>1, <3>2, <3>3
    <3>5. ASSUME NEW j \in 1..(k + 1), sel[j] = p, \A i \in (j + 1)..(k + 1) : sel[i] # p
          PROVE  u.elems[p] = TurnValue(v, sel, values, j)
      <4>1. CASE j = k + 1
        BY <3>2, <3>5, <4>1
      <4>2. CASE j \in 1..k
        <5>1. sel[k + 1] # p
          BY <3>3, <3>5, <4>2
        <5>2. \A i \in (j + 1)..k : i \in (j + 1)..(k + 1)
          BY <2>1
        <5> QED
          BY <3>1, <3>2, <3>5, <4>2, <5>1, <5>2
      <4> QED
        BY <2>1, <4>1, <4>2
    <3> QED
      BY <3>4, <3>5
  <2>7. LastWritten(u, v, sel, values, k + 1)
    BY <2>6 DEF LastWritten
  <2> QED
    BY <2>1, <2>7 DEF u
<1> HIDE DEF S
<1>4. 0..n \subseteq S
  BY <1>1, <1>2, <1>3, UptoInduction
<1> QED
  BY <1>4 DEF S

(* The last of some turns.                                                   *)
LEMMA LatestIs ==
  ASSUME NEW n \in Nat, NEW S \in SUBSET (1..n), S # {}
  PROVE  LET last == CHOOSE k \in S : \A j \in S : j <= k
         IN last \in S /\ \A j \in S : j <= last
<1> DEFINE T == {n - j : j \in S}
<1>1. T \in SUBSET Nat /\ T # {}
  <2>1. \A j \in S : j \in 1..n /\ n - j \in Nat
    OBVIOUS
  <2> QED
    BY <2>1
<1>2. PICK m \in T : \A t \in T : m <= t
  BY <1>1, LeastElement
<1>3. PICK k \in S : m = n - k
  BY <1>2
<1>4. \A j \in S : j \in 1..n /\ n - k <= n - j
  BY <1>2, <1>3
<1>5. \A j \in S : j <= k
  BY <1>3, <1>4
<1> QED
  BY <1>5

-----------------------------------------------------------------------------
(* Indices that are in the vector, or NA, whatever the subscript was.        *)
Inside(n, given) == given.status = "ok" => given.value.elems \in Seq(1..n \cup {NA})

(* Negative numbers give indices of the vector, fractions among them or not, *)
LEMMA NegativeInside ==
  ASSUME NEW n \in Nat, NEW seq, Negatives(seq) > 0
  PROVE  Inside(n, NumberSubscript(n, seq))
<1> DEFINE written == {Excluded(v) : v \in {w \in ToSet(seq) : w \notin {0, NA} /\ -w <= 2 * n}}
           bits == [i \in 1..n |-> IF i - 1 \in written THEN FALSE_ ELSE TRUE_]
<1>0. Inside(n, Indices("INT", <<>>))
  <2>1. <<>> \in Seq(1..n \cup {NA})
    OBVIOUS
  <2> QED
    BY <2>1 DEF Inside, Indices, Ok
<1>1. NumberSubscript(n, seq) \in {Indices("INT", <<>>), Failed, Undefined, LogicalSubscript(n, bits)}
  BY DEF NumberSubscript, NegativeSubscript
<1>2. bits \in Seq({FALSE_, TRUE_}) /\ Len(bits) = n
  <2>1. bits \in [1..n -> {FALSE_, TRUE_}]
    OBVIOUS
  <2> HIDE DEF bits
  <2> QED
    BY <2>1, SeqDef, LenProperties
<1> HIDE DEF bits
<1>3. Inside(n, LogicalSubscript(n, bits))
  <2>1. CASE bits = <<>>
    <3>1. LogicalSubscript(n, bits) = Indices("INT", <<>>)
      BY <2>1 DEF LogicalSubscript
    <3> QED
      BY <1>0, <3>1
  <2>2. CASE bits # <<>>
    <3>1. /\ LogicalSubscript(n, bits) = NewIndices(IndexType(Len(Selected(n, bits))), Selected(n, bits))
          /\ Selected(n, bits) \in Seq(1..n \cup {NA})
      BY <1>2, <2>2, LogicalIs
    <3> QED
      BY <3>1 DEF Inside, NewIndices, Indices, Ok, Hung
  <2> QED
    BY <2>1, <2>2
<1>4. Inside(n, Failed) /\ Inside(n, Undefined)
  BY DEF Inside, Failed, Undefined
<1> QED
  BY <1>0, <1>1, <1>3, <1>4

(* and so does every subscript that makes no hash table.                     *)
LEMMA IndicesInside ==
  ASSUME NEW v, WellFormed(v), NEW s, TypedElements(s), ~Hashes(v, s)
  PROVE  Inside(Len(v.elems), Subscript(v, s))
<1> DEFINE n == Len(v.elems)
<1>1. n \in Nat
  BY LenProperties DEF WellFormed, TypedElements
<1>2. CASE ~OddFraction(n, s)
  <2>1. Located(n, Subscript(v, s), RSelection(v, s), s.type = "STR")
    BY <1>2, SubscriptLocated
  <2>2. <<>> \in Seq(1..n \cup {NA})
    OBVIOUS
  <2> QED
    BY <2>1, <2>2 DEF Located, Inside, Failed, Hung, Indices, Ok
<1>3. CASE OddFraction(n, s)
  <2>1. s.type = "REAL" /\ s.elems \in Seq(Int \cup {NA})
    BY <1>3, NumbersAre DEF OddFraction
  <2>2. Negatives(s.elems) > 0
    <3>1. CASE 1 \in ToSet(s.elems) /\ Negatives(s.elems) > 0
      BY <3>1
    <3>2. CASE {-1, -2 * n - 1} \cap ToSet(s.elems) # {}
      <4>1. PICK x \in {-1, -2 * n - 1} : x \in ToSet(s.elems)
        BY <3>2
      <4>2. x \in Int /\ x < 0 /\ x # NA
        BY <1>1, <4>1, NaAssumption
      <4>3. PICK k \in 1..Len(s.elems) : s.elems[k] = x
        BY <2>1, <4>1, LenProperties DEF ToSet
      <4> QED
        BY <2>1, <4>2, <4>3, StatisticsAre
    <3> QED
      BY <1>3, <3>1, <3>2 DEF OddFraction
  <2>3. Subscript(v, s) = NumberSubscript(n, s.elems)
    BY <2>1 DEF Subscript
  <2> QED
    BY <1>1, <2>2, <2>3, NegativeInside
<1> QED
  BY <1>2, <1>3

(* How an assignment ends.                                                   *)
Ended(v, s, values) ==
    LET given == Subscript(v, s)
    IN IF given.status # "ok" THEN given ELSE WriteValues(v, given.value, values)

(* One that returns has made every turn of its loop, each at an index that   *)
(* is in the vector or NA.                                                   *)
LEMMA EndedIs ==
  ASSUME NEW v, WellFormed(v), NEW s, TypedElements(s), NEW values,
         values = Itself \/ WellFormed(values), Ended(v, s, values).status = "ok"
  PROVE  LET sel == Subscript(v, s).value.elems
         IN /\ ~Hashes(v, s)
            /\ Subscript(v, s).status = "ok"
            /\ Len(sel) % Len(SourceOf(v, values).elems) = 0
            /\ Assignable(v, sel, values)
            /\ \E x : WriteTurns(x, v, sel, values) /\ Ended(v, s, values) = Ok(x[Len(sel)])
<1> DEFINE given == Subscript(v, s)
           sel == given.value.elems
           source == SourceOf(v, values)
           n == Len(v.elems)
           fold == FoldLeft(LAMBDA t, k : WriteOne(t, sel, values, k), v, Positions(Len(sel)))
<1>1. given.status = "ok" /\ Ended(v, s, values) = WriteValues(v, given.value, values)
  BY DEF Ended
<1>2. WriteValues(v, given.value, values) =
        IF given.value.type # "INT" \/ Len(source.elems) > Len(sel) THEN Failed
        ELSE IF Len(source.elems) = 0 THEN Undefined
        ELSE IF Len(sel) % Len(source.elems) # 0 \/ ~Coercible(v.type, source.type) THEN Failed
        ELSE Ok(fold)
  BY DEF WriteValues, SourceOf
<1> HIDE DEF given, source, fold
<1>3. /\ given.value.type = "INT" /\ Len(source.elems) # 0 /\ Len(sel) % Len(source.elems) = 0
      /\ Coercible(v.type, source.type) /\ Ended(v, s, values) = Ok(fold)
  <2> DEFINE one == given.value.type # "INT" \/ Len(source.elems) > Len(sel)
             two == Len(source.elems) = 0
             three == Len(sel) % Len(source.elems) # 0
             four == Coercible(v.type, source.type)
  <2>1. WriteValues(v, given.value, values) # Failed /\ WriteValues(v, given.value, values) # Undefined
    BY <1>1 DEF Failed, Undefined
  <2>2. WriteValues(v, given.value, values) =
          IF one THEN Failed ELSE IF two THEN Undefined ELSE IF three \/ ~four THEN Failed ELSE Ok(fold)
    BY <1>2
  <2> HIDE DEF one, two, three, four
  <2>3. ~one /\ ~two /\ ~three /\ four /\ Ended(v, s, values) = Ok(fold)
    BY <1>1, <2>1, <2>2
  <2> QED
    BY <2>3 DEF one, two, three, four
<1>4. ~Hashes(v, s)
  <2>1. ASSUME Hashes(v, s) PROVE FALSE
    <3>1. given = NewIndices("REAL", MemberIndices(v.names, s.elems))
      BY <2>1 DEF Hashes, given, Subscript, StringSubscript, HashStringSubscript
    <3>2. given.value.type = "REAL"
      BY <1>1, <3>1 DEF NewIndices, Indices, Hung, Ok
    <3> QED
      BY <1>3, <3>2
  <2> QED
    BY <2>1
<1>5. sel \in Seq(1..n \cup {NA})
  BY <1>1, <1>4, IndicesInside DEF given, Inside
<1>6. Assignable(v, sel, values)
  BY <1>3, <1>5 DEF Assignable, source
<1>7. PICK x : WriteTurns(x, v, sel, values)
  BY <1>6, WriteSteps
<1>8. fold = x[Len(sel)]
  BY <1>7 DEF WriteTurns, fold
<1> QED
  BY <1>1, <1>3, <1>4, <1>6, <1>7, <1>8 DEF given, source

(* The vector stays one of its type, length and names.                       *)
NewVector(v, end) ==
    IF end.status # "ok" THEN v
    ELSE [type |-> v.type, names |-> v.names, elems |-> [p \in DOMAIN v.elems |-> end.value.elems[p]]]

(* The new vector is well formed, and it is the one that the loop ended with.*)
LEMMA AssignKeeps ==
  ASSUME NEW v, WellFormed(v), NEW s, TypedElements(s), NEW values,
         values = Itself \/ WellFormed(values)
  PROVE  LET new == NewVector(v, Ended(v, s, values))
         IN /\ WellFormed(new)
            /\ new.names = v.names /\ new.type = v.type /\ Len(new.elems) = Len(v.elems)
            /\ Ended(v, s, values).status = "ok" => new = Ended(v, s, values).value
<1> DEFINE end == Ended(v, s, values)
           sel == Subscript(v, s).value.elems
<1>1. CASE end.status # "ok"
  BY <1>1 DEF NewVector
<1>2. CASE end.status = "ok"
  <2>1. Assignable(v, sel, values)
    BY <1>2, EndedIs
  <2>2. PICK x : WriteTurns(x, v, sel, values) /\ end = Ok(x[Len(sel)])
    BY <1>2, EndedIs
  <2> HIDE DEF end, sel
  <2> DEFINE w == end.value
  <2>3. w \in Rewritten(v)
    <3>1. Len(sel) \in Nat
      BY <2>1, LenProperties DEF Assignable
    <3>2. \A k \in 0..Len(sel) : x[k] \in Rewritten(v)
      BY <2>2 DEF WriteTurns
    <3>3. x[Len(sel)] \in Rewritten(v)
      BY <3>1, <3>2
    <3> QED
      BY <2>2, <3>3 DEF Ok
  <2> HIDE DEF w
  <2>4. /\ w = [type |-> v.type, elems |-> w.elems, names |-> v.names]
        /\ w.elems \in Seq(ElementsOf(v.type)) /\ Len(w.elems) = Len(v.elems)
        /\ w.elems = [p \in DOMAIN v.elems |-> w.elems[p]]
    <3>1. /\ w = [type |-> v.type, elems |-> w.elems, names |-> v.names]
          /\ w.elems \in Seq(ElementsOf(v.type)) /\ Len(w.elems) = Len(v.elems)
      BY <2>3 DEF Rewritten, Written
    <3>2. DOMAIN w.elems = 1..Len(w.elems) /\ DOMAIN v.elems = 1..Len(v.elems)
      BY <3>1, LenProperties DEF WellFormed, TypedElements
    <3>3. w.elems = [p \in DOMAIN w.elems |-> w.elems[p]]
      BY <3>1, <3>2
    <3> QED
      BY <3>1, <3>2, <3>3
  <2>5. NewVector(v, end) = w
    BY <1>2, <2>4 DEF NewVector, w
  <2>6. WellFormed(w)
    BY <2>4 DEF WellFormed, TypedElements
  <2> QED
    BY <2>4, <2>5, <2>6 DEF end, w
<1> QED
  BY <1>1, <1>2

(* What an assignment that returns has written.                              *)
Latest(set) == CHOOSE k \in set : \A j \in set : j <= k
TurnsAt(selected, p) == {k \in DOMAIN selected : selected[k] = p}

WrittenLikeR(v, selected, values, new) ==
    LET source == SourceOf(v, values)
        of(p) == Recycled(source.elems, Latest(TurnsAt(selected, p)) - 1)
        widened == Rank[source.type] <= Rank[v.type] /\ {"RAW", "CPLX"} \cap {source.type} = {}
    IN /\ Len(selected) % Len(source.elems) = 0
       /\ \A p \in DOMAIN v.elems :
            IF TurnsAt(selected, p) = {} THEN new.elems[p] = v.elems[p]
            ELSE /\ new.elems[p] = ElementAs(v.type, source.type, of(p))
                 /\ widened => ElementAs(source.type, v.type, new.elems[p]) = of(p)

(* Every position has its last value, converted, or is as it was.            *)
LEMMA AssignIs ==
  ASSUME NEW v, WellFormed(v), NEW s, TypedElements(s), NEW values,
         values = Itself \/ WellFormed(values), Ended(v, s, values).status = "ok",
         ~OddFraction(Len(v.elems), s), ~Overwrites(v, RSelection(v, s).value, values)
  PROVE  WrittenLikeR(v, RSelection(v, s).value, values, NewVector(v, Ended(v, s, values)))
<1> DEFINE end == Ended(v, s, values)
           given == Subscript(v, s)
           sel == given.value.elems
           source == SourceOf(v, values)
           n == Len(v.elems)
           new == NewVector(v, end)
<1>1. /\ ~Hashes(v, s) /\ given.status = "ok" /\ Len(sel) % Len(source.elems) = 0
      /\ Assignable(v, sel, values)
  BY EndedIs
<1>2. PICK x : WriteTurns(x, v, sel, values) /\ end = Ok(x[Len(sel)])
  BY EndedIs
<1>3. new = end.value
  BY AssignKeeps
<1> HIDE DEF end, given, source, new
<1>4. RSelection(v, s).value = sel
  <2>1. Located(n, given, RSelection(v, s), s.type = "STR")
    BY <1>1, SubscriptLocated DEF given
  <2> QED
    BY <1>1, <2>1 DEF Located, Failed, Hung, Indices, Ok
<1> HIDE DEF sel
<1>5. /\ Len(sel) \in Nat /\ DOMAIN sel = 1..Len(sel) /\ n \in Nat /\ DOMAIN v.elems = 1..n
      /\ v.type \in Types \ {"NULL"} /\ v.elems \in Seq(ElementsOf(v.type))
  BY <1>1, LenProperties DEF Assignable, WellFormed, TypedElements
<1>6. LastWritten(new, v, sel, values, Len(sel))
  <2>1. \A k \in 0..Len(sel) : LastWritten(x[k], v, sel, values, k)
    BY <1>1, <1>2, <1>4, WritesLast
  <2>2. new = x[Len(sel)]
    BY <1>2, <1>3 DEF Ok
  <2> QED
    BY <1>5, <2>1, <2>2
<1>7. /\ source.type \in Types \ {"NULL"} /\ source.elems \in Seq(ElementsOf(source.type))
      /\ Len(source.elems) # 0
  BY <1>1, <1>5 DEF source, SourceOf, Assignable, WellFormed, TypedElements
<1>8. ASSUME NEW p \in DOMAIN v.elems, TurnsAt(sel, p) = {} PROVE new.elems[p] = v.elems[p]
  <2>1. \A j \in 1..Len(sel) : sel[j] # p
    BY <1>5, <1>8 DEF TurnsAt
  <2> QED
    BY <1>5, <1>6, <2>1 DEF LastWritten
<1>9. ASSUME NEW p \in DOMAIN v.elems, TurnsAt(sel, p) # {}
      PROVE  LET of == Recycled(source.elems, Latest(TurnsAt(sel, p)) - 1)
             IN /\ new.elems[p] = ElementAs(v.type, source.type, of)
                /\ of \in ElementsOf(source.type)
  <2> DEFINE last == Latest(TurnsAt(sel, p))
  <2>1. TurnsAt(sel, p) \in SUBSET (1..Len(sel))
    BY <1>5 DEF TurnsAt
  <2>2. last \in TurnsAt(sel, p) /\ \A j \in TurnsAt(sel, p) : j <= last
    BY <1>5, <1>9, <2>1, LatestIs DEF Latest
  <2> HIDE DEF last
  <2>3. last \in 1..Len(sel) /\ sel[last] = p /\ last - 1 \in Nat
    BY <1>5, <2>1, <2>2 DEF TurnsAt
  <2>4. \A i \in (last + 1)..Len(sel) : sel[i] # p
    <3>1. ASSUME NEW i \in (last + 1)..Len(sel), sel[i] = p PROVE FALSE
      <4>1. i \in 1..Len(sel) /\ i > last
        BY <1>5, <2>3
      <4>2. i \in TurnsAt(sel, p)
        BY <1>5, <3>1, <4>1 DEF TurnsAt
      <4> QED
        BY <1>5, <2>2, <2>3, <4>1, <4>2
    <3> QED
      BY <3>1
  <2>5. new.elems[p] = TurnValue(v, sel, values, last)
    BY <1>5, <1>6, <2>3, <2>4 DEF LastWritten
  <2>6. Recycled(source.elems, last - 1) \in ElementsOf(source.type)
    BY <1>7, <2>3, RecycledIs
  <2> QED
    BY <2>5, <2>6 DEF TurnValue, source, last
<1>10. ASSUME NEW of \in ElementsOf(source.type), Rank[source.type] <= Rank[v.type],
              {"RAW", "CPLX"} \cap {source.type} = {}
       PROVE  ElementAs(source.type, v.type, ElementAs(v.type, source.type, of)) = of
  <2>1. source.type \in {"LGL", "INT", "REAL", "STR"}
    BY <1>7, <1>10 DEF Types
  <2> QED
    BY <1>5, <1>10, <2>1, RoundTrip
<1> QED
  BY <1>1, <1>4, <1>8, <1>9, <1>10 DEF WrittenLikeR, source, new, end

-----------------------------------------------------------------------------
(* The operands of a call: one that is a ufo, or a ufo and any other.        *)
Shapes == [type : Types, length : Nat]

Call(op, operands) ==
    \/ /\ op \in Unary
       /\ \E x \in Shapes : x.type # "NULL" /\ x.length > 1 /\ operands = <<x>>
    \/ /\ op \in Binary
       /\ \E x, y \in Shapes : /\ operands = <<x, y>>
                               /\ \/ x.type # "NULL" /\ x.length > 1
                                  \/ y.type # "NULL" /\ y.length > 1

(* What an element of the result has to be.                                  *)
Paired(operands, i) == [o \in DOMAIN operands |-> (i - 1) % operands[o].length]

(* The chunks so far are done: their elements are the operator's, the type   *)
(* is R's if that is wider than the one deduced.                             *)
JobInv(j) ==
    /\ j = [op |-> j.op, operands |-> j.operands, chunkSize |-> j.chunkSize,
            chunk |-> j.chunk, result |-> j.result]
    /\ Call(j.op, j.operands)
    /\ ResultType(j.op, TypesOf(j.operands)) # Refused
    /\ ResultSize(j.operands) # 0
    /\ j.chunkSize \in Nat \ {0}
    /\ j.chunk \in Nat
    /\ j.result.elems = [i \in 1..Longest(j.operands) |-> j.result.elems[i]]
    /\ j.chunk > 0 => OwnType(j.op, TypesOf(j.operands)) # Refused
    /\ \A i \in 1..Longest(j.operands) :
          i - 1 < j.chunk * j.chunkSize => j.result.elems[i] = Paired(j.operands, i)

TypeInv(j) ==
    LET deduced == ResultType(j.op, TypesOf(j.operands))
        own == OwnType(j.op, TypesOf(j.operands))
        wider == j.chunk > 0 /\ Rank[own] > Rank[deduced]
    IN /\ j.result.type = IF wider THEN own ELSE deduced
       /\ j.result.ufo = ~wider

VectorInv == WellFormed(vector) /\ NamesGiven(vector)

OperatorInv ==
    /\ VectorInv
    /\ job # Idle => JobInv(job) /\ TypeInv(job)
    /\ OperatorLikeR
    /\ ResultTypes
-----------------------------------------------------------------------------
(* A function on an initial segment of the numbers is a sequence.            *)
LEMMA FunctionIsSeq ==
  ASSUME NEW n \in Nat, NEW f, f = [i \in 1..n |-> f[i]]
  PROVE  f \in Seq(ToSet(f)) /\ Len(f) = n
<1>1. f \in [1..n -> ToSet(f)]
  BY DEF ToSet
<1>2. f \in Seq(ToSet(f))
  BY <1>1, SeqDef
<1>3. Len(f) \in Nat /\ DOMAIN f = 1..Len(f)
  BY <1>2, LenProperties
<1>4. DOMAIN f = 1..n
  BY <1>1
<1> QED
  BY <1>2, <1>3, <1>4

(* The longest of one or two lengths.                                        *)
LEMMA LongestIs ==
  ASSUME NEW op, NEW operands, Call(op, operands)
  PROVE  /\ Longest(operands) \in Nat \ {0, 1}
         /\ Longest(operands) \in Lengths(operands)
         /\ \A o \in DOMAIN operands : operands[o].length \in Nat
<1>1. ASSUME NEW x \in Shapes, x.length > 1, operands = <<x>>
      PROVE  /\ Lengths(operands) = {x.length}
             /\ \A o \in DOMAIN operands : operands[o].length \in Nat
  BY <1>1 DEF Lengths, Shapes
<1>2. ASSUME NEW x \in Shapes, NEW y \in Shapes, operands = <<x, y>>
      PROVE  /\ Lengths(operands) = {x.length, y.length}
             /\ \A o \in DOMAIN operands : operands[o].length \in Nat
  BY <1>2 DEF Lengths, Shapes
<1>3. \E a, b \in Nat : Lengths(operands) = {a, b} /\ (a > 1 \/ b > 1)
  BY <1>1, <1>2 DEF Call, Shapes
<1>4. \E n \in Lengths(operands) : n > 1 /\ \A m \in Lengths(operands) : m <= n
  BY <1>3
<1>5. /\ Longest(operands) \in Lengths(operands)
      /\ \A m \in Lengths(operands) : m <= Longest(operands)
  BY <1>4 DEF Longest
<1>6. Longest(operands) \in Nat \ {0, 1}
  BY <1>3, <1>4, <1>5
<1> QED
  BY <1>1, <1>2, <1>5, <1>6 DEF Call
-----------------------------------------------------------------------------
(* The types of the operands of a call, by the function that combines them.  *)
Typed(op, types) ==
    \/ op \in Unary /\ \E x \in Types \ {"NULL"} : types = <<x>>
    \/ op \in Binary /\ \E x, y \in Types : types = <<x, y>>

(* The operands of a call are one or two values with a type.                 *)
LEMMA TypesAre ==
  ASSUME NEW op, NEW operands, Call(op, operands)
  PROVE  Typed(op, TypesOf(operands))
<1>1. CASE op \in Unary /\ \E x \in Shapes : x.type # "NULL" /\ operands = <<x>>
  <2>1. PICK x \in Shapes : x.type # "NULL" /\ operands = <<x>>
    BY <1>1
  <2>2. TypesOf(operands) = <<x.type>>
    BY <2>1 DEF TypesOf
  <2> QED
    BY <1>1, <2>1, <2>2 DEF Typed, Shapes
<1>2. CASE op \in Binary /\ \E x, y \in Shapes : operands = <<x, y>>
  <2>1. PICK x \in Shapes, y \in Shapes : operands = <<x, y>>
    BY <1>2
  <2>2. TypesOf(operands) = <<x.type, y.type>>
    BY <2>1 DEF TypesOf
  <2> QED
    BY <1>2, <2>2 DEF Typed, Shapes
<1> QED
  BY <1>1, <1>2 DEF Call

(* Where the package refuses an operator and R does not.                     *)
OnlyHere(op, types) ==
    \/ "RAW" \in ToSet(types)
    \/ op = "less" /\ types[1] = "STR" /\ types[2] # "STR"
    \/ op \in Unary /\ types[1] = "STR"

(* What R refuses is refused, and so is what is OnlyHere; the type deduced   *)
(* is R's but for the cases of ResultTypes.                                  *)
Agree(op, types) ==
    LET deduced == ResultType(op, types)
        own == OwnType(op, types)
    IN /\ deduced = Refused => OnlyHere(op, types) \/ own = Refused
       /\ deduced # Refused /\ own # Refused =>
            IF op = "minus" /\ types = <<"LGL">> THEN Rank[own] > Rank[deduced] /\ own = "INT"
            ELSE /\ ~(Rank[own] > Rank[deduced])
                 /\ deduced = CASE op = "not" -> types[1]
                                [] op = "less" /\ types = <<"STR", "STR">> -> "STR"
                                [] OTHER -> own

(* Rank counts the types.                                                    *)
LEMMA RankIs ==
  /\ Rank["NULL"] = 0 /\ Rank["RAW"] = 1 /\ Rank["LGL"] = 2 /\ Rank["INT"] = 3
  /\ Rank["REAL"] = 4 /\ Rank["CPLX"] = 5 /\ Rank["STR"] = 6
  BY DEF Rank

(* Two operands of any type: by cases on the operator.                       *)
LEMMA BinaryAgree ==
  ASSUME NEW op \in Binary, NEW x \in Types, NEW y \in Types,
         NEW types, types = <<x, y>>
  PROVE  Agree(op, types)
<1> DEFINE used == {types[i] : i \in DOMAIN types}
           own == OwnType(op, types)
           Same(deduced) == /\ deduced = Refused => OnlyHere(op, types) \/ own = Refused
                            /\ deduced # Refused => own \in {Refused, deduced}
<1>1. ToSet(types) = {x, y} /\ used = {x, y} /\ types[1] = x /\ types[2] = y
  BY DEF ToSet
<1>2. /\ {x, y} \in SUBSET Numbers <=> x \in Numbers /\ y \in Numbers
      /\ used \cap {"STR", "RAW"} # {} <=> x \in {"STR", "RAW"} \/ y \in {"STR", "RAW"}
      /\ {x, y} = {"CPLX", "NULL"} <=> (x = "CPLX" /\ y = "NULL") \/ (x = "NULL" /\ y = "CPLX")
      /\ \A t : t \in used <=> t = x \/ t = y
      /\ \A t : t \in {x, y} <=> t = x \/ t = y
  BY <1>1
<1>3. /\ op \notin Unary /\ op \notin {"minus", "not"}
      /\ types = <<"STR", "STR">> <=> x = "STR" /\ y = "STR"
      /\ OnlyHere(op, types) <=> x = "RAW" \/ y = "RAW" \/ (op = "less" /\ x = "STR" /\ y # "STR")
  BY <1>1 DEF OnlyHere, Unary, Binary
<1> HIDE DEF used
<1>4. ASSUME Same(ResultType(op, types)), op # "less" \/ ~(x = "STR" /\ y = "STR")
      PROVE  Agree(op, types)
  <2>1. own \in {Refused, "LGL", "INT", "REAL", "CPLX"}
    BY DEF OwnType
  <2> HIDE DEF own
  <2>2. own # Refused => Rank[own] \in Nat
    BY <2>1, RankIs
  <2> QED
    BY <1>3, <1>4, <2>2 DEF Agree, own
<1>5. CASE op = "add"
  <2>1. ResultType(op, types) = FitType(x, y)
    BY <1>1, <1>5 DEF ResultType, Unary
  <2>2. own = IF x \in {"STR", "RAW"} \/ y \in {"STR", "RAW"} THEN Refused
              ELSE IF x = "CPLX" \/ y = "CPLX" THEN "CPLX"
              ELSE IF x = "REAL" \/ y = "REAL" THEN "REAL" ELSE "INT"
    BY <1>2, <1>5 DEF OwnType, used
  <2>3. Same(FitType(x, y))
    BY <1>2, <1>3, <1>5, <2>2 DEF FitType, Refused, Numbers, Types
  <2> QED
    BY <1>4, <1>5, <2>1, <2>3
<1>6. CASE op = "divide"
  <2>1. ResultType(op, types) = DivType(x, y)
    BY <1>1, <1>6 DEF ResultType, Unary
  <2>2. own = IF x \in {"STR", "RAW"} \/ y \in {"STR", "RAW"} THEN Refused
              ELSE IF x = "CPLX" \/ y = "CPLX" THEN "CPLX" ELSE "REAL"
    BY <1>2, <1>6 DEF OwnType, used
  <2>3. Same(DivType(x, y))
    BY <1>2, <1>3, <1>6, <2>2 DEF DivType, Refused, Numbers, Types
  <2> QED
    BY <1>4, <1>6, <2>1, <2>3
<1>7. CASE op = "modulo"
  <2>1. ResultType(op, types) = ModType(x, y)
    BY <1>1, <1>7 DEF ResultType, Unary
  <2>2. own = IF x \in {"STR", "RAW", "CPLX"} \/ y \in {"STR", "RAW", "CPLX"} THEN Refused
              ELSE IF x = "REAL" \/ y = "REAL" THEN "REAL" ELSE "INT"
    BY <1>2, <1>7 DEF OwnType, used
  <2>3. Same(ModType(x, y))
    BY <1>2, <1>3, <1>7, <2>2 DEF ModType, Refused, Numbers, Types
  <2> QED
    BY <1>4, <1>7, <2>1, <2>3
<1>8. CASE op = "less"
  <2>1. ResultType(op, types) = RelType(x, y)
    BY <1>1, <1>8 DEF ResultType, Unary
  <2>2. own = IF (x = "CPLX" \/ y = "CPLX") /\ ~(x = "STR" \/ y = "STR") THEN Refused ELSE "LGL"
    BY <1>2, <1>8 DEF OwnType, used
  <2>3. CASE x = "STR" /\ y = "STR"
    <3>1. RelType(x, y) = "STR" /\ own = "LGL"
      BY <1>2, <2>2, <2>3 DEF RelType
    <3> QED
      BY RankIs, <1>3, <1>8, <2>1, <2>3, <3>1 DEF Agree, Refused
  <2>4. CASE ~(x = "STR" /\ y = "STR")
    <3>1. Same(RelType(x, y))
      BY <1>2, <1>3, <1>8, <2>2, <2>4 DEF RelType, Refused, Types
    <3> QED
      BY <1>4, <2>1, <2>4, <3>1
  <2> QED
    BY <2>3, <2>4
<1>9. CASE op \in {"equal", "and"}
  <2>1. ResultType(op, types) = LogType(x, y)
    BY <1>1, <1>9 DEF ResultType, Unary
  <2>2. own = IF op = "and" /\ (x = "STR" \/ y = "STR") THEN Refused ELSE "LGL"
    BY <1>2, <1>9 DEF OwnType, used
  <2>3. Same(LogType(x, y))
    BY <1>2, <1>3, <1>9, <2>2 DEF LogType, Refused, Types
  <2> QED
    BY <1>4, <1>9, <2>1, <2>3
<1> QED
  BY <1>5, <1>6, <1>7, <1>8, <1>9 DEF Binary

(* One operand.                                                              *)
LEMMA UnaryAgree ==
  ASSUME NEW op \in Unary, NEW x \in Types \ {"NULL"}
  PROVE  Agree(op, <<x>>)
<1> DEFINE types == <<x>>
           used == {types[i] : i \in DOMAIN types}
<1>1. ToSet(types) = {x} /\ used = {x} /\ types[1] = x
  BY DEF ToSet
<1> QED
  BY RankIs, <1>1 DEF Agree, OnlyHere, ResultType, OwnType, NegType, Refused, Types, Unary

(* For the operands of any call.                                             *)
LEMMA CallAgrees ==
  ASSUME NEW op, NEW operands, Call(op, operands)
  PROVE  Agree(op, TypesOf(operands))
  BY TypesAre, BinaryAgree, UnaryAgree DEF Typed

-----------------------------------------------------------------------------
(* The steps of the job. The session starts without one.                     *)
LEMMA InitInv == Init => OperatorInv
<1> SUFFICES ASSUME Init PROVE OperatorInv
  OBVIOUS
<1>1. VectorInv
  BY ShapeAssumption DEF Init, VectorInv, NamesGiven
<1> QED
  BY <1>1 DEF Init, OperatorInv, OperatorLikeR, ResultTypes, None, Idle

(* An operator that is refused before its first chunk is refused rightly, a  *)
(* job that is begun has nothing to show yet.                                *)
LEMMA BeginInv ==
  ASSUME OperatorInv, NEW op, NEW operands, NEW n \in Nat \ {0},
         Call(op, operands), Begin(op, operands, n)
  PROVE  OperatorInv'
<1> DEFINE types == TypesOf(operands)
           type == ResultType(op, types)
           size == ResultSize(operands)
<1>1. vector' = vector /\ VectorInv' /\ job = Idle /\ outcome = None
  BY DEF Begin, Ready, OperatorInv, VectorInv
<1>2. CASE type = Refused
  <2>1. job' = Idle /\ outcome' = [call |-> "operator", op |-> op, operands |-> operands, end |-> Failed]
    BY <1>1, <1>2 DEF Begin, Refuse
  <2>2. OnlyHere(op, types) \/ OwnType(op, types) = Refused
    BY <1>2, CallAgrees DEF Agree
  <2> QED
    <3>1. OperatorLikeR'
      BY <2>1, <2>2 DEF OperatorLikeR, OnlyHere, Failed
    <3>2. ResultTypes'
      BY <2>1 DEF ResultTypes, Failed
    <3> QED
      BY <1>1, <2>1, <3>1, <3>2 DEF OperatorInv
<1>3. CASE type # Refused /\ size = 0
  <2>1. job' = Idle /\ outcome' = [call |-> "operator", op |-> op, operands |-> operands, end |-> Hung]
    BY <1>1, <1>3 DEF Begin, Refuse
  <2>2. \E i \in DOMAIN operands : operands[i].type = "NULL"
    BY <1>3, LongestIs DEF ResultSize
  <2>3. "NULL" \in ToSet(types)
    BY <2>2 DEF ToSet, TypesOf
  <2> QED
    BY <1>1, <2>1, <2>3 DEF OperatorInv, OperatorLikeR, ResultTypes, Hung
<1>4. CASE type # Refused /\ size # 0
  <2>1. /\ outcome' = None
        /\ job' = [op |-> op, operands |-> operands, chunkSize |-> n, chunk |-> 0,
                   result |-> [type |-> type, ufo |-> TRUE, elems |-> [i \in 1..size |-> <<>>]]]
    BY <1>1, <1>4 DEF Begin
  <2>2. size = Longest(operands)
    BY <1>4 DEF ResultSize
  <2>3. JobInv(job)'
    BY <1>4, <2>1, <2>2, LongestIs DEF JobInv
  <2>4. TypeInv(job)'
    <3>1. /\ job'.op = op /\ job'.operands = operands /\ job'.chunk = 0
          /\ job'.result.type = type /\ job'.result.ufo = TRUE
      BY <2>1
    <3>2. ~(job'.chunk > 0)
      BY <3>1
    <3> QED
      BY <3>1, <3>2 DEF TypeInv
  <2> QED
    BY <1>1, <2>1, <2>3, <2>4 DEF OperatorInv, OperatorLikeR, ResultTypes, None
<1> QED
  BY <1>2, <1>3, <1>4

(* The positions of a chunk follow those of the chunk before.                *)
LEMMA ChunkIs ==
  ASSUME NEW size \in Nat, NEW n \in Nat \ {0}, NEW c \in Nat, NEW i \in 1..size,
         NEW j, j.chunk = c, j.chunkSize = n, Len(j.result.elems) = size
  PROVE  /\ i - 1 \in ChunkOf(j) => ~(i - 1 < c * n)
         /\ ~(i - 1 < c * n) /\ i - 1 < (c + 1) * n => i - 1 \in ChunkOf(j)
         /\ i - 1 < c * n => i - 1 < (c + 1) * n
<1>1. PICK p \in Nat : p = c * n
  OBVIOUS
<1>2. (c + 1) * n = p + n
  BY <1>1
<1>3. ChunkStart(j) = p
  BY <1>1 DEF ChunkStart
<1> DEFINE actual == IF p + n >= size THEN size - p ELSE n
<1>4. ChunkOf(j) = {p + k : k \in 0..(actual - 1)}
  BY <1>3 DEF ChunkOf
<1>5. i - 1 \in ChunkOf(j) => i - 1 >= p
  BY <1>4
<1>6. ASSUME i - 1 >= p, i - 1 < p + n PROVE i - 1 \in ChunkOf(j)
  <2>1. (i - 1) - p \in 0..(actual - 1) /\ p + ((i - 1) - p) = i - 1
    BY <1>6
  <2> HIDE DEF actual
  <2> QED
    BY <1>4, <2>1
<1> QED
  BY <1>1, <1>2, <1>5, <1>6

(* A chunk adds its elements, in place if they are of the type deduced.      *)
LEMMA ComputeInv ==
  ASSUME OperatorInv, ComputeChunk
  PROVE  OperatorInv'
<1> DEFINE types == TypesOf(job.operands)
           deduced == ResultType(job.op, types)
           own == OwnType(job.op, types)
           size == Longest(job.operands)
<1>1. job # Idle /\ JobInv(job) /\ TypeInv(job) /\ vector' = vector /\ VectorInv'
  BY DEF ComputeChunk, OperatorInv, VectorInv
<1>2. CASE \E o \in DOMAIN job.operands : job.operands[o].length = 0
  <2>1. /\ job' = Idle
        /\ outcome' = [call |-> "operator", op |-> job.op, operands |-> job.operands, end |-> Undefined]
    BY <1>2 DEF ComputeChunk, Finish
  <2>2. 0 \in Lengths(job.operands)
    BY <1>2 DEF Lengths
  <2>3. OperatorLikeR'
    BY <2>1, <2>2 DEF OperatorLikeR, Undefined
  <2>4. ResultTypes'
    BY <2>1 DEF ResultTypes, Undefined
  <2> QED
    BY <1>1, <2>1, <2>3, <2>4 DEF OperatorInv
<1>3. CASE own = Refused /\ ~\E o \in DOMAIN job.operands : job.operands[o].length = 0
  <2>1. /\ job' = Idle
        /\ outcome' = [call |-> "operator", op |-> job.op, operands |-> job.operands, end |-> Failed]
    BY <1>3 DEF ComputeChunk, Finish
  <2>2. OperatorLikeR'
    BY <1>3, <2>1 DEF OperatorLikeR, Failed
  <2>3. ResultTypes'
    BY <2>1 DEF ResultTypes, Failed
  <2> QED
    BY <1>1, <2>1, <2>2, <2>3 DEF OperatorInv
<1>4. CASE own # Refused /\ ~\E o \in DOMAIN job.operands : job.operands[o].length = 0
  <2>1. /\ outcome' = outcome
        /\ job' = [job EXCEPT !.result = Store(job, own), !.chunk = @ + 1]
    BY <1>4 DEF ComputeChunk
  <2>2. /\ job'.op = job.op /\ job'.operands = job.operands /\ job'.chunkSize = job.chunkSize
        /\ job'.chunk = job.chunk + 1 /\ job'.result = Store(job, own)
        /\ job' = [op |-> job'.op, operands |-> job'.operands, chunkSize |-> job'.chunkSize,
                   chunk |-> job'.chunk, result |-> job'.result]
    BY <1>1, <2>1 DEF JobInv
  <2>3. /\ size \in Nat /\ job.chunk \in Nat /\ job.chunkSize \in Nat \ {0}
        /\ Call(job.op, job.operands)
        /\ DOMAIN job.result.elems = 1..size /\ Len(job.result.elems) = size
    BY <1>1, LongestIs, FunctionIsSeq DEF JobInv
  <2>4. JobInv(job')
    <3>1. job'.result.elems =
            [i \in 1..size |-> IF i - 1 \notin ChunkOf(job) THEN job.result.elems[i]
                               ELSE Paired(job.operands, i)]
      BY <2>2, <2>3 DEF Store, ChunkElement, Paired
    <3>2. ASSUME NEW i \in 1..size, i - 1 < (job.chunk + 1) * job.chunkSize
          PROVE  job'.result.elems[i] = Paired(job.operands, i)
      <4>1. CASE i - 1 \in ChunkOf(job)
        BY <3>1, <4>1
      <4>2. CASE i - 1 \notin ChunkOf(job)
        <5>1. i - 1 < job.chunk * job.chunkSize
          BY <2>3, <3>2, <4>2, ChunkIs
        <5> QED
          BY <1>1, <3>1, <4>2, <5>1 DEF JobInv
      <4> QED
        BY <4>1, <4>2
    <3>3. job'.result.elems = [i \in 1..size |-> job'.result.elems[i]]
      BY <3>1
    <3>4. job'.chunk \in Nat
      BY <2>2, <2>3
    <3> HIDE DEF size
    <3> QED
      BY <1>1, <1>4, <2>2, <3>2, <3>3, <3>4 DEF JobInv, size
  <2>5. TypeInv(job')
    <3>1. own \in {"LGL", "INT", "REAL", "CPLX"}
      BY <1>4 DEF OwnType
    <3>2. Rank[own] \in Nat
      BY <3>1, RankIs
    <3>3. /\ job'.result.type = IF Rank[own] > Rank[job.result.type] THEN own ELSE job.result.type
          /\ job'.result.ufo = (job.result.ufo /\ ~(Rank[own] > Rank[job.result.type]))
      BY <2>2 DEF Store
    <3>4. job'.chunk > 0
      BY <2>2, <2>3
    <3>5. CASE job.chunk > 0 /\ Rank[own] > Rank[deduced]
      <4>1. job.result.type = own /\ job.result.ufo = FALSE
        BY <1>1, <3>5 DEF TypeInv
      <4> HIDE DEF own, deduced
      <4>2. job'.result.type = own /\ job'.result.ufo = FALSE
        BY <3>3, <4>1
      <4> QED
        BY <2>2, <3>4, <3>5, <4>2 DEF TypeInv, own, deduced
    <3>6. CASE ~(job.chunk > 0 /\ Rank[own] > Rank[deduced])
      <4>1. job.result.type = deduced /\ job.result.ufo = TRUE
        BY <1>1, <3>6 DEF TypeInv
      <4> HIDE DEF own, deduced
      <4>2. /\ job'.result.type = IF Rank[own] > Rank[deduced] THEN own ELSE deduced
            /\ job'.result.ufo = ~(Rank[own] > Rank[deduced])
        BY <3>3, <4>1
      <4> QED
        BY <2>2, <3>4, <4>2 DEF TypeInv, own, deduced
    <3> QED
      BY <3>5, <3>6
  <2>6. OperatorLikeR' /\ ResultTypes'
    BY <2>1 DEF OperatorInv, OperatorLikeR, ResultTypes
  <2> QED
    BY <1>1, <2>4, <2>5, <2>6 DEF OperatorInv
<1> QED
  BY <1>2, <1>3, <1>4

(* When the chunks are done they have covered the result.                    *)
LEMMA ReturnInv ==
  ASSUME OperatorInv, ReturnResult
  PROVE  OperatorInv'
<1> DEFINE types == TypesOf(job.operands)
           deduced == ResultType(job.op, types)
           own == OwnType(job.op, types)
           size == Longest(job.operands)
<1>1. /\ job # Idle /\ JobInv(job) /\ TypeInv(job) /\ job' = Idle
      /\ outcome' = [call |-> "operator", op |-> job.op, operands |-> job.operands, end |-> Ok(job.result)]
      /\ vector' = vector /\ VectorInv'
  BY DEF ReturnResult, Finish, OperatorInv, VectorInv
<1>2. /\ size \in Nat \ {0, 1} /\ job.chunkSize \in Nat \ {0} /\ job.chunk \in Nat
      /\ Len(job.result.elems) = size
      /\ job.chunk = (size + job.chunkSize - 1) \div job.chunkSize
  BY <1>1, LongestIs, FunctionIsSeq DEF JobInv, ReturnResult, Chunks, Size
<1>3. ASSUME NEW n \in Nat \ {0}, NEW a \in Nat
      PROVE  /\ (a + n - 1) \div n \in Nat
             /\ ((a + n - 1) \div n) * n >= a
  <2> DEFINE q == (a + n - 1) \div n
             r == (a + n - 1) % n
  <2>1. a + n - 1 \in Nat /\ n > 0
    BY <1>3
  <2>2. q \in Nat /\ r \in 0..(n - 1) /\ a + n - 1 = n * q + r
    BY <2>1
  <2>3. n * q \in Nat /\ n * q = q * n
    BY <2>2
  <2> HIDE DEF q, r
  <2>4. n * q >= a
    BY <2>2, <2>3
  <2> QED
    BY <2>2, <2>3, <2>4 DEF q
<1>4. job.chunk * job.chunkSize >= size
  BY <1>2, <1>3
<1>5. job.chunk > 0
  BY <1>2, <1>4
<1>6. own # Refused
  BY <1>1, <1>5 DEF JobInv
<1>7. job.result.elems = [i \in 1..size |-> Paired(job.operands, i)]
  <2>1. \A i \in 1..size : i - 1 < job.chunk * job.chunkSize
    BY <1>2, <1>4
  <2> QED
    BY <1>1, <2>1 DEF JobInv
<1>8. OperatorLikeR'
  <2>1. outcome'.end.value = job.result /\ outcome'.end.status = "ok"
    BY <1>1 DEF Ok
  <2> QED
    BY <1>1, <1>6, <1>7, <2>1 DEF OperatorLikeR, Paired
<1>9. ResultTypes'
  <2>1. outcome'.end.value = job.result /\ outcome'.op = job.op /\ outcome'.operands = job.operands
    BY <1>1 DEF Ok
  <2>2. /\ job.result.type = IF Rank[own] > Rank[deduced] THEN own ELSE deduced
        /\ job.result.ufo = ~(Rank[own] > Rank[deduced])
    BY <1>1, <1>5 DEF TypeInv
  <2>3. deduced # Refused /\ Agree(job.op, types)
    BY <1>1, CallAgrees DEF JobInv
  <2>4. IF job.op = "minus" /\ types = <<"LGL">> THEN Rank[own] > Rank[deduced]
        ELSE /\ ~(Rank[own] > Rank[deduced])
             /\ deduced = CASE job.op = "not" -> types[1]
                             [] job.op = "less" /\ types = <<"STR", "STR">> -> "STR"
                             [] OTHER -> own
    BY <1>6, <2>3 DEF Agree
  <2> HIDE DEF own, deduced, types
  <2>5. /\ job.result.ufo = ~(job.op = "minus" /\ types = <<"LGL">>)
        /\ job.result.type = CASE job.op = "not" -> types[1]
                                [] job.op = "less" /\ types = <<"STR", "STR">> -> "STR"
                                [] OTHER -> own
    BY <2>2, <2>4
  <2> QED
    BY <2>1, <2>5 DEF ResultTypes, own, types
<1> QED
  BY <1>1, <1>8, <1>9 DEF OperatorInv

(* Subsets and assignments leave no operator's outcome and keep a vector a   *)
(* vector.                                                                   *)
LEMMA VectorStepsInv ==
  ASSUME OperatorInv
  PROVE  /\ \A s : Locate(s) \/ Subset(s) => OperatorInv'
         /\ \A s \in Mutated, values \in Values \cup {Itself} : Assign(s, values) => OperatorInv'
         /\ Take => OperatorInv'
<1>1. ASSUME NEW s, Locate(s) \/ Subset(s) PROVE OperatorInv'
  <2>1. job' = Idle /\ vector' = vector /\ outcome'.call \in {"subscript", "subset"}
    BY <1>1 DEF Locate, Subset, Ready
  <2> QED
    BY <2>1 DEF OperatorInv, VectorInv, OperatorLikeR, ResultTypes
<1>2. ASSUME NEW s \in Mutated, NEW values \in Values \cup {Itself}, Assign(s, values) PROVE OperatorInv'
  <2>1. /\ job' = Idle /\ outcome'.call = "assign"
        /\ vector' = NewVector(vector, Ended(vector, s, values))
    BY <1>2 DEF Assign, Ready, NewVector, Ended
  <2>2. TypedElements(s) /\ (values = Itself \/ WellFormed(values))
    BY ShapeAssumption
  <2>3. WellFormed(vector') /\ vector'.names = vector.names
    BY <2>1, <2>2, AssignKeeps DEF OperatorInv, VectorInv
  <2>4. VectorInv'
    BY <2>3 DEF OperatorInv, VectorInv, NamesGiven
  <2> QED
    BY <2>1, <2>4 DEF OperatorInv, OperatorLikeR, ResultTypes
<1>3. ASSUME Take PROVE OperatorInv'
  <2>1. job' = job /\ vector' = vector /\ outcome' = None
    BY <1>3 DEF Take
  <2> QED
    BY <2>1 DEF OperatorInv, VectorInv, OperatorLikeR, ResultTypes, None
<1> QED
  BY <1>1, <1>2, <1>3

(* The operands of a call have a ufo of two elements or more among them.     *)
LEMMA OperandsAre ==
  ASSUME OperatorInv
  PROVE  /\ \A n : \A op \in Unary : BeginUnary(op, n) => Call(op, <<Shape(vector)>>)
         /\ \A n : \A op \in Binary, other \in Operands : BeginBinary(op, other, n) =>
              /\ Call(op, <<Shape(vector), other>>)
              /\ Call(op, <<other, Shape(vector)>>)
<1>1. Shape(vector) \in Shapes /\ Shape(vector).type # "NULL" /\ Shape(vector).length = Len(vector.elems)
  <2>1. Len(vector.elems) \in Nat
    BY LenProperties DEF OperatorInv, VectorInv, WellFormed, TypedElements
  <2> QED
    BY <2>1 DEF OperatorInv, VectorInv, WellFormed, TypedElements, Shape, Shapes
<1>2. Operands \subseteq Shapes
  BY ShapeAssumption DEF Shapes
<1>3. ASSUME NEW op \in Unary, NEW n, BeginUnary(op, n)
      PROVE  Call(op, <<Shape(vector)>>)
  <2>1. Len(vector.elems) > 1
    BY <1>3 DEF BeginUnary, Begin
  <2> QED
    BY <1>1, <2>1 DEF Call
<1>4. ASSUME NEW op \in Binary, NEW other \in Operands, NEW n, BeginBinary(op, other, n)
      PROVE  Call(op, <<Shape(vector), other>>) /\ Call(op, <<other, Shape(vector)>>)
  <2>1. Len(vector.elems) > 1
    BY <1>4 DEF BeginBinary, Begin
  <2> QED
    BY <1>1, <1>2, <2>1 DEF Call
<1> QED
  BY <1>3, <1>4

(* Every step keeps the invariant.                                           *)
LEMMA NextInv == OperatorInv /\ [Next]_vars => OperatorInv'
<1> SUFFICES ASSUME OperatorInv, [Next]_vars PROVE OperatorInv'
  OBVIOUS
<1>1. ASSUME NEW s \in Subscripted, Locate(s) \/ Subset(s) PROVE OperatorInv'
  BY <1>1, VectorStepsInv
<1>2. ASSUME NEW s \in Mutated, NEW values \in Values \cup {Itself}, Assign(s, values)
      PROVE  OperatorInv'
  BY <1>2, VectorStepsInv
<1>3. ASSUME NEW op \in Unary, NEW n \in ChunkSizes, BeginUnary(op, n) PROVE OperatorInv'
  <2>1. Call(op, <<Shape(vector)>>) /\ n \in Nat \ {0}
    BY <1>3, OperandsAre, ShapeAssumption
  <2> QED
    BY <1>3, <2>1, BeginInv DEF BeginUnary
<1>4. ASSUME NEW op \in Binary, NEW other \in Operands, NEW n \in ChunkSizes,
             BeginBinary(op, other, n)
      PROVE  OperatorInv'
  <2>1. /\ Call(op, <<Shape(vector), other>>) /\ Call(op, <<other, Shape(vector)>>)
        /\ n \in Nat \ {0}
    BY <1>4, OperandsAre, ShapeAssumption
  <2> QED
    BY <1>4, <2>1, BeginInv DEF BeginBinary
<1>5. CASE ComputeChunk
  BY <1>5, ComputeInv
<1>6. CASE ReturnResult
  BY <1>6, ReturnInv
<1>7. CASE Take
  BY <1>7, VectorStepsInv
<1>8. CASE UNCHANGED vars
  BY <1>8 DEF vars, OperatorInv, VectorInv, OperatorLikeR, ResultTypes
<1> QED
  BY <1>1, <1>2, <1>3, <1>4, <1>5, <1>6, <1>7, <1>8 DEF Next

(* The chunks of an operator, done and to come, are the operator's, and the  *)
(* calls that have ended have ended as they should, in every session.        *)
THEOREM SpecOperatorInv == Spec => []OperatorInv
  BY InitInv, NextInv, PTL DEF Spec

(* Whatever the types and lengths of the operands and the size of a chunk,   *)
(* .ufo_binary and .ufo_unary pair the elements R pairs.                     *)
THEOREM SpecOperatorLikeR == Spec => []OperatorLikeR
<1>1. OperatorInv => OperatorLikeR
  BY DEF OperatorInv
<1> QED
  BY SpecOperatorInv, <1>1, PTL

(* And the type deduced for the result is never narrower than R's, but for   *)
(* - and + of logicals: in every other case no chunk makes R copy the result.*)
THEOREM SpecResultTypes == Spec => []ResultTypes
<1>1. OperatorInv => ResultTypes
  BY DEF OperatorInv
<1> QED
  BY SpecOperatorInv, <1>1, PTL

-----------------------------------------------------------------------------
(* A session: the vector, and what the last call on it has to say of it.     *)
SessionInv ==
    /\ VectorInv
    /\ HashedFindsNames
    /\ SubsetLikeR
    /\ AssignLikeR

(* AssignLikeR of a vector and an outcome, in terms of what a loop has       *)
(* written.                                                                  *)
AssignedLikeR(v, o) ==
    o.call = "assign" /\ ~OddFraction(Len(v.elems), o.subscript) =>
    LET selected == RSelection(o.before, o.subscript).value
    IN IF o.end.status # "ok" THEN v = o.before
       ELSE \/ Overwrites(o.before, selected, o.values)
            \/ WrittenLikeR(o.before, selected, o.values, v)

(* It is the property, of the vector and the outcome of a state.             *)
LEMMA AssignedAre ==
  /\ AssignLikeR <=> AssignedLikeR(vector, outcome)
  /\ AssignLikeR' <=> AssignedLikeR(vector', outcome')
<1>1. AssignLikeR <=> AssignedLikeR(vector, outcome)
  BY DEF AssignLikeR, AssignedLikeR, Overwrites, WrittenLikeR, SourceOf, Latest, TurnsAt
<1>2. AssignLikeR' <=> AssignedLikeR(vector', outcome')
  BY DEF AssignLikeR, AssignedLikeR, Overwrites, WrittenLikeR, SourceOf, Latest, TurnsAt
<1> QED
  BY <1>1, <1>2

(* No call has been made when a session starts.                              *)
LEMMA SessionInit == Init => SessionInv
<1> SUFFICES ASSUME Init PROVE SessionInv
  OBVIOUS
<1>1. VectorInv
  BY ShapeAssumption DEF Init, VectorInv, NamesGiven
<1>2. outcome.call = "none"
  BY DEF Init, None
<1> QED
  BY <1>1, <1>2 DEF SessionInv, HashedFindsNames, SubsetLikeR, AssignLikeR

(* A step that leaves the vector alone and reports on no part of it.         *)
LEMMA OtherStepsSession ==
  ASSUME SessionInv, vector' = vector,
         outcome' = outcome \/ outcome'.call \in {"operator", "none"}
  PROVE  SessionInv'
<1>1. VectorInv'
  BY DEF SessionInv, VectorInv, NamesGiven, WellFormed, TypedElements
<1>2. CASE outcome' = outcome
  <2>1. HashedFindsNames'
    BY <1>2 DEF SessionInv, HashedFindsNames
  <2>2. SubsetLikeR'
    BY <1>2 DEF SessionInv, SubsetLikeR
  <2>3. AssignLikeR'
    BY <1>2, AssignedAre DEF SessionInv
  <2> QED
    BY <1>1, <2>1, <2>2, <2>3 DEF SessionInv
<1>3. CASE outcome'.call \in {"operator", "none"}
  BY <1>1, <1>3 DEF SessionInv, HashedFindsNames, SubsetLikeR, AssignLikeR
<1> QED
  BY <1>2, <1>3

(* ufo_subscript: the loop over the names and the hash table.                *)
LEMMA LocateSession ==
  ASSUME SessionInv, NEW s \in Subscripted, Locate(s)
  PROVE  SessionInv'
<1>1. /\ vector' = vector
      /\ outcome' = [call |-> "subscript", subscript |-> s, end |-> Subscript(vector, s)]
  BY DEF Locate
<1>2. VectorInv /\ VectorInv'
  BY <1>1 DEF SessionInv, VectorInv, NamesGiven, WellFormed, TypedElements
<1>3. ASSUME s.type = "STR", Subscript(vector, s).status = "ok"
      PROVE  FindsNames(vector, s, Subscript(vector, s))
  BY <1>2, <1>3, StringsFound DEF VectorInv
<1>4. HashedFindsNames'
  BY <1>1, <1>3 DEF HashedFindsNames, FindsNames, Positioned
<1>5. SubsetLikeR' /\ AssignLikeR'
  BY <1>1 DEF SubsetLikeR, AssignLikeR
<1> QED
  BY <1>2, <1>4, <1>5 DEF SessionInv

(* ufo_subset: the indices, and the elements at them.                        *)
LEMMA SubsetSession ==
  ASSUME SessionInv, NEW s \in Subscripted, Subset(s)
  PROVE  SessionInv'
<1> DEFINE end == Copied(vector, Subscript(vector, s))
<1>1. vector' = vector /\ outcome' = [call |-> "subset", subscript |-> s, end |-> end]
  BY DEF Subset, Copied
<1>2. VectorInv /\ VectorInv' /\ TypedElements(s)
  BY <1>1, ShapeAssumption DEF SessionInv, VectorInv, NamesGiven, WellFormed, TypedElements
<1>3. ASSUME ~Hashes(vector, s), ~OddFraction(Len(vector.elems), s)
      PROVE  end = LikeR(vector, s, RSelection(vector, s))
  BY <1>2, <1>3, SubsetIs DEF VectorInv
<1> HIDE DEF end
<1>4. SubsetLikeR'
  BY <1>1, <1>3 DEF SubsetLikeR, LikeR, ElementAt
<1>5. HashedFindsNames' /\ AssignLikeR'
  BY <1>1 DEF HashedFindsNames, AssignLikeR
<1> QED
  BY <1>2, <1>4, <1>5 DEF SessionInv

(* ufo_subset_assign: all of it, or nothing.                                 *)
LEMMA AssignSession ==
  ASSUME SessionInv, NEW s \in Mutated, NEW values \in Values \cup {Itself}, Assign(s, values)
  PROVE  SessionInv'
<1> DEFINE end == Ended(vector, s, values)
<1>1. /\ vector' = NewVector(vector, end)
      /\ outcome' = [call |-> "assign", subscript |-> s, values |-> values,
                     before |-> vector, end |-> end]
  BY DEF Assign, Ended, NewVector
<1>2. VectorInv /\ TypedElements(s) /\ (values = Itself \/ WellFormed(values))
  BY ShapeAssumption DEF SessionInv
<1>3. WellFormed(vector') /\ vector'.names = vector.names /\ Len(vector'.elems) = Len(vector.elems)
  BY <1>1, <1>2, AssignKeeps DEF VectorInv
<1>4. VectorInv'
  BY <1>2, <1>3 DEF VectorInv, NamesGiven
<1>5. ASSUME end.status = "ok", ~OddFraction(Len(vector.elems), s),
             ~Overwrites(vector, RSelection(vector, s).value, values)
      PROVE  WrittenLikeR(vector, RSelection(vector, s).value, values, vector')
  BY <1>1, <1>2, <1>5, AssignIs DEF VectorInv
<1> HIDE DEF end
<1>6. AssignLikeR'
  <2>1. end.status # "ok" => vector' = vector
    BY <1>1 DEF NewVector
  <2>2. AssignedLikeR(vector', outcome')
    BY <1>1, <1>3, <1>5, <2>1 DEF AssignedLikeR
  <2> QED
    BY <2>2, AssignedAre
<1>7. HashedFindsNames' /\ SubsetLikeR'
  BY <1>1 DEF HashedFindsNames, SubsetLikeR
<1> QED
  BY <1>4, <1>6, <1>7 DEF SessionInv

(* Every step keeps what holds of the session.                               *)
LEMMA SessionNext == SessionInv /\ [Next]_vars => SessionInv'
<1> SUFFICES ASSUME SessionInv, [Next]_vars PROVE SessionInv'
  OBVIOUS
<1>1. ASSUME NEW s \in Subscripted, Locate(s) \/ Subset(s) PROVE SessionInv'
  BY <1>1, LocateSession, SubsetSession
<1>2. ASSUME NEW s \in Mutated, NEW values \in Values \cup {Itself}, Assign(s, values)
      PROVE  SessionInv'
  BY <1>2, AssignSession
<1>3. ASSUME NEW op, NEW operands, NEW n, Begin(op, operands, n) PROVE SessionInv'
  <2>1. vector' = vector /\ (outcome' = outcome \/ outcome'.call = "operator")
    BY <1>3 DEF Begin, Refuse
  <2> QED
    BY <2>1, OtherStepsSession
<1>4. CASE ComputeChunk
  <2>1. vector' = vector /\ (outcome' = outcome \/ outcome'.call = "operator")
    BY <1>4 DEF ComputeChunk, Finish
  <2> QED
    BY <2>1, OtherStepsSession
<1>5. CASE ReturnResult
  <2>1. vector' = vector /\ outcome'.call = "operator"
    BY <1>5 DEF ReturnResult, Finish
  <2> QED
    BY <2>1, OtherStepsSession
<1>6. CASE Take
  <2>1. vector' = vector /\ outcome'.call = "none"
    BY <1>6 DEF Take, None
  <2> QED
    BY <2>1, OtherStepsSession
<1>7. CASE UNCHANGED vars
  <2>1. vector' = vector /\ outcome' = outcome
    BY <1>7 DEF vars
  <2> QED
    BY <2>1, OtherStepsSession
<1>8. ASSUME NEW op, NEW n, BeginUnary(op, n) PROVE SessionInv'
  BY <1>3, <1>8 DEF BeginUnary
<1>9. ASSUME NEW op, NEW other, NEW n, BeginBinary(op, other, n) PROVE SessionInv'
  BY <1>3, <1>9 DEF BeginBinary
<1> QED
  BY <1>1, <1>2, <1>4, <1>5, <1>6, <1>7, <1>8, <1>9 DEF Next

(* In every session, whatever the vectors, subscripts, values and hashes.    *)
THEOREM SpecSessionInv == Spec => []SessionInv
  BY SessionInit, SessionNext, PTL DEF Spec

(* string_subscript finds the first occurrence of a name, in the loop and in *)
(* the hash table alike, whatever collides in it.                            *)
THEOREM SpecHashedFindsNames == Spec => []HashedFindsNames
<1>1. SessionInv => HashedFindsNames
  BY DEF SessionInv
<1> QED
  BY SpecSessionInv, <1>1, PTL

(* ufo_subset gives what R's own subset gives, but for the cases named.      *)
THEOREM SpecSubsetLikeR == Spec => []SubsetLikeR
<1>1. SessionInv => SubsetLikeR
  BY DEF SessionInv
<1> QED
  BY SpecSessionInv, <1>1, PTL

(* ufo_subset_assign writes every selected position with its last value and  *)
(* no other, or nothing when it fails.                                       *)
THEOREM SpecAssignLikeR == Spec => []AssignLikeR
<1>1. SessionInv => AssignLikeR
  BY DEF SessionInv
<1> QED
  BY SpecSessionInv, <1>1, PTL
=============================================================================
