-------------------------- MODULE CsvTokens_proofs --------------------------
(* What the characters of a CSV file become, for any file: the buffer a      *)
(* token is collected in, where the cells of a table are in its file, the    *)
(* token each of them makes, and what a column makes of its text.            *)
EXTENDS CsvVectors, FiniteSetTheorems, SequenceTheorems, WellFoundedInduction, TLAPS

-----------------------------------------------------------------------------
(* Induction over the natural numbers, from the fact that < is well founded *)
(* on them.                                                                 *)
Less == {p \in Nat \X Nat : p[1] < p[2]}

(* The order of the natural numbers is well founded,                         *)
LEMMA LessWellFounded == IsWellFoundedOn(Less, Nat)
BY NatLessThanWellFounded DEF OpToRel, Less

(* so a set of them has a least element,                                     *)
LEMMA LeastElement ==
  ASSUME NEW S \in SUBSET Nat, S # {}
  PROVE  \E n \in S : \A m \in S : n <= m
<1>1. PICK n \in S : \A m \in S : <<m, n>> \notin Less
  BY LessWellFounded, WFMin, Zenon
<1>2. \A m \in S : ~(m < n)
  BY <1>1 DEF Less
<1> QED
  BY <1>2

(* and one closed under successor has them all.                              *)
LEMMA SetInduction ==
  ASSUME NEW S, 0 \in S, \A n \in Nat : n \in S => n + 1 \in S
  PROVE  Nat \subseteq S
<1> SUFFICES ASSUME NEW k \in Nat, k \notin S PROVE FALSE
  OBVIOUS
<1> DEFINE T == {n \in Nat : n \notin S}
<1>1. PICK n \in T : \A m \in T : n <= m
  BY LeastElement, T # {}
<1>2. n # 0 /\ n - 1 \in Nat /\ n - 1 \notin T
  BY <1>1
<1> QED
  BY <1>2

(* The greatest of some indices.                                             *)
LEMMA MaxIs ==
  ASSUME NEW s \in SUBSET Int, NEW m \in s, \A y \in s : m >= y
  PROVE  Max(s) = m
<1>1. \A x \in s : (\A y \in s : x >= y) => x = m
  OBVIOUS
<1>2. Max(s) \in s /\ \A y \in s : Max(s) >= y
  BY DEF Max
<1> QED
  BY <1>1, <1>2

(* The indices a fold has still to visit, from the last one down.            *)
LEMMA LastIndex ==
  ASSUME NEW k \in Nat, NEW s \in SUBSET (1..(k + 1)), k + 1 \in s
  PROVE  Max(s) = k + 1
<1>1. s \in SUBSET Int /\ \A y \in s : k + 1 >= y
  OBVIOUS
<1> QED
  BY <1>1, MaxIs

(* The last of the first k indices,                                          *)
LEMMA LastOfUpto ==
  ASSUME NEW n \in Nat, NEW k \in 1..n
  PROVE  Max(1..k) = k
<1>1. 1..k \in SUBSET Int /\ k \in 1..k /\ \A y \in 1..k : k >= y
  OBVIOUS
<1> QED
  BY <1>1, MaxIs

(* sets of smaller ones,                                                     *)
LEMMA SmallerIndices ==
  ASSUME NEW k \in Nat, NEW s \in SUBSET (1..(k + 1)), k + 1 \notin s, NEW m
  PROVE  s \in SUBSET (1..k) /\ s \ {m} \in SUBSET (1..(k + 1)) /\ k + 1 \notin s \ {m}
<1>1. \A y \in s : y \in 1..k
  OBVIOUS
<1> QED
  BY <1>1

(* and what is left of them without the last.                                *)
LEMMA IndicesUpto ==
  ASSUME NEW n \in Nat, NEW k \in 1..n
  PROVE  /\ 1..k \in SUBSET (1..n) /\ 1..k # {} /\ (1..k) \ {k} = 1..(k - 1)
         /\ k \in 0..n /\ k - 1 \in 0..n
<1>1. \A y \in 1..k : y \in 1..n
  OBVIOUS
<1>2. \A y : y \in (1..k) \ {k} <=> y \in 1..(k - 1)
  OBVIOUS
<1>3. k \in 1..k /\ k \in 0..n /\ k - 1 \in 0..n
  OBVIOUS
<1> QED
  BY <1>1, <1>2, <1>3

-----------------------------------------------------------------------------
(* A fold of an operator over a sequence takes one turn per element. The     *)
(* statement is the same for every operator, but it cannot be stated for all *)
(* of them at once: it is proved for each of the three folds of a scan.      *)
ScanAll(base, seq) == FoldLeft(ScanTurn, base, seq)
AppendAll(base, seq) == FoldLeft(AppendChar, base, seq)
Glued(text, separator, part) == text \o <<separator>> \o part
JoinAll(base, seq, separator) ==
    FoldLeft(LAMBDA text, part : text \o <<separator>> \o part, base, seq)

(* x is what there is after every turn.                                      *)
ScanTurns(x, n, seq, base) ==
    x[0] = base /\ (\A k \in 1..n : x[k] = ScanTurn(x[k - 1], seq[k])) /\ ScanAll(base, seq) = x[n]
AppendTurns(x, n, seq, base) ==
    x[0] = base /\ (\A k \in 1..n : x[k] = AppendChar(x[k - 1], seq[k])) /\ AppendAll(base, seq) = x[n]
JoinTurns(x, n, seq, base, separator) ==
    /\ x[0] = base /\ \A k \in 1..n : x[k] = Glued(x[k - 1], separator, seq[k])
    /\ JoinAll(base, seq, separator) = x[n]

(* The turns of a pass over a file,                                          *)
LEMMA ScanSteps ==
  ASSUME NEW n \in Nat, NEW seq, DOMAIN seq = 1..n, NEW base
  PROVE  \E x : ScanTurns(x, n, seq, base)
<1> DEFINE Turn(r, c) == ScanTurn(r, c)
           Solves(h, k) == h = [s \in SUBSET (1..k) |->
               IF s = {} THEN base ELSE Turn(h[s \ {Max(s)}], seq[Max(s)])]
           iter == CHOOSE h : Solves(h, n)
           S == {k \in Nat : \E h : Solves(h, k)}
<1>1. ScanAll(base, seq) = iter[1..n]
  BY DEF ScanAll, FoldLeft, MapThenFoldSet
<1> HIDE DEF Turn
<1>2. 0 \in S
  <2>1. Solves([s \in SUBSET (1..0) |-> base], 0)
    OBVIOUS
  <2> QED
    BY <2>1
<1>3. ASSUME NEW k \in Nat, k \in S PROVE k + 1 \in S
  <2>1. PICK h : Solves(h, k)
    BY <1>3
  <2> DEFINE g == [s \in SUBSET (1..(k + 1)) |->
                     IF k + 1 \in s THEN Turn(h[s \ {k + 1}], seq[k + 1]) ELSE h[s]]
  <2>2. ASSUME NEW s \in SUBSET (1..(k + 1)), k + 1 \in s
        PROVE  g[s] = IF s = {} THEN base ELSE Turn(g[s \ {Max(s)}], seq[Max(s)])
    <3>1. Max(s) = k + 1
      BY <2>2, LastIndex
    <3>2. g[s \ {k + 1}] = h[s \ {k + 1}]
      BY <2>2
    <3> QED
      BY <2>2, <3>1, <3>2
  <2>3. ASSUME NEW s \in SUBSET (1..(k + 1)), k + 1 \notin s
        PROVE  g[s] = IF s = {} THEN base ELSE Turn(g[s \ {Max(s)}], seq[Max(s)])
    <3>1. s \in SUBSET (1..k) /\ s \ {Max(s)} \in SUBSET (1..(k + 1)) /\ k + 1 \notin s \ {Max(s)}
      BY <2>3, SmallerIndices
    <3>2. g[s] = h[s] /\ g[s \ {Max(s)}] = h[s \ {Max(s)}]
      BY <2>3, <3>1
    <3>3. h[s] = IF s = {} THEN base ELSE Turn(h[s \ {Max(s)}], seq[Max(s)])
      BY <2>1, <3>1
    <3> QED
      BY <3>2, <3>3
  <2>4. Solves(g, k + 1)
    <3> HIDE DEF g
    <3>1. g = [s \in SUBSET (1..(k + 1)) |-> g[s]]
      BY DEF g
    <3> QED
      BY <2>2, <2>3, <3>1
  <2>5. \E f : Solves(f, k + 1)
    BY <2>4
  <2> HIDE DEF Solves
  <2> QED
    BY <1>3, <2>5
<1>4. Solves(iter, n)
  <2>1. Nat \subseteq S
    <3> HIDE DEF S
    <3> QED
      BY <1>2, <1>3, SetInduction
  <2>2. \E h : Solves(h, n)
    BY <2>1
  <2> QED
    BY <2>2
<1> HIDE DEF iter
<1> DEFINE x == [k \in 0..n |-> iter[1..k]]
<1>5. x[0] = base
  BY <1>4
<1>6. ASSUME NEW k \in 1..n PROVE x[k] = Turn(x[k - 1], seq[k])
  <2>1. /\ 1..k \in SUBSET (1..n) /\ 1..k # {} /\ (1..k) \ {k} = 1..(k - 1)
        /\ k \in 0..n /\ k - 1 \in 0..n
    BY IndicesUpto
  <2>2. Max(1..k) = k
    BY LastOfUpto
  <2>3. iter[1..k] = Turn(iter[(1..k) \ {Max(1..k)}], seq[Max(1..k)])
    BY <1>4, <2>1
  <2> QED
    BY <2>1, <2>2, <2>3
<1>7. ScanAll(base, seq) = x[n]
  <2>1. x[n] = iter[1..n]
    OBVIOUS
  <2> QED
    BY <1>1, <2>1
<1> HIDE DEF x
<1>8. \A k \in 1..n : x[k] = ScanTurn(x[k - 1], seq[k])
  BY <1>6 DEF Turn
<1> QED
  BY <1>5, <1>7, <1>8 DEF ScanTurns

(* the characters a transition appends,                                      *)
LEMMA AppendSteps ==
  ASSUME NEW n \in Nat, NEW seq, DOMAIN seq = 1..n, NEW base
  PROVE  \E x : AppendTurns(x, n, seq, base)
<1> DEFINE Turn(r, c) == AppendChar(r, c)
           Solves(h, k) == h = [s \in SUBSET (1..k) |->
               IF s = {} THEN base ELSE Turn(h[s \ {Max(s)}], seq[Max(s)])]
           iter == CHOOSE h : Solves(h, n)
           S == {k \in Nat : \E h : Solves(h, k)}
<1>1. AppendAll(base, seq) = iter[1..n]
  BY DEF AppendAll, FoldLeft, MapThenFoldSet
<1> HIDE DEF Turn
<1>2. 0 \in S
  <2>1. Solves([s \in SUBSET (1..0) |-> base], 0)
    OBVIOUS
  <2> QED
    BY <2>1
<1>3. ASSUME NEW k \in Nat, k \in S PROVE k + 1 \in S
  <2>1. PICK h : Solves(h, k)
    BY <1>3
  <2> DEFINE g == [s \in SUBSET (1..(k + 1)) |->
                     IF k + 1 \in s THEN Turn(h[s \ {k + 1}], seq[k + 1]) ELSE h[s]]
  <2>2. ASSUME NEW s \in SUBSET (1..(k + 1)), k + 1 \in s
        PROVE  g[s] = IF s = {} THEN base ELSE Turn(g[s \ {Max(s)}], seq[Max(s)])
    <3>1. Max(s) = k + 1
      BY <2>2, LastIndex
    <3>2. g[s \ {k + 1}] = h[s \ {k + 1}]
      BY <2>2
    <3> QED
      BY <2>2, <3>1, <3>2
  <2>3. ASSUME NEW s \in SUBSET (1..(k + 1)), k + 1 \notin s
        PROVE  g[s] = IF s = {} THEN base ELSE Turn(g[s \ {Max(s)}], seq[Max(s)])
    <3>1. s \in SUBSET (1..k) /\ s \ {Max(s)} \in SUBSET (1..(k + 1)) /\ k + 1 \notin s \ {Max(s)}
      BY <2>3, SmallerIndices
    <3>2. g[s] = h[s] /\ g[s \ {Max(s)}] = h[s \ {Max(s)}]
      BY <2>3, <3>1
    <3>3. h[s] = IF s = {} THEN base ELSE Turn(h[s \ {Max(s)}], seq[Max(s)])
      BY <2>1, <3>1
    <3> QED
      BY <3>2, <3>3
  <2>4. Solves(g, k + 1)
    <3> HIDE DEF g
    <3>1. g = [s \in SUBSET (1..(k + 1)) |-> g[s]]
      BY DEF g
    <3> QED
      BY <2>2, <2>3, <3>1
  <2>5. \E f : Solves(f, k + 1)
    BY <2>4
  <2> HIDE DEF Solves
  <2> QED
    BY <1>3, <2>5
<1>4. Solves(iter, n)
  <2>1. Nat \subseteq S
    <3> HIDE DEF S
    <3> QED
      BY <1>2, <1>3, SetInduction
  <2>2. \E h : Solves(h, n)
    BY <2>1
  <2> QED
    BY <2>2
<1> HIDE DEF iter
<1> DEFINE x == [k \in 0..n |-> iter[1..k]]
<1>5. x[0] = base
  BY <1>4
<1>6. ASSUME NEW k \in 1..n PROVE x[k] = Turn(x[k - 1], seq[k])
  <2>1. /\ 1..k \in SUBSET (1..n) /\ 1..k # {} /\ (1..k) \ {k} = 1..(k - 1)
        /\ k \in 0..n /\ k - 1 \in 0..n
    BY IndicesUpto
  <2>2. Max(1..k) = k
    BY LastOfUpto
  <2>3. iter[1..k] = Turn(iter[(1..k) \ {Max(1..k)}], seq[Max(1..k)])
    BY <1>4, <2>1
  <2> QED
    BY <2>1, <2>2, <2>3
<1>7. AppendAll(base, seq) = x[n]
  <2>1. x[n] = iter[1..n]
    OBVIOUS
  <2> QED
    BY <1>1, <2>1
<1> HIDE DEF x
<1>8. \A k \in 1..n : x[k] = AppendChar(x[k - 1], seq[k])
  BY <1>6 DEF Turn
<1> QED
  BY <1>5, <1>7, <1>8 DEF AppendTurns

(* and the parts of a line or a file.                                        *)
LEMMA JoinSteps ==
  ASSUME NEW n \in Nat, NEW seq, DOMAIN seq = 1..n, NEW base, NEW separator
  PROVE  \E x : JoinTurns(x, n, seq, base, separator)
<1> DEFINE Turn(r, c) == Glued(r, separator, c)
           Solves(h, k) == h = [s \in SUBSET (1..k) |->
               IF s = {} THEN base ELSE Turn(h[s \ {Max(s)}], seq[Max(s)])]
           iter == CHOOSE h : Solves(h, n)
           S == {k \in Nat : \E h : Solves(h, k)}
<1>1. JoinAll(base, seq, separator) = iter[1..n]
  BY DEF JoinAll, Glued, FoldLeft, MapThenFoldSet
<1> HIDE DEF Turn
<1>2. 0 \in S
  <2>1. Solves([s \in SUBSET (1..0) |-> base], 0)
    OBVIOUS
  <2> QED
    BY <2>1
<1>3. ASSUME NEW k \in Nat, k \in S PROVE k + 1 \in S
  <2>1. PICK h : Solves(h, k)
    BY <1>3
  <2> DEFINE g == [s \in SUBSET (1..(k + 1)) |->
                     IF k + 1 \in s THEN Turn(h[s \ {k + 1}], seq[k + 1]) ELSE h[s]]
  <2>2. ASSUME NEW s \in SUBSET (1..(k + 1)), k + 1 \in s
        PROVE  g[s] = IF s = {} THEN base ELSE Turn(g[s \ {Max(s)}], seq[Max(s)])
    <3>1. Max(s) = k + 1
      BY <2>2, LastIndex
    <3>2. g[s \ {k + 1}] = h[s \ {k + 1}]
      BY <2>2
    <3> QED
      BY <2>2, <3>1, <3>2
  <2>3. ASSUME NEW s \in SUBSET (1..(k + 1)), k + 1 \notin s
        PROVE  g[s] = IF s = {} THEN base ELSE Turn(g[s \ {Max(s)}], seq[Max(s)])
    <3>1. s \in SUBSET (1..k) /\ s \ {Max(s)} \in SUBSET (1..(k + 1)) /\ k + 1 \notin s \ {Max(s)}
      BY <2>3, SmallerIndices
    <3>2. g[s] = h[s] /\ g[s \ {Max(s)}] = h[s \ {Max(s)}]
      BY <2>3, <3>1
    <3>3. h[s] = IF s = {} THEN base ELSE Turn(h[s \ {Max(s)}], seq[Max(s)])
      BY <2>1, <3>1
    <3> QED
      BY <3>2, <3>3
  <2>4. Solves(g, k + 1)
    <3> HIDE DEF g
    <3>1. g = [s \in SUBSET (1..(k + 1)) |-> g[s]]
      BY DEF g
    <3> QED
      BY <2>2, <2>3, <3>1
  <2>5. \E f : Solves(f, k + 1)
    BY <2>4
  <2> HIDE DEF Solves
  <2> QED
    BY <1>3, <2>5
<1>4. Solves(iter, n)
  <2>1. Nat \subseteq S
    <3> HIDE DEF S
    <3> QED
      BY <1>2, <1>3, SetInduction
  <2>2. \E h : Solves(h, n)
    BY <2>1
  <2> QED
    BY <2>2
<1> HIDE DEF iter
<1> DEFINE x == [k \in 0..n |-> iter[1..k]]
<1>5. x[0] = base
  BY <1>4
<1>6. ASSUME NEW k \in 1..n PROVE x[k] = Turn(x[k - 1], seq[k])
  <2>1. /\ 1..k \in SUBSET (1..n) /\ 1..k # {} /\ (1..k) \ {k} = 1..(k - 1)
        /\ k \in 0..n /\ k - 1 \in 0..n
    BY IndicesUpto
  <2>2. Max(1..k) = k
    BY LastOfUpto
  <2>3. iter[1..k] = Turn(iter[(1..k) \ {Max(1..k)}], seq[Max(1..k)])
    BY <1>4, <2>1
  <2> QED
    BY <2>1, <2>2, <2>3
<1>7. JoinAll(base, seq, separator) = x[n]
  <2>1. x[n] = iter[1..n]
    OBVIOUS
  <2> QED
    BY <1>1, <2>1
<1> HIDE DEF x
<1>8. \A k \in 1..n : x[k] = Glued(x[k - 1], separator, seq[k])
  BY <1>6 DEF Turn
<1> QED
  BY <1>5, <1>7, <1>8 DEF JoinTurns

-----------------------------------------------------------------------------
(* Functions over 1..n are sequences.                                        *)
Sequence(s) == \E n \in Nat : s = [i \in 1..n |-> s[i]]

(* Functions on 1..n are sequences,                                          *)
LEMMA FunctionSequence ==
  ASSUME NEW n \in Nat, NEW s, s = [i \in 1..n |-> s[i]]
  PROVE  Sequence(s) /\ Len(s) = n /\ s \in Seq({s[i] : i \in 1..n})
<1>1. s \in [1..n -> {s[i] : i \in 1..n}]
  OBVIOUS
<1>2. s \in Seq({s[i] : i \in 1..n})
  BY <1>1
<1>3. Len(s) = n
  BY <1>1, <1>2
<1> QED
  BY <1>2, <1>3 DEF Sequence

(* and sequences are functions,                                              *)
LEMMA SeqSequence ==
  ASSUME NEW S, NEW s \in Seq(S)
  PROVE  Sequence(s) /\ Len(s) \in Nat
<1>1. Len(s) \in Nat /\ s = [i \in 1..Len(s) |-> s[i]]
  OBVIOUS
<1> QED
  BY <1>1 DEF Sequence

(* with one more element too.                                                *)
LEMMA AppendSequence ==
  ASSUME NEW s, Sequence(s), NEW e
  PROVE  /\ Len(s) \in Nat /\ Sequence(Append(s, e)) /\ Len(Append(s, e)) = Len(s) + 1
<1>1. PICK n \in Nat : s = [i \in 1..n |-> s[i]]
  BY DEF Sequence
<1>2. PICK S : S = {s[i] : i \in 1..n} \cup {e}
  OBVIOUS
<1>3. Len(s) = n /\ s \in Seq(S) /\ e \in S
  <2>1. s \in [1..n -> S]
    BY <1>1, <1>2
  <2>2. s \in Seq(S)
    BY <2>1
  <2> QED
    BY <1>1, <1>2, <2>2, FunctionSequence
<1>4. Append(s, e) \in Seq(S) /\ Len(Append(s, e)) = Len(s) + 1
  BY <1>3
<1> QED
  BY <1>3, <1>4, SeqSequence

(* The token that is being collected fits the buffer it is collected in, so  *)
(* does any other part of it.                                                *)
Tokenizer(t) ==
    t = [state |-> t.state, offset |-> t.offset, last |-> t.last, buf |-> t.buf, max |-> t.max,
         bytes |-> t.bytes, over |-> t.over, result |-> t.result, token |-> t.token]

Fits(t) ==
    /\ Tokenizer(t)
    /\ Sequence(t.buf) /\ t.max \in Nat /\ t.bytes \in Nat
    /\ 2 <= t.max /\ t.max <= t.bytes /\ Len(t.buf) <= t.max
    /\ t.over = FALSE

(* A full buffer has grown by one character at least when it is written to.  *)
LEMMA AppendFits ==
  ASSUME NEW t, Fits(t), NEW c
  PROVE  Fits(AppendChar(t, c))
<1> DEFINE full == Len(t.buf) = t.max
           max == IF full THEN Grown(t.max) ELSE t.max
           bytes == IF full THEN SlotBytes * max ELSE t.bytes
           u == AppendChar(t, c)
<1>1. /\ Sequence(t.buf) /\ t.max \in Nat /\ t.bytes \in Nat /\ Len(t.buf) \in Nat
      /\ 2 <= t.max /\ t.max <= t.bytes /\ Len(t.buf) <= t.max /\ t.over = FALSE
  BY AppendSequence DEF Fits
<1>2. Grown(t.max) \in Nat /\ t.max + 1 <= Grown(t.max)
  BY <1>1 DEF Grown
<1>3. \A m \in Nat : SlotBytes * m \in Nat /\ m <= SlotBytes * m
  <2> SUFFICES ASSUME NEW m \in Nat PROVE SlotBytes * m \in Nat /\ m <= SlotBytes * m
    OBVIOUS
  <2>1. PICK e \in Nat : SlotBytes = e + 1
    <3>1. SlotBytes - 1 \in Nat /\ SlotBytes = (SlotBytes - 1) + 1
      BY BufferAssumption
    <3> QED
      BY <3>1
  <2>2. e * m \in Nat /\ (e + 1) * m = e * m + m
    OBVIOUS
  <2> QED
    BY <2>1, <2>2
<1>4. /\ max \in Nat /\ 2 <= max /\ Len(t.buf) + 1 <= max
      /\ bytes \in Nat /\ max <= bytes
  <2>1. max \in Nat /\ 2 <= max /\ Len(t.buf) + 1 <= max
    BY <1>1, <1>2
  <2>2. CASE full
    <3>1. bytes = SlotBytes * max
      BY <2>2
    <3> HIDE DEF max, bytes
    <3> QED
      BY <1>3, <2>1, <3>1
  <2>3. CASE ~full
    BY <1>1, <2>3
  <2> QED
    BY <2>1, <2>2, <2>3
<1>5. /\ u = [state |-> t.state, offset |-> t.offset, last |-> t.last, buf |-> Append(t.buf, c), max |-> max,
              bytes |-> bytes, over |-> FALSE, result |-> t.result, token |-> t.token]
  <2>1. ~(Len(t.buf) + 1 > bytes)
    BY <1>1, <1>4
  <2>2. u = [t EXCEPT !.buf = Append(@, c), !.max = max, !.bytes = bytes,
                      !.over = @ \/ Len(t.buf) + 1 > bytes]
    BY DEF AppendChar
  <2> HIDE DEF u, max, bytes
  <2>3. (t.over \/ Len(t.buf) + 1 > bytes) = FALSE
    BY <1>1, <2>1
  <2> QED
    BY <2>2, <2>3 DEF Fits, Tokenizer
<1> HIDE DEF u, max, bytes
<1>6. Sequence(Append(t.buf, c)) /\ Len(Append(t.buf, c)) = Len(t.buf) + 1
  BY <1>1, AppendSequence
<1>7. Tokenizer(u) /\ u.buf = Append(t.buf, c) /\ u.max = max /\ u.bytes = bytes /\ u.over = FALSE
  BY <1>5 DEF Tokenizer
<1> QED
  BY <1>4, <1>6, <1>7 DEF Fits, u

(* The buffer keeps within its memory when characters are appended,          *)
LEMMA EmitFits ==
  ASSUME NEW t, Fits(t), NEW C, NEW e \in Seq(C)
  PROVE  Fits(AppendAll(t, e))
<1>1. Len(e) \in Nat /\ DOMAIN e = 1..Len(e)
  OBVIOUS
<1>2. PICK n : n = Len(e)
  OBVIOUS
<1>3. PICK x : AppendTurns(x, n, e, t)
  <2>1. n \in Nat /\ DOMAIN e = 1..n
    BY <1>1, <1>2
  <2> QED
    BY <2>1, AppendSteps
<1> USE DEF AppendTurns
<1> DEFINE S == {k \in Nat : k <= n => Fits(x[k])}
<1>4. 0 \in S
  BY <1>3
<1>5. ASSUME NEW k \in Nat, k \in S PROVE k + 1 \in S
  <2> SUFFICES ASSUME k + 1 <= n PROVE Fits(x[k + 1])
    OBVIOUS
  <2>1. k + 1 \in 1..n /\ (k + 1) - 1 = k /\ k <= n
    BY <1>1, <1>2
  <2>2. Fits(x[k]) /\ x[k + 1] = AppendChar(x[k], e[k + 1])
    BY <1>1, <1>2, <1>3, <1>5, <2>1
  <2> QED
    BY <2>2, AppendFits
<1>6. n \in S
  <2> HIDE DEF S
  <2>1. Nat \subseteq S
    BY <1>4, <1>5, SetInduction
  <2> QED
    BY <1>1, <1>2, <2>1
<1> QED
  BY <1>1, <1>2, <1>3, <1>6

(* What is appended are characters.                                          *)
LEMMA DeltaEmits ==
  ASSUME NEW state, NEW c
  PROVE  Delta(state, c).emit \in Seq({Escape, c})
<1> USE DEF Go, Keep, Pop, PopTrimmed, IsEof, EndOfFile, HighByte, Comma, NewLine, Blank, Quote, Escape
<1>1. <<>> \in Seq({Escape, c}) /\ <<c>> \in Seq({Escape, c}) /\ <<Escape, c>> \in Seq({Escape, c})
  <2> HIDE DEF Escape
  <2> QED
    OBVIOUS
<1>2. InField(c).emit \in {<<>>, <<c>>}
  BY DEF InField
<1>3. InUnquoted(c).emit \in {<<>>, <<c>>}
  BY DEF InUnquoted
<1>4. InQuoted(c).emit \in {<<>>, <<c>>}
  BY DEF InQuoted
<1>5. InQuote(c).emit \in {<<>>, <<c>>}
  BY DEF InQuote
<1>6. InTrailing(c).emit \in {<<>>, <<c>>}
  BY DEF InTrailing
<1>7. InEscape(c).emit \in {<<>>, <<c>>, <<Escape, c>>}
  BY DEF InEscape
<1>8. [Go(state) EXCEPT !.result = "ERROR"].emit = <<>>
  OBVIOUS
<1>9. Delta(state, c) \in {InField(c), InUnquoted(c), InQuoted(c), InQuote(c), InTrailing(c), InEscape(c),
                            [Go(state) EXCEPT !.result = "ERROR"]}
  BY Zenon DEF Delta
<1> QED
  BY <1>1, <1>2, <1>3, <1>4, <1>5, <1>6, <1>7, <1>8, <1>9

(* a token is taken out,                                                     *)
LEMMA PopFits ==
  ASSUME NEW t, Fits(t), NEW trim, NEW skip
  PROVE  Fits(PopToken(t, trim, skip))
<1>1. Sequence(<<>>) /\ Len(<<>>) = 0
  <2>1. <<>> \in Seq({}) /\ Len(<<>>) = 0
    OBVIOUS
  <2> QED
    BY <2>1, SeqSequence
<1>2. \E last, token : PopToken(t, trim, skip) = [t EXCEPT !.token = token, !.last = last, !.buf = <<>>]
  <2>1. CASE skip
    <3>1. PopToken(t, trim, skip) = [t EXCEPT !.token = NoToken, !.buf = <<>>]
      BY <2>1 DEF PopToken
    <3>2. [t EXCEPT !.token = NoToken, !.buf = <<>>] = [t EXCEPT !.token = NoToken, !.last = t.last, !.buf = <<>>]
      BY DEF Fits, Tokenizer
    <3> QED
      BY <3>1, <3>2
  <2>2. CASE ~skip
    BY <2>2 DEF PopToken
  <2> QED
    BY <2>1, <2>2
<1>3. PICK last, token : PopToken(t, trim, skip) = [t EXCEPT !.token = token, !.last = last, !.buf = <<>>]
  BY <1>2
<1>9. PICK u : u = [t EXCEPT !.token = token, !.last = last, !.buf = <<>>]
  OBVIOUS
<1>4. u = [state |-> t.state, offset |-> t.offset, last |-> last, buf |-> <<>>, max |-> t.max,
           bytes |-> t.bytes, over |-> t.over, result |-> t.result, token |-> token]
  BY <1>9 DEF Fits, Tokenizer
<1>5. Fits(u)
  BY <1>1, <1>4 DEF Fits, Tokenizer
<1> QED
  BY <1>3, <1>5, <1>9

(* a character is fed,                                                       *)
LEMMA FeedFits ==
  ASSUME NEW t, Fits(t), NEW c, NEW skip
  PROVE  Fits(Feed(t, c, skip))
<1>1. PICK d : d = Delta(t.state, c)
  OBVIOUS
<1>2. PICK a : a = AppendAll(t, d.emit)
  OBVIOUS
<1>3. Fits(a)
  BY <1>1, <1>2, DeltaEmits, EmitFits
<1>4. PICK m : m = [a EXCEPT !.state = d.next, !.result = d.result,
                             !.offset = @ + IF d.result = "ERROR" THEN 0 ELSE Moves(d)]
  OBVIOUS
<1>5. Fits(m)
  <2>1. PICK o : o = a.offset + IF d.result = "ERROR" THEN 0 ELSE Moves(d)
    OBVIOUS
  <2>2. m = [a EXCEPT !.state = d.next, !.result = d.result, !.offset = o]
    BY <1>4, <2>1
  <2>3. m = [state |-> d.next, offset |-> o, last |-> a.last, buf |-> a.buf, max |-> a.max,
             bytes |-> a.bytes, over |-> a.over, result |-> d.result, token |-> a.token]
    BY <1>3, <2>2 DEF Fits, Tokenizer
  <2> QED
    BY <1>3, <2>3 DEF Fits, Tokenizer
<1>6. Feed(t, c, skip) = IF d.pop THEN PopToken(m, d.trim, skip) ELSE [m EXCEPT !.token = NoToken]
  BY <1>1, <1>2, <1>4, Zenon DEF Feed, AppendAll
<1>7. Fits([m EXCEPT !.token = NoToken])
  <2>1. PICK u : u = [m EXCEPT !.token = NoToken]
    OBVIOUS
  <2>2. u = [state |-> m.state, offset |-> m.offset, last |-> m.last, buf |-> m.buf, max |-> m.max,
             bytes |-> m.bytes, over |-> m.over, result |-> m.result, token |-> NoToken]
    BY <1>5, <2>1 DEF Fits, Tokenizer
  <2>3. Fits(u)
    BY <1>5, <2>2 DEF Fits, Tokenizer
  <2> QED
    BY <2>1, <2>3
<1>8. Fits(PopToken(m, d.trim, skip))
  BY <1>5, PopFits
<1> QED
  BY <1>6, <1>7, <1>8

-----------------------------------------------------------------------------
(* The scan: its token fits, and when it has ended it knows of a column.     *)
Knows(r) == Len(r.types) \in Nat /\ (r.phase = "done" => Len(r.types) # 0)

ScanOk(r) ==
    /\ {"tk", "phase", "column", "types"} \subseteq DOMAIN r
    /\ Fits(r.tk) /\ r.column \in Nat /\ Knows(r)

(* The vector of types grows to the column's index.                          *)
LEMMA AddTypeLength ==
  ASSUME NEW types, Len(types) \in Nat, NEW column \in Nat, NEW type
  PROVE  Len(AddType(types, column, type)) \in Nat \ {0}
<1>1. PICK n : n = IF column + 1 > Len(types) THEN column + 1 ELSE Len(types)
  OBVIOUS
<1>2. n \in Nat \ {0}
  BY <1>1
<1>3. PICK s : s = AddType(types, column, type)
  OBVIOUS
<1>4. s = [c \in 1..n |-> s[c]]
  BY <1>1, <1>3 DEF AddType
<1> QED
  BY <1>2, <1>3, <1>4, FunctionSequence

(* and at the start.                                                         *)
LEMMA StartFits ==
  ASSUME NEW offset
  PROVE  Fits(Start(offset))
<1>1. PICK t : t = Start(offset)
  OBVIOUS
<1>2. t = [state |-> "field", offset |-> offset, last |-> 0,
           buf |-> <<>>, max |-> InitialBuffer, bytes |-> InitialBuffer, over |-> FALSE,
           result |-> "MORE", token |-> NoToken]
  BY <1>1 DEF Start
<1>3. Sequence(<<>>) /\ Len(<<>>) = 0
  <2>1. <<>> \in Seq({}) /\ Len(<<>>) = 0
    OBVIOUS
  <2> QED
    BY <2>1, SeqSequence
<1>4. InitialBuffer \in Nat /\ 2 <= InitialBuffer
  BY BufferAssumption
<1> QED
  BY <1>1, <1>2, <1>3, <1>4 DEF Fits, Tokenizer

(* A scan begins with an empty buffer,                                       *)
LEMMA ScanStartOk ==
  ASSUME NEW header, NEW interval
  PROVE  ScanOk(ScanStart(header, interval))
<1>1. PICK r : r = ScanStart(header, interval)
  OBVIOUS
<1>2. /\ {"tk", "phase", "column", "types"} \subseteq DOMAIN r
      /\ r.tk = Start(0) /\ r.phase \in {"header", "rows"} /\ r.column = 0 /\ r.types = <<>>
  BY <1>1 DEF ScanStart
<1>3. Len(<<>>) = 0
  OBVIOUS
<1> QED
  BY <1>1, <1>2, <1>3, StartFits DEF ScanOk, Knows

(* A token of the header is a column.                                        *)
LEMMA HeaderOk ==
  ASSUME NEW r, ScanOk(r)
  PROVE  ScanOk(HeaderToken(r))
<1>1. PICK types, names :
        types = AddType(r.types, r.column, "NOTHING") /\ names = Append(r.names, r.tk.token.text)
  OBVIOUS
<1>2. Len(types) \in Nat \ {0}
  BY <1>1, AddTypeLength DEF ScanOk, Knows
<1>3. PICK named : named = [r EXCEPT !.types = types, !.names = names]
  OBVIOUS
<1>4. /\ {"tk", "phase", "column", "types"} \subseteq DOMAIN named
      /\ named.tk = r.tk /\ named.column = r.column /\ named.types = types
  BY <1>3 DEF ScanOk
<1>5. \/ HeaderToken(r) = [named EXCEPT !.column = @ + 1]
      \/ HeaderToken(r) = [named EXCEPT !.column = 0, !.phase = "rows"]
      \/ HeaderToken(r) = [named EXCEPT !.phase = "done"]
  BY <1>1, <1>3, Zenon DEF HeaderToken
<1>6. r.column + 1 \in Nat /\ Fits(r.tk) /\ r.column \in Nat
  BY DEF ScanOk
<1>7. PICK u : u = HeaderToken(r)
  OBVIOUS
<1>8. /\ {"tk", "phase", "column", "types"} \subseteq DOMAIN u
      /\ u.tk = r.tk /\ u.column \in {r.column, r.column + 1, 0} /\ u.types = types
  BY <1>4, <1>5, <1>7
<1> QED
  BY <1>2, <1>6, <1>7, <1>8 DEF ScanOk, Knows

(* A token of a row is of a column, or skipped for what is known of it.      *)
LEMMA RowOk ==
  ASSUME NEW r, ScanOk(r)
  PROVE  ScanOk(RowToken(r))
<1> DEFINE Keeps(u) == /\ {"tk", "phase", "column", "types"} \subseteq DOMAIN u
                       /\ u.tk = r.tk /\ u.column = r.column /\ Len(u.types) \in Nat \ {0}
<1>1. Fits(r.tk) /\ r.column \in Nat /\ Len(r.types) \in Nat /\ {"tk", "phase", "column", "types"} \subseteq DOMAIN r
  BY DEF ScanOk, Knows
<1>2. PICK skipped, text, types, erange :
        /\ skipped = IsString(r.types, r.column) /\ text = r.tk.token.text
        /\ types = AddType(r.types, r.column, DeduceType(text, r.erange))
        /\ erange = IF DeduceType(text, r.erange) \in {"EMPTY", "NA", "BOOLEAN"}
                    THEN r.erange ELSE ErangeAfter(text, r.erange)
  OBVIOUS
<1>3. PICK typed : typed = IF skipped THEN r ELSE [r EXCEPT !.types = types, !.erange = erange]
  OBVIOUS
<1>4. Keeps(typed)
  <2>1. CASE skipped
    <3>1. r.column + 1 <= Len(r.types)
      BY <1>2, <2>1 DEF IsString
    <3>2. Len(r.types) # 0
      BY <1>1, <3>1
    <3> QED
      BY <1>1, <1>3, <2>1, <3>2
  <2>2. CASE ~skipped
    <3>1. Len(types) \in Nat \ {0}
      BY <1>1, <1>2, AddTypeLength
    <3>2. typed = [r EXCEPT !.types = types, !.erange = erange]
      BY <1>3, <2>2
    <3> QED
      BY <1>1, <3>1, <3>2
  <2> QED
    BY <2>1, <2>2
<1>5. PICK noted : noted = IF Interesting(r) THEN [typed EXCEPT !.offsets = Recorded(@, r.tk.token)] ELSE typed
  OBVIOUS
<1>6. Keeps(noted)
  BY <1>4, <1>5
<1>7. RowToken(r) = IF Interesting(r) /\ skipped THEN [r EXCEPT !.phase = "segv"] ELSE
                    CASE r.tk.result = "OK"         -> [noted EXCEPT !.column = @ + 1]
                      [] r.tk.result = "END_OF_ROW" -> [noted EXCEPT !.column = 0, !.row = @ + 1]
                      [] OTHER -> [noted EXCEPT !.phase = "done", !.rows = r.row + IF r.column = 0 THEN 0 ELSE 1]
  <2>1. typed = IF IsString(r.types, r.column) THEN r ELSE
                [r EXCEPT !.types = AddType(@, r.column, DeduceType(r.tk.token.text, r.erange)),
                          !.erange = IF DeduceType(r.tk.token.text, @) \in {"EMPTY", "NA", "BOOLEAN"}
                                     THEN @ ELSE ErangeAfter(r.tk.token.text, @)]
    BY <1>2, <1>3
  <2>2. RowToken(r) = IF Interesting(r) /\ IsString(r.types, r.column) THEN [r EXCEPT !.phase = "segv"] ELSE
                      CASE r.tk.result = "OK"         -> [noted EXCEPT !.column = @ + 1]
                        [] r.tk.result = "END_OF_ROW" -> [noted EXCEPT !.column = 0, !.row = @ + 1]
                        [] OTHER -> [noted EXCEPT !.phase = "done", !.rows = r.row + IF r.column = 0 THEN 0 ELSE 1]
    BY <1>5, <2>1 DEF RowToken
  <2> QED
    BY <1>2, <2>2, Zenon
<1>8. PICK rows : rows = r.row + IF r.column = 0 THEN 0 ELSE 1
  OBVIOUS
<1>9. \/ RowToken(r) = [r EXCEPT !.phase = "segv"]
      \/ RowToken(r) = [noted EXCEPT !.column = @ + 1]
      \/ RowToken(r) = [noted EXCEPT !.column = 0, !.row = @ + 1]
      \/ RowToken(r) = [noted EXCEPT !.phase = "done", !.rows = rows]
  BY <1>7, <1>8, Zenon
<1>10. PICK u : u = RowToken(r)
  OBVIOUS
<1>11. CASE u = [r EXCEPT !.phase = "segv"]
  <2>1. /\ {"tk", "phase", "column", "types"} \subseteq DOMAIN u
        /\ u.tk = r.tk /\ u.column = r.column /\ u.types = r.types /\ u.phase = "segv"
    BY <1>1, <1>11
  <2> QED
    BY <1>1, <1>10, <2>1 DEF ScanOk, Knows
<1>12. CASE u # [r EXCEPT !.phase = "segv"]
  <2>1. /\ {"tk", "phase", "column", "types"} \subseteq DOMAIN u
        /\ u.tk = r.tk /\ u.column \in {r.column, r.column + 1, 0} /\ u.types = noted.types
    BY <1>6, <1>9, <1>10, <1>12
  <2> QED
    BY <1>1, <1>6, <1>10, <2>1 DEF ScanOk, Knows
<1> QED
  BY <1>11, <1>12

(* and a turn of its loop keeps to its memory.                               *)
LEMMA TurnOk ==
  ASSUME NEW r, ScanOk(r), NEW c
  PROVE  ScanOk(ScanTurn(r, c))
<1>1. PICK t : t = Feed(r.tk, c, r.phase = "rows" /\ IsString(r.types, r.column))
  OBVIOUS
<1>2. Fits(t)
  BY <1>1, FeedFits DEF ScanOk
<1>3. PICK fed : fed = [r EXCEPT !.tk = t]
  OBVIOUS
<1>4. ScanOk(fed)
  <2>1. /\ {"tk", "phase", "column", "types"} \subseteq DOMAIN fed
        /\ fed.tk = t /\ fed.column = r.column /\ fed.types = r.types /\ fed.phase = r.phase
    BY <1>3 DEF ScanOk
  <2> QED
    BY <1>2, <2>1 DEF ScanOk, Knows
<1>5. ScanTurn(r, c) = IF r.phase \notin {"header", "rows"} THEN r
                       ELSE IF fed.tk.result = "MORE" THEN fed
                       ELSE IF fed.tk.result \in {"PARSE_ERROR", "ERROR"} THEN [fed EXCEPT !.phase = "bad"]
                       ELSE IF r.phase = "header" THEN HeaderToken(fed)
                       ELSE RowToken(fed)
  <2>1. fed = [r EXCEPT !.tk = Feed(@, c, r.phase = "rows" /\ IsString(r.types, r.column))]
    BY <1>1, <1>3
  <2> QED
    BY <2>1, Zenon DEF ScanTurn
<1>6. PICK bad : bad = [fed EXCEPT !.phase = "bad"]
  OBVIOUS
<1>7. ScanOk(bad)
  <2>1. /\ {"tk", "phase", "column", "types"} \subseteq DOMAIN bad
        /\ bad.tk = fed.tk /\ bad.column = fed.column /\ bad.types = fed.types /\ bad.phase = "bad"
    BY <1>4, <1>6 DEF ScanOk
  <2> QED
    BY <1>4, <2>1 DEF ScanOk, Knows
<1> QED
  BY <1>4, <1>5, <1>6, <1>7, HeaderOk, RowOk

(* A scan of any file, of any length.                                        *)
LEMMA ScanAllOk ==
  ASSUME NEW r, ScanOk(r), NEW file, Sequence(file)
  PROVE  ScanOk(ScanAll(r, file))
<1>1. PICK n \in Nat : file = [i \in 1..n |-> file[i]]
  BY DEF Sequence
<1>2. PICK x : ScanTurns(x, n, file, r)
  <2>1. DOMAIN file = 1..n
    BY <1>1
  <2> QED
    BY <2>1, ScanSteps
<1> USE DEF ScanTurns
<1> DEFINE S == {k \in Nat : k <= n => ScanOk(x[k])}
<1>3. 0 \in S
  BY <1>2
<1>4. ASSUME NEW k \in Nat, k \in S PROVE k + 1 \in S
  <2> SUFFICES ASSUME k + 1 <= n PROVE ScanOk(x[k + 1])
    OBVIOUS
  <2>1. k + 1 \in 1..n /\ (k + 1) - 1 = k /\ k <= n
    OBVIOUS
  <2>2. ScanOk(x[k]) /\ x[k + 1] = ScanTurn(x[k], file[k + 1])
    BY <1>2, <1>4, <2>1
  <2> QED
    BY <2>2, TurnOk
<1>5. n \in S
  <2> HIDE DEF S
  <2> QED
    BY <1>3, <1>4, SetInduction
<1> QED
  BY <1>2, <1>5

-----------------------------------------------------------------------------
(* The folds of the reading passes and of the reference, step by step.       *)

ReadAll(base, seq) == FoldLeft(ReadTurn, base, seq)
Onto(s, part) == s \o part
ConcatAll(base, seq) == FoldLeft(LAMBDA s, part : s \o part, base, seq)
ReadTurns(x, n, seq, base) ==
    x[0] = base /\ (\A k \in 1..n : x[k] = ReadTurn(x[k - 1], seq[k])) /\ ReadAll(base, seq) = x[n]
ConcatTurns(x, n, seq, base) ==
    x[0] = base /\ (\A k \in 1..n : x[k] = Onto(x[k - 1], seq[k])) /\ ConcatAll(base, seq) = x[n]

(* of a reading pass,                                                        *)
LEMMA ReadSteps ==
  ASSUME NEW n \in Nat, NEW seq, DOMAIN seq = 1..n, NEW base
  PROVE  \E x : ReadTurns(x, n, seq, base)
<1> DEFINE Turn(r, c) == ReadTurn(r, c)
           Solves(h, k) == h = [s \in SUBSET (1..k) |->
               IF s = {} THEN base ELSE Turn(h[s \ {Max(s)}], seq[Max(s)])]
           iter == CHOOSE h : Solves(h, n)
           S == {k \in Nat : \E h : Solves(h, k)}
<1>1. ReadAll(base, seq) = iter[1..n]
  BY DEF ReadAll, FoldLeft, MapThenFoldSet
<1> HIDE DEF Turn
<1>2. 0 \in S
  <2>1. Solves([s \in SUBSET (1..0) |-> base], 0)
    OBVIOUS
  <2> QED
    BY <2>1
<1>3. ASSUME NEW k \in Nat, k \in S PROVE k + 1 \in S
  <2>1. PICK h : Solves(h, k)
    BY <1>3
  <2> DEFINE g == [s \in SUBSET (1..(k + 1)) |->
                     IF k + 1 \in s THEN Turn(h[s \ {k + 1}], seq[k + 1]) ELSE h[s]]
  <2>2. ASSUME NEW s \in SUBSET (1..(k + 1)), k + 1 \in s
        PROVE  g[s] = IF s = {} THEN base ELSE Turn(g[s \ {Max(s)}], seq[Max(s)])
    <3>1. Max(s) = k + 1
      BY <2>2, LastIndex
    <3>2. g[s \ {k + 1}] = h[s \ {k + 1}]
      BY <2>2
    <3> QED
      BY <2>2, <3>1, <3>2
  <2>3. ASSUME NEW s \in SUBSET (1..(k + 1)), k + 1 \notin s
        PROVE  g[s] = IF s = {} THEN base ELSE Turn(g[s \ {Max(s)}], seq[Max(s)])
    <3>1. s \in SUBSET (1..k) /\ s \ {Max(s)} \in SUBSET (1..(k + 1)) /\ k + 1 \notin s \ {Max(s)}
      BY <2>3, SmallerIndices
    <3>2. g[s] = h[s] /\ g[s \ {Max(s)}] = h[s \ {Max(s)}]
      BY <2>3, <3>1
    <3>3. h[s] = IF s = {} THEN base ELSE Turn(h[s \ {Max(s)}], seq[Max(s)])
      BY <2>1, <3>1
    <3> QED
      BY <3>2, <3>3
  <2>4. Solves(g, k + 1)
    <3> HIDE DEF g
    <3>1. g = [s \in SUBSET (1..(k + 1)) |-> g[s]]
      BY DEF g
    <3> QED
      BY <2>2, <2>3, <3>1
  <2>5. \E f : Solves(f, k + 1)
    BY <2>4
  <2> HIDE DEF Solves
  <2> QED
    BY <1>3, <2>5
<1>4. Solves(iter, n)
  <2>1. Nat \subseteq S
    <3> HIDE DEF S
    <3> QED
      BY <1>2, <1>3, SetInduction
  <2>2. \E h : Solves(h, n)
    BY <2>1
  <2> QED
    BY <2>2
<1> HIDE DEF iter
<1> DEFINE x == [k \in 0..n |-> iter[1..k]]
<1>5. x[0] = base
  BY <1>4
<1>6. ASSUME NEW k \in 1..n PROVE x[k] = Turn(x[k - 1], seq[k])
  <2>1. /\ 1..k \in SUBSET (1..n) /\ 1..k # {} /\ (1..k) \ {k} = 1..(k - 1)
        /\ k \in 0..n /\ k - 1 \in 0..n
    BY IndicesUpto
  <2>2. Max(1..k) = k
    BY LastOfUpto
  <2>3. iter[1..k] = Turn(iter[(1..k) \ {Max(1..k)}], seq[Max(1..k)])
    BY <1>4, <2>1
  <2> QED
    BY <2>1, <2>2, <2>3
<1>7. ReadAll(base, seq) = x[n]
  <2>1. x[n] = iter[1..n]
    OBVIOUS
  <2> QED
    BY <1>1, <2>1
<1> HIDE DEF x
<1>8. \A k \in 1..n : x[k] = ReadTurn(x[k - 1], seq[k])
  BY <1>6 DEF Turn
<1> QED
  BY <1>5, <1>7, <1>8 DEF ReadTurns


(* and the pieces of a text.                                                 *)
LEMMA ConcatSteps ==
  ASSUME NEW n \in Nat, NEW seq, DOMAIN seq = 1..n, NEW base
  PROVE  \E x : ConcatTurns(x, n, seq, base)
<1> DEFINE Turn(r, c) == Onto(r, c)
           Solves(h, k) == h = [s \in SUBSET (1..k) |->
               IF s = {} THEN base ELSE Turn(h[s \ {Max(s)}], seq[Max(s)])]
           iter == CHOOSE h : Solves(h, n)
           S == {k \in Nat : \E h : Solves(h, k)}
<1>1. ConcatAll(base, seq) = iter[1..n]
  BY DEF ConcatAll, Onto, FoldLeft, MapThenFoldSet
<1> HIDE DEF Turn
<1>2. 0 \in S
  <2>1. Solves([s \in SUBSET (1..0) |-> base], 0)
    OBVIOUS
  <2> QED
    BY <2>1
<1>3. ASSUME NEW k \in Nat, k \in S PROVE k + 1 \in S
  <2>1. PICK h : Solves(h, k)
    BY <1>3
  <2> DEFINE g == [s \in SUBSET (1..(k + 1)) |->
                     IF k + 1 \in s THEN Turn(h[s \ {k + 1}], seq[k + 1]) ELSE h[s]]
  <2>2. ASSUME NEW s \in SUBSET (1..(k + 1)), k + 1 \in s
        PROVE  g[s] = IF s = {} THEN base ELSE Turn(g[s \ {Max(s)}], seq[Max(s)])
    <3>1. Max(s) = k + 1
      BY <2>2, LastIndex
    <3>2. g[s \ {k + 1}] = h[s \ {k + 1}]
      BY <2>2
    <3> QED
      BY <2>2, <3>1, <3>2
  <2>3. ASSUME NEW s \in SUBSET (1..(k + 1)), k + 1 \notin s
        PROVE  g[s] = IF s = {} THEN base ELSE Turn(g[s \ {Max(s)}], seq[Max(s)])
    <3>1. s \in SUBSET (1..k) /\ s \ {Max(s)} \in SUBSET (1..(k + 1)) /\ k + 1 \notin s \ {Max(s)}
      BY <2>3, SmallerIndices
    <3>2. g[s] = h[s] /\ g[s \ {Max(s)}] = h[s \ {Max(s)}]
      BY <2>3, <3>1
    <3>3. h[s] = IF s = {} THEN base ELSE Turn(h[s \ {Max(s)}], seq[Max(s)])
      BY <2>1, <3>1
    <3> QED
      BY <3>2, <3>3
  <2>4. Solves(g, k + 1)
    <3> HIDE DEF g
    <3>1. g = [s \in SUBSET (1..(k + 1)) |-> g[s]]
      BY DEF g
    <3> QED
      BY <2>2, <2>3, <3>1
  <2>5. \E f : Solves(f, k + 1)
    BY <2>4
  <2> HIDE DEF Solves
  <2> QED
    BY <1>3, <2>5
<1>4. Solves(iter, n)
  <2>1. Nat \subseteq S
    <3> HIDE DEF S
    <3> QED
      BY <1>2, <1>3, SetInduction
  <2>2. \E h : Solves(h, n)
    BY <2>1
  <2> QED
    BY <2>2
<1> HIDE DEF iter
<1> DEFINE x == [k \in 0..n |-> iter[1..k]]
<1>5. x[0] = base
  BY <1>4
<1>6. ASSUME NEW k \in 1..n PROVE x[k] = Turn(x[k - 1], seq[k])
  <2>1. /\ 1..k \in SUBSET (1..n) /\ 1..k # {} /\ (1..k) \ {k} = 1..(k - 1)
        /\ k \in 0..n /\ k - 1 \in 0..n
    BY IndicesUpto
  <2>2. Max(1..k) = k
    BY LastOfUpto
  <2>3. iter[1..k] = Turn(iter[(1..k) \ {Max(1..k)}], seq[Max(1..k)])
    BY <1>4, <2>1
  <2> QED
    BY <2>1, <2>2, <2>3
<1>7. ConcatAll(base, seq) = x[n]
  <2>1. x[n] = iter[1..n]
    OBVIOUS
  <2> QED
    BY <1>1, <2>1
<1> HIDE DEF x
<1>8. \A k \in 1..n : x[k] = Onto(x[k - 1], seq[k])
  BY <1>6 DEF Turn
<1> QED
  BY <1>5, <1>7, <1>8 DEF ConcatTurns


(* Sequences one after the other.                                            *)
LEMMA ConcatIs ==
  ASSUME NEW S, NEW s \in Seq(S), NEW t \in Seq(S)
  PROVE  /\ s \o t \in Seq(S) /\ Len(s) \in Nat /\ Len(t) \in Nat /\ Len(s \o t) = Len(s) + Len(t)
         /\ \A i \in 1..Len(s) : (s \o t)[i] = s[i]
         /\ \A i \in 1..Len(t) : (s \o t)[Len(s) + i] = t[i]
<1>1. s \o t \in Seq(S)
  OBVIOUS
<1>2. Len(s) \in Nat /\ Len(t) \in Nat /\ Len(s \o t) = Len(s) + Len(t)
  OBVIOUS
<1>3. \A i \in 1..Len(s) : (s \o t)[i] = s[i]
  OBVIOUS
<1>4. \A i \in 1..Len(t) : (s \o t)[Len(s) + i] = t[i]
  OBVIOUS
<1> QED
  BY <1>1, <1>2, <1>3, <1>4

(* The pieces of a text one after the other: Upto(parts, k) is the first k.  *)
Upto(parts, k) == Concat(SubSeq(parts, 1, k))

(* A concatenation grows part by part.                                       *)
LEMMA ConcatGrows ==
  ASSUME NEW S, NEW parts \in Seq(Seq(S))
  PROVE  /\ Upto(parts, 0) = <<>> /\ Upto(parts, Len(parts)) = Concat(parts)
         /\ \A k \in 1..Len(parts) : Upto(parts, k) = Upto(parts, k - 1) \o parts[k]
         /\ \A k \in 0..Len(parts) : Upto(parts, k) \in Seq(S)
<1>1. PICK n \in Nat : n = Len(parts)
  OBVIOUS
<1>2. ASSUME NEW k \in 0..n
      PROVE  \E x : ConcatTurns(x, k, SubSeq(parts, 1, k), <<>>) /\ x[k] = Upto(parts, k)
  <2>1. k \in Nat /\ DOMAIN SubSeq(parts, 1, k) = 1..k
    BY <1>1
  <2>2. PICK x : ConcatTurns(x, k, SubSeq(parts, 1, k), <<>>)
    BY <2>1, ConcatSteps
  <2>3. Upto(parts, k) = ConcatAll(<<>>, SubSeq(parts, 1, k))
    BY Zenon DEF Upto, Concat, ConcatAll
  <2> QED
    BY <2>2, <2>3 DEF ConcatTurns
<1>3. ASSUME NEW k \in 0..n, NEW x, ConcatTurns(x, n, parts, <<>>)
      PROVE  x[k] = Upto(parts, k)
  <2>1. PICK y : ConcatTurns(y, k, SubSeq(parts, 1, k), <<>>) /\ y[k] = Upto(parts, k)
    BY <1>2
  <2> DEFINE T == {i \in Nat : i <= k => x[i] = y[i]}
  <2>2. 0 \in T
    BY <1>3, <2>1 DEF ConcatTurns
  <2>3. ASSUME NEW i \in Nat, i \in T PROVE i + 1 \in T
    <3> SUFFICES ASSUME i + 1 <= k PROVE x[i + 1] = y[i + 1]
      OBVIOUS
    <3>1. i + 1 \in 1..k /\ i + 1 \in 1..n /\ (i + 1) - 1 = i /\ x[i] = y[i]
      BY <2>3
    <3>2. SubSeq(parts, 1, k)[i + 1] = parts[i + 1]
      BY <1>1, <3>1
    <3>3. x[i + 1] = Onto(x[i], parts[i + 1])
      BY <1>3, <3>1 DEF ConcatTurns
    <3>4. y[i + 1] = Onto(y[i], parts[i + 1])
      BY <2>1, <3>1, <3>2 DEF ConcatTurns
    <3> QED
      BY <3>1, <3>3, <3>4
  <2>4. Nat \subseteq T
    <3> HIDE DEF T
    <3> QED
      BY <2>2, <2>3, SetInduction
  <2>5. k \in Nat
    OBVIOUS
  <2> QED
    BY <2>1, <2>4, <2>5
<1>4. PICK x : ConcatTurns(x, n, parts, <<>>)
  <2>1. DOMAIN parts = 1..n
    BY <1>1
  <2> QED
    BY <2>1, ConcatSteps
<1>5. \A k \in 0..n : x[k] = Upto(parts, k)
  BY <1>3, <1>4
<1>6. \A k \in 1..n : k - 1 \in 0..n /\ k \in 0..n
  OBVIOUS
<1>7. Upto(parts, 0) = <<>>
  <2>1. 0 \in 0..n
    OBVIOUS
  <2> QED
    BY <1>4, <1>5, <2>1 DEF ConcatTurns
<1>8. \A k \in 1..n : Upto(parts, k) = Upto(parts, k - 1) \o parts[k]
  BY <1>4, <1>5, <1>6 DEF ConcatTurns, Onto
<1>9. \A k \in 0..n : Upto(parts, k) \in Seq(S)
  <2> DEFINE T == {i \in Nat : i <= n => Upto(parts, i) \in Seq(S)}
  <2>1. 0 \in T
    <3>1. <<>> \in Seq(S)
      OBVIOUS
    <3> QED
      BY <1>7, <3>1
  <2>2. ASSUME NEW i \in Nat, i \in T PROVE i + 1 \in T
    <3> SUFFICES ASSUME i + 1 <= n PROVE Upto(parts, i + 1) \in Seq(S)
      OBVIOUS
    <3>1. i + 1 \in 1..n /\ (i + 1) - 1 = i /\ Upto(parts, i) \in Seq(S) /\ parts[i + 1] \in Seq(S)
      BY <1>1, <2>2
    <3>2. Upto(parts, i + 1) = Upto(parts, i) \o parts[i + 1]
      BY <1>8, <3>1
    <3> QED
      BY <3>1, <3>2, ConcatIs
  <2>3. Nat \subseteq T
    <3> HIDE DEF T
    <3> QED
      BY <2>1, <2>2, SetInduction
  <2> QED
    BY <2>3
<1>10. Upto(parts, n) = Concat(parts)
  BY <1>1, SubSeqFull DEF Upto
<1> QED
  BY <1>1, <1>7, <1>8, <1>9, <1>10

(* Each part is found where the parts before it end.                         *)
LEMMA ConcatFinds ==
  ASSUME NEW S, NEW parts \in Seq(Seq(S)), NEW k \in 1..Len(parts)
  PROVE  /\ Len(Upto(parts, k)) = Len(Upto(parts, k - 1)) + Len(parts[k])
         /\ Len(Upto(parts, k)) <= Len(Concat(parts))
         /\ \A i \in 1..Len(parts[k]) : Concat(parts)[Len(Upto(parts, k - 1)) + i] = parts[k][i]
<1>1. PICK n \in Nat : n = Len(parts)
  OBVIOUS
<1>2. /\ \A j \in 1..n : Upto(parts, j) = Upto(parts, j - 1) \o parts[j]
      /\ \A j \in 0..n : Upto(parts, j) \in Seq(S)
      /\ Upto(parts, n) = Concat(parts)
  BY <1>1, ConcatGrows
<1>3. PICK b, p, u : b = Upto(parts, k - 1) /\ p = parts[k] /\ u = Upto(parts, k)
  OBVIOUS
<1>4. b \in Seq(S) /\ p \in Seq(S) /\ u = b \o p
  <2>1. k - 1 \in 0..n /\ k \in 1..n /\ parts[k] \in Seq(S)
    BY <1>1
  <2> QED
    BY <1>2, <1>3, <2>1
<1>5. u \in Seq(S) /\ Len(u) = Len(b) + Len(p) /\ \A i \in 1..Len(p) : u[Len(b) + i] = p[i]
  BY <1>4, ConcatIs
<1> DEFINE Starts(j) == /\ Len(u) <= Len(Upto(parts, k + j))
                        /\ \A i \in 1..Len(u) : Upto(parts, k + j)[i] = u[i]
           T == {j \in Nat : k + j <= n => Starts(j)}
<1>6. 0 \in T
  <2>1. k + 0 = k
    OBVIOUS
  <2>2. Len(u) \in Nat /\ Len(u) <= Len(u)
    BY <1>5
  <2> QED
    BY <1>3, <2>1, <2>2
<1>7. ASSUME NEW j \in Nat, j \in T PROVE j + 1 \in T
  <2> SUFFICES ASSUME k + (j + 1) <= n PROVE Starts(j + 1)
    <3> HIDE DEF Starts
    <3> QED
      OBVIOUS
  <2>1. k + (j + 1) \in 1..n /\ (k + (j + 1)) - 1 = k + j /\ k + j \in 0..n /\ k + j <= n
    BY <1>1
  <2>2. PICK v, w, q : v = Upto(parts, k + j) /\ w = Upto(parts, k + (j + 1)) /\ q = parts[k + (j + 1)]
    OBVIOUS
  <2>3. v \in Seq(S) /\ q \in Seq(S) /\ w = v \o q
    <3>1. parts[k + (j + 1)] \in Seq(S)
      BY <1>1, <2>1
    <3> QED
      BY <1>2, <2>1, <2>2, <3>1
  <2>5. Len(u) <= Len(v) /\ \A i \in 1..Len(u) : v[i] = u[i]
    BY <1>7, <2>1, <2>2
  <2>6. Len(w) = Len(v) + Len(q) /\ Len(v) \in Nat /\ Len(q) \in Nat /\ \A i \in 1..Len(v) : w[i] = v[i]
    BY <2>3, ConcatIs
  <2>7. Len(u) \in Nat
    BY <1>5
  <2>8. \A i \in 1..Len(u) : i \in 1..Len(v)
    BY <2>5, <2>6, <2>7
  <2>4. Len(u) <= Len(w) /\ \A i \in 1..Len(u) : w[i] = u[i]
    BY <2>5, <2>6, <2>7, <2>8
  <2> QED
    BY <2>2, <2>4
<1>8. n - k \in T
  <2>1. n - k \in Nat
    BY <1>1
  <2> HIDE DEF T
  <2> QED
    BY <1>6, <1>7, <2>1, SetInduction
<1>9. k + (n - k) = n /\ k + (n - k) <= n
  BY <1>1
<1>10. Len(u) <= Len(Concat(parts)) /\ \A i \in 1..Len(u) : Concat(parts)[i] = u[i]
  BY <1>2, <1>8, <1>9
<1>11. \A i \in 1..Len(p) : Len(b) + i \in 1..Len(u)
  BY <1>4, <1>5
<1> QED
  BY <1>3, <1>5, <1>10, <1>11

-----------------------------------------------------------------------------
(* What the tokenizer collects from the characters of a cell.                *)

(* Whatever a character is, so are the ones with a name.                     *)
Char == STRING \cup {Comma, NewLine, Quote, Escape, Blank, EndOfFile}

(* What a tokenizer is made of, as far as tokens depend on it.               *)
Collects(t) == Tokenizer(t) /\ t.buf \in Seq(Char) /\ t.offset \in Nat

(* A character that does not end a token: s is appended and k counted.       *)
Moved(u, t, next, s, k) ==
    /\ Collects(u)
    /\ u.state = next /\ u.result = "MORE" /\ u.buf = t.buf \o s
    /\ u.offset = t.offset + k /\ u.last = t.last

(* A character that ends one.                                                *)
Popped(u, t, next, result, text, skip) ==
    /\ Collects(u)
    /\ u.state = next /\ u.result = result /\ u.buf = <<>> /\ u.offset = t.offset + 1
    /\ IF skip THEN u.last = t.last
       ELSE u.last = u.offset /\ u.token.text = text /\ u.token.start = t.last

(* Collecting a character leaves the rest of the tokenizer alone.            *)
LEMMA AppendCollects ==
  ASSUME NEW t, Collects(t), NEW c \in Char
  PROVE  LET u == AppendChar(t, c) IN
         /\ Collects(u) /\ u.buf = Append(t.buf, c)
         /\ u.state = t.state /\ u.offset = t.offset /\ u.last = t.last
<1>1. PICK max, bytes, over : AppendChar(t, c) =
        [t EXCEPT !.buf = Append(@, c), !.max = max, !.bytes = bytes, !.over = over]
  BY DEF AppendChar
<1>2. PICK u : u = AppendChar(t, c)
  OBVIOUS
<1>3. u = [state |-> t.state, offset |-> t.offset, last |-> t.last, buf |-> Append(t.buf, c),
           max |-> max, bytes |-> bytes, over |-> over, result |-> t.result, token |-> t.token]
  BY <1>1, <1>2 DEF Collects, Tokenizer
<1>4. Append(t.buf, c) \in Seq(Char)
  BY DEF Collects
<1> QED
  BY <1>2, <1>3, <1>4 DEF Collects, Tokenizer

(* Nothing, one or two characters are collected at a time.                   *)
LEMMA AppendNone ==
  ASSUME NEW t
  PROVE  AppendAll(t, <<>>) = t
<1>1. 0 \in Nat /\ DOMAIN <<>> = 1..0
  OBVIOUS
<1>2. PICK x : AppendTurns(x, 0, <<>>, t)
  BY <1>1, AppendSteps
<1> QED
  BY <1>2 DEF AppendTurns

(* Characters are appended one by one.                                       *)
LEMMA AppendOne ==
  ASSUME NEW t, NEW a
  PROVE  AppendAll(t, <<a>>) = AppendChar(t, a)
<1>1. 1 \in Nat /\ DOMAIN <<a>> = 1..1
  OBVIOUS
<1>2. PICK x : AppendTurns(x, 1, <<a>>, t)
  BY <1>1, AppendSteps
<1>3. x[0] = t /\ x[1] = AppendChar(x[1 - 1], <<a>>[1]) /\ AppendAll(t, <<a>>) = x[1]
  <2>1. 1 \in 1..1
    OBVIOUS
  <2> QED
    BY <1>2, <2>1 DEF AppendTurns
<1>4. 1 - 1 = 0 /\ <<a>>[1] = a
  OBVIOUS
<1> QED
  BY <1>3, <1>4

(* Two at a time are one after the other.                                    *)
LEMMA AppendTwo ==
  ASSUME NEW t, NEW a, NEW b
  PROVE  AppendAll(t, <<a, b>>) = AppendChar(AppendChar(t, a), b)
<1>1. 2 \in Nat /\ DOMAIN <<a, b>> = 1..2
  OBVIOUS
<1>2. PICK x : AppendTurns(x, 2, <<a, b>>, t)
  BY <1>1, AppendSteps
<1>3. /\ x[0] = t /\ x[1] = AppendChar(x[1 - 1], <<a, b>>[1])
      /\ x[2] = AppendChar(x[2 - 1], <<a, b>>[2]) /\ AppendAll(t, <<a, b>>) = x[2]
  <2>1. 1 \in 1..2 /\ 2 \in 1..2
    OBVIOUS
  <2> QED
    BY <1>2, <2>1 DEF AppendTurns
<1>4. 1 - 1 = 0 /\ 2 - 1 = 1 /\ <<a, b>>[1] = a /\ <<a, b>>[2] = b
  OBVIOUS
<1> QED
  BY <1>3, <1>4

Carried(a, next, result, offset) ==
    [state |-> next, offset |-> offset, last |-> a.last,
     buf |-> a.buf, max |-> a.max, bytes |-> a.bytes, over |-> a.over,
     result |-> result, token |-> a.token]

(* The transition d on a tokenizer that has collected what d emits.          *)
LEMMA FeedBy ==
  ASSUME NEW t, NEW c, NEW skip, NEW d, d = Delta(t.state, c), d.result # "ERROR",
         NEW a, a = AppendAll(t, d.emit), Collects(a)
  PROVE  LET m == Carried(a, d.next, d.result, a.offset + Moves(d)) IN
         Feed(t, c, skip) = IF d.pop THEN PopToken(m, d.trim, skip) ELSE [m EXCEPT !.token = NoToken]
<1>1. PICK m : m = [a EXCEPT !.state = d.next, !.result = d.result,
                             !.offset = @ + IF d.result = "ERROR" THEN 0 ELSE Moves(d)]
  OBVIOUS
<1>2. m = [a EXCEPT !.state = d.next, !.result = d.result, !.offset = a.offset + Moves(d)]
  BY <1>1 DEF Collects, Tokenizer
<1>3. m = Carried(a, d.next, d.result, a.offset + Moves(d))
  BY <1>2 DEF Collects, Tokenizer, Carried
<1>4. Feed(t, c, skip) = IF d.pop THEN PopToken(m, d.trim, skip) ELSE [m EXCEPT !.token = NoToken]
  BY <1>1, Zenon DEF Feed, AppendAll
<1> QED
  BY <1>3, <1>4

(* A character that ends no token leaves the tokenizer collecting.           *)
LEMMA FeedMoves ==
  ASSUME NEW t, NEW c, NEW skip, NEW d, d = Delta(t.state, c), d.result = "MORE", ~d.pop,
         NEW a, a = AppendAll(t, d.emit), Collects(a), NEW k \in Nat, k = Moves(d),
         NEW u, u = Feed(t, c, skip)
  PROVE  /\ Collects(u) /\ u.state = d.next /\ u.result = "MORE" /\ u.buf = a.buf
         /\ u.offset = a.offset + k /\ u.last = a.last
<1>1. PICK m : m = Carried(a, d.next, "MORE", a.offset + k)
  OBVIOUS
<1>2. Feed(t, c, skip) = [m EXCEPT !.token = NoToken]
  BY <1>1, FeedBy
<1>3. a.offset + k \in Nat /\ a.buf \in Seq(Char)
  BY DEF Collects
<1>4. u = [m EXCEPT !.token = NoToken]
  BY <1>2
<1>5. u = [state |-> d.next, offset |-> a.offset + k, last |-> a.last,
     buf |-> a.buf, max |-> a.max, bytes |-> a.bytes, over |-> a.over,
     result |-> "MORE", token |-> NoToken]
  BY <1>1, <1>4 DEF Carried
<1>6. /\ u.state = d.next /\ u.result = "MORE" /\ u.buf = a.buf
      /\ u.offset = a.offset + k /\ u.last = a.last
  BY <1>5
<1>7. Tokenizer(u)
  BY <1>5 DEF Tokenizer
<1>8. Collects(u)
  BY <1>3, <1>6, <1>7 DEF Collects
<1> QED
  BY <1>2, <1>4, <1>6, <1>8

(* It is dropped,                                                            *)
LEMMA FeedGo ==
  ASSUME NEW t, Collects(t), NEW c, NEW skip, NEW next, Delta(t.state, c) = Go(next)
  PROVE  Moved(Feed(t, c, skip), t, next, <<>>, 1)
<1>1. PICK d : d = Delta(t.state, c)
  OBVIOUS
<1>2. d.emit = <<>> /\ d.result = "MORE" /\ ~d.pop /\ d.next = next /\ Moves(d) = 1
  BY <1>1 DEF Go, Moves
<1>3. AppendAll(t, d.emit) = t
  BY <1>2, AppendNone
<1>4. t.buf \o <<>> = t.buf
  BY ConcatEmptySeq DEF Collects
<1>5. 1 \in Nat /\ d.emit = <<>> /\ Collects(t)
  BY <1>2
<1>6. PICK u : u = Feed(t, c, skip)
  OBVIOUS
<1>7. /\ Collects(u) /\ u.state = d.next /\ u.result = "MORE" /\ u.buf = t.buf
      /\ u.offset = t.offset + 1 /\ u.last = t.last
  BY <1>1, <1>2, <1>3, <1>5, <1>6, FeedMoves
<1> QED
  BY <1>2, <1>4, <1>6, <1>7 DEF Moved

(* kept,                                                                     *)
LEMMA FeedKeeps ==
  ASSUME NEW t, Collects(t), NEW c, NEW skip, NEW next, NEW a \in Char,
         Delta(t.state, c) = Keep(next, <<a>>)
  PROVE  Moved(Feed(t, c, skip), t, next, <<a>>, 1)
<1>1. PICK d : d = Delta(t.state, c)
  OBVIOUS
<1>2. d.emit = <<a>> /\ d.result = "MORE" /\ ~d.pop /\ d.next = next
  BY <1>1 DEF Go, Keep
<1>3. Moves(d) = 1
  <2>1. Len(<<a>>) # 2
    OBVIOUS
  <2> QED
    BY <1>2, <2>1 DEF Moves
<1>4. PICK u : u = AppendAll(t, d.emit)
  OBVIOUS
<1>5. Collects(u) /\ u.buf = Append(t.buf, a) /\ u.offset = t.offset /\ u.last = t.last
  <2>1. u = AppendChar(t, a)
    BY <1>2, <1>4, AppendOne
  <2> QED
    BY <2>1, AppendCollects
<1>6. t.buf \o <<a>> = Append(t.buf, a)
  BY DEF Collects
<1>7. PICK w : w = Feed(t, c, skip)
  OBVIOUS
<1>8. /\ Collects(w) /\ w.state = d.next /\ w.result = "MORE" /\ w.buf = u.buf
      /\ w.offset = u.offset + 1 /\ w.last = u.last
  <2>1. 1 \in Nat
    OBVIOUS
  <2> QED
    BY <1>1, <1>2, <1>3, <1>4, <1>5, <1>7, <2>1, FeedMoves
<1> QED
  BY <1>2, <1>5, <1>6, <1>7, <1>8 DEF Moved

(* kept with the escape before it,                                           *)
LEMMA FeedKeepsTwo ==
  ASSUME NEW t, Collects(t), NEW c, NEW skip, NEW next, NEW a \in Char, NEW b \in Char,
         Delta(t.state, c) = Keep(next, <<a, b>>)
  PROVE  Moved(Feed(t, c, skip), t, next, <<a, b>>, 2)
<1>1. PICK d : d = Delta(t.state, c)
  OBVIOUS
<1>2. d.emit = <<a, b>> /\ d.result = "MORE" /\ ~d.pop /\ d.next = next
  BY <1>1 DEF Go, Keep
<1>3. Moves(d) = 2
  <2>1. Len(<<a, b>>) = 2
    OBVIOUS
  <2> QED
    BY <1>2, <2>1 DEF Moves
<1>4. PICK u, v : v = AppendChar(t, a) /\ u = AppendAll(t, d.emit)
  OBVIOUS
<1>5. Collects(v) /\ v.buf = Append(t.buf, a) /\ v.offset = t.offset /\ v.last = t.last
  BY <1>4, AppendCollects
<1>6. Collects(u) /\ u.buf = Append(v.buf, b) /\ u.offset = v.offset /\ u.last = v.last
  <2>1. u = AppendChar(v, b)
    BY <1>2, <1>4, AppendTwo
  <2> QED
    BY <1>5, <2>1, AppendCollects
<1>7. t.buf \o <<a, b>> = Append(Append(t.buf, a), b)
  BY DEF Collects
<1>8. PICK w : w = Feed(t, c, skip)
  OBVIOUS
<1>9. /\ Collects(w) /\ w.state = d.next /\ w.result = "MORE" /\ w.buf = u.buf
      /\ w.offset = u.offset + 2 /\ w.last = u.last
  <2>1. 2 \in Nat
    OBVIOUS
  <2> QED
    BY <1>1, <1>2, <1>3, <1>4, <1>6, <1>8, <2>1, FeedMoves
<1> QED
  BY <1>2, <1>5, <1>6, <1>7, <1>8, <1>9 DEF Moved

(* or it ends the token.                                                     *)
LEMMA FeedPops ==
  ASSUME NEW t, Collects(t), NEW c, NEW skip \in BOOLEAN, NEW next, NEW result, result # "ERROR",
         NEW text, \/ Delta(t.state, c) = Pop(next, result) /\ text = t.buf
                   \/ Delta(t.state, c) = PopTrimmed(next, result) /\ text = TrimEnd(t.buf)
  PROVE  Popped(Feed(t, c, skip), t, next, result, text, skip)
<1>1. PICK d : d = Delta(t.state, c)
  OBVIOUS
<1>2. /\ d.emit = <<>> /\ d.result = result /\ d.pop /\ d.next = next
      /\ text = IF d.trim THEN TrimEnd(t.buf) ELSE t.buf
  BY <1>1 DEF Go, Pop, PopTrimmed
<1>3. Moves(d) = 1
  <2>1. Len(<<>>) # 2
    OBVIOUS
  <2> QED
    BY <1>2, <2>1 DEF Moves
<1>4. AppendAll(t, d.emit) = t
  BY <1>2, AppendNone
<1>5. PICK m : m = Carried(t, next, result, t.offset + 1)
  OBVIOUS
<1>6. Feed(t, c, skip) = PopToken(m, d.trim, skip)
  BY <1>1, <1>2, <1>3, <1>4, <1>5, FeedBy
<1>7. m.buf = t.buf /\ m.last = t.last /\ m.offset = t.offset + 1 /\ m.state = next /\ m.result = result
  BY <1>5 DEF Carried
<1>8. PICK u : u = PopToken(m, d.trim, skip)
  OBVIOUS
<1>9. t.offset + 1 \in Nat /\ <<>> \in Seq(Char)
  BY EmptySeq DEF Collects
<1>10. CASE skip
  <2>1. u = [m EXCEPT !.token = NoToken, !.buf = <<>>]
    BY <1>8, <1>10 DEF PopToken
  <2>2. u = [state |-> next, offset |-> t.offset + 1, last |-> t.last,
             buf |-> <<>>, max |-> t.max, bytes |-> t.bytes, over |-> t.over,
             result |-> result, token |-> NoToken]
    BY <1>5, <2>1 DEF Carried
  <2>3. Tokenizer(u)
    BY <2>2 DEF Tokenizer
  <2>4. /\ u.state = next /\ u.result = result /\ u.buf = <<>> /\ u.offset = t.offset + 1
        /\ u.last = t.last
    BY <2>2
  <2>5. Collects(u)
    BY <1>9, <2>3, <2>4 DEF Collects
  <2> QED
    BY <1>6, <1>8, <1>10, <2>4, <2>5 DEF Popped
<1>11. CASE ~skip
  <2>1. u = [m EXCEPT !.token = [text |-> text, start |-> m.last, end |-> m.offset],
                      !.last = m.offset, !.buf = <<>>]
    BY <1>2, <1>7, <1>8, <1>11 DEF PopToken
  <2>2. u = [state |-> next, offset |-> t.offset + 1, last |-> t.offset + 1,
             buf |-> <<>>, max |-> t.max, bytes |-> t.bytes, over |-> t.over,
             result |-> result, token |-> [text |-> text, start |-> t.last, end |-> t.offset + 1]]
    BY <1>5, <2>1 DEF Carried
  <2> QED
    BY <1>6, <1>8, <1>9, <1>11, <2>2 DEF Popped, Collects, Tokenizer
<1> QED
  BY <1>10, <1>11

(* The transitions between the characters of a cell,                         *)
LEMMA DeltaCell ==
  ASSUME NEW c
  PROVE  /\ Delta("field", Blank) = Go("field") /\ Delta("field", Quote) = Go("quoted")
         /\ c \notin {Comma, NewLine, Blank, Quote} /\ ~IsEof(c) => Delta("field", c) = Keep("unquoted", <<c>>)
         /\ c \notin {Comma, NewLine} /\ ~IsEof(c) => Delta("unquoted", c) = Keep("unquoted", <<c>>)
         /\ Delta("quoted", Quote) = Go("quote") /\ Delta("quoted", Escape) = Go("escape")
         /\ c \notin {Quote, Escape} /\ ~IsEof(c) => Delta("quoted", c) = Keep("quoted", <<c>>)
         /\ Delta("quote", Quote) = Keep("quoted", <<Quote>>) /\ Delta("quote", Blank) = Go("trailing")
         /\ Delta("trailing", Blank) = Go("trailing")
         /\ Delta("escape", Escape) = Keep("quoted", <<Escape>>)
         /\ c # Escape /\ ~IsEof(c) => Delta("escape", c) = Keep("quoted", <<Escape, c>>)
<1> USE DEF IsEof, EndOfFile, HighByte, Comma, NewLine, Blank, Quote, Escape
<1>1. /\ Delta("field", c) = InField(c) /\ Delta("field", Blank) = InField(Blank)
      /\ Delta("field", Quote) = InField(Quote)
  BY DEF Delta
<1>2. Delta("unquoted", c) = InUnquoted(c)
  BY DEF Delta
<1>3. /\ Delta("quoted", c) = InQuoted(c) /\ Delta("quoted", Quote) = InQuoted(Quote)
      /\ Delta("quoted", Escape) = InQuoted(Escape)
  BY DEF Delta
<1>4. /\ Delta("quote", Quote) = InQuote(Quote) /\ Delta("quote", Blank) = InQuote(Blank)
      /\ Delta("trailing", Blank) = InTrailing(Blank)
  BY DEF Delta
<1>5. Delta("escape", c) = InEscape(c) /\ Delta("escape", Escape) = InEscape(Escape)
  BY DEF Delta
<1>6. /\ InField(Blank) = Go("field") /\ InField(Quote) = Go("quoted")
      /\ c \notin {Comma, NewLine, Blank, Quote} /\ ~IsEof(c) => InField(c) = Keep("unquoted", <<c>>)
  BY DEF InField
<1>7. c \notin {Comma, NewLine} /\ ~IsEof(c) => InUnquoted(c) = Keep("unquoted", <<c>>)
  BY DEF InUnquoted
<1>8. /\ InQuoted(Quote) = Go("quote") /\ InQuoted(Escape) = Go("escape")
      /\ c \notin {Quote, Escape} /\ ~IsEof(c) => InQuoted(c) = Keep("quoted", <<c>>)
  BY DEF InQuoted
<1>9. /\ InQuote(Quote) = Keep("quoted", <<Quote>>) /\ InQuote(Blank) = Go("trailing")
      /\ InTrailing(Blank) = Go("trailing")
  BY DEF InQuote, InTrailing
<1>10. /\ InEscape(Escape) = Keep("quoted", <<Escape>>)
       /\ c # Escape /\ ~IsEof(c) => InEscape(c) = Keep("quoted", <<Escape, c>>)
  BY DEF InEscape
<1> QED
  BY <1>1, <1>2, <1>3, <1>4, <1>5, <1>6, <1>7, <1>8, <1>9, <1>10

(* and at its end.                                                           *)
LEMMA DeltaEnd ==
  /\ Delta("field", Comma) = Pop("field", "OK") /\ Delta("field", NewLine) = Pop("field", "END_OF_ROW")
  /\ Delta("field", EndOfFile) = Pop("final", "END_OF_FILE")
  /\ Delta("unquoted", Comma) = PopTrimmed("field", "OK")
  /\ Delta("unquoted", NewLine) = PopTrimmed("field", "END_OF_ROW")
  /\ Delta("unquoted", EndOfFile) = PopTrimmed("final", "END_OF_FILE")
  /\ Delta("quote", Comma) = Pop("field", "OK") /\ Delta("quote", NewLine) = Pop("field", "END_OF_ROW")
  /\ Delta("quote", EndOfFile) = Pop("crashed", "PARSE_ERROR")
  /\ Delta("trailing", Comma) = Pop("field", "OK") /\ Delta("trailing", NewLine) = Pop("field", "END_OF_ROW")
  /\ Delta("trailing", EndOfFile) = Pop("final", "END_OF_FILE")
<1> USE DEF IsEof, EndOfFile, HighByte, Comma, NewLine, Blank, Quote, Escape
<1>1. \A c : Delta("field", c) = InField(c)
  BY DEF Delta
<1>2. \A c : Delta("unquoted", c) = InUnquoted(c)
  BY DEF Delta
<1>3. \A c : Delta("quote", c) = InQuote(c)
  BY DEF Delta
<1>4. \A c : Delta("trailing", c) = InTrailing(c)
  BY DEF Delta
<1>5. /\ InField(Comma) = Pop("field", "OK") /\ InField(NewLine) = Pop("field", "END_OF_ROW")
      /\ InField(EndOfFile) = Pop("final", "END_OF_FILE")
  BY DEF InField
<1>6. /\ InUnquoted(Comma) = PopTrimmed("field", "OK")
      /\ InUnquoted(NewLine) = PopTrimmed("field", "END_OF_ROW")
      /\ InUnquoted(EndOfFile) = PopTrimmed("final", "END_OF_FILE")
  BY DEF InUnquoted
<1>7. /\ InQuote(Comma) = Pop("field", "OK") /\ InQuote(NewLine) = Pop("field", "END_OF_ROW")
      /\ InQuote(EndOfFile) = Pop("crashed", "PARSE_ERROR")
  BY DEF InQuote
<1>8. /\ InTrailing(Comma) = Pop("field", "OK") /\ InTrailing(NewLine) = Pop("field", "END_OF_ROW")
      /\ InTrailing(EndOfFile) = Pop("final", "END_OF_FILE")
  BY DEF InTrailing
<1> QED
  BY <1>1, <1>2, <1>3, <1>4, <1>5, <1>6, <1>7, <1>8

(* T is what becomes of the tokenizer t over some characters: after i of     *)
(* them it is in a state, has collected buf, no token has ended, and if      *)
(* exact holds it has counted them right.                                    *)
Runs(T, t, chars, skip) == T[0] = t /\ \A i \in 1..Len(chars) : T[i] = Feed(T[i - 1], chars[i], skip)

Inside(T, i, state, buf, exact) ==
    /\ Collects(T[i]) /\ T[i].state = state /\ T[i].buf = buf /\ T[i].last = T[0].last
    /\ exact => T[i].offset = T[0].offset + i
    /\ \A j \in 1..i : T[j].result = "MORE"

(* One character more of a cell has been fed,                                *)
LEMMA InsideMoves ==
  ASSUME NEW T, NEW i \in Nat, NEW state, NEW buf, NEW exact \in BOOLEAN, Inside(T, i, state, buf, exact),
         NEW next, NEW s, NEW k \in Nat, Moved(T[i + 1], T[i], next, s, k), T[0].offset \in Nat,
         NEW still \in BOOLEAN, still => exact /\ k = 1
  PROVE  Inside(T, i + 1, next, buf \o s, still)
<1>1. \A j \in 1..(i + 1) : T[j].result = "MORE"
  <2>1. \A j \in 1..(i + 1) : j \in 1..i \/ j = i + 1
    OBVIOUS
  <2> QED
    BY <2>1 DEF Inside, Moved
<1>2. still => T[i + 1].offset = T[0].offset + (i + 1)
  BY DEF Inside, Moved
<1> QED
  BY <1>1, <1>2 DEF Inside, Moved

(* Blanks before and after what counts.                                      *)
LEMMA Blanks ==
  ASSUME NEW T, NEW t, NEW chars, NEW skip, Runs(T, t, chars, skip), t.offset \in Nat, Len(chars) \in Nat,
         NEW i \in Nat, NEW state \in {"field", "trailing"}, NEW buf \in Seq(Char), NEW exact \in BOOLEAN,
         Inside(T, i, state, buf, exact),
         NEW n \in Nat, i + n <= Len(chars), \A j \in 1..n : chars[i + j] = Blank
  PROVE  Inside(T, i + n, state, buf, exact)
<1> DEFINE S == {j \in Nat : j <= n => Inside(T, i + j, state, buf, exact)}
<1>1. 0 \in S
  <2>1. i + 0 = i
    OBVIOUS
  <2> QED
    BY <2>1
<1>2. ASSUME NEW j \in Nat, j \in S PROVE j + 1 \in S
  <2> SUFFICES ASSUME j + 1 <= n PROVE Inside(T, i + (j + 1), state, buf, exact)
    OBVIOUS
  <2>1. /\ i + (j + 1) = (i + j) + 1 /\ ((i + j) + 1) - 1 = i + j /\ i + j \in Nat
        /\ (i + j) + 1 \in 1..Len(chars) /\ j + 1 \in 1..n /\ j <= n
    OBVIOUS
  <2>2. Inside(T, i + j, state, buf, exact) /\ chars[(i + j) + 1] = Blank
    <3>1. chars[i + (j + 1)] = Blank
      BY <2>1
    <3>2. Inside(T, i + j, state, buf, exact)
      BY <1>2, <2>1
    <3> QED
      BY <2>1, <3>1, <3>2
  <2>3. T[(i + j) + 1] = Feed(T[i + j], Blank, skip)
    BY <2>1, <2>2 DEF Runs
  <2>4. Collects(T[i + j]) /\ T[i + j].state = state
    BY <2>2 DEF Inside
  <2>5. Delta(T[i + j].state, Blank) = Go(state)
    BY <2>4, DeltaCell
  <2>6. Moved(T[(i + j) + 1], T[i + j], state, <<>>, 1)
    BY <2>3, <2>4, <2>5, FeedGo
  <2>7. T[0].offset \in Nat /\ buf \o <<>> = buf /\ 1 \in Nat
    BY ConcatEmptySeq DEF Runs
  <2>8. PICK h : h = i + j
    OBVIOUS
  <2>9. Inside(T, h + 1, state, buf \o <<>>, exact)
    BY <2>1, <2>2, <2>6, <2>7, <2>8, InsideMoves
  <2> QED
    BY <2>1, <2>7, <2>8, <2>9
<1>3. n \in S
  <2> HIDE DEF S
  <2> QED
    BY <1>1, <1>2, SetInduction
<1> QED
  BY <1>3

(* A piece is one character or two, and stands for one or two of Char.       *)
LEMMA PieceIs ==
  ASSUME NEW p \in Seq(Char), NEW quoted \in BOOLEAN, IsPiece(p, quoted)
  PROVE  \/ /\ p = <<p[1]>> /\ Len(p) = 1 /\ p[1] \in Char /\ ~IsEof(p[1]) /\ Stands(p) = <<p[1]>> /\ ~IsStray(p)
            /\ p[1] \notin IF quoted THEN {Quote, Escape} ELSE {Comma, NewLine}
         \/ /\ quoted /\ Len(p) = 2 /\ p[1] = Quote /\ p[2] = Quote /\ Stands(p) = <<Quote>> /\ ~IsStray(p)
         \/ /\ quoted /\ Len(p) = 2 /\ p[1] = Escape /\ p[2] = Escape /\ Stands(p) = <<Escape>> /\ ~IsStray(p)
         \/ /\ quoted /\ Len(p) = 2 /\ p[1] = Escape /\ p[2] # Escape /\ p[2] \in Char /\ ~IsEof(p[2])
            /\ Stands(p) = <<Escape, p[2]>> /\ IsStray(p)
<1>1. <<Quote, Quote>>[1] = Quote /\ <<Escape, Escape>>[1] = Escape /\ <<Escape, Escape>>[2] = Escape
  OBVIOUS
<1>2. Len(<<Quote, Quote>>) = 2 /\ Len(<<Escape, Escape>>) = 2 /\ Quote # Escape
  BY DEF Quote, Escape
<1>3. CASE Len(p) = 1 /\ ~IsEof(p[1]) /\ p[1] \notin IF quoted THEN {Quote, Escape} ELSE {Comma, NewLine}
  <2>1. p = <<p[1]>> /\ p[1] \in Char
    BY <1>3
  <2>2. p # <<Quote, Quote>> /\ p # <<Escape, Escape>>
    BY <1>2, <1>3
  <2>3. Stands(p) = p
    BY <2>2 DEF Stands
  <2>4. ~IsStray(p)
    BY <1>3 DEF IsStray
  <2> QED
    BY <1>3, <2>1, <2>3, <2>4
<1>4. CASE quoted /\ p = <<Quote, Quote>>
  <2>1. Stands(p) = <<Quote>>
    BY <1>4 DEF Stands
  <2>2. ~IsStray(p)
    BY <1>1, <1>2, <1>4 DEF IsStray
  <2> QED
    BY <1>1, <1>2, <1>4, <2>1, <2>2
<1>5. CASE quoted /\ Len(p) = 2 /\ p[1] = Escape /\ ~IsEof(p[2])
  <2>1. p = <<Escape, p[2]>> /\ p[2] \in Char
    <3>1. p[2] \in Char /\ Escape \in Char
      BY <1>5 DEF Char
    <3>5. PICK e \in Char : e = p[2]
      BY <3>1
    <3>2. PICK q : q = <<Escape, e>>
      OBVIOUS
    <3>3. q \in Seq(Char) /\ Len(q) = 2 /\ q[1] = Escape /\ q[2] = p[2] /\ q = <<Escape, p[2]>>
      BY <3>1, <3>2, <3>5
    <3>4. \A i \in 1..Len(p) : p[i] = q[i]
      <4>1. \A i \in 1..Len(p) : i = 1 \/ i = 2
        BY <1>5
      <4> QED
        BY <1>5, <3>3, <4>1
    <3> QED
      BY <1>5, <3>1, <3>3, <3>4, SeqEqual
  <2>2. CASE p[2] = Escape
    <3>1. p = <<Escape, Escape>>
      <4>1. PICK q : q = p[2]
        OBVIOUS
      <4>2. p = <<Escape, q>> /\ q = Escape
        BY <2>1, <2>2, <4>1
      <4> QED
        BY <4>2
    <3>2. Stands(p) = <<Escape>>
      BY <3>1 DEF Stands
    <3>3. ~IsStray(p)
      BY <2>2 DEF IsStray
    <3> QED
      BY <1>5, <2>2, <3>2, <3>3
  <2>3. CASE p[2] # Escape
    <3>1. p # <<Escape, Escape>> /\ p # <<Quote, Quote>>
      BY <1>1, <1>2, <1>5, <2>3
    <3>2. Stands(p) = p
      BY <3>1 DEF Stands
    <3>3. IsStray(p)
      BY <1>5, <2>3 DEF IsStray
    <3> QED
      BY <1>5, <2>1, <2>3, <3>2, <3>3
  <2> QED
    BY <2>2, <2>3
<1> QED
  BY <1>3, <1>4, <1>5 DEF IsPiece

(* One character more or, in quotes, two.                                    *)
LEMMA OneMore ==
  ASSUME NEW T, NEW t, NEW chars, NEW skip, Runs(T, t, chars, skip), t.offset \in Nat, Len(chars) \in Nat,
         NEW i \in Nat, NEW state, NEW buf, NEW exact \in BOOLEAN, Inside(T, i, state, buf, exact),
         i + 1 <= Len(chars), NEW c, c = chars[i + 1], NEW next, NEW a \in Char,
         Delta(state, c) = Keep(next, <<a>>)
  PROVE  Inside(T, i + 1, next, buf \o <<a>>, exact)
<1>1. i + 1 \in 1..Len(chars) /\ (i + 1) - 1 = i /\ 1 \in Nat
  OBVIOUS
<1>2. T[i + 1] = Feed(T[i], c, skip) /\ T[0].offset \in Nat
  BY <1>1 DEF Runs
<1>3. Collects(T[i]) /\ T[i].state = state
  BY DEF Inside
<1>4. Moved(T[i + 1], T[i], next, <<a>>, 1)
  BY <1>2, <1>3, FeedKeeps
<1> QED
  BY <1>1, <1>2, <1>4, InsideMoves

(* and dropped,                                                              *)
LEMMA OneGone ==
  ASSUME NEW T, NEW t, NEW chars, NEW skip, Runs(T, t, chars, skip), t.offset \in Nat, Len(chars) \in Nat,
         NEW i \in Nat, NEW state, NEW buf \in Seq(Char), NEW exact \in BOOLEAN, Inside(T, i, state, buf, exact),
         i + 1 <= Len(chars), NEW next, Delta(state, chars[i + 1]) = Go(next)
  PROVE  Inside(T, i + 1, next, buf, exact)
<1>1. i + 1 \in 1..Len(chars) /\ (i + 1) - 1 = i /\ 1 \in Nat
  OBVIOUS
<1>2. T[i + 1] = Feed(T[i], chars[i + 1], skip) /\ T[0].offset \in Nat
  BY <1>1 DEF Runs
<1>3. Collects(T[i]) /\ T[i].state = state
  BY DEF Inside
<1>4. Moved(T[i + 1], T[i], next, <<>>, 1)
  BY <1>2, <1>3, FeedGo
<1>5. Inside(T, i + 1, next, buf \o <<>>, exact)
  BY <1>1, <1>2, <1>4, InsideMoves
<1> QED
  BY <1>5, ConcatEmptySeq

(* or kept with the one before it.                                           *)
LEMMA TwoMore ==
  ASSUME NEW T, NEW t, NEW chars, NEW skip, Runs(T, t, chars, skip), t.offset \in Nat, Len(chars) \in Nat,
         NEW i \in Nat, NEW state, NEW buf, NEW exact \in BOOLEAN, Inside(T, i, state, buf, exact),
         i + 1 <= Len(chars), NEW next, NEW a \in Char, NEW b \in Char,
         Delta(state, chars[i + 1]) = Keep(next, <<a, b>>)
  PROVE  Inside(T, i + 1, next, buf \o <<a, b>>, FALSE)
<1>1. i + 1 \in 1..Len(chars) /\ (i + 1) - 1 = i /\ 2 \in Nat
  OBVIOUS
<1>2. T[i + 1] = Feed(T[i], chars[i + 1], skip) /\ T[0].offset \in Nat
  BY <1>1 DEF Runs
<1>3. Collects(T[i]) /\ T[i].state = state
  BY DEF Inside
<1>4. Moved(T[i + 1], T[i], next, <<a, b>>, 2)
  BY <1>2, <1>3, FeedKeepsTwo
<1> QED
  BY <1>1, <1>2, <1>4, InsideMoves

(* What a piece adds.                                                        *)
LEMMA PieceRuns ==
  ASSUME NEW T, NEW t, NEW chars, NEW skip, Runs(T, t, chars, skip), t.offset \in Nat, Len(chars) \in Nat,
         NEW i \in Nat, NEW state, NEW buf \in Seq(Char), NEW exact \in BOOLEAN, Inside(T, i, state, buf, exact),
         NEW p \in Seq(Char), NEW quoted \in BOOLEAN, IsPiece(p, quoted),
         i + Len(p) <= Len(chars), \A l \in 1..Len(p) : chars[i + l] = p[l],
         IF quoted THEN state = "quoted"
         ELSE state = "unquoted" \/ (state = "field" /\ p[1] \notin {Blank, Quote}),
         NEW still \in BOOLEAN, still => exact /\ ~IsStray(p)
  PROVE  Inside(T, i + Len(p), IF quoted THEN "quoted" ELSE "unquoted", buf \o Stands(p), still)
<1>1. CASE Len(p) = 1 /\ p[1] \in Char /\ ~IsEof(p[1]) /\ Stands(p) = <<p[1]>>
           /\ p[1] \notin IF quoted THEN {Quote, Escape} ELSE {Comma, NewLine}
  <2>1. chars[i + 1] = p[1] /\ i + 1 <= Len(chars)
    BY <1>1
  <2>2. Delta(state, p[1]) = Keep(IF quoted THEN "quoted" ELSE "unquoted", <<p[1]>>)
    <3>1. CASE quoted
      BY <1>1, <3>1, DeltaCell
    <3>2. CASE ~quoted /\ state = "unquoted"
      BY <1>1, <3>2, DeltaCell
    <3>3. CASE ~quoted /\ state = "field"
      BY <1>1, <3>3, DeltaCell DEF Quote
    <3> QED
      BY <3>1, <3>2, <3>3
  <2>3. Inside(T, i + 1, IF quoted THEN "quoted" ELSE "unquoted", buf \o <<p[1]>>, exact)
    BY <1>1, <2>1, <2>2, OneMore
  <2>4. Inside(T, i + 1, IF quoted THEN "quoted" ELSE "unquoted", buf \o <<p[1]>>, still)
    BY <2>3 DEF Inside
  <2> QED
    BY <1>1, <2>4
<1>2. ASSUME quoted, Len(p) = 2
      PROVE  /\ chars[i + 1] = p[1] /\ chars[(i + 1) + 1] = p[2] /\ i + 2 = (i + 1) + 1 /\ i + 1 \in Nat
             /\ i + 1 <= Len(chars) /\ (i + 1) + 1 <= Len(chars) /\ state = "quoted"
  <2>1. chars[i + 1] = p[1] /\ chars[i + 2] = p[2] /\ i + 2 = (i + 1) + 1
    BY <1>2
  <2> QED
    BY <1>2, <2>1
<1>9. Quote \in Char /\ Escape \in Char
  BY DEF Char
<1>3. CASE quoted /\ Len(p) = 2 /\ p[1] = Quote /\ p[2] = Quote /\ Stands(p) = <<Quote>>
  <2>1. Inside(T, i + 1, "quote", buf, exact)
    <3>1. Delta(state, p[1]) = Go("quote")
      BY <1>2, <1>3, DeltaCell
    <3> QED
      BY <1>2, <1>3, <3>1, OneGone
  <2>2. PICK h : h = i + 1
    OBVIOUS
  <2>3. Inside(T, h + 1, "quoted", buf \o <<Quote>>, exact)
    <3>1. Delta("quote", p[2]) = Keep("quoted", <<Quote>>)
      BY <1>3, DeltaCell
    <3>2. h \in Nat /\ h + 1 <= Len(chars) /\ chars[h + 1] = p[2] /\ Inside(T, h, "quote", buf, exact)
      BY <1>2, <1>3, <2>1, <2>2
    <3> QED
      BY <1>9, <3>1, <3>2, OneMore
  <2>4. Inside(T, h + 1, "quoted", buf \o <<Quote>>, still)
    BY <2>3 DEF Inside
  <2> QED
    BY <1>2, <1>3, <2>2, <2>4
<1>4. ASSUME quoted, Len(p) = 2, p[1] = Escape
      PROVE  Inside(T, i + 1, "escape", buf, exact)
  <2>1. Delta(state, p[1]) = Go("escape")
    BY <1>2, <1>4, DeltaCell
  <2> QED
    BY <1>2, <1>4, <2>1, OneGone
<1>5. CASE quoted /\ Len(p) = 2 /\ p[1] = Escape /\ p[2] = Escape /\ Stands(p) = <<Escape>>
  <2>2. PICK h : h = i + 1
    OBVIOUS
  <2>3. Inside(T, h + 1, "quoted", buf \o <<Escape>>, exact)
    <3>1. Delta("escape", p[2]) = Keep("quoted", <<Escape>>)
      BY <1>5, DeltaCell
    <3>2. h \in Nat /\ h + 1 <= Len(chars) /\ chars[h + 1] = p[2] /\ Inside(T, h, "escape", buf, exact)
      BY <1>2, <1>4, <1>5, <2>2
    <3> QED
      BY <1>9, <3>1, <3>2, OneMore
  <2>4. Inside(T, h + 1, "quoted", buf \o <<Escape>>, still)
    BY <2>3 DEF Inside
  <2> QED
    BY <1>2, <1>5, <2>2, <2>4
<1>6. CASE quoted /\ Len(p) = 2 /\ p[1] = Escape /\ p[2] # Escape /\ p[2] \in Char /\ ~IsEof(p[2])
           /\ Stands(p) = <<Escape, p[2]>> /\ IsStray(p)
  <2>2. PICK h : h = i + 1
    OBVIOUS
  <2>1. PICK q \in Char : q = p[2]
    BY <1>6
  <2>3. Inside(T, h + 1, "quoted", buf \o <<Escape, p[2]>>, FALSE)
    <3>1. Delta("escape", q) = Keep("quoted", <<Escape, q>>)
      BY <1>6, <2>1, DeltaCell
    <3>2. h \in Nat /\ h + 1 <= Len(chars) /\ chars[h + 1] = q /\ Inside(T, h, "escape", buf, exact)
      BY <1>2, <1>4, <1>6, <2>1, <2>2
    <3>3. Inside(T, h + 1, "quoted", buf \o <<Escape, q>>, FALSE)
      BY <1>9, <3>1, <3>2, TwoMore
    <3> QED
      BY <2>1, <3>3
  <2>4. Inside(T, h + 1, "quoted", buf \o <<Escape, p[2]>>, still)
    BY <1>6, <2>3 DEF Inside
  <2> QED
    BY <1>2, <1>6, <2>2, <2>4
<1> QED
  BY <1>1, <1>3, <1>5, <1>6, PieceIs

(* All the pieces of a cell.                                                 *)
Content(quoted, k) == IF quoted THEN "quoted" ELSE IF k = 0 THEN "field" ELSE "unquoted"

(* What a piece stands for is text,                                          *)
LEMMA StandsSequence ==
  ASSUME NEW p \in Seq(Char)
  PROVE  Stands(p) \in Seq(Char)
<1>1. CASE p \in {<<Quote, Quote>>, <<Escape, Escape>>}
  <2>1. p # <<>>
    BY <1>1
  <2>2. Tail(p) \in Seq(Char)
    BY <2>1, HeadTailProperties
  <2> QED
    BY <1>1, <2>2 DEF Stands
<1> QED
  BY <1>1 DEF Stands

(* and so are all of them.                                                   *)
LEMMA StandsAll ==
  ASSUME NEW pieces \in Seq(Seq(Char)), NEW stands, stands = [j \in DOMAIN pieces |-> Stands(pieces[j])]
  PROVE  /\ stands \in Seq(Seq(Char)) /\ Len(stands) = Len(pieces)
         /\ \A j \in 1..Len(pieces) : stands[j] = Stands(pieces[j])
<1>1. PICK m \in Nat : m = Len(pieces) /\ DOMAIN pieces = 1..m
  OBVIOUS
<1>2. \A j \in 1..m : pieces[j] \in Seq(Char)
  BY <1>1
<1>3. \A j \in 1..m : Stands(pieces[j]) \in Seq(Char)
  BY <1>2, StandsSequence
<1>4. stands \in [1..m -> Seq(Char)]
  BY <1>1, <1>3
<1>5. stands \in Seq(Seq(Char)) /\ Len(stands) = m
  BY <1>4
<1> QED
  BY <1>1, <1>5

(* A cell is cut into its pieces, and a text appears among some characters.  *)
Cut(pieces, quoted) ==
    /\ \A j \in 1..Len(pieces) : IsPiece(pieces[j], quoted)
    /\ ~quoted /\ pieces # <<>> => pieces[1][1] \notin {Blank, Quote}

Appears(text, chars, b) == b + Len(text) <= Len(chars) /\ \A j \in 1..Len(text) : chars[b + j] = text[j]

Straight(pieces) == \A j \in 1..Len(pieces) : ~IsStray(pieces[j])

Meanings(pieces) == [j \in DOMAIN pieces |-> Stands(pieces[j])]

(* Feeding the pieces of a cell collects what they stand for.                *)
LEMMA PiecesRun ==
  ASSUME NEW T, NEW t, NEW chars, NEW skip, Runs(T, t, chars, skip), t.offset \in Nat, Len(chars) \in Nat,
         NEW quoted \in BOOLEAN, NEW pieces \in Seq(Seq(Char)),
         Cut(pieces, quoted), NEW b \in Nat, Appears(Concat(pieces), chars, b),
         NEW empty, empty = <<>>, NEW exact \in BOOLEAN, Inside(T, b, Content(quoted, 0), empty, exact),
         exact => Straight(pieces)
  PROVE  Inside(T, b + Len(Concat(pieces)), Content(quoted, Len(pieces)), Concat(Meanings(pieces)), exact)
<1>0. PICK stands : stands = [j \in DOMAIN pieces |-> Stands(pieces[j])]
  OBVIOUS
<1>1. PICK m \in Nat : m = Len(pieces)
  OBVIOUS
<1>2. stands \in Seq(Seq(Char)) /\ Len(stands) = m /\ \A j \in 1..m : stands[j] = Stands(pieces[j])
  BY <1>0, <1>1, StandsAll
<1>3. /\ Upto(pieces, 0) = <<>> /\ Upto(pieces, m) = Concat(pieces)
      /\ \A j \in 0..m : Upto(pieces, j) \in Seq(Char)
  BY <1>1, ConcatGrows
<1>4. /\ Upto(stands, 0) = <<>> /\ Upto(stands, m) = Concat(stands)
      /\ \A j \in 1..m : Upto(stands, j) = Upto(stands, j - 1) \o stands[j]
      /\ \A j \in 0..m : Upto(stands, j) \in Seq(Char)
  BY <1>2, ConcatGrows
<1> DEFINE At(k) == Inside(T, b + Len(Upto(pieces, k)), Content(quoted, k), Upto(stands, k), exact)
           S == {k \in Nat : k <= m => At(k)}
<1>5. 0 \in S
  <2>1. b + Len(Upto(pieces, 0)) = b
    <3>1. Len(<<>>) = 0
      OBVIOUS
    <3>2. Len(Upto(pieces, 0)) = 0
      BY <1>3, <3>1
    <3>3. b + 0 = b
      OBVIOUS
    <3> QED
      BY <3>2, <3>3
  <2>2. Inside(T, b, Content(quoted, 0), <<>>, exact)
    OBVIOUS
  <2>3. At(0)
    BY <1>3, <1>4, <2>1, <2>2
  <2> QED
    BY <2>3
<1>6. ASSUME NEW k \in Nat, k \in S PROVE k + 1 \in S
  <2> SUFFICES ASSUME k + 1 <= m PROVE At(k + 1)
    <3> HIDE DEF At
    <3> QED
      OBVIOUS
  <2>1. k + 1 \in 1..m /\ (k + 1) - 1 = k /\ k \in 0..m /\ k <= m /\ k + 1 \in 0..m
    OBVIOUS
  <2>2. At(k)
    BY <1>6, <2>1
  <2>3. PICK p \in Seq(Char) : p = pieces[k + 1]
    BY <1>1, <2>1
  <2>4. IsPiece(p, quoted)
    BY <1>1, <2>1, <2>3 DEF Cut
  <2>5. PICK n \in Nat : n = Len(Upto(pieces, k))
    BY <1>3, <2>1
  <2>6. PICK total \in Nat : total = Len(Concat(pieces))
    <3>1. m \in 0..m
      OBVIOUS
    <3> QED
      BY <1>3, <3>1
  <2>7. /\ Len(Upto(pieces, k + 1)) = n + Len(p) /\ n + Len(p) <= total
        /\ \A l \in 1..Len(p) : Concat(pieces)[n + l] = p[l]
    <3>1. k + 1 \in 1..Len(pieces)
      BY <1>1, <2>1
    <3>2. /\ Len(Upto(pieces, k + 1)) = Len(Upto(pieces, (k + 1) - 1)) + Len(pieces[k + 1])
          /\ Len(Upto(pieces, k + 1)) <= Len(Concat(pieces))
          /\ \A l \in 1..Len(pieces[k + 1]) :
                Concat(pieces)[Len(Upto(pieces, (k + 1) - 1)) + l] = pieces[k + 1][l]
      BY <3>1, ConcatFinds
    <3> QED
      BY <2>1, <2>3, <2>5, <2>6, <3>2
  <2>8. \A l \in 1..Len(p) : chars[(b + n) + l] = p[l]
    <3> SUFFICES ASSUME NEW l \in 1..Len(p) PROVE chars[(b + n) + l] = p[l]
      OBVIOUS
    <3>1. n + l \in 1..total /\ b + (n + l) = (b + n) + l
      BY <2>7
    <3>2. chars[b + (n + l)] = Concat(pieces)[n + l]
      BY <2>6, <3>1 DEF Appears
    <3> QED
      BY <2>7, <3>1, <3>2
  <2>9. (b + n) + Len(p) <= Len(chars) /\ b + n \in Nat /\ (b + n) + Len(p) = b + (n + Len(p))
    BY <2>6, <2>7 DEF Appears
  <2>10. IF quoted THEN Content(quoted, k) = "quoted"
         ELSE Content(quoted, k) = "unquoted" \/ (Content(quoted, k) = "field" /\ p[1] \notin {Blank, Quote})
    <3>1. CASE quoted
      BY <3>1 DEF Content
    <3>2. CASE ~quoted /\ k # 0
      <4>1. Content(quoted, k) = "unquoted"
        BY <3>2 DEF Content
      <4> QED
        BY <3>2, <4>1
    <3>3. CASE ~quoted /\ k = 0
      <4>1. p = pieces[1] /\ pieces # <<>>
        BY <1>1, <2>1, <2>3, <3>3
      <4>2. Content(quoted, k) = "field" /\ p[1] \notin {Blank, Quote}
        BY <3>3, <4>1 DEF Content, Cut
      <4> QED
        BY <3>3, <4>2
    <3> QED
      BY <3>1, <3>2, <3>3
  <2>11. exact => exact /\ ~IsStray(p)
    BY <1>1, <2>1, <2>3 DEF Straight
  <2>12. Upto(stands, k) \in Seq(Char) /\ Upto(stands, k + 1) = Upto(stands, k) \o Stands(p)
    BY <1>2, <1>4, <2>1, <2>3
  <2>13. PICK h, state, buf : h = b + n /\ state = Content(quoted, k) /\ buf = Upto(stands, k)
    OBVIOUS
  <2>14. Inside(T, h, state, buf, exact)
    BY <2>2, <2>5, <2>13
  <2>15. Inside(T, h + Len(p), IF quoted THEN "quoted" ELSE "unquoted", buf \o Stands(p), exact)
    <3>1. h \in Nat /\ h + Len(p) <= Len(chars) /\ buf \in Seq(Char) /\ \A l \in 1..Len(p) : chars[h + l] = p[l]
      BY <2>8, <2>9, <2>12, <2>13
    <3>2. IF quoted THEN state = "quoted" ELSE state = "unquoted" \/ (state = "field" /\ p[1] \notin {Blank, Quote})
      BY <2>10, <2>13
    <3> QED
      BY <2>4, <2>11, <2>14, <3>1, <3>2, PieceRuns
  <2>16. Content(quoted, k + 1) = IF quoted THEN "quoted" ELSE "unquoted"
    BY DEF Content
  <2>17. h + Len(p) = b + Len(Upto(pieces, k + 1))
    BY <2>7, <2>9, <2>13
  <2> QED
    BY <2>12, <2>13, <2>15, <2>16, <2>17
<1>7. m \in S
  <2> HIDE DEF S
  <2> QED
    BY <1>5, <1>6, SetInduction
<1>8. At(m)
  BY <1>7
<1>9. stands = Meanings(pieces)
  BY <1>0 DEF Meanings
<1> QED
  BY <1>1, <1>3, <1>4, <1>8, <1>9

(* The characters of two texts one after the other.                          *)
LEMMA ConcatChars ==
  ASSUME NEW s \in Seq(Char), NEW t \in Seq(Char), NEW u, u = s \o t
  PROVE  /\ u \in Seq(Char) /\ Len(s) \in Nat /\ Len(t) \in Nat /\ Len(u) = Len(s) + Len(t)
         /\ \A i \in 1..Len(s) : u[i] = s[i]
         /\ \A i \in 1..Len(t) : u[Len(s) + i] = t[i]
BY ConcatIs

(* The characters of a cell.                                                 *)
LEMMA CellIs ==
  ASSUME NEW cell \in Cells
  PROVE  /\ cell.before \in Seq(Char) /\ \A i \in 1..Len(cell.before) : cell.before[i] = Blank
         /\ cell.after \in Seq(Char) /\ \A i \in 1..Len(cell.after) : cell.after[i] = Blank
         /\ cell.quoted \in BOOLEAN /\ cell.pieces \in Seq(Seq(Char))
         /\ \A j \in 1..Len(cell.pieces) : IsPiece(cell.pieces[j], cell.quoted)
         /\ ~cell.quoted => cell.after = <<>>
         /\ ~cell.quoted /\ cell.pieces # <<>> => cell.pieces[1][1] \notin {Blank, Quote}
         /\ Concat(cell.pieces) \in Seq(Char)
<1>1. /\ cell.before \in Seq({Blank}) /\ cell.after \in Seq({Blank}) /\ cell.quoted \in BOOLEAN
      /\ cell.pieces \in Seq(Seq(STRING)) /\ \A i \in DOMAIN cell.pieces : IsPiece(cell.pieces[i], cell.quoted)
      /\ ~cell.quoted => cell.after = <<>>
      /\ ~cell.quoted /\ cell.pieces # <<>> => cell.pieces[1][1] \notin {Blank, Quote}
  BY DEF Cells
<1>2. {Blank} \subseteq Char /\ STRING \subseteq Char
  BY DEF Char
<1>3. \A s \in Seq({Blank}) : s \in Seq(Char) /\ \A i \in 1..Len(s) : s[i] = Blank
  <2> SUFFICES ASSUME NEW s \in Seq({Blank}) PROVE s \in Seq(Char) /\ \A i \in 1..Len(s) : s[i] = Blank
    OBVIOUS
  <2>1. s \in Seq(Char)
    BY <1>2, SeqMonotonic
  <2>2. \A i \in 1..Len(s) : s[i] \in {Blank}
    BY ElementOfSeq
  <2> QED
    BY <2>1, <2>2
<1>4. cell.pieces \in Seq(Seq(Char))
  <2>1. \A s \in Seq(STRING) : s \in Seq(Char)
    BY <1>2, SeqMonotonic
  <2>2. PICK S, R : S = Seq(STRING) /\ R = Seq(Char)
    OBVIOUS
  <2>3. S \subseteq R /\ cell.pieces \in Seq(S)
    BY <1>1, <2>1, <2>2
  <2>4. cell.pieces \in Seq(R)
    BY <2>3, SeqMonotonic
  <2> QED
    BY <2>2, <2>4
<1>5. DOMAIN cell.pieces = 1..Len(cell.pieces) /\ Len(cell.pieces) \in Nat
  BY <1>4, LenProperties
<1>6. Concat(cell.pieces) \in Seq(Char)
  <2>1. Upto(cell.pieces, Len(cell.pieces)) \in Seq(Char)
    <3>1. Len(cell.pieces) \in 0..Len(cell.pieces)
      BY <1>5
    <3> QED
      BY <1>4, <3>1, ConcatGrows
  <2> QED
    BY <1>4, <2>1, ConcatGrows
<1> QED
  BY <1>1, <1>3, <1>4, <1>5, <1>6

(* Where the pieces of a cell are in it, if it is not quoted,                *)
LEMMA RawPlain ==
  ASSUME NEW cell \in Cells, ~cell.quoted
  PROVE  LET b == Len(cell.before) IN
         /\ Raw(cell) \in Seq(Char) /\ b \in Nat /\ Len(Raw(cell)) = b + Len(Concat(cell.pieces))
         /\ \A i \in 1..b : Raw(cell)[i] = Blank
         /\ \A i \in 1..Len(Concat(cell.pieces)) : Raw(cell)[b + i] = Concat(cell.pieces)[i]
<1>1. PICK s \in Seq(Char), u \in Seq(Char) : s = cell.before /\ u = Concat(cell.pieces)
  BY CellIs
<1>2. Raw(cell) = s \o u
  BY <1>1 DEF Raw
<1>3. \A i \in 1..Len(s) : s[i] = Blank
  BY <1>1, CellIs
<1>4. PICK r : r = Raw(cell)
  OBVIOUS
<1>5. /\ r \in Seq(Char) /\ Len(s) \in Nat /\ Len(u) \in Nat /\ Len(r) = Len(s) + Len(u)
      /\ \A i \in 1..Len(s) : r[i] = s[i]
      /\ \A i \in 1..Len(u) : r[Len(s) + i] = u[i]
  BY <1>2, <1>4, ConcatChars
<1> QED
  BY <1>1, <1>3, <1>4, <1>5

(* and if it is.                                                             *)
LEMMA RawQuoted ==
  ASSUME NEW cell \in Cells, cell.quoted
  PROVE  LET b == Len(cell.before)
             m == Len(Concat(cell.pieces))
             a == Len(cell.after)
         IN /\ Raw(cell) \in Seq(Char) /\ b \in Nat /\ m \in Nat /\ a \in Nat
            /\ Len(Raw(cell)) = b + 1 + m + 1 + a
            /\ \A i \in 1..b : Raw(cell)[i] = Blank
            /\ Raw(cell)[b + 1] = Quote
            /\ \A i \in 1..m : Raw(cell)[(b + 1) + i] = Concat(cell.pieces)[i]
            /\ Raw(cell)[b + 1 + m + 1] = Quote
            /\ \A i \in 1..a : Raw(cell)[(b + 1 + m + 1) + i] = Blank
<1>1. PICK s \in Seq(Char), u \in Seq(Char), v \in Seq(Char), q \in Seq(Char) :
        s = cell.before /\ u = Concat(cell.pieces) /\ v = cell.after /\ q = <<Quote>>
  <2>1. Quote \in Char
    BY DEF Char
  <2>2. <<Quote>> \in Seq(Char)
    BY <2>1
  <2> QED
    BY <2>2, CellIs
<1>2. Len(q) = 1 /\ q[1] = Quote
  BY <1>1
<1>3. PICK x1, x2, x3, r : x1 = q \o u /\ x2 = x1 \o q /\ x3 = x2 \o v /\ r = s \o x3
  OBVIOUS
<1>4. Raw(cell) = r
  BY <1>1, <1>3 DEF Raw
<1>5. /\ \A i \in 1..Len(s) : s[i] = Blank
      /\ \A i \in 1..Len(v) : v[i] = Blank
  BY <1>1, CellIs
<1>6. PICK b \in Nat, m \in Nat, a \in Nat : b = Len(s) /\ m = Len(u) /\ a = Len(v)
  BY <1>1, LenProperties
<1>7. x1 \in Seq(Char) /\ Len(x1) = 1 + m /\ x1[1] = Quote /\ \A i \in 1..m : x1[1 + i] = u[i]
  <2>1. /\ x1 \in Seq(Char) /\ Len(x1) = Len(q) + Len(u) /\ \A i \in 1..Len(q) : x1[i] = q[i]
        /\ \A i \in 1..Len(u) : x1[Len(q) + i] = u[i]
    BY <1>3, ConcatChars
  <2> QED
    BY <1>2, <1>6, <2>1
<1>8. /\ x2 \in Seq(Char) /\ Len(x2) = (1 + m) + 1 /\ x2[(1 + m) + 1] = Quote
      /\ \A i \in 1..(1 + m) : x2[i] = x1[i]
  <2>1. /\ x2 \in Seq(Char) /\ Len(x2) = Len(x1) + Len(q) /\ \A i \in 1..Len(x1) : x2[i] = x1[i]
        /\ \A i \in 1..Len(q) : x2[Len(x1) + i] = q[i]
    <3>1. x2 = x1 \o q /\ x1 \in Seq(Char) /\ q \in Seq(Char)
      BY <1>3, <1>7
    <3> QED
      BY <3>1, ConcatChars
  <2> QED
    BY <1>2, <1>7, <2>1
<1>9. /\ x3 \in Seq(Char) /\ Len(x3) = ((1 + m) + 1) + a /\ \A i \in 1..((1 + m) + 1) : x3[i] = x2[i]
      /\ \A i \in 1..a : x3[((1 + m) + 1) + i] = v[i]
  <2>1. /\ x3 \in Seq(Char) /\ Len(x3) = Len(x2) + Len(v) /\ \A i \in 1..Len(x2) : x3[i] = x2[i]
        /\ \A i \in 1..Len(v) : x3[Len(x2) + i] = v[i]
    <3>1. x3 = x2 \o v /\ x2 \in Seq(Char) /\ v \in Seq(Char)
      BY <1>3, <1>8
    <3> QED
      BY <3>1, ConcatChars
  <2> QED
    BY <1>6, <1>8, <2>1
<1>10. /\ r \in Seq(Char) /\ Len(r) = b + (((1 + m) + 1) + a) /\ \A i \in 1..b : r[i] = s[i]
       /\ \A i \in 1..(((1 + m) + 1) + a) : r[b + i] = x3[i]
  <2>1. /\ r \in Seq(Char) /\ Len(r) = Len(s) + Len(x3) /\ \A i \in 1..Len(s) : r[i] = s[i]
        /\ \A i \in 1..Len(x3) : r[Len(s) + i] = x3[i]
    <3>1. r = s \o x3 /\ s \in Seq(Char) /\ x3 \in Seq(Char)
      BY <1>3, <1>9
    <3> QED
      BY <3>1, ConcatChars
  <2> QED
    BY <1>6, <1>9, <2>1
<1>11. r[b + 1] = Quote
  <2>1. 1 \in 1..(((1 + m) + 1) + a) /\ 1 \in 1..((1 + m) + 1) /\ 1 \in 1..(1 + m)
    OBVIOUS
  <2> QED
    BY <1>7, <1>8, <1>9, <1>10, <2>1
<1>12. ASSUME NEW i \in 1..m PROVE r[(b + 1) + i] = u[i]
  <2>1. 1 + i \in 1..(((1 + m) + 1) + a) /\ 1 + i \in 1..((1 + m) + 1) /\ 1 + i \in 1..(1 + m)
    OBVIOUS
  <2>2. r[b + (1 + i)] = x3[1 + i] /\ x3[1 + i] = x2[1 + i] /\ x2[1 + i] = x1[1 + i] /\ x1[1 + i] = u[i]
    BY <1>7, <1>8, <1>9, <1>10, <2>1
  <2>3. b + (1 + i) = (b + 1) + i
    OBVIOUS
  <2> QED
    BY <2>2, <2>3
<1>13. r[b + 1 + m + 1] = Quote
  <2>1. /\ (1 + m) + 1 \in 1..(((1 + m) + 1) + a) /\ (1 + m) + 1 \in 1..((1 + m) + 1)
        /\ b + ((1 + m) + 1) = b + 1 + m + 1
    OBVIOUS
  <2>2. r[b + ((1 + m) + 1)] = x3[(1 + m) + 1] /\ x3[(1 + m) + 1] = x2[(1 + m) + 1]
    BY <1>9, <1>10, <2>1
  <2> QED
    BY <1>8, <2>1, <2>2
<1>14. ASSUME NEW i \in 1..a PROVE r[(b + 1 + m + 1) + i] = Blank
  <2>1. /\ ((1 + m) + 1) + i \in 1..(((1 + m) + 1) + a)
        /\ b + (((1 + m) + 1) + i) = (b + 1 + m + 1) + i
    OBVIOUS
  <2>2. r[b + (((1 + m) + 1) + i)] = x3[((1 + m) + 1) + i] /\ x3[((1 + m) + 1) + i] = v[i]
    BY <1>9, <1>10, <2>1
  <2> QED
    BY <1>5, <1>6, <2>1, <2>2
<1>15. Len(r) = b + 1 + m + 1 + a
  BY <1>10
<1> HIDE DEF Raw
<1> QED
  BY <1>1, <1>4, <1>5, <1>6, <1>10, <1>11, <1>12, <1>13, <1>14, <1>15

(* Where the characters of a cell leave a tokenizer that started on it.      *)
EndState(cell) ==
    IF cell.quoted THEN IF cell.after = <<>> THEN "quote" ELSE "trailing"
    ELSE Content(FALSE, Len(cell.pieces))

(* Feeding a cell that is not quoted collects what is written in it,         *)
LEMMA PlainRuns ==
  ASSUME NEW cell \in Cells, ~cell.quoted, NEW T, NEW t, NEW chars, NEW skip, Runs(T, t, chars, skip),
         Collects(t), t.state = "field", t.buf = <<>>, Len(chars) \in Nat, Len(Raw(cell)) <= Len(chars),
         \A i \in 1..Len(Raw(cell)) : chars[i] = Raw(cell)[i],
         NEW exact \in BOOLEAN, exact => ~Stray(cell)
  PROVE  Inside(T, Len(Raw(cell)), EndState(cell), Written(cell), exact)
<1>1. PICK b \in Nat, pieces \in Seq(Seq(Char)), content \in Seq(Char), raw \in Seq(Char) :
        b = Len(cell.before) /\ pieces = cell.pieces /\ content = Concat(pieces) /\ raw = Raw(cell)
  BY CellIs, RawPlain
<1>2. PICK m \in Nat : m = Len(content)
  OBVIOUS
<1>3. Len(raw) = b + m /\ (\A i \in 1..b : raw[i] = Blank) /\ \A i \in 1..m : raw[b + i] = content[i]
  BY <1>1, <1>2, RawPlain
<1>4. t.offset \in Nat /\ <<>> \in Seq(Char)
  BY DEF Collects
<1>5. Inside(T, 0, "field", <<>>, TRUE)
  BY <1>4 DEF Inside, Runs
<1>6. Inside(T, 0 + b, "field", <<>>, TRUE)
  <2>1. 0 + b <= Len(chars) /\ \A j \in 1..b : chars[0 + j] = Blank
    <3>1. \A j \in 1..b : 0 + j = j /\ j \in 1..Len(raw) /\ raw[j] = Blank
      BY <1>3
    <3>2. \A j \in 1..Len(raw) : chars[j] = raw[j]
      BY <1>1
    <3>3. 0 + b = b /\ Len(raw) <= Len(chars) /\ Len(raw) = b + m
      BY <1>1, <1>3
    <3>4. 0 + b <= Len(chars)
      BY <3>3
    <3> QED
      BY <3>1, <3>2, <3>4
  <2>2. 0 \in Nat /\ TRUE \in BOOLEAN /\ "field" \in {"field", "trailing"}
    OBVIOUS
  <2> QED
    BY <1>4, <1>5, <2>1, <2>2, Blanks
<1>7. Inside(T, b, Content(FALSE, 0), <<>>, TRUE)
  <2>1. 0 + b = b /\ Content(FALSE, 0) = "field"
    BY DEF Content
  <2> QED
    BY <1>6, <2>1
<1>8. /\ \A j \in 1..Len(pieces) : IsPiece(pieces[j], FALSE)
      /\ pieces # <<>> => pieces[1][1] \notin {Blank, Quote}
      /\ DOMAIN pieces = 1..Len(pieces)
  <2>1. cell.quoted = FALSE
    BY CellIs
  <2> QED
    BY <1>1, <2>1, CellIs, LenProperties
<1>9. /\ b + Len(Concat(pieces)) <= Len(chars)
      /\ \A j \in 1..Len(Concat(pieces)) : chars[b + j] = Concat(pieces)[j]
  <2>1. \A j \in 1..m : b + j \in 1..Len(raw)
    BY <1>3
  <2> QED
    BY <1>1, <1>2, <1>3, <2>1
<1>10. exact => Straight(pieces)
  BY <1>1, <1>8 DEF Stray, Straight
<1>11. PICK stands : stands = Meanings(pieces)
  OBVIOUS
<1>12. Inside(T, b + Len(Concat(pieces)), Content(FALSE, Len(pieces)), Concat(stands), exact)
  <2>1. PICK quoted \in BOOLEAN : quoted = FALSE
    OBVIOUS
  <2>2. PICK empty : empty = <<>> /\ Inside(T, b, Content(quoted, 0), empty, exact)
    BY <1>7, <2>1 DEF Inside
  <2>3. Cut(pieces, quoted)
    BY <1>8, <2>1 DEF Cut
  <2>4. Appears(Concat(pieces), chars, b)
    BY <1>9 DEF Appears
  <2>5. Inside(T, b + Len(Concat(pieces)), Content(quoted, Len(pieces)), Concat(stands), exact)
    BY <1>4, <1>10, <1>11, <2>2, <2>3, <2>4, PiecesRun
  <2> QED
    BY <2>1, <2>5
<1>13. Written(cell) = Concat(stands)
  BY <1>1, <1>11 DEF Written, Meanings
<1>14. EndState(cell) = Content(FALSE, Len(pieces)) /\ b + Len(Concat(pieces)) = Len(Raw(cell))
  BY <1>1, <1>2, <1>3 DEF EndState
<1> QED
  BY <1>12, <1>13, <1>14

(* and so does feeding one that is.                                          *)
LEMMA QuotedRuns ==
  ASSUME NEW cell \in Cells, cell.quoted, NEW T, NEW t, NEW chars, NEW skip, Runs(T, t, chars, skip),
         Collects(t), t.state = "field", t.buf = <<>>, Len(chars) \in Nat, Len(Raw(cell)) <= Len(chars),
         \A i \in 1..Len(Raw(cell)) : chars[i] = Raw(cell)[i],
         NEW exact \in BOOLEAN, exact => ~Stray(cell)
  PROVE  Inside(T, Len(Raw(cell)), EndState(cell), Written(cell), exact)
<1>1. PICK b \in Nat, a \in Nat, pieces \in Seq(Seq(Char)), content \in Seq(Char), raw \in Seq(Char) :
        /\ b = Len(cell.before) /\ pieces = cell.pieces /\ content = Concat(pieces) /\ raw = Raw(cell)
        /\ a = Len(cell.after)
  BY CellIs, RawQuoted
<1>2. PICK m \in Nat : m = Len(content)
  OBVIOUS
<1>22. PICK h \in Nat, q \in Nat : h = b + 1 /\ q = b + 1 + m + 1
  OBVIOUS
<1>23. q = h + m + 1
  BY <1>22
<1>3. /\ Len(raw) = q + a /\ \A i \in 1..b : raw[i] = Blank
      /\ raw[h] = Quote
      /\ \A i \in 1..m : raw[h + i] = content[i]
      /\ raw[q] = Quote
      /\ \A i \in 1..a : raw[q + i] = Blank
  BY <1>1, <1>2, <1>22, RawQuoted
<1>4. t.offset \in Nat /\ <<>> \in Seq(Char)
  BY DEF Collects
<1>5. Inside(T, 0, "field", <<>>, TRUE)
  BY <1>4 DEF Inside, Runs
<1>20. \A i \in 1..Len(raw) : chars[i] = raw[i]
  BY <1>1
<1>21. q + a <= Len(chars)
  BY <1>1, <1>3
<1>24. \A i \in 1..b : chars[i] = Blank
  <2>1. \A i \in 1..b : i \in 1..Len(raw)
    BY <1>3, <1>22
  <2> QED
    BY <1>3, <1>20, <2>1
<1>25. chars[h] = Quote
  <2>1. h \in 1..Len(raw)
    BY <1>3, <1>22
  <2> QED
    BY <1>3, <1>20, <2>1
<1>26. \A i \in 1..m : chars[h + i] = content[i]
  <2> SUFFICES ASSUME NEW i \in 1..m PROVE chars[h + i] = content[i]
    OBVIOUS
  <2>1. Len(raw) = q + a
    BY <1>3
  <2>2. h + i \in 1..Len(raw)
    BY <1>23, <2>1
  <2> QED
    BY <1>3, <1>20, <2>2
<1>27. chars[q] = Quote
  <2>1. q \in 1..Len(raw)
    BY <1>3, <1>22
  <2> QED
    BY <1>3, <1>20, <2>1
<1>28. \A i \in 1..a : chars[q + i] = Blank
  <2> SUFFICES ASSUME NEW i \in 1..a PROVE chars[q + i] = Blank
    OBVIOUS
  <2>1. Len(raw) = q + a
    BY <1>3
  <2>2. q + i \in 1..Len(raw)
    BY <2>1
  <2> QED
    BY <1>3, <1>20, <2>2
<1>6. Inside(T, 0 + b, "field", <<>>, TRUE)
  <2>1. 0 + b <= Len(chars)
    BY <1>21, <1>22
  <2>2. 0 \in Nat /\ TRUE \in BOOLEAN /\ "field" \in {"field", "trailing"}
    OBVIOUS
  <2>3. \A j \in 1..b : chars[0 + j] = Blank
    <3>1. \A j \in 1..b : 0 + j = j
      OBVIOUS
    <3> QED
      BY <1>24, <3>1
  <2> QED
    BY <1>4, <1>5, <2>1, <2>2, <2>3, Blanks
<1>7. Inside(T, h, "quoted", <<>>, TRUE)
  <2>1. 0 + b = b /\ b + 1 <= Len(chars) /\ chars[b + 1] = Quote
    BY <1>21, <1>22, <1>25
  <2>2. Inside(T, b, "field", <<>>, TRUE)
    BY <1>6, <2>1
  <2>3. Delta("field", chars[b + 1]) = Go("quoted")
    BY <2>1, DeltaCell
  <2>4. PICK yes \in BOOLEAN, nil \in Seq(Char) : yes = TRUE /\ nil = <<>>
    BY <1>4
  <2>8. PICK field : field = "field"
    OBVIOUS
  <2>6. Inside(T, b, field, nil, yes) /\ Delta(field, chars[b + 1]) = Go("quoted")
    BY <2>2, <2>3, <2>4, <2>8
  <2>7. Inside(T, b + 1, "quoted", nil, yes)
    BY <1>4, <2>1, <2>6, OneGone
  <2>5. Inside(T, b + 1, "quoted", <<>>, TRUE)
    BY <2>4, <2>7
  <2> QED
    BY <1>22, <2>5
<1>8. /\ \A j \in 1..Len(pieces) : IsPiece(pieces[j], TRUE)
      /\ DOMAIN pieces = 1..Len(pieces) /\ Content(TRUE, 0) = "quoted" /\ Content(TRUE, Len(pieces)) = "quoted"
  <2>1. cell.quoted = TRUE
    BY CellIs
  <2> QED
    BY <1>1, <2>1, CellIs, LenProperties DEF Content
<1>9. /\ h + Len(Concat(pieces)) <= Len(chars)
      /\ \A j \in 1..Len(Concat(pieces)) : chars[h + j] = Concat(pieces)[j]
  <2>1. Len(Concat(pieces)) = m /\ content = Concat(pieces)
    BY <1>1, <1>2
  <2>2. h + m <= Len(chars)
    BY <1>21, <1>23
  <2> QED
    BY <1>26, <2>1, <2>2
<1>10. exact => Straight(pieces)
  BY <1>1, <1>8 DEF Stray, Straight
<1>11. PICK stands : stands = Meanings(pieces)
  OBVIOUS
<1>12. Inside(T, h + m, "quoted", Concat(stands), exact)
  <2>1. PICK quoted \in BOOLEAN : quoted = TRUE
    OBVIOUS
  <2>2. PICK empty : empty = <<>> /\ Inside(T, h, Content(quoted, 0), empty, exact)
    BY <1>7, <1>8, <2>1 DEF Inside
  <2>3. Cut(pieces, quoted)
    BY <1>8, <2>1 DEF Cut
  <2>4. Appears(Concat(pieces), chars, h)
    BY <1>9 DEF Appears
  <2>5. Inside(T, h + Len(Concat(pieces)), Content(quoted, Len(pieces)), Concat(stands), exact)
    BY <1>4, <1>10, <1>11, <2>2, <2>3, <2>4, PiecesRun
  <2> QED
    BY <1>1, <1>2, <1>8, <2>1, <2>5
<1>13. Written(cell) = Concat(stands) /\ Concat(stands) \in Seq(Char)
  <2>1. Written(cell) = Concat(stands)
    BY <1>1, <1>11 DEF Written, Meanings, Meanings
  <2>2. stands \in Seq(Seq(Char)) /\ Len(stands) \in Nat
    BY <1>11, StandsAll DEF Meanings
  <2>3. Len(stands) \in 0..Len(stands)
    BY <2>2
  <2>4. Upto(stands, Len(stands)) \in Seq(Char) /\ Upto(stands, Len(stands)) = Concat(stands)
    BY <2>2, <2>3, ConcatGrows
  <2> QED
    BY <2>1, <2>4
<1>14. PICK text \in Seq(Char) : text = Concat(stands)
  BY <1>13
<1>15. Inside(T, q, "quote", text, exact)
  <2>1. PICK g \in Nat : g = h + m
    OBVIOUS
  <2>2. Inside(T, g, "quoted", text, exact)
    BY <1>12, <1>14, <2>1
  <2>3. g + 1 = q /\ g + 1 <= Len(chars) /\ chars[g + 1] = Quote
    BY <1>21, <1>23, <1>27, <2>1
  <2>4. Delta("quoted", chars[g + 1]) = Go("quote")
    BY <2>3, DeltaCell
  <2>5. Inside(T, g + 1, "quote", text, exact)
    BY <1>4, <2>2, <2>3, <2>4, OneGone
  <2> QED
    BY <2>3, <2>5
<1>16. Len(Raw(cell)) = q + a
  BY <1>1, <1>3
<1>17. CASE a = 0
  <2>1. cell.after = <<>>
    BY <1>1, <1>17, CellIs, EmptySeq
  <2>2. EndState(cell) = "quote" /\ Len(Raw(cell)) = q
    BY <1>16, <1>17, <2>1 DEF EndState
  <2> QED
    BY <1>13, <1>14, <1>15, <2>2
<1>18. CASE a # 0
  <2>1. cell.after # <<>>
    <3>1. Len(<<>>) = 0
      OBVIOUS
    <3> QED
      BY <1>1, <1>18, <3>1
  <2>2. EndState(cell) = "trailing"
    BY <2>1 DEF EndState
  <2>5. Inside(T, q + 1, "trailing", text, exact)
    <3>1. q + 1 <= Len(chars) /\ chars[q + 1] = Blank
      <4>1. 1 \in 1..a
        BY <1>18
      <4> QED
        BY <1>21, <1>28, <4>1
    <3>2. Delta("quote", chars[q + 1]) = Go("trailing")
      BY <3>1, DeltaCell
    <3> QED
      BY <1>4, <1>15, <3>1, <3>2, OneGone
  <2>6. PICK g \in Nat, n \in Nat : g = q + 1 /\ n = a - 1
    BY <1>18
  <2>7. Inside(T, g + n, "trailing", text, exact)
    <3>1. g + n <= Len(chars)
      BY <1>21, <2>6
    <3>2. \A j \in 1..n : chars[g + j] = Blank
      <4>1. \A j \in 1..n : 1 + j \in 1..a /\ g + j = q + (1 + j)
        BY <2>6
      <4> QED
        BY <1>28, <4>1
    <3>3. Inside(T, g, "trailing", text, exact) /\ "trailing" \in {"field", "trailing"}
      BY <2>5, <2>6
    <3> QED
      BY <1>4, <3>1, <3>2, <3>3, Blanks
  <2>8. g + n = Len(Raw(cell))
    BY <1>16, <2>6
  <2> QED
    BY <1>13, <1>14, <2>2, <2>7, <2>8
<1> QED
  BY <1>17, <1>18

(* Feeding any cell collects what is written in it.                          *)
LEMMA CellRuns ==
  ASSUME NEW cell \in Cells, NEW T, NEW t, NEW skip, Runs(T, t, Raw(cell), skip),
         Collects(t), t.state = "field", t.buf = <<>>,
         NEW exact \in BOOLEAN, exact => ~Stray(cell)
  PROVE  Inside(T, Len(Raw(cell)), EndState(cell), Written(cell), exact)
<1>1. PICK chars : chars = Raw(cell)
  OBVIOUS
<1>2. Len(chars) \in Nat
  <2>1. Raw(cell) \in Seq(Char)
    BY RawPlain, RawQuoted
  <2> QED
    BY <1>1, <2>1
<1>3. Runs(T, t, chars, skip) /\ Len(Raw(cell)) <= Len(chars) /\ \A i \in 1..Len(Raw(cell)) : chars[i] = Raw(cell)[i]
  BY <1>1, <1>2
<1>4. CASE cell.quoted
  BY <1>2, <1>3, <1>4, QuotedRuns
<1>5. CASE ~cell.quoted
  BY <1>2, <1>3, <1>5, PlainRuns
<1> QED
  BY <1>4, <1>5

(* What a cell and the delimiter after it amount to.                         *)
Outcome(cell, c) ==
    IF c = Comma THEN "OK" ELSE IF c = NewLine THEN "END_OF_ROW"
    ELSE IF cell.quoted /\ cell.after = <<>> THEN "PARSE_ERROR" ELSE "END_OF_FILE"

Ended(u, t, cell, c, skip) ==
    /\ Collects(u) /\ u.result = Outcome(cell, c) /\ u.buf = <<>>
    /\ c # EndOfFile => u.state = "field"
    /\ ~Stray(cell) => u.offset = t.offset + Len(Raw(cell)) + 1
    /\ IF skip THEN u.last = t.last
       ELSE u.last = u.offset /\ u.token.text = Text(cell) /\ u.token.start = t.last

(* Nothing is left of nothing.                                               *)
LEMMA TrimNothing == TrimEnd(<<>>) = <<>>
<1>1. SelectLastInSeq(<<>>, LAMBDA c : ~IsSpace(c)) = 0
  BY DEF SelectLastInSeq
<1>2. TrimEnd(<<>>) = SubSeq(<<>>, 1, 0)
  BY <1>1, Zenon DEF TrimEnd
<1>3. SubSeq(<<>>, 1, 0) = <<>>
  OBVIOUS
<1> QED
  BY <1>2, <1>3

(* A cell of blanks has no text.                                             *)
LEMMA PlainWritten ==
  ASSUME NEW cell \in Cells, ~cell.quoted, EndState(cell) = "field"
  PROVE  Written(cell) = <<>>
<1>1. PICK pieces \in Seq(Seq(Char)) : pieces = cell.pieces
  BY CellIs
<1>2. Len(pieces) = 0
  <2>1. EndState(cell) = IF Len(pieces) = 0 THEN "field" ELSE "unquoted"
    BY <1>1 DEF EndState, Content
  <2> QED
    BY <2>1
<1>4. PICK nil \in Seq(Seq(Char)) : nil = <<>> /\ Len(nil) = 0
  <2>1. <<>> \in Seq(Seq(Char)) /\ Len(<<>>) = 0
    BY EmptySeq
  <2> QED
    BY <2>1
<1>5. Upto(nil, 0) = <<>> /\ Upto(nil, Len(nil)) = Concat(nil)
  BY ConcatGrows
<1>6. Concat(<<>>) = <<>>
  BY <1>4, <1>5
<1>7. [i \in DOMAIN pieces |-> Stands(pieces[i])] = <<>>
  <2>1. PICK f : f = [i \in DOMAIN pieces |-> Stands(pieces[i])]
    OBVIOUS
  <2>2. f \in Seq(Seq(Char)) /\ Len(f) = Len(pieces)
    BY <2>1, StandsAll
  <2> QED
    BY <1>2, <2>1, <2>2, EmptySeq
<1> QED
  BY <1>1, <1>6, <1>7 DEF Written

(* The character after a cell makes its token.                               *)
LEMMA CellEnds ==
  ASSUME NEW cell \in Cells, NEW m, Collects(m), m.state = EndState(cell), m.buf = Written(cell),
         NEW c \in {Comma, NewLine, EndOfFile}, NEW skip \in BOOLEAN
  PROVE  \E next : /\ Popped(Feed(m, c, skip), m, next, Outcome(cell, c), Text(cell), skip)
                   /\ c # EndOfFile => next = "field"
<1>1. Comma # NewLine /\ Comma # EndOfFile /\ NewLine # EndOfFile
  BY DEF Comma, NewLine, EndOfFile
<1>2. PICK result, text : result = Outcome(cell, c) /\ text = Text(cell)
  OBVIOUS
<1>3. result # "ERROR"
  BY <1>2 DEF Outcome
<1>4. \/ m.state = "field" /\ ~cell.quoted
      \/ m.state = "unquoted" /\ ~cell.quoted
      \/ m.state = "quote" /\ cell.quoted /\ cell.after = <<>>
      \/ m.state = "trailing" /\ cell.quoted /\ cell.after # <<>>
  BY DEF EndState, Content
<1>5. ~cell.quoted => text = TrimEnd(m.buf)
  BY <1>2 DEF Text
<1>6. cell.quoted => text = m.buf
  BY <1>2 DEF Text
<1>7. m.state = "field" => text = m.buf
  <2> SUFFICES ASSUME m.state = "field" PROVE text = m.buf
    OBVIOUS
  <2>1. ~cell.quoted /\ EndState(cell) = "field"
    BY <1>4
  <2>2. m.buf = <<>>
    BY <2>1, PlainWritten
  <2> QED
    BY <1>5, <2>1, <2>2, TrimNothing
<1>8. PICK next : /\ c # EndOfFile => next = "field"
                  /\ \/ Delta(m.state, c) = Pop(next, result) /\ text = m.buf
                     \/ Delta(m.state, c) = PopTrimmed(next, result) /\ text = TrimEnd(m.buf)
  <2>1. CASE c = Comma
    <3>1. result = "OK"
      BY <1>2, <2>1 DEF Outcome
    <3> QED
      BY <1>1, <1>4, <1>5, <1>6, <1>7, <2>1, <3>1, DeltaEnd
  <2>2. CASE c = NewLine
    <3>1. result = "END_OF_ROW"
      BY <1>1, <1>2, <2>2 DEF Outcome
    <3> QED
      BY <1>1, <1>4, <1>5, <1>6, <1>7, <2>2, <3>1, DeltaEnd
  <2>3. CASE c = EndOfFile
    <3>1. result = IF m.state = "quote" THEN "PARSE_ERROR" ELSE "END_OF_FILE"
      BY <1>1, <1>2, <1>4, <2>3 DEF Outcome
    <3> QED
      BY <1>1, <1>4, <1>5, <1>6, <1>7, <2>3, <3>1, DeltaEnd
  <2> QED
    BY <2>1, <2>2, <2>3
<1>9. Popped(Feed(m, c, skip), m, next, result, text, skip)
  BY <1>3, <1>8, FeedPops
<1> QED
  BY <1>2, <1>8, <1>9

(* The turns of a tokenizer over some characters.                            *)
LEMMA FeedSteps ==
  ASSUME NEW chars, Len(chars) \in Nat, NEW t, NEW skip
  PROVE  \E T : Runs(T, t, chars, skip)
<1> DEFINE Solves(T, n) == T[0] = t /\ \A i \in 1..n : T[i] = Feed(T[i - 1], chars[i], skip)
           S == {n \in Nat : \E T : Solves(T, n)}
<1>1. 0 \in S
  <2>1. Solves([i \in {0} |-> t], 0)
    OBVIOUS
  <2> QED
    BY <2>1
<1>2. ASSUME NEW n \in Nat, n \in S PROVE n + 1 \in S
  <2>1. PICK T : Solves(T, n)
    BY <1>2
  <2>2. PICK U : U = [i \in 0..(n + 1) |-> IF i = n + 1 THEN Feed(T[n], chars[n + 1], skip) ELSE T[i]]
    OBVIOUS
  <2>3. U[0] = t
    BY <2>1, <2>2
  <2>4. ASSUME NEW i \in 1..(n + 1) PROVE U[i] = Feed(U[i - 1], chars[i], skip)
    <3>1. CASE i = n + 1
      <4>1. U[n] = T[n] /\ U[n + 1] = Feed(T[n], chars[n + 1], skip) /\ (n + 1) - 1 = n
        BY <2>2
      <4> QED
        BY <3>1, <4>1
    <3>2. CASE i # n + 1
      <4>1. i \in 1..n /\ U[i] = T[i] /\ U[i - 1] = T[i - 1]
        BY <2>2, <3>2
      <4> QED
        BY <2>1, <4>1
    <3> QED
      BY <3>1, <3>2
  <2>5. Solves(U, n + 1)
    BY <2>3, <2>4
  <2> HIDE DEF Solves
  <2> QED
    BY <2>5
<1>3. Len(chars) \in S
  <2> HIDE DEF S
  <2> QED
    BY <1>1, <1>2, SetInduction
<1> QED
  BY <1>3 DEF Runs

(* A tokenizer at the start of a cell reads the cell and what ends it.       *)
LEMMA TokenRuns ==
  ASSUME NEW cell \in Cells, NEW t, Collects(t), t.state = "field", t.buf = <<>>, NEW skip \in BOOLEAN,
         NEW c \in {Comma, NewLine, EndOfFile}, NEW n, n = Len(Raw(cell))
  PROVE  \E T : /\ Runs(T, t, Raw(cell), skip) /\ \A j \in 1..n : T[j].result = "MORE"
                /\ Ended(Feed(T[n], c, skip), t, cell, c, skip)
<1>1. n \in Nat
  <2>1. Raw(cell) \in Seq(Char)
    BY RawPlain, RawQuoted
  <2> QED
    BY <2>1
<1>2. PICK T : Runs(T, t, Raw(cell), skip)
  BY <1>1, FeedSteps
<1>3. PICK exact \in BOOLEAN : exact <=> ~Stray(cell)
  OBVIOUS
<1>4. Inside(T, n, EndState(cell), Written(cell), exact)
  BY <1>2, <1>3, CellRuns
<1>5. T[0] = t
  BY <1>2 DEF Runs
<1>6. PICK m : m = T[n]
  OBVIOUS
<1>7. /\ Collects(m) /\ m.state = EndState(cell) /\ m.buf = Written(cell) /\ m.last = t.last
      /\ exact => m.offset = t.offset + n
      /\ \A j \in 1..n : T[j].result = "MORE"
  BY <1>4, <1>5, <1>6 DEF Inside
<1>8. PICK next : /\ Popped(Feed(m, c, skip), m, next, Outcome(cell, c), Text(cell), skip)
                  /\ c # EndOfFile => next = "field"
  BY <1>7, CellEnds
<1>9. Ended(Feed(m, c, skip), t, cell, c, skip)
  BY <1>3, <1>7, <1>8 DEF Popped, Ended
<1> QED
  BY <1>2, <1>6, <1>7, <1>9

-----------------------------------------------------------------------------
(* Where the cells of a table are in its file.                               *)

(* The parts of a text with a separator between them: JoinedUpto is the first*)
(* k of them, and the k-th starts at JoinedAt.                               *)
JoinedUpto(parts, separator, k) == Joined(SubSeq(parts, 1, k), separator)

JoinedAt(parts, separator, k) == IF k = 1 THEN 0 ELSE Len(JoinedUpto(parts, separator, k - 1)) + 1

IsGlued(u, s, separator, t) ==
    /\ u \in Seq(Char) /\ Len(s) \in Nat /\ Len(t) \in Nat /\ Len(u) = (Len(s) + 1) + Len(t)
    /\ \A i \in 1..Len(s) : u[i] = s[i]
    /\ u[Len(s) + 1] = separator
    /\ \A i \in 1..Len(t) : u[(Len(s) + 1) + i] = t[i]

(* The characters of two texts with a separator between them.                *)
LEMMA GluedIs ==
  ASSUME NEW s \in Seq(Char), NEW separator \in Char, NEW t \in Seq(Char), NEW u, u = Glued(s, separator, t)
  PROVE  IsGlued(u, s, separator, t)
<1>1. PICK q \in Seq(Char) : q = <<separator>> /\ Len(q) = 1 /\ q[1] = separator
  <2>1. <<separator>> \in Seq(Char) /\ Len(<<separator>>) = 1 /\ <<separator>>[1] = separator
    OBVIOUS
  <2> QED
    BY <2>1
<1>2. PICK r : r = s \o q
  OBVIOUS
<1>3. u = r \o t
  BY <1>1, <1>2 DEF Glued
<1>4. /\ r \in Seq(Char) /\ Len(s) \in Nat /\ Len(r) = Len(s) + 1
      /\ (\A i \in 1..Len(s) : r[i] = s[i]) /\ r[Len(s) + 1] = separator
  <2>1. /\ r \in Seq(Char) /\ Len(s) \in Nat /\ Len(r) = Len(s) + Len(q)
        /\ (\A i \in 1..Len(s) : r[i] = s[i]) /\ \A i \in 1..Len(q) : r[Len(s) + i] = q[i]
    BY <1>2, ConcatChars
  <2>2. 1 \in 1..Len(q)
    BY <1>1
  <2> QED
    BY <1>1, <2>1, <2>2
<1>5. /\ u \in Seq(Char) /\ Len(t) \in Nat /\ Len(u) = Len(r) + Len(t)
      /\ (\A i \in 1..Len(r) : u[i] = r[i]) /\ \A i \in 1..Len(t) : u[Len(r) + i] = t[i]
  <2>1. r \in Seq(Char)
    BY <1>4
  <2> QED
    BY <1>3, <2>1, ConcatChars
<1>6. Len(s) + 1 \in 1..Len(r) /\ \A i \in 1..Len(s) : i \in 1..Len(r)
  BY <1>4
<1> QED
  BY <1>4, <1>5, <1>6 DEF IsGlued

(* Joined parts grow part by part,                                           *)
LEMMA JoinGrows ==
  ASSUME NEW parts \in Seq(Seq(Char)), parts # <<>>, NEW separator \in Char
  PROVE  /\ JoinedUpto(parts, separator, 1) = parts[1]
         /\ JoinedUpto(parts, separator, Len(parts)) = Joined(parts, separator)
         /\ \A k \in 2..Len(parts) : JoinedUpto(parts, separator, k) =
                                        Glued(JoinedUpto(parts, separator, k - 1), separator, parts[k])
<1>1. PICK n \in Nat : n = Len(parts) /\ n > 0 /\ DOMAIN parts = 1..n
  <2>1. Len(parts) # 0
    BY EmptySeq
  <2> QED
    BY <2>1
<1>2. PICK rest : rest = Tail(parts) /\ DOMAIN rest = 1..(n - 1) /\ \A i \in 1..(n - 1) : rest[i] = parts[i + 1]
  <2>1. Tail(parts) \in Seq(Seq(Char)) /\ Len(Tail(parts)) = n - 1 /\ \A i \in 1..(n - 1) : Tail(parts)[i] = parts[i + 1]
    <3>1. parts \in Seq(Seq(Char)) \ {<<>>}
      OBVIOUS
    <3>2. \A i \in 1..Len(Tail(parts)) : Tail(parts)[i] = parts[i + 1]
      BY <3>1, HeadTailProperties
    <3> QED
      BY <1>1, <3>1, <3>2, HeadTailProperties
  <2>2. DOMAIN Tail(parts) = 1..(n - 1)
    BY <2>1, LenProperties
  <2> QED
    BY <2>1, <2>2
<1>3. ASSUME NEW k \in 1..n
      PROVE  \E y : JoinTurns(y, k - 1, Tail(SubSeq(parts, 1, k)), parts[1], separator)
                    /\ y[k - 1] = JoinedUpto(parts, separator, k)
  <2>1. PICK q : q = SubSeq(parts, 1, k)
    OBVIOUS
  <2>2. q \in Seq(Seq(Char)) /\ Len(q) = k /\ \A i \in 1..k : q[i] = parts[i]
    BY <1>1, <2>1
  <2>3. q # <<>> /\ q[1] = parts[1]
    BY <2>2
  <2>4. Tail(q) \in Seq(Seq(Char)) /\ Len(Tail(q)) = k - 1
    BY <2>2, <2>3
  <2>5. k - 1 \in Nat /\ DOMAIN Tail(q) = 1..(k - 1)
    BY <2>4
  <2>6. PICK y : JoinTurns(y, k - 1, Tail(q), parts[1], separator)
    BY <2>5, JoinSteps
  <2>7. JoinedUpto(parts, separator, k) = JoinAll(q[1], Tail(q), separator)
    BY <2>1, Zenon DEF JoinedUpto, Joined, JoinAll
  <2> QED
    BY <2>1, <2>3, <2>6, <2>7 DEF JoinTurns
<1>4. PICK x : JoinTurns(x, n - 1, rest, parts[1], separator)
  <2>1. n - 1 \in Nat
    BY <1>1
  <2> QED
    BY <1>2, <2>1, JoinSteps
<1>5. ASSUME NEW k \in 1..n PROVE x[k - 1] = JoinedUpto(parts, separator, k)
  <2>1. PICK y : /\ JoinTurns(y, k - 1, Tail(SubSeq(parts, 1, k)), parts[1], separator)
                 /\ y[k - 1] = JoinedUpto(parts, separator, k)
    BY <1>3
  <2> DEFINE S == {i \in Nat : i <= k - 1 => x[i] = y[i]}
  <2>2. 0 \in S
    BY <1>4, <2>1 DEF JoinTurns
  <2>3. ASSUME NEW i \in Nat, i \in S PROVE i + 1 \in S
    <3> SUFFICES ASSUME i + 1 <= k - 1 PROVE x[i + 1] = y[i + 1]
      OBVIOUS
    <3>1. i + 1 \in 1..(k - 1) /\ i + 1 \in 1..(n - 1) /\ (i + 1) - 1 = i /\ x[i] = y[i]
      BY <2>3
    <3>2. Tail(SubSeq(parts, 1, k))[i + 1] = parts[(i + 1) + 1]
      <4>1. PICK q : q = SubSeq(parts, 1, k)
        OBVIOUS
      <4>2. q \in Seq(Seq(Char)) /\ Len(q) = k /\ \A j \in 1..k : q[j] = parts[j]
        BY <1>1, <4>1
      <4>3. q # <<>>
        BY <4>2
      <4>4. Tail(q)[i + 1] = q[(i + 1) + 1]
        BY <3>1, <4>2, <4>3
      <4>5. (i + 1) + 1 \in 1..k
        BY <3>1
      <4> QED
        BY <4>1, <4>2, <4>4, <4>5
    <3>3. rest[i + 1] = parts[(i + 1) + 1]
      BY <1>2, <3>1
    <3>4. x[i + 1] = Glued(x[i], separator, rest[i + 1])
      BY <1>4, <3>1 DEF JoinTurns
    <3>5. y[i + 1] = Glued(y[i], separator, rest[i + 1])
      BY <2>1, <3>1, <3>2, <3>3 DEF JoinTurns
    <3> QED
      BY <3>1, <3>4, <3>5
  <2>4. k - 1 \in S
    <3>1. k - 1 \in Nat
      OBVIOUS
    <3> HIDE DEF S
    <3> QED
      BY <2>2, <2>3, <3>1, SetInduction
  <2> QED
    BY <2>1, <2>4
<1>6. JoinedUpto(parts, separator, 1) = parts[1]
  <2>1. 1 \in 1..n /\ 1 - 1 = 0
    BY <1>1
  <2>2. x[0] = JoinedUpto(parts, separator, 1)
    BY <1>5, <2>1
  <2> QED
    BY <1>4, <2>2 DEF JoinTurns
<1>7. ASSUME NEW k \in 2..n
      PROVE  JoinedUpto(parts, separator, k) = Glued(JoinedUpto(parts, separator, k - 1), separator, parts[k])
  <2>1. k - 1 \in 1..(n - 1) /\ k - 1 \in 1..n /\ k \in 1..n /\ (k - 1) + 1 = k
    OBVIOUS
  <2>2. PICK j : j = k - 1
    OBVIOUS
  <2>3. x[j] = Glued(x[j - 1], separator, rest[j])
    BY <1>4, <2>1, <2>2 DEF JoinTurns
  <2>4. rest[j] = parts[k] /\ x[j] = JoinedUpto(parts, separator, k) /\ x[j - 1] = JoinedUpto(parts, separator, k - 1)
    BY <1>2, <1>5, <2>1, <2>2
  <2> QED
    BY <2>3, <2>4
<1>8. JoinedUpto(parts, separator, n) = Joined(parts, separator)
  BY <1>1, SubSeqFull DEF JoinedUpto
<1> QED
  BY <1>1, <1>6, <1>7, <1>8

(* each of them where the ones before it end.                                *)
LEMMA JoinedChars ==
  ASSUME NEW parts \in Seq(Seq(Char)), parts # <<>>, NEW separator \in Char
  PROVE  /\ \A k \in 1..Len(parts) :
              /\ JoinedUpto(parts, separator, k) \in Seq(Char) /\ JoinedAt(parts, separator, k) \in Nat
              /\ Len(JoinedUpto(parts, separator, k)) = JoinedAt(parts, separator, k) + Len(parts[k])
              /\ Appears(parts[k], JoinedUpto(parts, separator, k), JoinedAt(parts, separator, k))
         /\ \A k \in 2..Len(parts) :
              /\ JoinedAt(parts, separator, k) = JoinedAt(parts, separator, k - 1) + Len(parts[k - 1]) + 1
              /\ Appears(JoinedUpto(parts, separator, k - 1), JoinedUpto(parts, separator, k), 0)
              /\ JoinedUpto(parts, separator, k)[JoinedAt(parts, separator, k)] = separator
<1>1. PICK n \in Nat : n = Len(parts) /\ n > 0
  <2>1. Len(parts) # 0
    BY EmptySeq
  <2> QED
    BY <2>1
<1> DEFINE J(k) == JoinedUpto(parts, separator, k)
           At(k) == JoinedAt(parts, separator, k)
           S == {k \in Nat : k + 1 <= n => J(k + 1) \in Seq(Char)}
<1>2. J(1) = parts[1] /\ \A k \in 2..n : J(k) = Glued(J(k - 1), separator, parts[k])
  BY <1>1, JoinGrows
<1>3. At(1) = 0 /\ \A k \in 2..n : At(k) = Len(J(k - 1)) + 1
  BY DEF JoinedAt
<1> HIDE DEF J, At
<1>4. \A k \in 1..n : parts[k] \in Seq(Char)
  BY <1>1
<1>5. 0 \in S
  <2>1. 0 + 1 = 1 /\ 1 \in 1..n
    BY <1>1
  <2> QED
    BY <1>2, <1>4, <2>1
<1>6. ASSUME NEW k \in Nat, k \in S PROVE k + 1 \in S
  <2> SUFFICES ASSUME (k + 1) + 1 <= n PROVE J((k + 1) + 1) \in Seq(Char)
    OBVIOUS
  <2>1. (k + 1) + 1 \in 2..n /\ ((k + 1) + 1) - 1 = k + 1 /\ k + 1 <= n /\ (k + 1) + 1 \in 1..n
    OBVIOUS
  <2>2. J(k + 1) \in Seq(Char) /\ parts[(k + 1) + 1] \in Seq(Char)
    BY <1>4, <1>6, <2>1
  <2>3. J((k + 1) + 1) = Glued(J(k + 1), separator, parts[(k + 1) + 1])
    BY <1>2, <2>1
  <2>4. PICK a \in Seq(Char), b \in Seq(Char) : a = J(k + 1) /\ b = parts[(k + 1) + 1]
    BY <2>2
  <2>5. PICK u : u = Glued(a, separator, b)
    OBVIOUS
  <2>6. u \in Seq(Char)
    BY <2>5, GluedIs DEF IsGlued
  <2> QED
    BY <2>3, <2>4, <2>5, <2>6
<1>7. ASSUME NEW k \in 1..n PROVE J(k) \in Seq(Char)
  <2>1. Nat \subseteq S
    <3> HIDE DEF S
    <3> QED
      BY <1>5, <1>6, SetInduction
  <2>2. PICK j \in Nat : j + 1 = k
    <3>1. k - 1 \in Nat /\ (k - 1) + 1 = k
      OBVIOUS
    <3> QED
      BY <3>1
  <2>3. j \in S /\ j + 1 <= n
    BY <2>1, <2>2
  <2>4. J(j + 1) \in Seq(Char)
    BY <2>3
  <2> QED
    BY <2>2, <2>4
<1>8. ASSUME NEW k \in 2..n
      PROVE  /\ At(k) \in Nat /\ Len(J(k)) = At(k) + Len(parts[k]) /\ Appears(parts[k], J(k), At(k))
             /\ Appears(J(k - 1), J(k), 0) /\ J(k)[At(k)] = separator
  <2>1. k - 1 \in 1..n /\ k \in 1..n
    OBVIOUS
  <2>2. PICK s \in Seq(Char), t \in Seq(Char) : s = J(k - 1) /\ t = parts[k]
    BY <1>4, <1>7, <2>1
  <2>3. PICK u : u = Glued(s, separator, t)
    OBVIOUS
  <2>9. u = J(k)
    BY <1>2, <2>2, <2>3
  <2>4. /\ u \in Seq(Char) /\ Len(s) \in Nat /\ Len(t) \in Nat /\ Len(u) = (Len(s) + 1) + Len(t)
        /\ \A i \in 1..Len(s) : u[i] = s[i]
        /\ u[Len(s) + 1] = separator
        /\ \A i \in 1..Len(t) : u[(Len(s) + 1) + i] = t[i]
    <3>1. IsGlued(u, s, separator, t)
      BY <2>3, GluedIs
    <3> QED
      BY <3>1 DEF IsGlued
  <2>5. At(k) = Len(s) + 1
    BY <1>3, <2>2
  <2>6. Appears(t, u, At(k))
    BY <2>4, <2>5 DEF Appears
  <2>7. Appears(s, u, 0)
    <3>1. 0 + Len(s) <= Len(u) /\ \A i \in 1..Len(s) : 0 + i = i
      BY <2>4
    <3> QED
      BY <2>4, <3>1 DEF Appears
  <2>8. u[At(k)] = separator /\ At(k) \in Nat /\ Len(u) = At(k) + Len(t)
    BY <2>4, <2>5
  <2> QED
    BY <2>2, <2>6, <2>7, <2>8, <2>9
<1>9. At(1) \in Nat /\ Len(J(1)) = At(1) + Len(parts[1]) /\ Appears(parts[1], J(1), At(1))
  <2>1. PICK t \in Seq(Char) : t = parts[1] /\ J(1) = t
    BY <1>1, <1>2, <1>4
  <2>2. Len(t) \in Nat /\ \A i \in 1..Len(t) : 0 + i = i
    OBVIOUS
  <2> QED
    BY <1>3, <2>1, <2>2 DEF Appears
<1>10. \A k \in 1..n : /\ J(k) \in Seq(Char) /\ At(k) \in Nat /\ Len(J(k)) = At(k) + Len(parts[k])
                       /\ Appears(parts[k], J(k), At(k))
  <2>1. \A k \in 1..n : k = 1 \/ k \in 2..n
    OBVIOUS
  <2> QED
    BY <1>7, <1>8, <1>9, <2>1
<1>11. ASSUME NEW k \in 2..n PROVE At(k) = At(k - 1) + Len(parts[k - 1]) + 1
  <2>1. k - 1 \in 1..n
    OBVIOUS
  <2>2. At(k) = Len(J(k - 1)) + 1 /\ Len(J(k - 1)) = At(k - 1) + Len(parts[k - 1])
    BY <1>3, <1>10, <2>1
  <2> QED
    BY <2>2
<1> QED
  BY <1>1, <1>8, <1>10, <1>11 DEF J, At

(* A part of a part is a part of the whole.                                  *)
LEMMA AppearsIn ==
  ASSUME NEW a, NEW b, NEW c, NEW p \in Nat, NEW q \in Nat, Len(a) \in Nat, Len(b) \in Nat, Len(c) \in Nat,
         Appears(a, b, p), Appears(b, c, q)
  PROVE  Appears(a, c, q + p)
<1>1. (q + p) + Len(a) <= Len(c)
  BY DEF Appears
<1>2. ASSUME NEW j \in 1..Len(a) PROVE c[(q + p) + j] = a[j]
  <2>1. p + j \in 1..Len(b) /\ q + (p + j) = (q + p) + j
    BY DEF Appears
  <2>2. b[p + j] = a[j] /\ c[q + (p + j)] = b[p + j]
    BY <2>1 DEF Appears
  <2> QED
    BY <2>1, <2>2
<1> QED
  BY <1>1, <1>2 DEF Appears

FoundAt(parts, separator, k, whole, p) ==
    /\ whole \in Seq(Char) /\ p \in Nat /\ Appears(parts[k], whole, p)
    /\ k = Len(parts) => p + Len(parts[k]) = Len(whole)
    /\ k # Len(parts) => /\ JoinedAt(parts, separator, k + 1) = p + Len(parts[k]) + 1
                         /\ whole[p + Len(parts[k]) + 1] = separator
                         /\ p + Len(parts[k]) + 1 <= Len(whole)

(* Every part is in the joined text at its place.                            *)
LEMMA JoinedFinds ==
  ASSUME NEW parts \in Seq(Seq(Char)), parts # <<>>, NEW separator \in Char, NEW k \in 1..Len(parts),
         NEW whole, whole = Joined(parts, separator), NEW p, p = JoinedAt(parts, separator, k)
  PROVE  FoundAt(parts, separator, k, whole, p)
<1>1. PICK n \in Nat : n = Len(parts)
  OBVIOUS
<1> DEFINE J(i) == JoinedUpto(parts, separator, i)
           At(i) == JoinedAt(parts, separator, i)
           S == {i \in Nat : k + i <= n => Appears(J(k), J(k + i), 0)}
<1>2. \A i \in 1..n : J(i) \in Seq(Char) /\ At(i) \in Nat /\ Len(J(i)) = At(i) + Len(parts[i]) /\ Appears(parts[i], J(i), At(i))
  BY <1>1, JoinedChars
<1>3. \A i \in 2..n : At(i) = At(i - 1) + Len(parts[i - 1]) + 1 /\ Appears(J(i - 1), J(i), 0) /\ J(i)[At(i)] = separator
  BY <1>1, JoinedChars
<1>4. J(n) = whole
  BY <1>1, JoinGrows
<1>20. p = At(k)
  OBVIOUS
<1> HIDE DEF J, At
<1>5. \A i \in 1..n : parts[i] \in Seq(Char) /\ Len(parts[i]) \in Nat
  BY <1>1
<1>6. ASSUME NEW i \in 1..n, NEW j \in Nat, i + j <= n PROVE Appears(J(i), J(i + j), 0)
  <2> DEFINE U == {m \in Nat : i + m <= n => Appears(J(i), J(i + m), 0)}
  <2>1. 0 \in U
    <3>1. i + 0 = i
      OBVIOUS
    <3>2. PICK t \in Seq(Char) : t = J(i)
      BY <1>2
    <3>3. 0 + Len(t) <= Len(t) /\ \A m \in 1..Len(t) : 0 + m = m
      OBVIOUS
    <3>4. Appears(t, t, 0)
      BY <3>3 DEF Appears
    <3> QED
      BY <3>1, <3>2, <3>4
  <2>2. ASSUME NEW m \in Nat, m \in U PROVE m + 1 \in U
    <3> SUFFICES ASSUME i + (m + 1) <= n PROVE Appears(J(i), J(i + (m + 1)), 0)
      OBVIOUS
    <3>1. i + (m + 1) \in 2..n /\ (i + (m + 1)) - 1 = i + m /\ i + m \in 1..n /\ i + m <= n
      BY <1>1
    <3>2. Appears(J(i), J(i + m), 0) /\ Appears(J(i + m), J(i + (m + 1)), 0)
      BY <1>3, <2>2, <3>1
    <3>3. PICK a \in Seq(Char), b \in Seq(Char), c \in Seq(Char) :
            a = J(i) /\ b = J(i + m) /\ c = J(i + (m + 1))
      <4>1. i + (m + 1) \in 1..n
        BY <3>1
      <4> QED
        BY <1>2, <3>1, <4>1
    <3>4. Len(a) \in Nat /\ Len(b) \in Nat /\ Len(c) \in Nat /\ 0 + 0 = 0 /\ 0 \in Nat
      OBVIOUS
    <3>5. Appears(a, c, 0 + 0)
      BY <3>2, <3>3, <3>4, AppearsIn
    <3> QED
      BY <3>3, <3>4, <3>5
  <2>3. j \in U
    <3> HIDE DEF U
    <3> QED
      BY <2>1, <2>2, SetInduction
  <2> QED
    BY <1>6, <2>3
<1>7. whole \in Seq(Char)
  <2>1. n \in 1..n
    BY <1>1
  <2> QED
    BY <1>2, <1>4, <2>1
<1>8. ASSUME NEW i \in 1..n PROVE Appears(J(i), whole, 0)
  <2>1. PICK j \in Nat : i + j = n /\ i + j <= n
    <3>1. n - i \in Nat /\ i + (n - i) = n /\ n <= n
      OBVIOUS
    <3> QED
      BY <3>1
  <2>2. Appears(J(i), J(i + j), 0)
    BY <1>6, <2>1
  <2> QED
    BY <1>4, <2>1, <2>2
<1>9. Appears(parts[k], whole, p)
  <2>1. k \in 1..n
    BY <1>1
  <2>2. PICK a \in Seq(Char), b \in Seq(Char) : a = parts[k] /\ b = J(k)
    BY <1>2, <1>5, <2>1
  <2>3. Appears(a, b, p) /\ Appears(b, whole, 0) /\ p \in Nat
    BY <1>2, <1>8, <1>20, <2>1, <2>2
  <2>4. Len(a) \in Nat /\ Len(b) \in Nat /\ Len(whole) \in Nat /\ 0 + p = p /\ 0 \in Nat
    BY <1>7, <2>3
  <2>5. Appears(a, whole, 0 + p)
    BY <2>3, <2>4, AppearsIn
  <2> QED
    BY <2>2, <2>4, <2>5
<1>10. k = n => p + Len(parts[k]) = Len(whole)
  <2>1. k \in 1..n
    BY <1>1
  <2> QED
    BY <1>2, <1>4, <1>20, <2>1
<1>11. ASSUME k # n
       PROVE  /\ At(k + 1) = p + Len(parts[k]) + 1 /\ p + Len(parts[k]) + 1 <= Len(whole)
              /\ whole[p + Len(parts[k]) + 1] = separator
  <2>1. k + 1 \in 2..n /\ (k + 1) - 1 = k /\ k + 1 \in 1..n
    BY <1>1, <1>11
  <2>9. p = At(k)
    BY <1>20
  <2>2. At(k + 1) = p + Len(parts[k]) + 1 /\ J(k + 1)[At(k + 1)] = separator
    BY <1>3, <1>20, <2>1
  <2>3. PICK b \in Seq(Char), m \in Nat : b = J(k + 1) /\ m = At(k + 1)
    BY <1>2, <2>1
  <2>4. Len(b) = m + Len(parts[k + 1]) /\ Len(parts[k + 1]) \in Nat /\ m >= 1
    <3>1. p \in Nat /\ Len(parts[k]) \in Nat
      BY <1>2, <1>5, <2>9, <1>1
    <3>2. Len(J(k + 1)) = At(k + 1) + Len(parts[k + 1]) /\ Len(parts[k + 1]) \in Nat
      BY <1>2, <1>5, <2>1
    <3> QED
      BY <2>2, <2>3, <3>1, <3>2
  <2>5. m \in 1..Len(b) /\ 0 + m = m /\ Len(b) \in Nat
    BY <2>4
  <2>6. Appears(b, whole, 0)
    BY <1>8, <2>1, <2>3
  <2>7. whole[0 + m] = b[m] /\ 0 + Len(b) <= Len(whole)
    BY <2>5, <2>6 DEF Appears
  <2>8. whole[m] = separator /\ m <= Len(whole)
    BY <1>7, <2>2, <2>3, <2>5, <2>7
  <2> QED
    BY <2>2, <2>3, <2>8
<1>12. p \in Nat
  BY <1>1, <1>2, <1>20
<1> QED
  BY <1>1, <1>7, <1>9, <1>10, <1>11, <1>12 DEF At, FoundAt

CellTexts(row) == [c \in DOMAIN row |-> Raw(row[c])]
RowTexts(lines) == [l \in DOMAIN lines |-> RenderRow(lines[l])]

(* A cell is text,                                                           *)
LEMMA RawChars ==
  ASSUME NEW cell \in Cells
  PROVE  Raw(cell) \in Seq(Char)
BY RawPlain, RawQuoted

(* and so are the characters between cells.                                  *)
LEMMA NamedChars == Comma \in Char /\ NewLine \in Char /\ EndOfFile \in Char
BY DEF Char

(* A row is its cells joined by commas.                                      *)
LEMMA RowIs ==
  ASSUME NEW row \in Seq(Cells), row # <<>>
  PROVE  /\ CellTexts(row) \in Seq(Seq(Char)) /\ CellTexts(row) # <<>> /\ Len(CellTexts(row)) = Len(row)
         /\ \A c \in 1..Len(row) : CellTexts(row)[c] = Raw(row[c])
         /\ RenderRow(row) = Joined(CellTexts(row), Comma) /\ RenderRow(row) \in Seq(Char)
<1>1. PICK n \in Nat : n = Len(row) /\ n > 0 /\ DOMAIN row = 1..n
  <2>1. Len(row) # 0
    BY EmptySeq
  <2> QED
    BY <2>1
<1>2. \A c \in 1..n : row[c] \in Cells
  BY <1>1
<1>3. PICK parts : parts = CellTexts(row)
  OBVIOUS
<1>4. parts = [c \in 1..n |-> Raw(row[c])] /\ \A c \in 1..n : Raw(row[c]) \in Seq(Char)
  BY <1>1, <1>2, <1>3, RawChars DEF CellTexts
<1>5. parts \in Seq(Seq(Char)) /\ Len(parts) = n /\ \A c \in 1..n : parts[c] = Raw(row[c])
  BY <1>4
<1>6. parts # <<>>
  BY <1>1, <1>5
<1>7. RenderRow(row) = Joined(parts, Comma)
  BY <1>3, Zenon DEF RenderRow, CellTexts
<1>8. Joined(parts, Comma) \in Seq(Char)
  <2>1. 1 \in 1..Len(parts)
    BY <1>1, <1>5
  <2>2. PICK whole, p : whole = Joined(parts, Comma) /\ p = JoinedAt(parts, Comma, 1)
    OBVIOUS
  <2> QED
    BY <1>5, <1>6, <2>1, <2>2, NamedChars, JoinedFinds DEF FoundAt
<1> QED
  BY <1>1, <1>3, <1>5, <1>6, <1>7, <1>8

(* The lines of a table are rows of cells.                                   *)
LEMMA LinesAre ==
  ASSUME NEW lines \in Lines
  PROVE  /\ lines \in Seq(Seq(Cells)) /\ lines # <<>> /\ Len(lines) \in Nat /\ Len(lines) > 0
         /\ DOMAIN lines = 1..Len(lines)
         /\ \A l \in 1..Len(lines) : lines[l] \in Seq(Cells) /\ lines[l] # <<>>
<1>1. PICK R : R = Seq(Seq(Cells) \ {<<>>}) /\ lines \in R /\ lines # <<>>
  BY DEF Lines
<1>2. Len(lines) \in Nat /\ Len(lines) # 0 /\ DOMAIN lines = 1..Len(lines)
  BY <1>1, EmptySeq, LenProperties
<1>3. \A l \in 1..Len(lines) : lines[l] \in Seq(Cells) \ {<<>>}
  BY <1>1, ElementOfSeq
<1>4. lines \in Seq(Seq(Cells))
  BY <1>1, SeqMonotonic
<1> QED
  BY <1>1, <1>2, <1>3, <1>4

(* A table is its rows joined by ends of line.                               *)
LEMMA TableIs ==
  ASSUME NEW lines \in Lines
  PROVE  /\ RowTexts(lines) \in Seq(Seq(Char)) /\ RowTexts(lines) # <<>> /\ Len(RowTexts(lines)) = Len(lines)
         /\ \A l \in 1..Len(lines) : RowTexts(lines)[l] = RenderRow(lines[l])
         /\ Joined(RowTexts(lines), NewLine) \in Seq(Char)
<1>1. PICK n \in Nat : n = Len(lines) /\ n > 0 /\ DOMAIN lines = 1..n
  BY LinesAre
<1>2. \A l \in 1..n : lines[l] \in Seq(Cells) /\ lines[l] # <<>>
  BY <1>1, LinesAre
<1>3. PICK parts : parts = RowTexts(lines)
  OBVIOUS
<1>4. parts = [l \in 1..n |-> RenderRow(lines[l])] /\ \A l \in 1..n : RenderRow(lines[l]) \in Seq(Char)
  BY <1>1, <1>2, <1>3, RowIs DEF RowTexts
<1>5. parts \in Seq(Seq(Char)) /\ Len(parts) = n /\ \A l \in 1..n : parts[l] = RenderRow(lines[l])
  BY <1>4
<1>6. parts # <<>>
  BY <1>1, <1>5
<1>8. Joined(parts, NewLine) \in Seq(Char)
  <2>1. 1 \in 1..Len(parts)
    BY <1>1, <1>5
  <2>2. PICK whole, p : whole = Joined(parts, NewLine) /\ p = JoinedAt(parts, NewLine, 1)
    OBVIOUS
  <2> QED
    BY <1>5, <1>6, <2>1, <2>2, NamedChars, JoinedFinds DEF FoundAt
<1> QED
  BY <1>1, <1>3, <1>5, <1>6, <1>8

(* Where the cells of a table are in its file, and what comes after each.    *)
CellAt(lines, l, c) ==
    JoinedAt(RowTexts(lines), NewLine, l) + JoinedAt(CellTexts(lines[l]), Comma, c)

Delimiter(lines, eol, l, c) ==
    IF c # Len(lines[l]) THEN Comma
    ELSE IF l # Len(lines) \/ eol THEN NewLine ELSE EndOfFile

FileText(lines, eol) == Append(Render(lines, eol), EndOfFile)

(* The reference offset of a line is where its first cell is.                *)
LEMMA LineOffsetAt ==
  ASSUME NEW lines \in Lines, NEW l \in 1..Len(lines)
  PROVE  LineOffset(lines, l) = CellAt(lines, l, 1) /\ CellAt(lines, l, 1) = JoinedAt(RowTexts(lines), NewLine, l)
         /\ LineOffset(lines, l) \in Nat
<1>1. PICK n \in Nat : n = Len(lines) /\ n > 0 /\ DOMAIN lines = 1..n
  BY LinesAre
<1>2. PICK rows \in Seq(Seq(Char)) : rows = RowTexts(lines) /\ rows # <<>> /\ Len(rows) = n
  BY <1>1, TableIs
<1>3. PICK at : at = JoinedAt(rows, NewLine, l)
  OBVIOUS
<1>4. at \in Nat
  BY <1>1, <1>2, <1>3, JoinedChars, NamedChars
<1>5. JoinedAt(CellTexts(lines[l]), Comma, 1) = 0
  BY DEF JoinedAt
<1>6. CellAt(lines, l, 1) = at
  BY <1>2, <1>3, <1>4, <1>5 DEF CellAt
<1>7. CASE l = 1
  BY <1>3, <1>4, <1>6, <1>7, <1>2 DEF LineOffset, JoinedAt
<1>8. CASE l # 1
  <2>1. PICK m \in Nat : m = l - 1 /\ m \in 1..n
    BY <1>1, <1>8
  <2>2. PICK some : some = SubSeq(lines, 1, m)
    OBVIOUS
  <2>3. some \in Seq(Seq(Cells)) /\ Len(some) = m /\ DOMAIN some = 1..m /\ \A i \in 1..m : some[i] = lines[i]
    <3>1. lines \in Seq(Seq(Cells))
      BY LinesAre
    <3>2. some \in Seq(Seq(Cells)) /\ Len(some) = m /\ \A i \in 1..m : some[i] = lines[i]
      BY <1>1, <2>1, <2>2, <3>1
    <3> QED
      BY <3>2, LenProperties
  <2>4. PICK texts : texts = [i \in DOMAIN some |-> RenderRow(some[i])]
    OBVIOUS
  <2>5. PICK part : part = SubSeq(rows, 1, m)
    OBVIOUS
  <2>6. part \in Seq(Seq(Char)) /\ Len(part) = m /\ \A i \in 1..m : part[i] = rows[i]
    BY <1>2, <2>1, <2>5
  <2>7. \A i \in 1..m : rows[i] = RenderRow(some[i]) /\ RenderRow(some[i]) \in Seq(Char)
    <3>1. \A i \in 1..m : i \in 1..n
      BY <2>1
    <3>2. \A i \in 1..n : rows[i] = RenderRow(lines[i]) /\ rows[i] \in Seq(Char)
      BY <1>1, <1>2, TableIs
    <3> QED
      BY <2>3, <3>1, <3>2
  <2>8. texts \in Seq(Seq(Char)) /\ Len(texts) = m /\ \A i \in 1..m : texts[i] = part[i]
    <3>1. texts = [i \in 1..m |-> RenderRow(some[i])]
      BY <2>3, <2>4
    <3>2. texts \in Seq(Seq(Char)) /\ Len(texts) = m /\ \A i \in 1..m : texts[i] = RenderRow(some[i])
      BY <2>1, <2>7, <3>1
    <3> QED
      BY <2>6, <2>7, <3>2
  <2>9. texts = part
    BY <2>6, <2>8, SeqEqual
  <2>10. Render(some, TRUE) = Joined(texts, NewLine) \o <<NewLine>>
    BY <2>4, Zenon DEF Render
  <2>11. Joined(texts, NewLine) = JoinedUpto(rows, NewLine, m)
    BY <2>5, <2>9 DEF JoinedUpto
  <2>12. JoinedUpto(rows, NewLine, m) \in Seq(Char)
    BY <1>2, <2>1, JoinedChars, NamedChars
  <2>13. Len(Render(some, TRUE)) = Len(JoinedUpto(rows, NewLine, m)) + 1
    <3>1. PICK s, q : s \in Seq(Char) /\ s = JoinedUpto(rows, NewLine, m) /\ q = <<NewLine>>
      BY <2>12
    <3>2. q \in Seq(Char) /\ Len(q) = 1
      BY <3>1, NamedChars
    <3>4. PICK r : r = s \o q
      OBVIOUS
    <3>5. Len(r) = Len(s) + Len(q)
      BY <3>1, <3>2, <3>4, ConcatChars
    <3>3. Len(s \o q) = Len(s) + 1
      BY <3>2, <3>4, <3>5
    <3> QED
      BY <2>10, <2>11, <3>1, <3>3
  <2>14. LineOffset(lines, l) = Len(Render(some, TRUE))
    BY <1>8, <2>1, <2>2 DEF LineOffset
  <2>15. at = Len(JoinedUpto(rows, NewLine, m)) + 1
    BY <1>3, <1>8, <2>1 DEF JoinedAt
  <2> QED
    BY <1>2, <1>3, <1>4, <1>6, <2>13, <2>14, <2>15
<1> QED
  BY <1>7, <1>8

(* The file of a table: its lines, an end of line perhaps, the end of file.  *)
LEMMA FileIs ==
  ASSUME NEW lines \in Lines, NEW eol \in BOOLEAN, NEW text, text = FileText(lines, eol),
         NEW body, body = Joined(RowTexts(lines), NewLine)
  PROVE  /\ text \in Seq(Char) /\ body \in Seq(Char) /\ Render(lines, eol) \in Seq(Char)
         /\ Appears(body, text, 0) /\ Len(text) = Len(body) + IF eol THEN 2 ELSE 1
         /\ Len(text) = Len(Render(lines, eol)) + 1
         /\ \A i \in 1..Len(Render(lines, eol)) : text[i] = Render(lines, eol)[i]
         /\ eol => text[Len(body) + 1] = NewLine
         /\ text[Len(text)] = EndOfFile
<1>1. body \in Seq(Char)
  BY TableIs
<1>2. PICK end \in Seq(Char) : /\ end = IF eol THEN <<NewLine>> ELSE <<>>
                               /\ Len(end) = IF eol THEN 1 ELSE 0
                               /\ eol => end[1] = NewLine
  <2>1. PICK q, nil : q = <<NewLine>> /\ nil = <<>>
    OBVIOUS
  <2>2. q \in Seq(Char) /\ Len(q) = 1 /\ q[1] = NewLine
    BY <2>1, NamedChars
  <2>3. nil \in Seq(Char) /\ Len(nil) = 0
    BY <2>1, EmptySeq
  <2>4. CASE eol
    <3>1. q = IF eol THEN <<NewLine>> ELSE <<>>
      BY <2>1, <2>4
    <3> QED
      BY <2>2, <2>4, <3>1
  <2>5. CASE ~eol
    <3>1. nil = IF eol THEN <<NewLine>> ELSE <<>>
      BY <2>1, <2>5
    <3>2. Len(nil) = IF eol THEN 1 ELSE 0
      BY <2>3, <2>5
    <3>3. nil \in Seq(Char) /\ eol => nil[1] = NewLine
      BY <2>5
    <3> QED
      BY <2>3, <2>5, <3>1, <3>2, <3>3, Zenon
  <2> QED
    BY <2>4, <2>5
<1>3. PICK r : r = body \o end
  OBVIOUS
<1>4. Render(lines, eol) = r
  BY <1>2, <1>3, Zenon DEF Render, RowTexts
<1>5. /\ r \in Seq(Char) /\ Len(body) \in Nat /\ Len(end) \in Nat /\ Len(r) = Len(body) + Len(end)
      /\ \A i \in 1..Len(body) : r[i] = body[i]
      /\ \A i \in 1..Len(end) : r[Len(body) + i] = end[i]
  BY <1>1, <1>3, ConcatChars
<1>6. text = Append(r, EndOfFile)
  BY <1>4 DEF FileText
<1>7. PICK f \in Char : f = EndOfFile
  BY NamedChars
<1>8. /\ text \in Seq(Char) /\ Len(text) = Len(r) + 1 /\ text[Len(r) + 1] = f
      /\ \A i \in 1..Len(r) : text[i] = r[i]
  <2>1. r \in Seq(Char) /\ text = Append(r, f)
    BY <1>5, <1>6, <1>7
  <2> QED
    BY <2>1
<1>9. Len(r) = Len(body) + IF eol THEN 1 ELSE 0
  BY <1>2, <1>5
<1>10. eol => text[Len(body) + 1] = NewLine
  <2> SUFFICES ASSUME eol PROVE text[Len(body) + 1] = NewLine
    OBVIOUS
  <2>1. Len(end) = 1 /\ end[1] = NewLine
    BY <1>2
  <2>2. r[Len(body) + 1] = NewLine
    BY <1>5, <2>1
  <2>3. Len(body) + 1 \in 1..Len(r)
    BY <1>5, <2>1
  <2> QED
    BY <1>8, <2>2, <2>3
<1>11. Appears(body, text, 0)
  <2>1. 0 + Len(body) <= Len(text) /\ \A i \in 1..Len(body) : 0 + i = i /\ i \in 1..Len(r)
    BY <1>5, <1>8, <1>9
  <2> QED
    BY <1>5, <1>8, <2>1 DEF Appears
<1>12. Len(text) = Len(body) + IF eol THEN 2 ELSE 1
  BY <1>5, <1>8, <1>9
<1> QED
  BY <1>1, <1>4, <1>5, <1>7, <1>8, <1>10, <1>11, <1>12

Placed(text, lines, eol, l, c) ==
    LET p == CellAt(lines, l, c)
        n == Len(Raw(lines[l][c]))
    IN /\ p \in Nat /\ n \in Nat /\ p + n + 1 <= Len(text) /\ Appears(Raw(lines[l][c]), text, p)
       /\ text[p + n + 1] = Delimiter(lines, eol, l, c)
       /\ c # Len(lines[l]) => CellAt(lines, l, c + 1) = p + n + 1
       /\ c = Len(lines[l]) /\ l # Len(lines) => CellAt(lines, l + 1, 1) = p + n + 1
       /\ c = Len(lines[l]) /\ l = Len(lines) => p + n + 1 = Len(text) - IF eol THEN 1 ELSE 0

(* Every cell of a table is in its file at its place.                        *)
LEMMA Layout ==
  ASSUME NEW lines \in Lines, NEW eol \in BOOLEAN, NEW l \in 1..Len(lines), NEW c \in 1..Len(lines[l]),
         NEW text, text = FileText(lines, eol)
  PROVE  Placed(text, lines, eol, l, c)
<1>1. PICK rows \in Seq(Seq(Char)) : rows = RowTexts(lines) /\ rows # <<>> /\ Len(rows) = Len(lines)
  BY TableIs
<1>2. PICK row : row = lines[l] /\ row \in Seq(Cells) /\ row # <<>>
  BY LinesAre
<1>3. PICK cells \in Seq(Seq(Char)) : cells = CellTexts(row) /\ cells # <<>> /\ Len(cells) = Len(row)
  BY <1>2, RowIs
<1>4. PICK line : line = rows[l] /\ line = RenderRow(row) /\ line = Joined(cells, Comma)
  BY <1>1, <1>2, <1>3, TableIs, RowIs
<1>5. PICK raw : raw = cells[c] /\ raw = Raw(row[c])
  BY <1>2, <1>3, RowIs
<1>6. PICK body : body = Joined(rows, NewLine)
  OBVIOUS
<1>7. PICK a \in Nat, b \in Nat : a = JoinedAt(rows, NewLine, l) /\ b = JoinedAt(cells, Comma, c)
  <2>1. l \in 1..Len(rows) /\ c \in 1..Len(cells)
    BY <1>1, <1>2, <1>3
  <2>2. JoinedAt(rows, NewLine, l) \in Nat
    BY <1>1, <2>1, JoinedChars, NamedChars
  <2>3. JoinedAt(cells, Comma, c) \in Nat
    BY <1>3, <2>1, JoinedChars, NamedChars
  <2> QED
    BY <2>2, <2>3
<1>22. PICK p \in Nat : p = a + b
  OBVIOUS
<1>8. CellAt(lines, l, c) = p
  BY <1>1, <1>2, <1>3, <1>7, <1>22 DEF CellAt
<1>9. FoundAt(rows, NewLine, l, body, a) /\ rows[l] = line
  <2>1. l \in 1..Len(rows)
    BY <1>1
  <2>2. NewLine \in Char
    BY NamedChars
  <2>3. FoundAt(rows, NewLine, l, body, a)
    BY <1>1, <1>6, <1>7, <2>1, <2>2, JoinedFinds
  <2> QED
    BY <1>4, <2>3
<1>10. FoundAt(cells, Comma, c, line, b) /\ cells[c] = raw
  <2>1. c \in 1..Len(cells)
    BY <1>2, <1>3
  <2>2. Comma \in Char
    BY NamedChars
  <2>3. FoundAt(cells, Comma, c, line, b)
    BY <1>3, <1>4, <1>7, <2>1, <2>2, JoinedFinds
  <2> QED
    BY <1>5, <2>3
<1>11. PICK n \in Nat : n = Len(raw)
  <2>1. raw \in Seq(Char)
    <3>1. c \in 1..Len(cells)
      BY <1>2, <1>3
    <3>2. cells[c] \in Seq(Char)
      BY <3>1, ElementOfSeq
    <3> QED
      BY <1>5, <3>2
  <2> QED
    BY <2>1
<1>12. /\ text \in Seq(Char) /\ Appears(body, text, 0) /\ Len(text) = Len(body) + IF eol THEN 2 ELSE 1
       /\ eol => text[Len(body) + 1] = NewLine
       /\ text[Len(text)] = EndOfFile
  BY <1>1, <1>6, FileIs
<1>13. /\ Len(text) \in Nat /\ Len(body) \in Nat /\ Len(line) \in Nat /\ p \in Nat
  <2>1. body \in Seq(Char) /\ a \in Nat /\ line \in Seq(Char) /\ b \in Nat
    BY <1>9, <1>10 DEF FoundAt
  <2>2. Len(body) \in Nat /\ Len(line) \in Nat /\ Len(text) \in Nat
    BY <1>12, <2>1, LenProperties
  <2>3. p \in Nat
    BY <1>7, <2>1
  <2> QED
    BY <2>2, <2>3
<1>21. a \in Nat /\ b \in Nat /\ Appears(line, body, a) /\ Appears(raw, line, b)
  BY <1>9, <1>10 DEF FoundAt
<1>14. Appears(line, text, a)
  <2>1. 0 + a = a /\ 0 \in Nat
    BY <1>21
  <2>2. Appears(line, text, 0 + a)
    BY <1>12, <1>13, <1>21, <2>1, AppearsIn
  <2> QED
    BY <2>1, <2>2
<1>15. Appears(raw, text, p)
  BY <1>22, <1>11, <1>13, <1>14, <1>21, AppearsIn
<1>16. ASSUME c # Len(row)
       PROVE  /\ p + n + 1 <= Len(text) /\ text[p + n + 1] = Comma
              /\ CellAt(lines, l, c + 1) = p + n + 1
  <2>1. JoinedAt(cells, Comma, c + 1) = b + n + 1 /\ line[b + n + 1] = Comma /\ b + n + 1 <= Len(line)
    BY <1>3, <1>10, <1>11, <1>16 DEF FoundAt
  <2>2. PICK i \in Nat : i = b + n + 1 /\ i \in 1..Len(line)
    BY <1>21, <1>13, <2>1
  <2>3. text[a + i] = line[i] /\ a + Len(line) <= Len(text)
    BY <1>14, <2>2 DEF Appears
  <2>4. a + i = p + n + 1
    BY <1>22, <1>13, <1>21, <2>2
  <2>5. CellAt(lines, l, c + 1) = a + JoinedAt(cells, Comma, c + 1)
    BY <1>1, <1>2, <1>3, <1>7 DEF CellAt
  <2> QED
    <3>1. CellAt(lines, l, c + 1) = a + i
      BY <2>1, <2>2, <2>5
    <3>2. text[a + i] = Comma /\ a + i <= Len(text)
      BY <1>13, <1>21, <2>1, <2>2, <2>3
    <3> QED
      BY <2>4, <3>1, <3>2
<1>17. ASSUME c = Len(row), l # Len(lines)
       PROVE  /\ p + n + 1 <= Len(text) /\ text[p + n + 1] = NewLine
              /\ CellAt(lines, l + 1, 1) = p + n + 1
  <2>1. a + Len(line) = p + n
    <3>1. b + n = Len(line)
      BY <1>3, <1>10, <1>11, <1>17 DEF FoundAt
    <3>2. PICK w \in Nat : w = Len(line)
      BY <1>13
    <3>3. b + n = w
      BY <3>1, <3>2
    <3>4. a + w = p + n
      BY <1>22, <3>3
    <3> QED
      BY <3>1, <3>2, <3>4
  <2>2. PICK i \in Nat : i = p + n + 1
    BY <1>13
  <2>3. JoinedAt(rows, NewLine, l + 1) = i /\ body[i] = NewLine /\ i <= Len(body)
    BY <1>1, <1>9, <1>17, <2>1, <2>2 DEF FoundAt
  <2>4. i \in 1..Len(body)
    BY <1>13, <2>2, <2>3
  <2>5. text[0 + i] = body[i] /\ 0 + Len(body) <= Len(text) /\ 0 + i = i
    BY <1>12, <2>4 DEF Appears
  <2>6. CellAt(lines, l + 1, 1) = i
    <3>1. l + 1 \in 1..Len(lines)
      <4>1. Len(lines) \in Nat
        BY LinesAre
      <4> QED
        BY <1>17, <4>1
    <3> QED
      BY <1>1, <2>3, <3>1, LineOffsetAt
  <2> QED
    BY <1>13, <2>2, <2>3, <2>5, <2>6
<1>18. ASSUME c = Len(row), l = Len(lines)
       PROVE  /\ p + n + 1 = Len(text) - (IF eol THEN 1 ELSE 0)
              /\ text[p + n + 1] = IF eol THEN NewLine ELSE EndOfFile
  <2>1. p + n = Len(body)
    <3>1. b + n = Len(line) /\ a + Len(line) = Len(body)
      BY <1>1, <1>3, <1>9, <1>10, <1>11, <1>18 DEF FoundAt
    <3>2. PICK w \in Nat : w = Len(line)
      BY <1>13
    <3>3. b + n = w
      BY <3>1, <3>2
    <3>4. a + w = p + n
      BY <1>22, <3>3
    <3> QED
      BY <3>1, <3>2, <3>4
  <2>2. CASE eol
    <3>1. Len(text) = Len(body) + 2 /\ text[Len(body) + 1] = NewLine
      BY <1>12, <2>2
    <3>2. p + n + 1 = Len(body) + 1
      BY <2>1
    <3>3. p + n + 1 = Len(text) - 1
      BY <1>13, <3>1, <3>2
    <3>4. text[p + n + 1] = NewLine
      BY <3>1, <3>2
    <3> QED
      BY <2>2, <3>3, <3>4
  <2>3. CASE ~eol
    <3>1. Len(text) = Len(body) + 1 /\ text[Len(text)] = EndOfFile
      BY <1>12, <2>3
    <3>2. p + n + 1 = Len(body) + 1
      BY <2>1
    <3>3. p + n + 1 = Len(text)
      BY <1>13, <3>1, <3>2
    <3> QED
      BY <1>13, <2>3, <3>1, <3>3
  <2> QED
    BY <2>2, <2>3
<1>19. p + n + 1 <= Len(text)
  BY <1>13, <1>16, <1>17, <1>18
<1>20. text[p + n + 1] = Delimiter(lines, eol, l, c)
  BY <1>2, <1>16, <1>17, <1>18 DEF Delimiter
<1> QED
  BY <1>2, <1>5, <1>8, <1>11, <1>13, <1>15, <1>16, <1>17, <1>18, <1>19, <1>20 DEF Placed

-----------------------------------------------------------------------------
(* A token of the initial scan.                                              *)

(* The results of a scan, and what becomes of them when a tokenizer is u.    *)
ScanRecord(r) ==
    r = [interval |-> r.interval, tk |-> r.tk, phase |-> r.phase, row |-> r.row, column |-> r.column,
         types |-> r.types, names |-> r.names, offsets |-> r.offsets, rows |-> r.rows, erange |-> r.erange]

Fed(r, u) == [r EXCEPT !.tk = u]

(* A tokenizer step changes nothing else of the scan,                        *)
LEMMA FedIs ==
  ASSUME NEW r, ScanRecord(r), NEW u
  PROVE  /\ ScanRecord(Fed(r, u)) /\ Fed(r, u).tk = u /\ Fed(r, r.tk) = r
         /\ \A v : Fed(Fed(r, u), v) = Fed(r, v)
         /\ Fed(r, u).phase = r.phase /\ Fed(r, u).row = r.row /\ Fed(r, u).column = r.column
         /\ Fed(r, u).types = r.types /\ Fed(r, u).offsets = r.offsets /\ Fed(r, u).erange = r.erange
         /\ Fed(r, u).interval = r.interval /\ Fed(r, u).rows = r.rows /\ Fed(r, u).names = r.names
<1>1. \A w : Fed(r, w) =
        [interval |-> r.interval, tk |-> w, phase |-> r.phase, row |-> r.row, column |-> r.column,
         types |-> r.types, names |-> r.names, offsets |-> r.offsets, rows |-> r.rows, erange |-> r.erange]
  BY DEF ScanRecord, Fed
<1>2. /\ ScanRecord(Fed(r, u)) /\ Fed(r, u).tk = u
      /\ Fed(r, u).phase = r.phase /\ Fed(r, u).row = r.row /\ Fed(r, u).column = r.column
      /\ Fed(r, u).types = r.types /\ Fed(r, u).offsets = r.offsets /\ Fed(r, u).erange = r.erange
      /\ Fed(r, u).interval = r.interval /\ Fed(r, u).rows = r.rows /\ Fed(r, u).names = r.names
  BY <1>1 DEF ScanRecord
<1>3. Fed(r, r.tk) = r
  BY <1>1 DEF ScanRecord
<1>4. \A v : Fed(Fed(r, u), v) = Fed(r, v)
  <2> SUFFICES ASSUME NEW v PROVE Fed(Fed(r, u), v) = Fed(r, v)
    OBVIOUS
  <2>1. PICK f : f = Fed(r, u)
    OBVIOUS
  <2>2. f = [interval |-> r.interval, tk |-> u, phase |-> r.phase, row |-> r.row, column |-> r.column,
             types |-> r.types, names |-> r.names, offsets |-> r.offsets, rows |-> r.rows, erange |-> r.erange]
    BY <1>1, <2>1
  <2>3. [f EXCEPT !.tk = v] =
            [interval |-> r.interval, tk |-> v, phase |-> r.phase, row |-> r.row, column |-> r.column,
             types |-> r.types, names |-> r.names, offsets |-> r.offsets, rows |-> r.rows, erange |-> r.erange]
    BY <2>2
  <2>4. Fed(f, v) = [f EXCEPT !.tk = v]
    BY DEF Fed
  <2> QED
    BY <1>1, <2>1, <2>3, <2>4
<1> QED
  BY <1>2, <1>3, <1>4

(* A token that has ended.                                                   *)
AfterToken(fed) ==
    IF fed.tk.result \in {"PARSE_ERROR", "ERROR"} THEN [fed EXCEPT !.phase = "bad"]
    ELSE IF fed.phase = "header" THEN HeaderToken(fed) ELSE RowToken(fed)

Skipping(r) == r.phase = "rows" /\ IsString(r.types, r.column)

(* and is all a turn does before the end of a token.                         *)
LEMMA TurnFeeds ==
  ASSUME NEW r, ScanRecord(r), r.phase \in {"header", "rows"}, NEW c,
         NEW u, u = Feed(r.tk, c, Skipping(r))
  PROVE  ScanTurn(r, c) = IF u.result = "MORE" THEN Fed(r, u) ELSE AfterToken(Fed(r, u))
<1>1. PICK fed : fed = Fed(r, u)
  OBVIOUS
<1>2. fed = [r EXCEPT !.tk = Feed(@, c, r.phase = "rows" /\ IsString(r.types, r.column))]
  BY <1>1 DEF Fed, Skipping
<1>3. ScanTurn(r, c) = IF r.phase \notin {"header", "rows"} THEN r
                       ELSE IF fed.tk.result = "MORE" THEN fed
                       ELSE IF fed.tk.result \in {"PARSE_ERROR", "ERROR"} THEN [fed EXCEPT !.phase = "bad"]
                       ELSE IF r.phase = "header" THEN HeaderToken(fed)
                       ELSE RowToken(fed)
  BY <1>2, Zenon DEF ScanTurn
<1>4. fed.tk = u /\ fed.phase = r.phase
  BY <1>1, FedIs
<1>5. AfterToken(fed) = IF u.result \in {"PARSE_ERROR", "ERROR"} THEN [fed EXCEPT !.phase = "bad"]
                        ELSE IF r.phase = "header" THEN HeaderToken(fed) ELSE RowToken(fed)
  BY <1>4 DEF AfterToken
<1>6. r.phase \notin {"header", "rows"} <=> FALSE
  OBVIOUS
<1>7. ScanTurn(r, c) = IF u.result = "MORE" THEN fed
                       ELSE IF u.result \in {"PARSE_ERROR", "ERROR"} THEN [fed EXCEPT !.phase = "bad"]
                       ELSE IF r.phase = "header" THEN HeaderToken(fed)
                       ELSE RowToken(fed)
  BY <1>3, <1>4, <1>6, Zenon
<1> QED
  BY <1>1, <1>5, <1>7, Zenon

(* The turns of the scan of a file, and the one after a cell.                *)
Turns(x, text) == \A k \in 1..Len(text) : x[k] = ScanTurn(x[k - 1], text[k])

Fresh(t) == Collects(t) /\ t.state = "field" /\ t.buf = <<>>

(* The turns over the characters of a cell end with its token.               *)
LEMMA ScanCell ==
  ASSUME NEW text, Len(text) \in Nat, NEW x, Turns(x, text),
         NEW cell \in Cells, NEW p \in Nat, NEW n \in Nat, n = Len(Raw(cell)), p + n + 1 <= Len(text),
         Appears(Raw(cell), text, p), NEW c \in {Comma, NewLine, EndOfFile}, text[p + n + 1] = c,
         NEW r, r = x[p], ScanRecord(r), r.phase \in {"header", "rows"}, Fresh(r.tk)
  PROVE  \E u : Ended(u, r.tk, cell, c, Skipping(r)) /\ x[p + n + 1] = AfterToken(Fed(r, u))
<1>1. PICK raw : raw = Raw(cell)
  OBVIOUS
<1>2. PICK skip \in BOOLEAN : skip = Skipping(r)
  BY DEF Skipping
<1>3. PICK T : /\ Runs(T, r.tk, raw, skip) /\ \A j \in 1..n : T[j].result = "MORE"
               /\ Ended(Feed(T[n], c, skip), r.tk, cell, c, skip)
  BY <1>1, TokenRuns DEF Fresh
<1>4. T[0] = r.tk /\ \A j \in 1..n : T[j] = Feed(T[j - 1], raw[j], skip)
  BY <1>1, <1>3 DEF Runs
<1>5. \A j \in 1..n : text[p + j] = raw[j]
  BY <1>1 DEF Appears
<1> DEFINE S == {j \in Nat : j <= n => x[p + j] = Fed(r, T[j])}
<1>6. 0 \in S
  <2>1. p + 0 = p
    OBVIOUS
  <2> QED
    BY <1>4, <2>1, FedIs
<1>20. ASSUME NEW v, NEW d
       PROVE  ScanTurn(Fed(r, v), d) = IF Feed(v, d, skip).result = "MORE" THEN Fed(r, Feed(v, d, skip))
                                       ELSE AfterToken(Fed(r, Feed(v, d, skip)))
  <2>1. PICK f, w : f = Fed(r, v) /\ w = Feed(v, d, skip)
    OBVIOUS
  <2>2. ScanRecord(f) /\ f.tk = v /\ f.phase = r.phase /\ f.types = r.types /\ f.column = r.column
    BY <2>1, FedIs
  <2>3. Skipping(f) <=> Skipping(r)
    BY <2>2 DEF Skipping
  <2>4. w = Feed(f.tk, d, Skipping(f))
    <3>1. Skipping(f) = skip
      BY <1>2, <2>2 DEF Skipping
    <3> QED
      BY <2>1, <2>2, <3>1
  <2>5. ScanTurn(f, d) = IF w.result = "MORE" THEN Fed(f, w) ELSE AfterToken(Fed(f, w))
    BY <2>2, <2>4, TurnFeeds
  <2>6. Fed(f, w) = Fed(r, w)
    BY <2>1, FedIs
  <2> QED
    BY <2>1, <2>5, <2>6
<1>7. ASSUME NEW j \in Nat, j \in S PROVE j + 1 \in S
  <2> SUFFICES ASSUME j + 1 <= n PROVE x[p + (j + 1)] = Fed(r, T[j + 1])
    OBVIOUS
  <2>1. j + 1 \in 1..n /\ (j + 1) - 1 = j /\ p + (j + 1) \in 1..Len(text) /\ (p + (j + 1)) - 1 = p + j
    OBVIOUS
  <2>2. x[p + j] = Fed(r, T[j])
    BY <1>7, <2>1
  <2>3. x[p + (j + 1)] = ScanTurn(x[p + j], raw[j + 1])
    BY <1>5, <2>1 DEF Turns
  <2>4. T[j + 1] = Feed(T[j], raw[j + 1], skip) /\ T[j + 1].result = "MORE"
    BY <1>3, <1>4, <2>1
  <2>5. PICK v, d : v = T[j] /\ d = raw[j + 1]
    OBVIOUS
  <2>6. ScanTurn(Fed(r, v), d) = Fed(r, T[j + 1])
    BY <1>20, <2>4, <2>5
  <2> QED
    BY <2>2, <2>3, <2>5, <2>6
<1>8. x[p + n] = Fed(r, T[n])
  <2>1. n \in S
    <3> HIDE DEF S
    <3> QED
      BY <1>6, <1>7, SetInduction
  <2> QED
    BY <2>1
<1>9. PICK v, u : v = T[n] /\ u = Feed(v, c, skip)
  OBVIOUS
<1>10. x[p + n + 1] = ScanTurn(Fed(r, v), c)
  <2>1. p + n + 1 \in 1..Len(text) /\ (p + n + 1) - 1 = p + n
    OBVIOUS
  <2> QED
    BY <1>8, <1>9, <2>1 DEF Turns
<1>11. u.result # "MORE"
  BY <1>3, <1>9 DEF Ended, Outcome
<1>12. x[p + n + 1] = AfterToken(Fed(r, u))
  BY <1>9, <1>10, <1>11, <1>20
<1>13. Ended(u, r.tk, cell, c, Skipping(r))
  BY <1>2, <1>3, <1>9
<1> QED
  BY <1>12, <1>13

(* What a token of the header changes,                                       *)
LEMMA HeaderTokenIs ==
  ASSUME NEW r, ScanRecord(r), NEW u, u = HeaderToken(r)
  PROVE  /\ ScanRecord(u) /\ u.tk = r.tk /\ u.interval = r.interval /\ u.row = r.row
         /\ u.types = AddType(r.types, r.column, "NOTHING") /\ u.offsets = r.offsets /\ u.erange = r.erange
         /\ u.rows = r.rows
         /\ r.tk.result = "OK" => u.phase = r.phase /\ u.column = r.column + 1
         /\ r.tk.result = "END_OF_ROW" => u.phase = "rows" /\ u.column = 0
         /\ r.tk.result \notin {"OK", "END_OF_ROW"} => u.phase = "done"
<1>1. PICK types, names :
        types = AddType(r.types, r.column, "NOTHING") /\ names = Append(r.names, r.tk.token.text)
  OBVIOUS
<1>2. PICK named : named = [r EXCEPT !.types = types, !.names = names]
  OBVIOUS
<1>3. named = [interval |-> r.interval, tk |-> r.tk, phase |-> r.phase, row |-> r.row, column |-> r.column,
               types |-> types, names |-> names, offsets |-> r.offsets, rows |-> r.rows, erange |-> r.erange]
  BY <1>2 DEF ScanRecord
<1>4. u = CASE r.tk.result = "OK"         -> [named EXCEPT !.column = @ + 1]
            [] r.tk.result = "END_OF_ROW" -> [named EXCEPT !.column = 0, !.phase = "rows"]
            [] OTHER                      -> [named EXCEPT !.phase = "done"]
  BY <1>1, <1>2, Zenon DEF HeaderToken
<1>5. CASE r.tk.result = "OK"
  <2>1. u = [named EXCEPT !.column = @ + 1]
    BY <1>4, <1>5
  <2>2. u = [interval |-> r.interval, tk |-> r.tk, phase |-> r.phase, row |-> r.row, column |-> r.column + 1,
             types |-> types, names |-> names, offsets |-> r.offsets, rows |-> r.rows, erange |-> r.erange]
    BY <1>3, <2>1
  <2> QED
    BY <1>1, <1>5, <2>2 DEF ScanRecord
<1>6. CASE r.tk.result = "END_OF_ROW"
  <2>1. u = [named EXCEPT !.column = 0, !.phase = "rows"]
    BY <1>4, <1>6
  <2>2. u = [interval |-> r.interval, tk |-> r.tk, phase |-> "rows", row |-> r.row, column |-> 0,
             types |-> types, names |-> names, offsets |-> r.offsets, rows |-> r.rows, erange |-> r.erange]
    BY <1>3, <2>1
  <2> QED
    BY <1>1, <1>6, <2>2 DEF ScanRecord
<1>7. CASE r.tk.result \notin {"OK", "END_OF_ROW"}
  <2>1. u = [named EXCEPT !.phase = "done"]
    BY <1>4, <1>7
  <2>2. u = [interval |-> r.interval, tk |-> r.tk, phase |-> "done", row |-> r.row, column |-> r.column,
             types |-> types, names |-> names, offsets |-> r.offsets, rows |-> r.rows, erange |-> r.erange]
    BY <1>3, <2>1
  <2> QED
    BY <1>1, <1>7, <2>2 DEF ScanRecord
<1> QED
  BY <1>5, <1>6, <1>7

(* and one of a row.                                                         *)
TypesWith(r) ==
    IF IsString(r.types, r.column) THEN r.types
    ELSE AddType(r.types, r.column, DeduceType(r.tk.token.text, r.erange))

ErangeWith(r) ==
    IF IsString(r.types, r.column) \/ DeduceType(r.tk.token.text, r.erange) \in {"EMPTY", "NA", "BOOLEAN"}
    THEN r.erange ELSE ErangeAfter(r.tk.token.text, r.erange)

OffsetsWith(r) == IF Interesting(r) THEN Recorded(r.offsets, r.tk.token) ELSE r.offsets

(* and what a token of a row changes.                                        *)
LEMMA RowTokenIs ==
  ASSUME NEW r, ScanRecord(r), NEW u, u = RowToken(r)
  PROVE  IF Interesting(r) /\ IsString(r.types, r.column) THEN u.phase = "segv"
         ELSE /\ ScanRecord(u) /\ u.tk = r.tk /\ u.interval = r.interval
              /\ u.types = TypesWith(r) /\ u.erange = ErangeWith(r) /\ u.offsets = OffsetsWith(r)
              /\ r.tk.result = "OK" => u.phase = r.phase /\ u.column = r.column + 1 /\ u.row = r.row
              /\ r.tk.result = "END_OF_ROW" => u.phase = r.phase /\ u.column = 0 /\ u.row = r.row + 1
              /\ r.tk.result \notin {"OK", "END_OF_ROW"} =>
                    u.phase = "done" /\ u.rows = r.row + (IF r.column = 0 THEN 0 ELSE 1)
<1>1. PICK skipped \in BOOLEAN, noting \in BOOLEAN : skipped = IsString(r.types, r.column) /\ noting = Interesting(r)
  BY DEF IsString, Interesting
<1>2. PICK types, erange, offsets : types = TypesWith(r) /\ erange = ErangeWith(r) /\ offsets = OffsetsWith(r)
  OBVIOUS
<1>3. PICK typed : typed = IF skipped THEN r ELSE
        [r EXCEPT !.types = AddType(@, r.column, DeduceType(r.tk.token.text, r.erange)),
                  !.erange = IF DeduceType(r.tk.token.text, @) \in {"EMPTY", "NA", "BOOLEAN"}
                             THEN @ ELSE ErangeAfter(r.tk.token.text, @)]
  OBVIOUS
<1>4. typed = [interval |-> r.interval, tk |-> r.tk, phase |-> r.phase, row |-> r.row, column |-> r.column,
               types |-> types, names |-> r.names, offsets |-> r.offsets, rows |-> r.rows, erange |-> erange]
  <2>1. CASE skipped
    <3>1. types = r.types /\ erange = r.erange /\ typed = r
      BY <1>1, <1>2, <1>3, <2>1 DEF TypesWith, ErangeWith
    <3> QED
      BY <3>1 DEF ScanRecord
  <2>2. CASE ~skipped
    <3>1. types = AddType(r.types, r.column, DeduceType(r.tk.token.text, r.erange))
      BY <1>1, <1>2, <2>2 DEF TypesWith
    <3>2. erange = IF DeduceType(r.tk.token.text, r.erange) \in {"EMPTY", "NA", "BOOLEAN"}
                   THEN r.erange ELSE ErangeAfter(r.tk.token.text, r.erange)
      BY <1>1, <1>2, <2>2 DEF ErangeWith
    <3>3. typed = [r EXCEPT !.types = types, !.erange = erange]
      BY <1>3, <2>2, <3>1, <3>2 DEF ScanRecord
    <3> QED
      BY <3>3 DEF ScanRecord
  <2> QED
    BY <2>1, <2>2
<1>5. PICK noted : noted = IF noting THEN [typed EXCEPT !.offsets = Recorded(@, r.tk.token)] ELSE typed
  OBVIOUS
<1>6. noted = [interval |-> r.interval, tk |-> r.tk, phase |-> r.phase, row |-> r.row, column |-> r.column,
               types |-> types, names |-> r.names, offsets |-> offsets, rows |-> r.rows, erange |-> erange]
  <2>1. CASE noting
    <3>1. offsets = Recorded(r.offsets, r.tk.token)
      BY <1>1, <1>2, <2>1 DEF OffsetsWith
    <3>2. typed.offsets = r.offsets
      BY <1>4
    <3>3. noted = [typed EXCEPT !.offsets = offsets]
      BY <1>4, <1>5, <2>1, <3>1, <3>2
    <3> QED
      BY <1>4, <3>3
  <2>2. CASE ~noting
    BY <1>1, <1>2, <1>4, <1>5, <2>2 DEF OffsetsWith
  <2> QED
    BY <2>1, <2>2
<1>7. u = IF noting /\ skipped THEN [r EXCEPT !.phase = "segv"] ELSE
          CASE r.tk.result = "OK"         -> [noted EXCEPT !.column = @ + 1]
            [] r.tk.result = "END_OF_ROW" -> [noted EXCEPT !.column = 0, !.row = @ + 1]
            [] OTHER -> [noted EXCEPT !.phase = "done", !.rows = r.row + IF r.column = 0 THEN 0 ELSE 1]
  <2>1. typed = IF IsString(r.types, r.column) THEN r ELSE
                [r EXCEPT !.types = AddType(@, r.column, DeduceType(r.tk.token.text, r.erange)),
                          !.erange = IF DeduceType(r.tk.token.text, @) \in {"EMPTY", "NA", "BOOLEAN"}
                                     THEN @ ELSE ErangeAfter(r.tk.token.text, @)]
    BY <1>1, <1>3
  <2>2. noted = IF Interesting(r) THEN [typed EXCEPT !.offsets = Recorded(@, r.tk.token)] ELSE typed
    BY <1>1, <1>5
  <2>3. RowToken(r) = IF Interesting(r) /\ IsString(r.types, r.column) THEN [r EXCEPT !.phase = "segv"] ELSE
                      CASE r.tk.result = "OK"         -> [noted EXCEPT !.column = @ + 1]
                        [] r.tk.result = "END_OF_ROW" -> [noted EXCEPT !.column = 0, !.row = @ + 1]
                        [] OTHER -> [noted EXCEPT !.phase = "done", !.rows = r.row + IF r.column = 0 THEN 0 ELSE 1]
    BY <2>1, <2>2 DEF RowToken
  <2> QED
    BY <1>1, <2>3, Zenon
<1>8. CASE noting /\ skipped
  <2>1. u = [r EXCEPT !.phase = "segv"]
    BY <1>7, <1>8
  <2>2. u.phase = "segv"
    BY <2>1 DEF ScanRecord
  <2> QED
    BY <1>1, <1>8, <2>2
<1>9. CASE ~(noting /\ skipped)
  <2>1. CASE r.tk.result = "OK"
    <3>1. u = [noted EXCEPT !.column = @ + 1]
      BY <1>7, <1>9, <2>1
    <3>2. u = [interval |-> r.interval, tk |-> r.tk, phase |-> r.phase, row |-> r.row, column |-> r.column + 1,
               types |-> types, names |-> r.names, offsets |-> offsets, rows |-> r.rows, erange |-> erange]
      BY <1>6, <3>1
    <3> QED
      BY <1>1, <1>2, <1>9, <2>1, <3>2 DEF ScanRecord
  <2>2. CASE r.tk.result = "END_OF_ROW"
    <3>1. u = [noted EXCEPT !.column = 0, !.row = @ + 1]
      BY <1>7, <1>9, <2>2
    <3>2. u = [interval |-> r.interval, tk |-> r.tk, phase |-> r.phase, row |-> r.row + 1, column |-> 0,
               types |-> types, names |-> r.names, offsets |-> offsets, rows |-> r.rows, erange |-> erange]
      BY <1>6, <3>1
    <3> QED
      BY <1>1, <1>2, <1>9, <2>2, <3>2 DEF ScanRecord
  <2>3. CASE r.tk.result \notin {"OK", "END_OF_ROW"}
    <3>1. PICK rows : rows = r.row + IF r.column = 0 THEN 0 ELSE 1
      OBVIOUS
    <3>2. u = [noted EXCEPT !.phase = "done", !.rows = rows]
      BY <1>7, <1>9, <2>3, <3>1
    <3>3. u = [interval |-> r.interval, tk |-> r.tk, phase |-> "done", row |-> r.row, column |-> r.column,
               types |-> types, names |-> r.names, offsets |-> offsets, rows |-> rows, erange |-> erange]
      BY <1>6, <3>2
    <3> QED
      BY <1>1, <1>2, <1>9, <2>3, <3>1, <3>3 DEF ScanRecord
  <2> QED
    BY <2>1, <2>2, <2>3
<1> QED
  BY <1>8, <1>9

-----------------------------------------------------------------------------
(* The types of texts and their conversion.                                  *)

(* Trimming leaves alone what does not start or end with white space.        *)
LEMMA TrimEndKeeps ==
  ASSUME NEW s \in Seq(Char), s # <<>>, ~IsSpace(s[Len(s)])
  PROVE  TrimEnd(s) = s
<1>1. PICK n \in Nat : n = Len(s) /\ n > 0
  <2>1. Len(s) # 0
    BY EmptySeq
  <2> QED
    BY <2>1
<1>2. PICK I : I = {i \in 1..n : ~IsSpace(s[i])}
  OBVIOUS
<1>3. n \in I /\ I \in SUBSET Int /\ \A y \in I : n >= y
  BY <1>1, <1>2
<1>4. Max(I) = n
  BY <1>3, MaxIs
<1>5. SelectLastInSeq(s, LAMBDA c : ~IsSpace(c)) = IF I # {} THEN Max(I) ELSE 0
  BY <1>1, <1>2, Zenon DEF SelectLastInSeq
<1>6. TrimEnd(s) = SubSeq(s, 1, n)
  BY <1>3, <1>4, <1>5, Zenon DEF TrimEnd
<1> QED
  BY <1>1, <1>6, SubSeqFull

(* Trimmed text is text,                                                     *)
LEMMA TrimEndChars ==
  ASSUME NEW s \in Seq(Char)
  PROVE  TrimEnd(s) \in Seq(Char)
<1>1. PICK k : k = SelectLastInSeq(s, LAMBDA c : ~IsSpace(c)) /\ TrimEnd(s) = SubSeq(s, 1, k)
  BY Zenon DEF TrimEnd
<1>2. PICK n \in Nat : n = Len(s)
  OBVIOUS
<1>3. PICK I : I = {i \in 1..n : ~IsSpace(s[i])} /\ k = IF I # {} THEN Max(I) ELSE 0
  BY <1>1, <1>2, Zenon DEF SelectLastInSeq
<1>4. k \in 0..n
  <2>1. CASE I = {}
    BY <1>3, <2>1
  <2>2. CASE I # {}
    <3> DEFINE U == {j \in Nat : n - j \in I}
    <3>1. PICK i \in I : i \in 1..n
      BY <1>3, <2>2
    <3>2. n - i \in Nat /\ n - (n - i) = i
      BY <3>1
    <3>3. n - i \in U
      BY <3>1, <3>2
    <3>4. U \in SUBSET Nat /\ U # {}
      BY <3>3
    <3>5. PICK j \in U : \A m \in U : j <= m
      <4> HIDE DEF U
      <4> QED
        BY <3>4, LeastElement
    <3>6. n - j \in I /\ j \in Nat
      BY <3>5
    <3>7. \A y \in I : n - j >= y
      <4> SUFFICES ASSUME NEW y \in I PROVE n - j >= y
        OBVIOUS
      <4>1. y \in 1..n
        BY <1>3
      <4>2. n - y \in Nat /\ n - (n - y) = y
        BY <4>1
      <4>3. n - y \in U
        BY <4>2
      <4>4. j <= n - y
        BY <3>5, <4>3
      <4> QED
        BY <3>6, <4>1, <4>4
    <3>8. I \in SUBSET Int
      BY <1>3
    <3>9. Max(I) = n - j
      BY <3>6, <3>7, <3>8, MaxIs
    <3> QED
      BY <1>3, <2>2, <3>6, <3>9
  <2> QED
    BY <2>1, <2>2
<1>5. SubSeq(s, 1, k) \in Seq(Char)
  BY <1>2, <1>4
<1> QED
  BY <1>1, <1>5

(* The least of some indices.                                                *)
LEMMA MinIs ==
  ASSUME NEW s \in SUBSET Int, NEW m \in s, \A y \in s : m <= y
  PROVE  Min(s) = m
<1>1. \A x \in s : (\A y \in s : x <= y) => x = m
  OBVIOUS
<1>2. Min(s) \in s /\ \A y \in s : Min(s) <= y
  BY DEF Min
<1> QED
  BY <1>1, <1>2

(* Text that starts with no blank is kept by trimming,                       *)
LEMMA TrimStartKeeps ==
  ASSUME NEW s \in Seq(Char), s # <<>>, ~IsSpace(s[1])
  PROVE  TrimStart(s) = s
<1>1. PICK n \in Nat : n = Len(s) /\ n > 0 /\ DOMAIN s = 1..n
  <2>1. Len(s) # 0
    BY EmptySeq
  <2> QED
    BY <2>1
<1>2. PICK I : I = {i \in 1..n : ~IsSpace(s[i])}
  OBVIOUS
<1>3. 1 \in I /\ I \in SUBSET Int /\ \A y \in I : 1 <= y
  BY <1>1, <1>2
<1>4. Min(I) = 1
  BY <1>3, MinIs
<1>5. SelectInSeq(s, LAMBDA c : ~IsSpace(c)) = IF I # {} THEN Min(I) ELSE 0
  BY <1>1, <1>2, Zenon DEF SelectInSeq
<1>6. ~IsBlankString(s)
  BY <1>1 DEF IsBlankString
<1>7. TrimStart(s) = SubSeq(s, 1, n)
  BY <1>1, <1>3, <1>4, <1>5, <1>6, Zenon DEF TrimStart
<1> QED
  BY <1>1, <1>7, SubSeqFull

(* which leaves text,                                                        *)
LEMMA TrimStartChars ==
  ASSUME NEW s \in Seq(Char)
  PROVE  TrimStart(s) \in Seq(Char)
<1>1. CASE IsBlankString(s)
  BY <1>1, EmptySeq DEF TrimStart
<1>2. CASE ~IsBlankString(s)
  <2>1. PICK n \in Nat : n = Len(s) /\ DOMAIN s = 1..n
    BY LenProperties
  <2>2. PICK I : I = {i \in 1..n : ~IsSpace(s[i])}
    OBVIOUS
  <2>3. I # {} /\ I \in SUBSET Nat
    BY <1>2, <2>1, <2>2 DEF IsBlankString
  <2>4. PICK m \in I : \A y \in I : m <= y
    BY <2>3, LeastElement
  <2>5. Min(I) = m /\ m \in 1..n
    <3>1. I \in SUBSET Int /\ m \in 1..n
      BY <2>2
    <3> QED
      BY <2>4, <3>1, MinIs
  <2>6. SelectInSeq(s, LAMBDA c : ~IsSpace(c)) = m
    <3>1. SelectInSeq(s, LAMBDA c : ~IsSpace(c)) = IF I # {} THEN Min(I) ELSE 0
      BY <2>1, <2>2, Zenon DEF SelectInSeq
    <3> QED
      BY <2>3, <2>5, <3>1
  <2>7. TrimStart(s) = SubSeq(s, m, n)
    BY <1>2, <2>1, <2>6, Zenon DEF TrimStart
  <2>8. SubSeq(s, m, n) \in Seq(Char)
    BY <2>1, <2>5
  <2> QED
    BY <2>7, <2>8
<1> QED
  BY <1>1, <1>2

(* and keeps digits.                                                         *)
LEMMA TrimDigits ==
  ASSUME NEW s \in Seq(Char), Digits(s)
  PROVE  TrimEnd(s) = s
<1>1. s # <<>> /\ \A i \in DOMAIN s : s[i] \in {"1", "2"}
  BY DEF Digits
<1>2. Len(s) \in DOMAIN s
  <2>1. Len(s) \in Nat /\ Len(s) # 0 /\ DOMAIN s = 1..Len(s)
    BY <1>1, EmptySeq, LenProperties
  <2> QED
    BY <2>1
<1>3. ~IsSpace(s[Len(s)])
  BY <1>1, <1>2 DEF IsSpace, Blank, Return
<1> QED
  BY <1>1, <1>3, TrimEndKeeps

(* A text of one character that is not white space.                          *)
LEMMA TrimOne ==
  ASSUME NEW s \in Seq(Char), NEW a, s = <<a>>, ~IsSpace(a)
  PROVE  TrimStart(s) = s /\ TrimEnd(s) = s
<1>1. Len(s) = 1 /\ s[1] = a /\ s # <<>>
  OBVIOUS
<1> QED
  BY <1>1, TrimStartKeeps, TrimEndKeeps

(* What the types of texts are, whether or not a number overflowed before.   *)
AllTypes == {"EMPTY", "NA", "BOOLEAN", "INTEGER", "DOUBLE", "STRING"}

(* Digits are a number.                                                      *)
LEMMA DigitsNumeric ==
  ASSUME NEW s \in Seq(Char), Digits(TrimStart(s))
  PROVE  DeduceNumeric(s)
<1>1. TrimEnd(TrimStart(s)) = TrimStart(s)
  BY TrimStartChars, TrimDigits
<1> QED
  BY <1>1 DEF DeduceNumeric

(* What each type deduced from a text says of it.                            *)
LEMMA DeduceIs ==
  ASSUME NEW s \in Seq(Char), NEW e \in BOOLEAN
  PROVE  /\ DeduceType(s, e) \in AllTypes /\ DeduceType(s, e) # "NOTHING"
         /\ DeduceType(s, e) = "STRING" <=> DeduceType(s, FALSE) = "STRING"
         /\ DeduceType(s, e) = "EMPTY" => s = <<>>
         /\ DeduceType(s, e) = "NA" => s = <<"NA">>
         /\ DeduceType(s, e) = "BOOLEAN" => s \in {<<"T">>, <<"F">>}
         /\ DeduceType(s, e) = "INTEGER" => Digits(TrimStart(s))
         /\ DeduceType(s, e) = "DOUBLE" => DeduceNumeric(s)
<1>1. DeduceInteger(s, e) => Digits(TrimStart(s))
  BY DEF DeduceInteger
<1>2. DeduceInteger(s, e) \/ DeduceInteger(s, FALSE) => DeduceNumeric(s)
  BY DigitsNumeric DEF DeduceInteger
<1>3. PICK d : d = DeduceType(s, e)
  OBVIOUS
<1>4. d = IF s = <<>> THEN "EMPTY"
          ELSE IF s = <<"NA">> THEN "NA"
          ELSE IF s \in {<<"T">>, <<"F">>} THEN "BOOLEAN"
          ELSE IF DeduceInteger(s, e) THEN "INTEGER"
          ELSE IF DeduceNumeric(s) THEN "DOUBLE"
          ELSE "STRING"
  BY <1>3 DEF DeduceType
<1>5. d \in AllTypes /\ d # "NOTHING"
  BY <1>4 DEF AllTypes
<1>6. /\ d = "EMPTY" => s = <<>>
      /\ d = "NA" => s = <<"NA">>
      /\ d = "BOOLEAN" => s \in {<<"T">>, <<"F">>}
      /\ d = "INTEGER" => Digits(TrimStart(s))
      /\ d = "DOUBLE" => DeduceNumeric(s)
  BY <1>1, <1>4
<1>7. d = "STRING" <=> DeduceType(s, FALSE) = "STRING"
  <2>1. DeduceType(s, FALSE) =
          IF s = <<>> THEN "EMPTY"
          ELSE IF s = <<"NA">> THEN "NA"
          ELSE IF s \in {<<"T">>, <<"F">>} THEN "BOOLEAN"
          ELSE IF DeduceInteger(s, FALSE) THEN "INTEGER"
          ELSE IF DeduceNumeric(s) THEN "DOUBLE"
          ELSE "STRING"
    BY DEF DeduceType
  <2> QED
    BY <1>2, <1>4, <2>1
<1> QED
  BY <1>3, <1>5, <1>6, <1>7

(* A column of a type stores what R shows, but for what it cannot hold.      *)
FitsColumn(s, type) ==
    CASE type = "BOOLEAN" -> \E e \in BOOLEAN : DeduceType(s, e) \in {"BOOLEAN", "NA", "EMPTY"}
      [] type = "INTEGER" -> \E e \in BOOLEAN : DeduceType(s, e) \in {"INTEGER", "BOOLEAN", "NA", "EMPTY"}
      [] type = "DOUBLE"  -> \E e \in BOOLEAN : DeduceType(s, e) # "STRING"
      [] OTHER            -> TRUE

(* Converting a text that fits its column stores what R shows.               *)
LEMMA ConvertShows ==
  ASSUME NEW s \in Seq(Char), NEW type \in {"BOOLEAN", "INTEGER", "DOUBLE", "INTERNED", "FREE", "EMPTY", "NA"},
         FitsColumn(s, type), ConversionKeeps(s, type)
  PROVE  Convert(s, type) = Shown(s, type)
<1>1. PICK core, start : start = TrimStart(s) /\ core = TrimEnd(start)
  OBVIOUS
<1>2. Shown(s, type) = IF type \in {"INTERNED", "FREE"} THEN s
                       ELSE IF type \in {"EMPTY", "NA"} \/ core \in {<<>>, <<"NA">>} THEN NaValue ELSE core
  BY <1>1 DEF Shown
<1>3. s = <<>> => start = <<>> /\ core = <<>>
  <2> SUFFICES ASSUME s = <<>> PROVE start = <<>> /\ core = <<>>
    OBVIOUS
  <2>1. DOMAIN s = 1..Len(s) /\ Len(s) = 0
    BY LenProperties, EmptySeq
  <2>2. IsBlankString(s)
    BY <2>1 DEF IsBlankString
  <2>3. start = <<>>
    BY <1>1, <2>2 DEF TrimStart
  <2> QED
    BY <1>1, <2>3, TrimNothing
<1>4. ~IsSpace("NA") /\ ~IsSpace("T") /\ ~IsSpace("F")
  BY DEF IsSpace, Blank, Return
<1>5. s = <<"NA">> => core = <<"NA">>
  BY <1>1, <1>4, TrimOne
<1>6. s \in {<<"T">>, <<"F">>} => core = s
  BY <1>1, <1>4, TrimOne
<1>7. <<"T">> # <<>> /\ <<"T">> # <<"NA">> /\ <<"F">> # <<>> /\ <<"F">> # <<"NA">>
  OBVIOUS
<1>8. CASE type = "BOOLEAN"
  <2>1. PICK e \in BOOLEAN : DeduceType(s, e) \in {"BOOLEAN", "NA", "EMPTY"}
    BY <1>8 DEF FitsColumn
  <2>2. s \in {<<"T">>, <<"F">>} \/ s = <<"NA">> \/ s = <<>>
    BY <2>1, DeduceIs
  <2>3. Convert(s, type) = IF s \in {<<"T">>, <<"F">>} THEN s ELSE NaValue
    BY <1>8 DEF Convert, ToLogical
  <2>4. Shown(s, type) = IF core \in {<<>>, <<"NA">>} THEN NaValue ELSE core
    BY <1>2, <1>8
  <2>5. CASE s \in {<<"T">>, <<"F">>}
    <3>1. core = s
      BY <1>6, <2>5
    <3>2. core # <<>> /\ core # <<"NA">>
      BY <1>7, <2>5, <3>1
    <3> QED
      BY <2>3, <2>4, <2>5, <3>1, <3>2
  <2>6. CASE s \in {<<"NA">>, <<>>}
    <3>1. core \in {<<>>, <<"NA">>}
      BY <1>3, <1>5, <2>6
    <3>2. s \notin {<<"T">>, <<"F">>}
      BY <1>7, <2>6
    <3> QED
      BY <2>3, <2>4, <3>1, <3>2
  <2> QED
    BY <2>2, <2>5, <2>6
<1>9. CASE type = "INTEGER"
  <2>1. PICK e \in BOOLEAN : DeduceType(s, e) \in {"INTEGER", "BOOLEAN", "NA", "EMPTY"}
    BY <1>9 DEF FitsColumn
  <2>2. s \notin {<<"NA">>, <<"T">>, <<"F">>}
    BY <1>9 DEF ConversionKeeps
  <2>3. Digits(start) \/ s = <<>>
    BY <1>1, <2>1, <2>2, DeduceIs
  <2>4. Convert(s, type) = IF start = <<>> \/ Head(start) = "big" THEN NaValue
                           ELSE IF LeadingDigits(start) = <<>> THEN <<"0">> ELSE LeadingDigits(start)
    BY <1>1, <1>9 DEF Convert, ToInteger
  <2>5. CASE s = <<>>
    <3>1. start = <<>> /\ core \in {<<>>, <<"NA">>}
      BY <1>3, <2>5
    <3>2. Convert(s, type) = NaValue
      BY <2>4, <3>1
    <3>3. Shown(s, type) = NaValue
      BY <1>2, <1>9, <3>1
    <3> QED
      BY <3>2, <3>3
  <2>6. CASE Digits(start)
    <3>1. start \in Seq(Char) /\ start # <<>> /\ core = start
      BY <1>1, <2>6, TrimStartChars, TrimDigits DEF Digits
    <3>2. start[1] \in {"1", "2"}
      <4>1. 1 \in DOMAIN start
        BY <3>1, LenProperties, EmptySeq
      <4> QED
        BY <2>6, <4>1 DEF Digits
    <3>3. Head(start) = start[1]
      BY <3>1
    <3>4. LeadingDigits(start) = start
      BY <2>6 DEF LeadingDigits
    <3>5. Convert(s, type) = start
      BY <2>4, <3>1, <3>2, <3>3, <3>4
    <3>6. start # <<"NA">>
      BY <3>2
    <3> QED
      BY <1>2, <1>9, <3>1, <3>5, <3>6
  <2> QED
    BY <2>3, <2>5, <2>6
<1>10. CASE type = "DOUBLE"
  <2>1. PICK e \in BOOLEAN : DeduceType(s, e) # "STRING"
    BY <1>10 DEF FitsColumn
  <2>2. s \notin {<<"T">>, <<"F">>}
    BY <1>10 DEF ConversionKeeps
  <2>3. DeduceNumeric(s) \/ s = <<"NA">> \/ s = <<>>
    <3>1. DeduceType(s, e) \in AllTypes
      BY DeduceIs
    <3>2. DeduceType(s, e) \in {"EMPTY", "NA", "BOOLEAN", "INTEGER", "DOUBLE"}
      BY <2>1, <3>1 DEF AllTypes
    <3> QED
      BY <2>2, <3>2, DeduceIs, DigitsNumeric
  <2>4. Convert(s, type) = IF DeduceNumeric(s) /\ core \notin {<<>>, <<"NA">>} THEN core ELSE NaValue
    BY <1>1, <1>10 DEF Convert, ToNumeric
  <2> QED
    BY <1>2, <1>3, <1>5, <1>10, <2>3, <2>4
<1>11. CASE type \in {"INTERNED", "FREE"}
  BY <1>2, <1>11 DEF Convert
<1>12. CASE type \in {"EMPTY", "NA"}
  BY <1>2, <1>12 DEF Convert
<1> QED
  BY <1>8, <1>9, <1>10, <1>11, <1>12
=============================================================================
