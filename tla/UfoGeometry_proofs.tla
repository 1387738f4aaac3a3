-------------------------- MODULE UfoGeometry_proofs --------------------------
(* Proofs about the geometry of objects: chunks are whole pages and whole   *)
(* elements, so every byte is populated, stored and read back in its place, *)
(* and the chunks' lock bits are apart.                                     *)
EXTENDS UfoGeometry, TLAPS, NaturalsInduction, WellFoundedInduction

-----------------------------------------------------------------------------
(* Induction over the natural numbers, from the fact that < is well founded *)
(* on them.                                                                 *)
Less == {p \in Nat \X Nat : p[1] < p[2]}
LEMMA LessWellFounded == IsWellFoundedOn(Less, Nat)
BY NatLessThanWellFounded DEF OpToRel, Less

LEMMA LeastElement ==
  ASSUME NEW S \in SUBSET Nat, S # {}
  PROVE  \E n \in S : \A m \in S : n <= m
<1>1. PICK n \in S : \A m \in S : <<m, n>> \notin Less
  BY LessWellFounded, WFMin, Zenon
<1>2. \A m \in S : ~(m < n)
  BY <1>1 DEF Less
<1> QED
  BY <1>2

LEMMA SetInduction ==
  ASSUME NEW S, 0 \in S, \A n \in Nat : n \in S => n + 1 \in S
  PROVE  Nat \subseteq S
<1> SUFFICES ASSUME NEW k \in Nat, k \notin S PROVE FALSE
  OBVIOUS
<1> DEFINE T == {n \in Nat : n \notin S}
<1>1. PICK n \in T : \A m \in T : n <= m
  BY LeastElement, T # {}
<1>2. n # 0 /\ n - 1 \in Nat /\ n - 1 \notin T
  BY <1>1
<1> QED
  BY <1>2

(* A set of natural numbers that is not empty has its minimum.              *)
LEMMA MinIsLeast ==
  ASSUME NEW S \in SUBSET Nat, S # {}
  PROVE  Min(S) \in S /\ \A m \in S : Min(S) <= m
BY LeastElement DEF Min

LEMMA MinOfTwo ==
  ASSUME NEW x \in Int, NEW y \in Int
  PROVE  Min({x, y}) = IF x <= y THEN x ELSE y
<1>1. CASE x <= y
  BY <1>1 DEF Min
<1>2. CASE ~(x <= y)
  BY <1>2 DEF Min
<1> QED
  BY <1>1, <1>2
-----------------------------------------------------------------------------
(* Products and quotients.                                                  *)

LEMMA Products ==
  /\ \A a, b \in Nat : a * b \in Nat /\ a * b = b * a
  /\ \A a, b, c \in Nat : (a * b) * c = a * (b * c)
  /\ \A a, b, c \in Nat : (a + b) * c = a * c + b * c
  /\ \A a, b, n \in Nat : a <= b => a * n <= b * n
  /\ \A a, b \in Nat, n \in Nat \ {0} : a < b => a * n < b * n
  /\ \A a, b \in Nat \ {0} : a * b \in Nat \ {0}
<1>1. \A a, b \in Nat : a * b \in Nat /\ a * b = b * a
  BY SMT
<1>2. \A a, b, c \in Nat : (a * b) * c = a * (b * c)
  BY SMT
<1>3. \A a, b, c \in Nat : (a + b) * c = a * c + b * c
  BY SMT
<1>4. \A a, b, n \in Nat : a <= b => a * n <= b * n
  BY SMT
<1>5. \A a, b \in Nat, n \in Nat \ {0} : a < b => a * n < b * n
  BY SMT
<1>6. \A a, b \in Nat \ {0} : a * b \in Nat \ {0}
  BY SMT
<1> QED
  BY <1>1, <1>2, <1>3, <1>4, <1>5, <1>6

(* A quotient and a remainder are what their sum says they are.             *)
LEMMA QuotientOf ==
  ASSUME NEW q \in Nat, NEW r \in Nat, NEW n \in Nat \ {0}, r < n
  PROVE  (q * n + r) \div n = q /\ (q * n + r) % n = r
BY SMT

LEMMA Quotient ==
  ASSUME NEW x \in Nat, NEW n \in Nat \ {0}
  PROVE  /\ x \div n \in Nat /\ x % n \in Nat /\ x % n < n
         /\ x = (x \div n) * n + (x % n)
OBVIOUS

LEMMA DividesMultiple ==
  ASSUME NEW x \in Nat, NEW d \in Nat \ {0}
  PROVE  Divides(d, x) <=> \E k \in Nat : x = k * d
<1>1. ASSUME Divides(d, x) PROVE \E k \in Nat : x = k * d
  <2>1. x \div d \in Nat /\ x = (x \div d) * d + 0
    BY <1>1, Quotient DEF Divides
  <2>2. (x \div d) * d \in Nat
    BY <2>1, Products
  <2>3. x = (x \div d) * d
    BY <2>1, <2>2
  <2> QED
    BY <2>1, <2>3
<1>2. ASSUME NEW k \in Nat, x = k * d PROVE Divides(d, x)
  <2>1. k * d \in Nat
    BY Products
  <2>2. (k * d + 0) % d = 0
    BY QuotientOf
  <2> QED
    BY <1>2, <2>1, <2>2 DEF Divides
<1> QED
  BY <1>1, <1>2

(* Rounding up: the least multiple that is large enough.                    *)
LEMMA RoundedUp ==
  ASSUME NEW x \in Nat, NEW n \in Nat \ {0}
  PROVE  /\ DivCeil(x, n) \in Nat
         /\ UpToNearest(x, n) = DivCeil(x, n) * n
         /\ UpToNearest(x, n) \in Nat
         /\ x <= UpToNearest(x, n) /\ UpToNearest(x, n) < x + n
<1> DEFINE y == x + n - 1
           q == y \div n
<1>1. /\ y \in Nat /\ q \in Nat /\ y % n \in Nat /\ y % n < n
      /\ y = q * n + (y % n)
  BY Quotient
<1>2. q * n \in Nat
  BY <1>1, Products
<1> QED
  BY <1>1, <1>2 DEF UpToNearest, DivCeil

LEMMA RoundedUpIsLeast ==
  ASSUME NEW x \in Nat, NEW n \in Nat \ {0}, NEW k \in Nat, k * n < UpToNearest(x, n)
  PROVE  k * n < x /\ k * n + n <= UpToNearest(x, n)
<1> DEFINE c == DivCeil(x, n)
<1>r. c \in Nat /\ UpToNearest(x, n) = c * n /\ c * n < x + n
  BY RoundedUp
<1> HIDE DEF c
<1>1. k < c
  <2> SUFFICES ASSUME c <= k PROVE FALSE
    BY <1>r
  <2>1. c * n <= k * n /\ c * n \in Nat /\ k * n \in Nat
    BY <1>r, Products
  <2> QED
    BY <1>r, <2>1
<1>2. (k + 1) * n <= c * n
  <2>1. k + 1 \in Nat /\ k + 1 <= c
    BY <1>1, <1>r
  <2> QED
    BY <2>1, <1>r, Products
<1>3. (k + 1) * n = k * n + n /\ k * n \in Nat
  BY Products
<1>4. c * n \in Nat
  BY <1>r, Products
<1> QED
  BY <1>r, <1>2, <1>3, <1>4
-----------------------------------------------------------------------------
(* The object's configuration.                                              *)

LEMMA LcmIsMultiple ==
  ASSUME NEW a \in Nat \ {0}, NEW b \in Nat \ {0}
  PROVE  /\ Lcm(a, b) \in Nat \ {0}
         /\ \E k \in Nat : Lcm(a, b) = k * a
         /\ \E k \in Nat : Lcm(a, b) = k * b
<1> DEFINE M == {m \in 1..(a * b) : Divides(a, m) /\ Divides(b, m)}
<1>1. a * b \in Nat \ {0} /\ a * b = b * a
  BY Products
<1>2. Divides(a, a * b) /\ Divides(b, a * b)
  BY <1>1, DividesMultiple
<1>3. a * b \in M
  BY <1>1, <1>2
<1>4. M \in SUBSET Nat /\ M # {}
  BY <1>1, <1>3
<1>5. Min(M) \in M
  BY <1>4, MinIsLeast
<1>6. Lcm(a, b) = Min(M)
  BY DEF Lcm
<1> HIDE DEF M
<1>7. Lcm(a, b) \in Nat \ {0} /\ Divides(a, Lcm(a, b)) /\ Divides(b, Lcm(a, b))
  BY <1>1, <1>5, <1>6 DEF M
<1> QED
  BY <1>7, DividesMultiple

(* A load is whole pages and whole elements; header and body are whole      *)
(* pages, and the body just holds the elements.                             *)
GoodConfig(c) ==
  /\ c \in [header : Nat, true : Nat, stride : Nat \ {0}, count : Nat \ {0},
            atOnce : Nat \ {0}]
  /\ \E k \in Nat : c.header = k * Page
  /\ \E k \in Nat : c.atOnce * c.stride = k * Page
  /\ c.true = c.header + UpToNearest(c.stride * c.count, Page)

LEMMA ConfigsAreGood ==
  ASSUME NEW p \in Prototypes
  PROVE  GoodConfig(NewConfig(p))
<1> DEFINE e == p.stride * p.minLoad
           l == LoadBytes(p)
           c == NewConfig(p)
<1>0. /\ Page \in Nat \ {0} /\ p.header \in Nat
      /\ p.stride \in Nat \ {0} /\ p.count \in Nat \ {0} /\ p.minLoad \in Nat \ {0}
  BY GeometryAssumption
<1>1. e \in Nat \ {0} /\ p.stride * p.count \in Nat \ {0}
  BY <1>0, Products
<1>2. /\ l \in Nat \ {0}
      /\ \E k \in Nat : l = k * Page
      /\ \E k \in Nat : l = k * e
  BY <1>0, <1>1, LcmIsMultiple DEF LoadBytes
<1>3. PICK k \in Nat : l = k * e
  BY <1>2
<1> HIDE DEF l
<1> DEFINE a == k * p.minLoad
<1>4. a \in Nat /\ a * p.stride \in Nat /\ l = a * p.stride
  <2>1. a \in Nat /\ a * p.stride \in Nat
    BY <1>0, Products
  <2>2. k * (p.minLoad * p.stride) = a * p.stride /\ p.minLoad * p.stride = p.stride * p.minLoad
    BY <1>0, Products
  <2> QED
    BY <1>3, <2>1, <2>2
<1> HIDE DEF a
<1>5. l \div p.stride = a
  <2>1. (a * p.stride + 0) \div p.stride = a
    BY <1>0, <1>4, QuotientOf
  <2> QED
    BY <1>4, <2>1
<1>6. a # 0
  BY <1>0, <1>2, <1>4
<1>7. /\ UpToNearest(p.header, Page) \in Nat
      /\ \E j \in Nat : UpToNearest(p.header, Page) = j * Page
      /\ UpToNearest(p.stride * p.count, Page) \in Nat
  BY <1>0, <1>1, RoundedUp
<1>8. c = [header |-> UpToNearest(p.header, Page),
           true   |-> UpToNearest(p.header, Page) + UpToNearest(p.stride * p.count, Page),
           stride |-> p.stride, count |-> p.count, atOnce |-> a]
  BY <1>5 DEF NewConfig, l
<1> HIDE DEF c
<1>9. /\ c \in [header : Nat, true : Nat, stride : Nat \ {0}, count : Nat \ {0},
                 atOnce : Nat \ {0}]
      /\ c.header = UpToNearest(p.header, Page) /\ c.stride = p.stride
      /\ c.count = p.count /\ c.atOnce = a
      /\ c.true = UpToNearest(p.header, Page) + UpToNearest(p.stride * p.count, Page)
  BY <1>0, <1>4, <1>6, <1>7, <1>8
<1>10. GoodConfig(c)
  BY <1>2, <1>4, <1>7, <1>9 DEF GoodConfig
<1> QED
  BY <1>10 DEF c
-----------------------------------------------------------------------------
(* The chunks of an object.                                                 *)

(* Bytes of the body.                                                       *)
Size == cfg.true - cfg.header

CfgInv ==
  /\ GoodConfig(cfg)
  /\ wb = NewWriteback(cfg)

LEMMA Sizes ==
  ASSUME CfgInv
  PROVE  /\ Page \in Nat \ {0} /\ LoadSize \in Nat \ {0} /\ Size \in Nat \ {0}
         /\ cfg.stride \in Nat \ {0} /\ cfg.count \in Nat \ {0} /\ cfg.atOnce \in Nat \ {0}
         /\ cfg.header \in Nat /\ cfg.true \in Nat
         /\ cfg.count * cfg.stride \in Nat \ {0}
         /\ Body = 0..(Size - 1)
         /\ Size = UpToNearest(cfg.count * cfg.stride, Page)
         /\ cfg.count * cfg.stride <= Size
         /\ \E k \in Nat : cfg.header = k * Page
         /\ \E k \in Nat : LoadSize = k * Page
         /\ \E k \in Nat : Size = k * Page
<1>0. GoodConfig(cfg) /\ Page \in Nat \ {0}
  BY GeometryAssumption DEF CfgInv
<1>1. /\ cfg.stride \in Nat \ {0} /\ cfg.count \in Nat \ {0} /\ cfg.atOnce \in Nat \ {0}
      /\ cfg.header \in Nat /\ cfg.true \in Nat
      /\ \E k \in Nat : cfg.header = k * Page
      /\ \E k \in Nat : LoadSize = k * Page
      /\ cfg.true = cfg.header + UpToNearest(cfg.stride * cfg.count, Page)
  BY <1>0 DEF GoodConfig, LoadSize
<1>2. /\ LoadSize \in Nat \ {0}
      /\ cfg.count * cfg.stride \in Nat \ {0}
      /\ cfg.stride * cfg.count = cfg.count * cfg.stride
  BY <1>1, Products DEF LoadSize
<1>3. /\ UpToNearest(cfg.count * cfg.stride, Page) \in Nat
      /\ cfg.count * cfg.stride <= UpToNearest(cfg.count * cfg.stride, Page)
      /\ \E k \in Nat : UpToNearest(cfg.count * cfg.stride, Page) = k * Page
  BY <1>0, <1>2, RoundedUp
<1>4. Size = UpToNearest(cfg.count * cfg.stride, Page)
  BY <1>1, <1>2, <1>3 DEF Size
<1>5. Size \in Nat \ {0}
  BY <1>2, <1>3, <1>4
<1> QED
  BY <1>0, <1>1, <1>2, <1>3, <1>4, <1>5 DEF Body, Size

(* Differences of multiples are multiples.                                  *)
LEMMA MultipleMinus ==
  ASSUME NEW x \in Nat, NEW y \in Nat, NEW n \in Nat \ {0}, y <= x,
         \E k \in Nat : x = k * n, \E k \in Nat : y = k * n
  PROVE  \E k \in Nat : x - y = k * n
<1>1. PICK j \in Nat : x = j * n
  OBVIOUS
<1>2. PICK k \in Nat : y = k * n
  OBVIOUS
<1>3. k <= j
  <2> SUFFICES ASSUME j < k PROVE FALSE
    OBVIOUS
  <2>1. j * n < k * n
    BY Products
  <2> QED
    BY <1>1, <1>2, <2>1
<1>4. j - k \in Nat /\ (j - k) + k = j
  BY <1>3
<1>5. j * n = (j - k) * n + k * n /\ (j - k) * n \in Nat
  BY <1>4, Products
<1>6. x - y = (j - k) * n
  BY <1>1, <1>2, <1>5
<1> QED
  BY <1>4, <1>6

LEMMA MultiplePlus ==
  ASSUME NEW x \in Nat, NEW y \in Nat, NEW n \in Nat \ {0},
         \E k \in Nat : x = k * n, \E k \in Nat : y = k * n
  PROVE  \E k \in Nat : x + y = k * n
<1>1. PICK j \in Nat : x = j * n
  OBVIOUS
<1>2. PICK k \in Nat : y = k * n
  OBVIOUS
<1>3. (j + k) * n = x + y /\ j + k \in Nat
  BY <1>1, <1>2, Products
<1> QED
  BY <1>3

(* The chunk a byte of the body is in.                                      *)
LEMMA ChunkOf ==
  ASSUME CfgInv, NEW b \in Body
  PROVE  /\ ChunkNumber(b) \in Nat /\ ChunkStart(b) \in Nat
         /\ ChunkStart(b) = ChunkNumber(b) * LoadSize
         /\ ChunkStart(b) <= b /\ b < ChunkStart(b) + LoadSize
         /\ \E k \in Nat : ChunkStart(b) = k * Page
         /\ PopulateSize(b) = IF LoadSize <= Size - ChunkStart(b) THEN LoadSize
                              ELSE Size - ChunkStart(b)
         /\ PopulateSize(b) \in Nat \ {0}
         /\ b < ChunkStart(b) + PopulateSize(b)
         /\ ChunkStart(b) + PopulateSize(b) <= Size
         /\ \E k \in Nat : PopulateSize(b) = k * Page
<1>1. /\ b \in Nat /\ b < Size /\ LoadSize \in Nat \ {0} /\ Page \in Nat \ {0}
      /\ Size \in Nat /\ Size = cfg.true - cfg.header
      /\ cfg.header \in Nat /\ cfg.true \in Nat
  <2>1. b \in 0..(Size - 1)
    BY Sizes
  <2>2. LoadSize \in Nat \ {0} /\ Page \in Nat \ {0} /\ Size \in Nat
    BY Sizes
  <2>3. cfg.header \in Nat /\ cfg.true \in Nat
    BY Sizes
  <2> QED
    BY <2>1, <2>2, <2>3 DEF Size
<1>2. /\ ChunkNumber(b) \in Nat /\ b % LoadSize \in Nat /\ b % LoadSize < LoadSize
      /\ b = ChunkNumber(b) * LoadSize + (b % LoadSize)
  BY <1>1, Quotient DEF ChunkNumber
<1>3. /\ ChunkStart(b) = ChunkNumber(b) * LoadSize
      /\ ChunkStart(b) \in Nat
  BY <1>1, <1>2, Products DEF ChunkStart, ChunkNumber, DownToNearest
<1>4. ChunkStart(b) <= b /\ b < ChunkStart(b) + LoadSize
  BY <1>1, <1>2, <1>3
<1>l. \E k \in Nat : LoadSize = k * Page
  BY Sizes
<1>m. \E k \in Nat : Size = k * Page
  BY Sizes
<1>5. \E k \in Nat : ChunkStart(b) = k * Page
  <2>1. PICK j \in Nat : LoadSize = j * Page
    BY <1>l
  <2>2. (ChunkNumber(b) * j) * Page = ChunkNumber(b) * LoadSize /\ ChunkNumber(b) * j \in Nat
    BY <1>1, <1>2, <2>1, Products
  <2> QED
    BY <1>3, <2>2
<1>6. PopulateSize(b) = IF LoadSize <= Size - ChunkStart(b) THEN LoadSize
                        ELSE Size - ChunkStart(b)
  <2>1. cfg.true - (cfg.header + ChunkStart(b)) = Size - ChunkStart(b)
    BY <1>1, <1>3
  <2>2. LoadSize \in Int /\ Size - ChunkStart(b) \in Int
    BY <1>1, <1>3
  <2> QED
    BY <2>1, <2>2, MinOfTwo DEF PopulateSize
<1>7. \E k \in Nat : Size - ChunkStart(b) = k * Page
  <2>1. ChunkStart(b) <= Size
    BY <1>1, <1>3, <1>4
  <2> QED
    BY <1>1, <1>3, <1>5, <1>m, <2>1, MultipleMinus
<1>8. \E k \in Nat : PopulateSize(b) = k * Page
  BY <1>6, <1>7, <1>l
<1>9. /\ PopulateSize(b) \in Nat \ {0}
      /\ b < ChunkStart(b) + PopulateSize(b)
      /\ ChunkStart(b) + PopulateSize(b) <= Size
  BY <1>1, <1>3, <1>4, <1>6
<1> QED
  BY <1>2, <1>3, <1>4, <1>5, <1>6, <1>8, <1>9

(* The elements of a chunk.                                                 *)
LEMMA ElementsOf ==
  ASSUME CfgInv, NEW b \in Body
  PROVE  /\ ChunkStart(b) < cfg.count * cfg.stride
         /\ First(b) \in Nat /\ First(b) * cfg.stride = ChunkStart(b)
         /\ PopEnd(b) \in Nat
         /\ PopEnd(b) <= cfg.count /\ First(b) < PopEnd(b)
         /\ (PopEnd(b) - First(b)) * cfg.stride \in Nat
         /\ \A i \in 0..(LoadSize - 1) :
              ChunkStart(b) + i < cfg.count * cfg.stride => i < (PopEnd(b) - First(b)) * cfg.stride
<1> DEFINE s == cfg.stride
           n == cfg.count
           a == cfg.atOnce
           f == ChunkNumber(b) * a
<1>1. /\ s \in Nat \ {0} /\ n \in Nat \ {0} /\ a \in Nat \ {0} /\ Page \in Nat \ {0}
      /\ n * s \in Nat \ {0} /\ LoadSize = a * s /\ LoadSize \in Nat \ {0}
  BY Sizes DEF LoadSize
<1>2. /\ ChunkNumber(b) \in Nat /\ ChunkStart(b) \in Nat
      /\ ChunkStart(b) = ChunkNumber(b) * LoadSize
      /\ ChunkStart(b) < Size
  <2>1. b \in 0..(Size - 1) /\ Size \in Nat
    BY Sizes
  <2>2. /\ ChunkNumber(b) \in Nat /\ ChunkStart(b) \in Nat
        /\ ChunkStart(b) = ChunkNumber(b) * LoadSize /\ ChunkStart(b) <= b
    BY ChunkOf
  <2> QED
    BY <2>1, <2>2
<1>3. ChunkStart(b) < n * s
  <2>1. PICK k \in Nat : ChunkStart(b) = k * Page
    BY ChunkOf
  <2>2. k * Page < UpToNearest(n * s, Page)
    BY <1>2, <2>1, Sizes
  <2>3. k * Page < n * s
    BY <1>1, <2>2, RoundedUpIsLeast
  <2> QED
    BY <2>1, <2>3
<1>4. f \in Nat /\ f * s = ChunkStart(b)
  BY <1>1, <1>2, Products
<1>5. First(b) = f
  <2>1. (f * s + 0) \div s = f
    BY <1>1, <1>4, QuotientOf
  <2> QED
    BY <1>2, <1>4, <2>1 DEF First
<1>6. f < n
  <2> SUFFICES ASSUME n <= f PROVE FALSE
    BY <1>1, <1>4
  <2>1. n * s <= f * s
    BY <1>1, <1>4, Products
  <2> QED
    BY <1>1, <1>2, <1>3, <1>4, <2>1
<1>7. PopEnd(b) = IF f + a <= n THEN f + a ELSE n
  BY <1>1, <1>4, <1>5, MinOfTwo DEF PopEnd
<1> HIDE DEF f
<1>8. CASE f + a <= n
  <2>1. PopEnd(b) - First(b) = a /\ PopEnd(b) = f + a
    BY <1>1, <1>4, <1>5, <1>7, <1>8
  <2> QED
    BY <1>1, <1>3, <1>4, <1>5, <1>6, <1>8, <2>1
<1>9. CASE ~(f + a <= n)
  <2>1. PopEnd(b) = n /\ n - f \in Nat /\ (n - f) + f = n
    BY <1>1, <1>4, <1>6, <1>7, <1>9
  <2>2. (n - f) * s \in Nat /\ n * s = (n - f) * s + f * s
    BY <1>1, <1>4, <2>1, Products
  <2> QED
    BY <1>1, <1>2, <1>3, <1>4, <1>5, <1>6, <2>1, <2>2
<1> QED
  BY <1>8, <1>9

(* The room the file has for the lock bits and the bitmap, and for chunks.  *)
LEMMA FileSizes ==
  ASSUME CfgInv
  PROVE  /\ wb.header \in Nat /\ wb.total \in Nat
         /\ wb.total = wb.header + UpToNearest(cfg.count * cfg.stride, LoadSize)
         /\ wb.ct = DivCeil(cfg.count, cfg.atOnce)
         /\ wb.multiplier = Multiplier(wb.ct)
         /\ wb.header = 2 * UpToNearest(DivCeil(wb.ct, 8), Page)
         /\ UpToNearest(DivCeil(wb.ct, 8), Page) \in Nat
         /\ wb.ct \in Nat /\ DivCeil(wb.ct, 8) \in Nat
         /\ DivCeil(wb.ct, 8) <= UpToNearest(DivCeil(wb.ct, 8), Page)
<1> DEFINE ct == DivCeil(cfg.count, cfg.atOnce)
           bytes == UpToNearest(DivCeil(ct, 8), Page)
<1>1. /\ cfg.count \in Nat /\ cfg.atOnce \in Nat \ {0} /\ Page \in Nat \ {0}
      /\ LoadSize \in Nat \ {0} /\ cfg.count * cfg.stride \in Nat
  BY Sizes
<1>2. wb = [ct |-> ct, header |-> 2 * bytes,
            total  |-> 2 * bytes + UpToNearest(cfg.count * cfg.stride, LoadSize),
            multiplier |-> Multiplier(ct)]
  BY DEF CfgInv, NewWriteback, DataBytes, LoadSize
<1>3. ct \in Nat
  BY <1>1, RoundedUp
<1> HIDE DEF ct
<1>4. DivCeil(ct, 8) \in Nat
  BY <1>3, RoundedUp
<1>5. bytes \in Nat /\ DivCeil(ct, 8) <= bytes
  BY <1>1, <1>4, RoundedUp
<1>6. UpToNearest(cfg.count * cfg.stride, LoadSize) \in Nat
  BY <1>1, RoundedUp
<1>7. /\ wb.ct = ct /\ wb.header = 2 * bytes /\ wb.multiplier = Multiplier(ct)
      /\ wb.total = 2 * bytes + UpToNearest(cfg.count * cfg.stride, LoadSize)
  BY <1>2
<1> HIDE DEF bytes
<1>8. wb.header \in Nat /\ wb.total \in Nat
  BY <1>5, <1>6, <1>7
<1> QED
  BY <1>3, <1>4, <1>5, <1>7, <1>8 DEF bytes, ct

LEMMA ChunkInFile ==
  ASSUME CfgInv, NEW b \in Body
  PROVE  wb.header + ChunkStart(b) + LoadSize <= wb.total
<1>1. /\ LoadSize \in Nat \ {0} /\ cfg.count * cfg.stride \in Nat
      /\ ChunkNumber(b) \in Nat /\ ChunkStart(b) \in Nat
      /\ ChunkStart(b) = ChunkNumber(b) * LoadSize
      /\ ChunkStart(b) < cfg.count * cfg.stride
  BY Sizes, ChunkOf, ElementsOf
<1>2. cfg.count * cfg.stride <= UpToNearest(cfg.count * cfg.stride, LoadSize)
      /\ UpToNearest(cfg.count * cfg.stride, LoadSize) \in Nat
  BY <1>1, RoundedUp
<1>3. ChunkNumber(b) * LoadSize + LoadSize <= UpToNearest(cfg.count * cfg.stride, LoadSize)
  <2> DEFINE k == ChunkNumber(b)
             x == cfg.count * cfg.stride
             n == LoadSize
  <2>1. k \in Nat /\ x \in Nat /\ n \in Nat \ {0} /\ k * n < UpToNearest(x, n)
    BY <1>1, <1>2
  <2> HIDE DEF k, x, n
  <2>2. k * n + n <= UpToNearest(x, n)
    BY <2>1, RoundedUpIsLeast
  <2> QED
    BY <2>2 DEF k, x, n
<1> QED
  BY <1>1, <1>2, <1>3, FileSizes

(* The bytes of the chunk that b is in.                                     *)
RangeOf(b) == ChunkStart(b)..(ChunkStart(b) + PopulateSize(b) - 1)

LEMMA RangeIsChunk ==
  ASSUME CfgInv, NEW b \in Body
  PROVE  /\ RangeOf(b) \subseteq Body
         /\ \A a \in Body : a \in RangeOf(b) <=> ChunkNumber(a) = ChunkNumber(b)
<1>1. /\ Body = 0..(Size - 1) /\ Size \in Nat /\ LoadSize \in Nat \ {0}
  BY Sizes
<1>p. ChunkNumber(b) \in Nat /\ ChunkStart(b) = ChunkNumber(b) * LoadSize
  BY ChunkOf
<1>2. /\ ChunkStart(b) \in Nat /\ PopulateSize(b) \in Nat
      /\ PopulateSize(b) = IF LoadSize <= Size - ChunkStart(b) THEN LoadSize
                           ELSE Size - ChunkStart(b)
      /\ ChunkStart(b) + PopulateSize(b) <= Size
  BY ChunkOf
<1> DEFINE start == ChunkStart(b)
           length == PopulateSize(b)
<1>d. RangeOf(b) = start..(start + length - 1)
  BY DEF RangeOf
<1>l. start \in Nat /\ length \in Nat /\ length <= LoadSize
  BY <1>1, <1>2
<1>s. length = IF LoadSize <= Size - start THEN LoadSize ELSE Size - start
  BY <1>2
<1>3. RangeOf(b) \subseteq Body
  BY <1>1, <1>2 DEF RangeOf
<1>4. ASSUME NEW a \in Body, a \in RangeOf(b) PROVE ChunkNumber(a) = ChunkNumber(b)
  <2>1. a \in start..(start + length - 1)
    BY <1>4, <1>d
  <2> HIDE DEF start, length
  <2>2. a \in Int /\ start <= a /\ a <= start + length - 1
    BY <2>1, <1>l
  <2>3. a - start \in Nat /\ a - start < LoadSize /\ a = start + (a - start)
    BY <2>2, <1>1, <1>l
  <2>4. (ChunkNumber(b) * LoadSize + (a - start)) \div LoadSize = ChunkNumber(b)
    BY <1>1, <1>p, <2>3, QuotientOf
  <2>5. ChunkNumber(b) * LoadSize = start
    BY <1>p DEF start
  <2> QED
    BY <2>3, <2>4, <2>5 DEF ChunkNumber
<1>5. ASSUME NEW a \in Body, ChunkNumber(a) = ChunkNumber(b) PROVE a \in RangeOf(b)
  <2>1. ChunkStart(a) = ChunkNumber(a) * LoadSize /\ a < ChunkStart(a) + LoadSize
        /\ ChunkStart(a) <= a
    BY ChunkOf
  <2>2. ChunkStart(a) = start
    BY <1>5, <1>p, <2>1
  <2>3. a \in Nat /\ a < Size
    BY <1>1
  <2>4. start <= a /\ a < start + LoadSize
    BY <2>1, <2>2
  <2> HIDE DEF start, length
  <2>5. a \in start..(start + length - 1)
    BY <1>1, <1>l, <1>s, <2>3, <2>4
  <2> QED
    BY <1>d, <2>5
<1> QED
  BY <1>3, <1>4, <1>5

(* The elements' bytes are in the body and have a place in the file.        *)
LEMMA ArrayInBody ==
  ASSUME CfgInv
  PROVE  /\ ArrayBytes \subseteq Body
         /\ \A b \in ArrayBytes : wb.header + b \in 0..(wb.total - 1)
<1>1. /\ cfg.count * cfg.stride \in Nat \ {0} /\ cfg.count * cfg.stride <= Size
      /\ Size \in Nat /\ Body = 0..(Size - 1) /\ LoadSize \in Nat \ {0}
  BY Sizes
<1>2. ArrayBytes \subseteq Body
  BY <1>1 DEF ArrayBytes
<1>3. /\ wb.header \in Nat /\ wb.total \in Nat
      /\ wb.total = wb.header + UpToNearest(cfg.count * cfg.stride, LoadSize)
  BY FileSizes
<1>4. /\ cfg.count * cfg.stride <= UpToNearest(cfg.count * cfg.stride, LoadSize)
      /\ UpToNearest(cfg.count * cfg.stride, LoadSize) \in Nat
  BY <1>1, RoundedUp
<1> QED
  BY <1>1, <1>2, <1>3, <1>4 DEF ArrayBytes
-----------------------------------------------------------------------------
(* The invariant: a chunk that is loaded is all there, one that is not has  *)
(* no byte in memory, and a chunk that is in the file has its bytes there.  *)

TypeInv ==
  /\ mem \in [Body -> Nat \cup {Missing, Stale}]
  /\ file \in [0..(wb.total - 1) -> Nat \cup {Stale}]

Chunk(b) == [number |-> ChunkNumber(b), at |-> ChunkStart(b), length |-> PopulateSize(b)]

ChunkInv == \A c \in chunks : \E b \in Body : c = Chunk(b)

Resident == \A b \in Body : mem[b] # Missing <=> Chunk(b) \in chunks

FileData ==
  \A b \in ArrayBytes : BitAt(ChunkNumber(b)) \in bitmap => file[wb.header + b] = b

HeaderClean == \A i \in DOMAIN file : file[i] # Stale => i >= wb.header

GInv == CfgInv /\ TypeInv /\ ChunkInv /\ Resident /\ FileData /\ HeaderClean /\ BytesInPlace

LEMMA SameChunk ==
  ASSUME CfgInv, NEW a \in Body, NEW b \in Body
  PROVE  a \in RangeOf(b) <=> Chunk(a) = Chunk(b)
<1>1. ASSUME ChunkNumber(a) = ChunkNumber(b) PROVE Chunk(a) = Chunk(b)
  <2>1. ChunkStart(a) = ChunkStart(b)
    BY <1>1, ChunkOf
  <2>2. PopulateSize(a) = PopulateSize(b)
    BY <2>1, ChunkOf
  <2> QED
    BY <1>1, <2>1, <2>2 DEF Chunk
<1>2. ASSUME Chunk(a) = Chunk(b) PROVE ChunkNumber(a) = ChunkNumber(b)
  <2>1. Chunk(a).number = ChunkNumber(a) /\ Chunk(b).number = ChunkNumber(b)
    BY DEF Chunk
  <2> QED
    BY <1>2, <2>1
<1> QED
  BY <1>1, <1>2, RangeIsChunk

LEMMA BitsDiffer ==
  ASSUME NEW m \in Nat, NEW n \in Nat, BitAt(m) = BitAt(n)
  PROVE  m = n
<1>1. m \div 8 = n \div 8 /\ m % 8 = n % 8
  BY DEF BitAt
<1> QED
  BY <1>1, Quotient

LEMMA NoSuchBytes == Missing \notin Nat \cup {Stale} /\ Stale \notin Nat
BY GeometryAssumption

(* No step changes the cut of the object.                                   *)
LEMMA Rigid ==
  ASSUME UNCHANGED <<cfg, wb>>
  PROVE  /\ CfgInv => CfgInv'
         /\ Body' = Body /\ ArrayBytes' = ArrayBytes /\ LoadSize' = LoadSize
         /\ \A b : ChunkNumber(b)' = ChunkNumber(b) /\ Chunk(b)' = Chunk(b)
<1>1. CfgInv => CfgInv'
  BY DEF CfgInv
<1>2. Body' = Body /\ ArrayBytes' = ArrayBytes /\ LoadSize' = LoadSize
  BY DEF Body, ArrayBytes, LoadSize
<1>3. ASSUME NEW b PROVE ChunkNumber(b)' = ChunkNumber(b) /\ Chunk(b)' = Chunk(b)
  <2>1. ChunkNumber(b)' = ChunkNumber(b)
    BY <1>2 DEF ChunkNumber
  <2>2. ChunkStart(b)' = ChunkStart(b)
    BY <1>2 DEF ChunkStart
  <2>3. PopulateSize(b)' = PopulateSize(b)
    BY <1>2, <2>2 DEF PopulateSize
  <2> QED
    BY <2>1, <2>2, <2>3 DEF Chunk
<1> QED
  BY <1>1, <1>2, <1>3

(* What is copied for a chunk: never a missing byte, and every byte of the  *)
(* array as it is, whether it is populated or read back.                    *)
LEMMA DataInPlace ==
  ASSUME GInv, NEW b \in Body, NEW a \in RangeOf(b)
  PROVE  /\ RawData(b)[a - ChunkStart(b)] \in Nat \cup {Stale}
         /\ a \in ArrayBytes => RawData(b)[a - ChunkStart(b)] = a
<1> DEFINE i == a - ChunkStart(b)
<1>0. CfgInv /\ TypeInv /\ FileData
  BY DEF GInv
<1>1. /\ ChunkStart(b) \in Nat /\ PopulateSize(b) \in Nat /\ LoadSize \in Nat \ {0}
      /\ PopulateSize(b) <= LoadSize
  <2>1. LoadSize \in Nat \ {0} /\ Size \in Nat
    BY <1>0, Sizes
  <2>2. /\ ChunkStart(b) \in Nat /\ PopulateSize(b) \in Nat
        /\ PopulateSize(b) = IF LoadSize <= Size - ChunkStart(b) THEN LoadSize
                             ELSE Size - ChunkStart(b)
    BY <1>0, ChunkOf
  <2> QED
    BY <2>1, <2>2
<1>2. /\ a \in Nat /\ i \in 0..(LoadSize - 1) /\ ChunkStart(b) + i = a
  BY <1>1 DEF RangeOf
<1>3. a \in Body /\ ChunkNumber(a) = ChunkNumber(b)
  BY <1>0, RangeIsChunk
<1> HIDE DEF i
<1>4. CASE BitAt(ChunkNumber(b)) \in bitmap
  <2> DEFINE p == wb.header + a
  <2>1. wb.header \in Nat /\ wb.total \in Nat
    BY <1>0, FileSizes
  <2>2. wb.header + ChunkStart(b) + i = p
    BY <1>1, <1>2, <2>1
  <2>3. RawData(b)[i] = IF p \in DOMAIN file THEN file[p] ELSE Stale
    BY <1>2, <1>4, <2>2 DEF RawData, ReadBack
  <2>4. a \in ArrayBytes => p \in DOMAIN file /\ file[p] = a
    BY <1>0, <1>3, <1>4, ArrayInBody DEF FileData, TypeInv
  <2>5. p \in DOMAIN file => file[p] \in Nat \cup {Stale}
    BY <1>0 DEF TypeInv
  <2> QED
    BY <2>3, <2>4, <2>5 DEF i
<1>5. CASE BitAt(ChunkNumber(b)) \notin bitmap
  <2>1. RawData(b)[i] = IF i < (PopEnd(b) - First(b)) * cfg.stride
                        THEN First(b) * cfg.stride + i ELSE Stale
    BY <1>2, <1>5 DEF RawData, Populated
  <2>2. First(b) * cfg.stride = ChunkStart(b)
    BY <1>0, ElementsOf
  <2>3. a \in ArrayBytes => i < (PopEnd(b) - First(b)) * cfg.stride
    <3>1. cfg.count * cfg.stride \in Nat
      BY <1>0, Sizes
    <3>2. a \in ArrayBytes => ChunkStart(b) + i < cfg.count * cfg.stride
      BY <1>2, <3>1 DEF ArrayBytes
    <3> QED
      BY <1>0, <1>2, <3>2, ElementsOf
  <2> QED
    BY <1>2, <2>1, <2>2, <2>3 DEF i
<1> QED
  BY <1>4, <1>5
-----------------------------------------------------------------------------
(* Every step keeps the invariant.                                          *)

LEMMA InitGood == Init => GInv
<1> SUFFICES ASSUME Init PROVE GInv
  OBVIOUS
<1>1. CfgInv
  BY ConfigsAreGood DEF Init, CfgInv
<1>2. wb.total \in Nat
  BY <1>1, FileSizes
<1>3. TypeInv
  BY DEF Init, TypeInv
<1>4. ChunkInv /\ Resident /\ FileData
  BY DEF Init, ChunkInv, Resident, FileData
<1>5. HeaderClean
  BY DEF Init, HeaderClean
<1>6. BytesInPlace
  BY <1>1, ArrayInBody DEF Init, BytesInPlace
<1> QED
  BY <1>1, <1>3, <1>4, <1>5, <1>6 DEF GInv

LEMMA LoadGood ==
  ASSUME GInv, NEW b \in Body, Load(b)
  PROVE  GInv' /\ mem'[b] # Missing
<1>0. CfgInv /\ TypeInv /\ ChunkInv /\ Resident /\ FileData /\ HeaderClean /\ BytesInPlace
  BY DEF GInv
<1>1. /\ mem' = [a \in Body |-> IF a \in RangeOf(b) THEN RawData(b)[a - ChunkStart(b)] ELSE mem[a]]
      /\ chunks' = chunks \cup {Chunk(b)}
      /\ UNCHANGED <<cfg, wb, bitmap, file>>
  BY DEF Load, RangeOf, Chunk
<1>2. /\ CfgInv' /\ Body' = Body /\ ArrayBytes' = ArrayBytes
      /\ \A a : ChunkNumber(a)' = ChunkNumber(a) /\ Chunk(a)' = Chunk(a)
  BY <1>0, <1>1, Rigid
<1>3. \A a \in Body : IF a \in RangeOf(b) THEN mem'[a] \in Nat \cup {Stale}
                                          ELSE mem'[a] = mem[a]
  BY <1>1, DataInPlace
<1>4. TypeInv'
  <2>1. mem' \in [Body -> Nat \cup {Missing, Stale}]
    BY <1>0, <1>1, <1>3 DEF TypeInv
  <2> QED
    BY <1>0, <1>1, <1>2, <2>1 DEF TypeInv
<1>5. ChunkInv'
  BY <1>0, <1>1, <1>2 DEF ChunkInv
<1>6. \A a \in Body : mem'[a] # Missing <=> Chunk(a) \in chunks'
  <2> TAKE a \in Body
  <2>1. CASE a \in RangeOf(b)
    BY <1>0, <1>1, <1>3, <2>1, SameChunk, NoSuchBytes
  <2>2. CASE a \notin RangeOf(b)
    BY <1>0, <1>1, <1>3, <2>2, SameChunk DEF Resident
  <2> QED
    BY <2>1, <2>2
<1>7. Resident'
  BY <1>2, <1>6 DEF Resident
<1>8. FileData'
  BY <1>0, <1>1, <1>2 DEF FileData
<1>9. HeaderClean'
  BY <1>0, <1>1 DEF HeaderClean
<1>10. BytesInPlace'
  <2> SUFFICES ASSUME NEW a \in ArrayBytes PROVE mem'[a] \in {Missing, a}
    BY <1>2 DEF BytesInPlace
  <2>1. a \in Body
    BY <1>0, ArrayInBody
  <2>2. CASE a \in RangeOf(b)
    BY <1>1, <2>1, <2>2, DataInPlace
  <2>3. CASE a \notin RangeOf(b)
    BY <1>0, <1>3, <2>1, <2>3 DEF BytesInPlace
  <2> QED
    BY <2>2, <2>3
<1>11. mem'[b] # Missing
  BY <1>1, <1>6
<1> QED
  BY <1>2, <1>4, <1>5, <1>7, <1>8, <1>9, <1>10, <1>11 DEF GInv

(* Rounding a chunk to pages changes nothing.                               *)
LEMMA WholePagesRemoved ==
  ASSUME CfgInv, NEW b \in Body
  PROVE  Removed(Chunk(b)) = RangeOf(b)
<1>1. PICK k \in Nat : PopulateSize(b) = k * Page
  BY ChunkOf
<1>2. Page \in Nat \ {0} /\ k * Page \in Nat
  BY Sizes, Products
<1>3. (k * Page + (Page - 1)) \div Page = k
  BY <1>2, QuotientOf
<1>4. UpToNearest(PopulateSize(b), Page) = PopulateSize(b)
  BY <1>1, <1>2, <1>3 DEF UpToNearest
<1>5. Chunk(b).at = ChunkStart(b) /\ Chunk(b).length = PopulateSize(b)
  BY DEF Chunk
<1> QED
  BY <1>4, <1>5 DEF Removed, RangeOf

LEMMA EvictGood ==
  ASSUME GInv, NEW c \in chunks, NEW dirty \in BOOLEAN, Evict(c, dirty)
  PROVE  GInv'
<1>0. CfgInv /\ TypeInv /\ ChunkInv /\ Resident /\ FileData /\ HeaderClean /\ BytesInPlace
  BY DEF GInv
<1>1. PICK b \in Body : c = Chunk(b)
  BY <1>0 DEF ChunkInv
<1>2. c.number = ChunkNumber(b) /\ c.at = ChunkStart(b) /\ c.length = PopulateSize(b)
  BY <1>1 DEF Chunk
<1> DEFINE pos == wb.header + ChunkStart(b)
           expected == Min({LoadSize, wb.total - pos})
<1>3. /\ chunks' = chunks \ {c}
      /\ mem' = [a \in Body |-> IF a \in RangeOf(b) THEN Missing ELSE mem[a]]
      /\ UNCHANGED <<cfg, wb>>
  BY <1>0, <1>1, WholePagesRemoved DEF Evict
<1>4. \/ /\ PopulateSize(b) = expected
         /\ bitmap' = bitmap \cup {BitAt(ChunkNumber(b))}
         /\ file' = [i \in DOMAIN file |->
                       IF i \in pos..(pos + expected - 1)
                       THEN mem[ChunkStart(b) + i - pos] ELSE file[i]]
      \/ UNCHANGED <<bitmap, file>>
  BY <1>2 DEF Evict
<1>5. /\ CfgInv' /\ Body' = Body /\ ArrayBytes' = ArrayBytes
      /\ \A a : ChunkNumber(a)' = ChunkNumber(a) /\ Chunk(a)' = Chunk(a)
  BY <1>0, <1>3, Rigid
<1>6. /\ wb.header \in Nat /\ wb.total \in Nat /\ ChunkStart(b) \in Nat /\ pos \in Nat
      /\ LoadSize \in Nat \ {0}
  <2>1. wb.header \in Nat /\ wb.total \in Nat
    BY <1>0, FileSizes
  <2>2. ChunkStart(b) \in Nat
    BY <1>0, ChunkOf
  <2>3. LoadSize \in Nat \ {0}
    BY <1>0, Sizes
  <2> QED
    BY <2>1, <2>2, <2>3
<1>7. expected = LoadSize
  <2>1. LoadSize <= wb.total - pos
    BY <1>0, <1>6, ChunkInFile
  <2> QED
    BY <1>6, <2>1, MinOfTwo
<1> HIDE DEF expected
<1>8. \A a \in Body : a \in RangeOf(b) => mem[a] \in Nat \cup {Stale}
  <2> TAKE a \in Body
  <2> HAVE a \in RangeOf(b)
  <2>1. Chunk(a) = c
    BY <1>0, <1>1, SameChunk
  <2> QED
    BY <1>0, <2>1 DEF Resident, TypeInv
<1>9. mem' \in [Body -> Nat \cup {Missing, Stale}]
  BY <1>0, <1>3 DEF TypeInv
<1>10. ChunkInv'
  BY <1>0, <1>3, <1>5 DEF ChunkInv
<1>11. Resident'
  <2> SUFFICES ASSUME NEW a \in Body PROVE mem'[a] # Missing <=> Chunk(a) \in chunks'
    BY <1>5 DEF Resident
  <2> QED
    BY <1>0, <1>1, <1>3, SameChunk DEF Resident
<1>12. BytesInPlace'
  <2> SUFFICES ASSUME NEW a \in ArrayBytes PROVE mem'[a] \in {Missing, a}
    BY <1>5 DEF BytesInPlace
  <2> QED
    BY <1>0, <1>3, ArrayInBody DEF BytesInPlace
<1>13. CASE UNCHANGED <<bitmap, file>>
  <2>1. TypeInv'
    BY <1>0, <1>3, <1>5, <1>9, <1>13 DEF TypeInv
  <2>2. FileData'
    BY <1>0, <1>3, <1>5, <1>13 DEF FileData
  <2>3. HeaderClean'
    BY <1>0, <1>3, <1>13 DEF HeaderClean
  <2> QED
    BY <1>5, <1>10, <1>11, <1>12, <2>1, <2>2, <2>3 DEF GInv
<1>14. CASE /\ PopulateSize(b) = expected
            /\ bitmap' = bitmap \cup {BitAt(ChunkNumber(b))}
            /\ file' = [i \in DOMAIN file |->
                          IF i \in pos..(pos + expected - 1)
                          THEN mem[ChunkStart(b) + i - pos] ELSE file[i]]
  <2>1. DOMAIN file = 0..(wb.total - 1)
    BY <1>0 DEF TypeInv
  <2>2. ASSUME NEW i \in DOMAIN file, i \in pos..(pos + expected - 1)
        PROVE  ChunkStart(b) + i - pos \in Body /\ ChunkStart(b) + i - pos \in RangeOf(b)
    <3>1. ChunkStart(b) + i - pos \in RangeOf(b)
      BY <1>6, <1>7, <1>14, <2>1, <2>2 DEF RangeOf
    <3> QED
      BY <1>0, <3>1, RangeIsChunk
  <2>3. \A i \in DOMAIN file' : file'[i] \in Nat \cup {Stale}
    BY <1>0, <1>8, <1>14, <2>2 DEF TypeInv
  <2>4. file' \in [0..(wb.total - 1) -> Nat \cup {Stale}]
    <3>1. file' = [i \in DOMAIN file |-> file'[i]]
      BY <1>14
    <3> QED
      BY <1>14, <2>1, <2>3, <3>1
  <2>5. TypeInv'
    BY <1>3, <1>5, <1>9, <2>4 DEF TypeInv
  <2>6. HeaderClean'
    <3> SUFFICES ASSUME NEW i \in DOMAIN file, file'[i] # Stale PROVE i >= wb.header
      BY <1>3, <1>14 DEF HeaderClean
    <3> QED
      BY <1>0, <1>6, <1>14, <2>1 DEF HeaderClean
  <2>7. FileData'
    <3> SUFFICES ASSUME NEW a \in ArrayBytes, BitAt(ChunkNumber(a)) \in bitmap'
                 PROVE  file'[wb.header + a] = a
      BY <1>3, <1>5 DEF FileData
    <3>1. a \in Body /\ wb.header + a \in DOMAIN file /\ a \in Nat
      BY <1>0, <2>1, ArrayInBody, Sizes
    <3>2. CASE a \in RangeOf(b)
      <4>1. wb.header + a \in pos..(pos + expected - 1)
        BY <1>6, <1>7, <1>14, <3>1, <3>2 DEF RangeOf
      <4>2. ChunkStart(b) + (wb.header + a) - pos = a
        BY <1>6, <3>1
      <4>3. file'[wb.header + a] = mem[a]
        BY <1>14, <3>1, <4>1, <4>2
      <4>4. mem[a] \in {Missing, a} /\ mem[a] # Missing
        BY <1>0, <1>8, <3>1, <3>2, NoSuchBytes DEF BytesInPlace
      <4> QED
        BY <4>3, <4>4
    <3>3. CASE a \notin RangeOf(b)
      <4>1. wb.header + a \notin pos..(pos + expected - 1)
        BY <1>6, <1>7, <1>14, <3>1, <3>3 DEF RangeOf
      <4>2. BitAt(ChunkNumber(a)) # BitAt(ChunkNumber(b))
        <5>1. ChunkNumber(a) # ChunkNumber(b)
          BY <1>0, <3>1, <3>3, RangeIsChunk
        <5>2. ChunkNumber(a) \in Nat /\ ChunkNumber(b) \in Nat
          BY <1>0, <3>1, ChunkOf
        <5> QED
          BY <5>1, <5>2, BitsDiffer
      <4> QED
        BY <1>0, <1>14, <3>1, <4>1, <4>2 DEF FileData
    <3> QED
      BY <3>2, <3>3
  <2> QED
    BY <1>5, <1>10, <1>11, <1>12, <2>5, <2>6, <2>7 DEF GInv
<1> QED
  BY <1>4, <1>13, <1>14

LEMMA ResetGood ==
  ASSUME GInv, Reset
  PROVE  GInv'
<1>0. CfgInv /\ TypeInv /\ UNCHANGED <<cfg, wb>>
  BY DEF GInv, Reset
<1>1. /\ CfgInv' /\ Body' = Body /\ ArrayBytes' = ArrayBytes
      /\ \A a : ChunkNumber(a)' = ChunkNumber(a) /\ Chunk(a)' = Chunk(a)
  BY <1>0, Rigid
<1>2. TypeInv'
  BY <1>0, <1>1 DEF Reset, TypeInv
<1>3. ChunkInv' /\ Resident'
  BY <1>1 DEF Reset, ChunkInv, Resident
<1>4. FileData'
  BY DEF Reset, FileData
<1>5. HeaderClean'
  BY DEF Reset, HeaderClean
<1>6. BytesInPlace'
  BY <1>0, <1>1, ArrayInBody DEF Reset, BytesInPlace
<1> QED
  BY <1>1, <1>2, <1>3, <1>4, <1>5, <1>6 DEF GInv

LEMMA StepGood ==
  ASSUME GInv, [Next]_vars
  PROVE  GInv'
<1>1. CASE Next
  BY <1>1, LoadGood, EvictGood, ResetGood DEF Next
<1>2. CASE UNCHANGED vars
  <2>1. UNCHANGED <<cfg, wb>> /\ UNCHANGED <<mem, chunks, bitmap, file>>
    BY <1>2 DEF vars
  <2>2. /\ CfgInv' /\ Body' = Body /\ ArrayBytes' = ArrayBytes
        /\ \A a : ChunkNumber(a)' = ChunkNumber(a) /\ Chunk(a)' = Chunk(a)
    BY <2>1, Rigid DEF GInv
  <2> QED
    BY <2>1, <2>2 DEF GInv, TypeInv, ChunkInv, Resident, FileData, HeaderClean, BytesInPlace
<1> QED
  BY <1>1, <1>2

LEMMA SpecGood == Spec => []GInv
<1>1. GInv /\ [Next]_vars => GInv'
  BY StepGood
<1> QED
  BY <1>1, InitGood, PTL DEF Spec
-----------------------------------------------------------------------------
(* What follows from the invariant.                                         *)

(* Every byte of the array that is in memory is the byte that belongs       *)
(* there, for every size of page, header, element and load: new_config,     *)
(* populate_impl, writeback and try_readback cut the object the same way.   *)
THEOREM SpecBytesInPlace == Spec => []BytesInPlace
<1>1. GInv => BytesInPlace
  BY DEF GInv
<1> QED
  BY <1>1, SpecGood, PTL

(* The kernel accepts every copy: it is whole pages inside the mapping, and *)
(* none of them is in memory, although only the byte that faulted is known  *)
(* to be missing.                                                           *)
THEOREM SpecCopySucceeds == Spec => []CopySucceeds
<1>1. ASSUME GInv PROVE CopySucceeds
  <2>0. CfgInv /\ Resident
    BY <1>1 DEF GInv
  <2> SUFFICES ASSUME NEW b \in Body, mem[b] = Missing
               PROVE  /\ Divides(Page, cfg.header + ChunkStart(b))
                      /\ Divides(Page, PopulateSize(b))
                      /\ RangeOf(b) \subseteq Body
                      /\ \A a \in RangeOf(b) : mem[a] = Missing
    BY DEF CopySucceeds, RangeOf
  <2>1. Page \in Nat \ {0} /\ cfg.header \in Nat /\ \E k \in Nat : cfg.header = k * Page
    BY <2>0, Sizes
  <2>2. /\ ChunkStart(b) \in Nat /\ \E k \in Nat : ChunkStart(b) = k * Page
        /\ PopulateSize(b) \in Nat /\ \E k \in Nat : PopulateSize(b) = k * Page
    BY <2>0, ChunkOf
  <2>3. Divides(Page, cfg.header + ChunkStart(b))
    <3>1. \E k \in Nat : cfg.header + ChunkStart(b) = k * Page
      BY <2>1, <2>2, MultiplePlus
    <3> QED
      BY <2>1, <2>2, <3>1, DividesMultiple
  <2>4. Divides(Page, PopulateSize(b))
    BY <2>1, <2>2, DividesMultiple
  <2>5. RangeOf(b) \subseteq Body
    BY <2>0, RangeIsChunk
  <2>6. ASSUME NEW a \in RangeOf(b) PROVE mem[a] = Missing
    <3>1. a \in Body /\ Chunk(a) = Chunk(b)
      BY <2>0, <2>5, SameChunk
    <3> QED
      BY <2>0, <3>1 DEF Resident
  <2> QED
    BY <2>3, <2>4, <2>5, <2>6
<1> QED
  BY <1>1, SpecGood, PTL

(* A load puts the byte that faulted into memory: the thread does not fault *)
(* for ever on a chunk that was populated without it.                       *)
THEOREM SpecFaultServed == Spec => FaultServed
<1>1. ASSUME GInv PROVE \A b \in Body : Load(b) => mem'[b] # Missing
  BY <1>1, LoadGood
<1>2. GInv /\ [Next]_vars => [\A b \in Body : Load(b) => mem'[b] # Missing]_vars
  BY <1>1
<1> QED
  BY <1>2, SpecGood, PTL DEF Spec, FaultServed

(* A populate function is never asked for no element, nor for one behind    *)
(* the end: the padding of the body to pages never is a chunk of its own.   *)
THEOREM SpecElementsExist == Spec => []ElementsExist
<1>1. GInv => ElementsExist
  BY ElementsOf DEF GInv, ElementsExist
<1> QED
  BY <1>1, SpecGood, PTL

(* No chunk is read from behind the end of the file, and the bitmap and the *)
(* lock bits are not overwritten with data.                                 *)
THEOREM SpecFileHoldsChunks == Spec => []FileHoldsChunks
<1>1. GInv => FileHoldsChunks
  BY ChunkInFile DEF GInv, FileHoldsChunks, HeaderClean
<1> QED
  BY <1>1, SpecGood, PTL
-----------------------------------------------------------------------------
(* The lock bits of different chunks are different bits: multiplying by a   *)
(* number that has no factor in common with the number of chunks permutes   *)
(* them.                                                                    *)

(* Multiples of n among the multiples of m, when they are coprime: the      *)
(* least x > 0 with n dividing x * m divides every other one, n among them, *)
(* and what is left of n divides m, so it is 1.                             *)
LEMMA CoprimeCancels ==
  ASSUME NEW m \in Nat, NEW n \in Nat \ {0}, Coprime(m, n),
         NEW x \in Nat, \E k \in Nat : x * m = k * n
  PROVE  \E k \in Nat : x = k * n
<1> DEFINE X == {y \in Nat : \E k \in Nat : y * m = k * n}
           P == X \ {0}
<1>1. n \in P
  <2>1. n * m = m * n
    BY Products
  <2> QED
    BY <2>1
<1>2. PICK d \in P : \A y \in P : d <= y
  BY <1>1, LeastElement
<1>3. d \in Nat \ {0} /\ \E k \in Nat : d * m = k * n
  BY <1>2
<1>4. ASSUME NEW y \in X PROVE \E k \in Nat : y = k * d
  <2> DEFINE q == y \div d
             r == y % d
  <2>1. q \in Nat /\ r \in Nat /\ r < d /\ y = q * d + r /\ y \in Nat /\ q * d \in Nat
    BY <1>3, Quotient, Products
  <2> HIDE DEF q, r
  <2>2. y * m = (q * d) * m + r * m /\ (q * d) * m = q * (d * m)
    BY <1>3, <2>1, Products
  <2>3. PICK j \in Nat : d * m = j * n
    BY <1>3
  <2>4. PICK k \in Nat : y * m = k * n
    BY <1>4
  <2>5. q * (j * n) = (q * j) * n /\ q * j \in Nat
    BY <2>1, <2>3, Products
  <2>6. r * m = k * n - (q * j) * n /\ r * m \in Nat /\ k * n \in Nat /\ (q * j) * n \in Nat
    <3>1. r * m \in Nat /\ k * n \in Nat /\ (q * j) * n \in Nat
      BY <2>1, <2>4, <2>5, Products
    <3> QED
      BY <2>2, <2>3, <2>4, <2>5, <3>1
  <2>7. \E i \in Nat : r * m = i * n
    <3> DEFINE u == k * n
               v == (q * j) * n
    <3>1. /\ u \in Nat /\ v \in Nat /\ v <= u
          /\ \E i \in Nat : u = i * n
          /\ \E i \in Nat : v = i * n
      <4>1. u \in Nat /\ v \in Nat /\ r * m \in Nat /\ r * m = u - v
        BY <2>6
      <4>2. v <= u
        <5> HIDE DEF u, v
        <5> QED
          BY <4>1
      <4> QED
        BY <4>1, <4>2, <2>5
    <3>2. r * m = u - v
      BY <2>6
    <3> HIDE DEF u, v, X, P
    <3>3. \E i \in Nat : u - v = i * n
      BY <3>1, MultipleMinus
    <3> QED
      BY <3>2, <3>3
  <2>8. r = 0
    <3>1. r \in X
      BY <2>1, <2>7
    <3> QED
      BY <1>2, <2>1, <3>1
  <2> QED
    BY <2>1, <2>8
<1>5. PICK e \in Nat : n = e * d
  BY <1>1, <1>4
<1>6. PICK f \in Nat : d * m = f * n
  BY <1>3
<1> HIDE DEF X, P
<1>7. m = f * e
  <2>1. f * (e * d) = (f * e) * d /\ f * e \in Nat /\ m * d = d * m
    BY <1>3, Products
  <2>2. m * d = (f * e) * d
    BY <1>5, <1>6, <2>1
  <2>3. ~(m < f * e)
    <3> SUFFICES ASSUME m < f * e PROVE FALSE
      OBVIOUS
    <3>1. m * d < (f * e) * d
      BY <1>3, <2>1, Products
    <3>2. m * d \in Nat
      BY <1>3, Products
    <3> QED
      BY <2>2, <3>1, <3>2
  <2>4. ~(f * e < m)
    <3> SUFFICES ASSUME f * e < m PROVE FALSE
      OBVIOUS
    <3>1. (f * e) * d < m * d
      BY <1>3, <2>1, Products
    <3>2. m * d \in Nat
      BY <1>3, Products
    <3> QED
      BY <2>2, <3>1, <3>2
  <2> QED
    BY <2>1, <2>3, <2>4
<1>8. e # 0 /\ e <= n
  <2>1. e # 0
    BY <1>3, <1>5
  <2>2. 1 * e <= d * e /\ d * e = e * d
    BY <1>3, Products
  <2> QED
    BY <1>5, <2>1, <2>2
<1>9. e = 1
  <2> SUFFICES ASSUME e # 1 PROVE FALSE
    OBVIOUS
  <2>1. e \in 2..n
    BY <1>8
  <2>2. Divides(e, m)
    BY <1>7, <1>8, DividesMultiple
  <2>3. Divides(e, n)
    <3>1. n = d * e
      BY <1>3, <1>5, Products
    <3> QED
      BY <1>3, <1>8, <3>1, DividesMultiple
  <2> QED
    BY <2>1, <2>2, <2>3 DEF Coprime
<1>10. d = n
  BY <1>3, <1>5, <1>9
<1> QED
  BY <1>4, <1>10 DEF X

LEMMA CoprimeMultiplier ==
  ASSUME NEW ct \in Nat \ {0}
  PROVE  Multiplier(ct) \in Nat /\ Coprime(Multiplier(ct), ct)
<1> DEFINE C == {m \in 512..(512 + ct) : Coprime(m, ct)}
           q == 511 \div ct
           r == 511 % ct
           u == (q + 1) * ct
<1>1. q \in Nat /\ r \in Nat /\ r < ct /\ 511 = q * ct + r
  BY Quotient
<1> HIDE DEF q, r
<1>2. u \in Nat /\ u = q * ct + ct /\ q * ct \in Nat
  BY <1>1, Products
<1>3. u + 1 \in 512..(512 + ct)
  BY <1>1, <1>2
<1>4. Coprime(u + 1, ct)
  <2> SUFFICES ASSUME NEW d \in 2..ct, Divides(d, u + 1), Divides(d, ct) PROVE FALSE
    BY DEF Coprime
  <2>1. PICK j \in Nat : ct = j * d
    BY DividesMultiple
  <2>2. (q + 1) * ct = ((q + 1) * j) * d /\ (q + 1) * j \in Nat
    BY <1>1, <2>1, Products
  <2>3. \E k \in Nat : u = k * d
    BY <2>2
  <2>4. \E k \in Nat : u + 1 = k * d
    BY <1>2, DividesMultiple
  <2> HIDE DEF u
  <2>5. \E k \in Nat : (u + 1) - u = k * d
    BY <1>2, <2>3, <2>4, MultipleMinus
  <2>6. PICK k \in Nat : 1 = k * d
    BY <1>2, <2>5
  <2>7. k # 0
    BY <2>6
  <2>8. 1 * d <= k * d
    BY <2>7, Products
  <2> QED
    BY <2>6, <2>8
<1>5. u + 1 \in C
  BY <1>3, <1>4
<1>6. Multiplier(ct) = Min(C)
  BY DEF Multiplier
<1>7. C \in SUBSET Nat /\ C # {}
  BY <1>5
<1>8. Min(C) \in C
  BY <1>7, MinIsLeast
<1> QED
  BY <1>6, <1>8

LEMMA BitsPermute ==
  ASSUME NEW ct \in Nat \ {0}, NEW k \in Nat, Coprime(k, ct),
         NEW m \in 0..(ct - 1), NEW n \in 0..(ct - 1), m <= n,
         (m * k) % ct = (n * k) % ct
  PROVE  m = n
<1> DEFINE r == (m * k) % ct
           i == (m * k) \div ct
           j == (n * k) \div ct
<1>1. m * k \in Nat /\ n * k \in Nat /\ m * k <= n * k
  BY Products
<1>2. i \in Nat /\ r \in Nat /\ m * k = i * ct + r
  BY <1>1, Quotient
<1>3. j \in Nat /\ n * k = j * ct + r
  BY <1>1, Quotient
<1> HIDE DEF i, j, r
<1>4. n - m \in Nat /\ (n - m) + m = n
  OBVIOUS
<1>5. (n - m) * k = n * k - m * k
  <2>1. n * k = (n - m) * k + m * k /\ (n - m) * k \in Nat
    BY <1>4, Products
  <2> QED
    BY <1>1, <2>1
<1>6. i * ct \in Nat /\ j * ct \in Nat
  BY <1>2, <1>3, Products
<1>7. (n - m) * k = j * ct - i * ct /\ i * ct <= j * ct
  BY <1>1, <1>2, <1>3, <1>5, <1>6
<1>8. \E l \in Nat : (n - m) * k = l * ct
  <2> DEFINE u == j * ct
             v == i * ct
  <2>1. /\ u \in Nat /\ v \in Nat /\ v <= u
        /\ \E l \in Nat : u = l * ct
        /\ \E l \in Nat : v = l * ct
    BY <1>2, <1>3, <1>6, <1>7
  <2>2. (n - m) * k = u - v
    BY <1>7
  <2> HIDE DEF u, v
  <2>3. \E l \in Nat : u - v = l * ct
    BY <2>1, MultipleMinus
  <2> QED
    BY <2>2, <2>3
<1>9. PICK l \in Nat : n - m = l * ct
  <2> DEFINE x == n - m
  <2>1. x \in Nat /\ \E l \in Nat : x * k = l * ct
    BY <1>4, <1>8
  <2> HIDE DEF x
  <2>2. \E l \in Nat : x = l * ct
    BY <2>1, CoprimeCancels
  <2> QED
    BY <2>2 DEF x
<1>10. l = 0
  <2> SUFFICES ASSUME l # 0 PROVE FALSE
    OBVIOUS
  <2>1. 1 * ct <= l * ct
    BY Products
  <2> QED
    BY <1>9, <2>1
<1> QED
  BY <1>9, <1>10

(* No two chunks of an object share a lock bit, however many there are, and *)
(* every lock bit and every bit of the bitmap is inside its half of the     *)
(* file's header.                                                           *)
THEOREM SpecBitsApart == Spec => []BitsApart
<1>1. ASSUME CfgInv PROVE BitsApart
  <2> DEFINE k == wb.multiplier
             bytes == UpToNearest(DivCeil(wb.ct, 8), Page)
  <2> SUFFICES ASSUME NEW m \in 0..(wb.ct - 1), NEW n \in 0..(wb.ct - 1)
               PROVE  /\ LockBit(m) = LockBit(n) => m = n
                      /\ LockBit(n)[1] < wb.header \div 2 /\ BitAt(n)[1] < wb.header \div 2
    BY DEF BitsApart
  <2>1. /\ wb.ct \in Nat \ {0} /\ k = Multiplier(wb.ct)
        /\ wb.header = 2 * bytes /\ bytes \in Nat
        /\ DivCeil(wb.ct, 8) \in Nat /\ DivCeil(wb.ct, 8) <= bytes
    BY <1>1, FileSizes
  <2>2. k \in Nat /\ Coprime(k, wb.ct)
    BY <2>1, CoprimeMultiplier
  <2> HIDE DEF k, bytes
  <2>3. /\ m \in Nat /\ n \in Nat
        /\ m * k \in Nat /\ n * k \in Nat
        /\ (m * k) % wb.ct \in Nat /\ (n * k) % wb.ct \in Nat /\ (n * k) % wb.ct < wb.ct
    BY <2>1, <2>2, Products, Quotient
  <2>4. ASSUME LockBit(m) = LockBit(n) PROVE m = n
    <3>1. (m * k) % wb.ct = (n * k) % wb.ct
      BY <2>3, <2>4, BitsDiffer DEF LockBit, k
    <3> QED
      BY <2>1, <2>2, <2>3, <3>1, BitsPermute
  <2>5. wb.header \div 2 = bytes
    BY <2>1
  <2>6. ASSUME NEW x \in Nat, x < wb.ct PROVE BitAt(x)[1] < wb.header \div 2
    <3>1. x \div 8 < DivCeil(wb.ct, 8)
      BY <2>1, <2>6 DEF DivCeil
    <3> QED
      BY <2>1, <2>5, <3>1 DEF BitAt
  <2>7. LockBit(n)[1] < wb.header \div 2 /\ BitAt(n)[1] < wb.header \div 2
    <3> DEFINE x == (n * k) % wb.ct
    <3>1. x \in Nat /\ x < wb.ct /\ n < wb.ct
      BY <2>1, <2>3
    <3>2. LockBit(n) = BitAt(x)
      BY DEF LockBit, k
    <3> HIDE DEF x
    <3> QED
      BY <2>3, <2>6, <3>1, <3>2
  <2> QED
    BY <2>4, <2>7
<1>2. GInv => BitsApart
  BY <1>1 DEF GInv
<1> QED
  BY <1>2, SpecGood, PTL
==============================================================================
