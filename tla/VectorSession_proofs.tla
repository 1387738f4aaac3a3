------------------------ MODULE VectorSession_proofs ------------------------
(* Proofs about the vectors of a session, for any number of vectors, files,  *)
(* threads and workers, and sources of any kind: the files they keep open,   *)
(* and that they hold what plain R vectors would.                            *)
EXTENDS VectorSession, FiniteSetTheorems, SequenceTheorems, TLAPS

FileBodies == {o \in Bodies : ufo[o].source.kind = "file"}
OpenAlts == {a \in AltIds : alt[a] # Gone /\ alt[a].handle = "open"}

(* An ALTREP vector keeps its fields.                                        *)
AltRecord(v) ==
    v = [source |-> v.source, type |-> v.type, length |-> v.length, handle |-> v.handle,
         payload |-> v.payload, filled |-> v.filled]

UfoFilesInv ==
    /\ ufo = [o \in Ids |-> ufo[o]]
    /\ lost \in Nat
    /\ files = lost + Cardinality(FileBodies)

AltFilesInv ==
    /\ alt = [a \in AltIds |-> alt[a]]
    /\ \A a \in AltIds : alt[a] = Gone \/ AltRecord(alt[a])
    /\ altFiles = Cardinality(OpenAlts)

FilesInv == UfoFilesInv /\ AltFilesInv
-----------------------------------------------------------------------------
(* The vectors with an open file are finitely many.                          *)
LEMMA FinitelyMany == IsFiniteSet(FileBodies) /\ IsFiniteSet(OpenAlts)
<1>1. FileBodies \subseteq Ids /\ OpenAlts \subseteq AltIds
  BY DEF FileBodies, Bodies, OpenAlts
<1> QED
  BY <1>1, FS_Subset, IdsAssumption, AltIdsAssumption

(* A session starts with no file open.                                       *)
LEMMA InitFiles == Init => FilesInv
<1> SUFFICES ASSUME Init PROVE FilesInv
  OBVIOUS
<1>1. ufo = [o \in Ids |-> Absent] /\ lost = 0 /\ files = 0
  BY DEF Init, UfoInit
<1>2. alt = [a \in AltIds |-> Gone] /\ altFiles = 0
  BY DEF Init, AltInit
<1>3. FileBodies = {} /\ OpenAlts = {}
  BY <1>1, <1>2 DEF FileBodies, Bodies, OpenAlts, Absent
<1> QED
  BY <1>1, <1>2, <1>3, FS_EmptySet DEF FilesInv, UfoFilesInv, AltFilesInv

-----------------------------------------------------------------------------
(* Steps that make, collect and close no UFO.                                *)
LEMMA UfoSame ==
  ASSUME UfoFilesInv, UNCHANGED <<ufo, files, lost>>
  PROVE  UfoFilesInv'
<1>1. FileBodies' = FileBodies
  BY DEF FileBodies, Bodies
<1> QED
  BY <1>1 DEF UfoFilesInv

(* A new vector has the file that was opened for it, or the file is lost.    *)
LEMMA NewFiles ==
  ASSUME UfoFilesInv, NEW o \in Ids, NEW source, NEW type, NEW extent, New(o, source, type, extent)
  PROVE  UfoFilesInv'
<1> DEFINE opened == IF source.kind = "file" THEN 1 ELSE 0
           scalar == extent = 1 /\ type \in Scalarised
           length == SourceLength(source, type, extent)
           record == [source |-> source, type |-> type, length |-> length,
                      shape |-> IF scalar THEN "scalar" ELSE "body"]
<1>1. ufo[o] = Absent /\ files' = files + opened /\ opened \in {0, 1}
  BY DEF New
<1>2. CASE ~scalar /\ extent < length
  <2>1. lost' = lost + opened /\ ufo' = ufo
    BY <1>2 DEF New
  <2>2. FileBodies' = FileBodies
    BY <2>1 DEF FileBodies, Bodies
  <2>3. Cardinality(FileBodies) \in Nat
    BY FinitelyMany, FS_CardinalityType
  <2> HIDE DEF opened
  <2> QED
    BY <1>1, <2>1, <2>2, <2>3 DEF UfoFilesInv
<1>3. CASE ~(~scalar /\ extent < length)
  <2>1. lost' = lost + IF scalar THEN opened ELSE 0
    BY <1>3 DEF New
  <2>2. ufo' = [ufo EXCEPT ![o] = record]
    BY <1>3 DEF New, Make
  <2>3. Cardinality(FileBodies) \in Nat /\ o \notin FileBodies
    BY <1>1, FinitelyMany, FS_CardinalityType DEF FileBodies, Bodies, Absent
  <2>4. /\ \A x \in Ids \ {o} : ufo'[x] = ufo[x]
        /\ ufo'[o] = record
        /\ ufo' = [x \in Ids |-> ufo'[x]]
    BY <2>2 DEF UfoFilesInv
  <2>5. CASE scalar \/ opened = 0
    <3>1. record.shape # "body" \/ record.source.kind # "file"
      BY <2>5
    <3>2. FileBodies' = FileBodies
      BY <2>3, <2>4, <3>1 DEF FileBodies, Bodies
    <3> HIDE DEF opened, scalar
    <3> QED
      BY <1>1, <2>1, <2>3, <2>4, <2>5, <3>2 DEF UfoFilesInv
  <2>6. CASE ~scalar /\ opened = 1
    <3>1. record.shape = "body" /\ record.source.kind = "file"
      BY <2>6
    <3>2. FileBodies' = FileBodies \cup {o}
      BY <2>3, <2>4, <3>1 DEF FileBodies, Bodies
    <3>3. Cardinality(FileBodies') = Cardinality(FileBodies) + 1
      BY <2>3, <3>2, FinitelyMany, FS_AddElement
    <3> HIDE DEF opened, scalar
    <3> QED
      BY <1>1, <2>1, <2>3, <2>4, <2>6, <3>3 DEF UfoFilesInv
  <2> QED
    BY <1>1, <2>5, <2>6
<1> QED
  BY <1>2, <1>3

(* A collected vector closes its file.                                       *)
LEMMA CollectFiles ==
  ASSUME UfoFilesInv, NEW o \in Ids, Collect(o)
  PROVE  UfoFilesInv'
<1>1. ufo' = [ufo EXCEPT ![o] = Absent] /\ lost' = lost
  BY DEF Collect, Forget
<1>2. files' = files - IF o \in FileBodies THEN 1 ELSE 0
  BY DEF Collect, FileBodies, Bodies
<1>3. ufo' = [x \in Ids |-> ufo'[x]] /\ ufo'[o] = Absent /\ \A x \in Ids \ {o} : ufo'[x] = ufo[x]
  BY <1>1 DEF UfoFilesInv
<1>4. FileBodies' = FileBodies \ {o}
  BY <1>3 DEF FileBodies, Bodies, Absent
<1>5. Cardinality(FileBodies) \in Nat
  BY FinitelyMany, FS_CardinalityType
<1>6. CASE o \in FileBodies
  <2>1. Cardinality(FileBodies') = Cardinality(FileBodies) - 1
    BY <1>4, <1>6, FinitelyMany, FS_RemoveElement
  <2> QED
    BY <1>1, <1>2, <1>3, <1>5, <1>6, <2>1 DEF UfoFilesInv
<1>7. CASE o \notin FileBodies
  <2>1. FileBodies' = FileBodies
    BY <1>4, <1>7
  <2> QED
    BY <1>1, <1>2, <1>3, <1>5, <1>7, <2>1 DEF UfoFilesInv
<1> QED
  BY <1>6, <1>7

-----------------------------------------------------------------------------
(* Steps that leave the ALTREP vectors alone.                                *)
LEMMA AltSame ==
  ASSUME AltFilesInv, UNCHANGED <<alt, altFiles>>
  PROVE  AltFilesInv'
<1>1. OpenAlts' = OpenAlts
  BY DEF OpenAlts
<1> QED
  BY <1>1 DEF AltFilesInv

(* What becomes of one vector, by its handle before and after.               *)
LEMMA AltOne ==
  ASSUME AltFilesInv, NEW a \in AltIds, NEW v, v = Gone \/ AltRecord(v),
         alt' = [alt EXCEPT ![a] = v],
         altFiles' = altFiles - (IF a \in OpenAlts THEN 1 ELSE 0)
                              + (IF v # Gone /\ v.handle = "open" THEN 1 ELSE 0)
  PROVE  AltFilesInv'
<1>1. alt' = [b \in AltIds |-> alt'[b]] /\ alt'[a] = v /\ \A b \in AltIds \ {a} : alt'[b] = alt[b]
  BY DEF AltFilesInv
<1>2. \A b \in AltIds : alt'[b] = Gone \/ AltRecord(alt'[b])
  BY <1>1 DEF AltFilesInv
<1>3. Cardinality(OpenAlts) \in Nat /\ IsFiniteSet(OpenAlts)
  BY FinitelyMany, FS_CardinalityType
<1> DEFINE others == OpenAlts \ {a}
<1>4. IsFiniteSet(others) /\ a \notin others /\ Cardinality(others) \in Nat
  BY <1>3, FS_Subset, FS_CardinalityType
<1>5. Cardinality(OpenAlts) = Cardinality(others) + IF a \in OpenAlts THEN 1 ELSE 0
  <2>1. CASE a \in OpenAlts
    <3>1. Cardinality(others) = Cardinality(OpenAlts) - 1
      BY <1>3, <2>1, FS_RemoveElement
    <3> QED
      BY <1>3, <2>1, <3>1
  <2>2. CASE a \notin OpenAlts
    <3>1. others = OpenAlts
      BY <2>2
    <3> QED
      BY <1>3, <2>2, <3>1
  <2> QED
    BY <2>1, <2>2
<1>6. Cardinality(OpenAlts') = Cardinality(others) + IF v # Gone /\ v.handle = "open" THEN 1 ELSE 0
  <2>1. CASE v # Gone /\ v.handle = "open"
    <3>1. OpenAlts' = others \cup {a}
      BY <1>1, <2>1 DEF OpenAlts
    <3>2. Cardinality(others \cup {a}) = Cardinality(others) + 1
      BY <1>4, FS_AddElement
    <3> QED
      BY <2>1, <3>1, <3>2
  <2>2. CASE ~(v # Gone /\ v.handle = "open")
    <3>1. OpenAlts' = others
      BY <1>1, <2>2 DEF OpenAlts
    <3> HIDE DEF others
    <3> QED
      BY <1>4, <2>2, <3>1
  <2> QED
    BY <2>1, <2>2
<1>7. altFiles' = Cardinality(OpenAlts')
  <2>1. altFiles = Cardinality(OpenAlts)
    BY DEF AltFilesInv
  <2> HIDE DEF others
  <2> QED
    BY <1>4, <1>5, <1>6, <2>1
<1> QED
  BY <1>1, <1>2, <1>7 DEF AltFilesInv

(* To materialise a vector, or to write to it, leaves its handle alone.      *)
LEMMA AltKeeps ==
  ASSUME AltFilesInv, NEW a \in AltIds, alt[a] # Gone, NEW v, AltRecord(v),
         v.handle = alt[a].handle,
         alt' = [alt EXCEPT ![a] = v], altFiles' = altFiles
  PROVE  AltFilesInv'
<1>1. v # Gone
  BY DEF AltRecord, Gone
<1>2. a \in OpenAlts <=> v.handle = "open"
  BY DEF OpenAlts
<1>3. altFiles \in Int
  BY FinitelyMany, FS_CardinalityType DEF AltFilesInv
<1>4. altFiles' = altFiles - (IF a \in OpenAlts THEN 1 ELSE 0)
                           + (IF v # Gone /\ v.handle = "open" THEN 1 ELSE 0)
  BY <1>1, <1>2, <1>3
<1> QED
  BY <1>4, AltOne

(* A vector that is made has a handle of its own, a copy has none.           *)
LEMMA AltMade ==
  ASSUME AltFilesInv, NEW a \in AltIds, alt[a] = Gone, NEW v, AltRecord(v),
         alt' = [alt EXCEPT ![a] = v],
         altFiles' = altFiles + IF v.handle = "open" THEN 1 ELSE 0
  PROVE  AltFilesInv'
<1>1. v # Gone
  BY DEF AltRecord, Gone
<1>2. a \notin OpenAlts
  BY DEF OpenAlts
<1>3. altFiles \in Int
  BY FinitelyMany, FS_CardinalityType DEF AltFilesInv
<1>4. altFiles' = altFiles - (IF a \in OpenAlts THEN 1 ELSE 0)
                           + (IF v # Gone /\ v.handle = "open" THEN 1 ELSE 0)
  BY <1>1, <1>2, <1>3
<1> QED
  BY <1>4, AltOne

(* The vectors R makes.                                                      *)
LEMMA NewAltFiles ==
  ASSUME AltFilesInv, NEW a \in AltIds
  PROVE  /\ \A p : AltNewFile(a, p) => AltFilesInv'
         /\ \A s, type : AltNewSeq(a, s, type) /\ s.kind = "seq" => AltFilesInv'
         /\ \A b \in AltIds : AltDuplicate(b, a) => AltFilesInv'
<1>1. ASSUME NEW p, AltNewFile(a, p) PROVE AltFilesInv'
  <2> DEFINE v == AltVector(FileSource(p), "INT", FileLength(p, "INT"))
  <2>1. AltRecord(v) /\ v.handle = "open"
    BY DEF AltVector, AltRecord, FileSource
  <2>2. alt[a] = Gone /\ alt' = [alt EXCEPT ![a] = v] /\ altFiles' = altFiles + 1
    BY <1>1 DEF AltNewFile
  <2> HIDE DEF v
  <2> QED
    BY <2>1, <2>2, AltMade
<1>2. ASSUME NEW s, NEW type, AltNewSeq(a, s, type), s.kind = "seq" PROVE AltFilesInv'
  <2> DEFINE v == AltVector(s, type, SeqLength(s))
  <2>1. AltRecord(v) /\ v.handle = "none"
    BY <1>2 DEF AltVector, AltRecord
  <2>2. alt[a] = Gone /\ alt' = [alt EXCEPT ![a] = v] /\ altFiles' = altFiles /\ altFiles \in Int
    BY <1>2, FinitelyMany, FS_CardinalityType DEF AltNewSeq, AltFilesInv
  <2> HIDE DEF v
  <2>3. altFiles' = altFiles + IF v.handle = "open" THEN 1 ELSE 0
    BY <2>1, <2>2
  <2> QED
    BY <2>1, <2>2, <2>3, AltMade
<1>3. ASSUME NEW b \in AltIds, AltDuplicate(b, a) PROVE AltFilesInv'
  <2> DEFINE v == [alt[b] EXCEPT !.handle = IF alt[b].source.kind = "file" THEN "unset" ELSE "none"]
  <2>1. alt[b] # Gone /\ alt[a] = Gone /\ alt' = [alt EXCEPT ![a] = v]
        /\ altFiles' = altFiles /\ altFiles \in Int
    BY <1>3, FinitelyMany, FS_CardinalityType DEF AltDuplicate, AltFilesInv
  <2>2. AltRecord(alt[b])
    BY <2>1 DEF AltFilesInv
  <2>3. AltRecord(v) /\ v.handle \in {"unset", "none"}
    BY <2>2 DEF AltRecord
  <2> HIDE DEF v
  <2>4. altFiles' = altFiles + IF v.handle = "open" THEN 1 ELSE 0
    BY <2>1, <2>3
  <2> QED
    BY <2>1, <2>3, <2>4, AltMade
<1> QED
  BY <1>1, <1>2, <1>3

(* The uses R makes of a vector: collecting it closes what is open.          *)
LEMMA UseAltFiles ==
  ASSUME AltFilesInv, NEW a \in AltIds, alt[a] # Gone
  PROVE  /\ AltFinalize(a) => AltFilesInv'
         /\ AltData(a) => AltFilesInv'
         /\ \A i : AltElement(a, i) => AltFilesInv'
         /\ \A i, unit : AltWrite(a, i, unit) => AltFilesInv'
         /\ \A p : AltStore(a, p) => AltFilesInv'
<1>1. AltRecord(alt[a])
  BY DEF AltFilesInv
<1>2. AltRecord(Materialised(alt[a])) /\ Materialised(alt[a]).handle = alt[a].handle
  BY <1>1 DEF Materialised, AltRecord
<1>3. ASSUME AltFinalize(a) PROVE AltFilesInv'
  <2>1. alt' = [alt EXCEPT ![a] = Gone] /\ altFiles' = altFiles - IF a \in OpenAlts THEN 1 ELSE 0
    BY <1>3 DEF AltFinalize, AltForget, OpenAlts
  <2>2. altFiles \in Int
    BY FinitelyMany, FS_CardinalityType DEF AltFilesInv
  <2>3. altFiles' = altFiles - (IF a \in OpenAlts THEN 1 ELSE 0)
                             + (IF Gone # Gone /\ Gone.handle = "open" THEN 1 ELSE 0)
    BY <2>1, <2>2
  <2> QED
    BY <2>1, <2>3, AltOne
<1>4. ASSUME AltData(a) PROVE AltFilesInv'
  <2>1. altFiles' = altFiles /\ (alt' = alt \/ alt' = [alt EXCEPT ![a] = Materialised(alt[a])])
    BY <1>4 DEF AltData
  <2> QED
    BY <1>2, <2>1, AltSame, AltKeeps
<1>5. ASSUME NEW i, AltElement(a, i) PROVE AltFilesInv'
  BY <1>5, AltSame DEF AltElement
<1>6. ASSUME NEW i, NEW unit, AltWrite(a, i, unit) PROVE AltFilesInv'
  <2> DEFINE v == [Materialised(alt[a]) EXCEPT !.payload[i + 1] = <<unit>>]
  <2>1. altFiles' = altFiles /\ (alt' = alt \/ alt' = [alt EXCEPT ![a] = v])
    BY <1>6 DEF AltWrite
  <2>2. AltRecord(v) /\ v.handle = alt[a].handle
    BY <1>2 DEF AltRecord
  <2> HIDE DEF v
  <2> QED
    BY <2>1, <2>2, AltSame, AltKeeps
<1>7. ASSUME NEW p, AltStore(a, p) PROVE AltFilesInv'
  <2>1. altFiles' = altFiles /\ alt' = [alt EXCEPT ![a] = Materialised(alt[a])]
    BY <1>7 DEF AltStore, ToStore
  <2> QED
    BY <1>2, <2>1, AltKeeps
<1> QED
  BY <1>3, <1>4, <1>5, <1>6, <1>7

-----------------------------------------------------------------------------
(* Reading moves a position, and may deliver a chunk.                        *)
LEMMA ReadChanges ==
  ASSUME NEW w, Read(w)
  PROVE  /\ load[w].step = "read" /\ UNCHANGED <<ufo, dirty, files, ideal, changed, lost>>
         /\ \E e : pos' = [pos EXCEPT ![load[w].id] = e]
<1>1. /\ load[w].step = "read" /\ UNCHANGED <<ufo, dirty, files, ideal, changed, lost>>
  BY Zenon DEF Read
<1>2. \E e : pos' = [pos EXCEPT ![load[w].id] = e]
  BY Zenon DEF Read
<1> QED
  BY <1>1, <1>2

(* Faults and populations use the files that are open.                       *)
LEMMA PopulateFiles ==
  ASSUME NEW w, PopulateStep(w)
  PROVE  UNCHANGED <<ufo, files, lost>>
<1>1. CASE Compute(w)
  BY <1>1 DEF Compute
<1>2. CASE SeekEnd(w)
  BY <1>2 DEF SeekEnd, history
<1>3. CASE Tell(w)
  BY <1>3 DEF Tell
<1>4. CASE Seek(w)
  BY <1>4 DEF Seek, history
<1>5. CASE Read(w)
  BY <1>5, ReadChanges
<1> QED
  BY <1>1, <1>2, <1>3, <1>4, <1>5 DEF PopulateStep

(* Storing opens and closes a file of its own.                               *)
LEMMA StoreFiles ==
  ASSUME FilesInv, Store
  PROVE  FilesInv'
<1>1. CASE \E o \in Ids, p \in Paths : BeginStore(o, p)
  <2>1. UNCHANGED <<ufo, files, lost, alt, altFiles>>
    BY <1>1 DEF BeginStore
  <2> QED
    BY <2>1, UfoSame, AltSame DEF FilesInv
<1>2. CASE StoreFault
  <2>1. UNCHANGED <<ufo, files, lost, alt, altFiles>>
    BY <1>2 DEF StoreFault, Touch, history, altVars
  <2> QED
    BY <2>1, UfoSame, AltSame DEF FilesInv
<1>3. CASE StoreChunk
  <2>1. UNCHANGED <<ufo, files, lost, alt, altFiles>>
    BY <1>3 DEF StoreChunk, ufoVars, history, altVars
  <2> QED
    BY <2>1, UfoSame, AltSame DEF FilesInv
<1>4. ASSUME NEW a \in AltIds, NEW p \in Paths, AltStore(a, p) PROVE FilesInv'
  <2>1. UNCHANGED <<ufo, files, lost>> /\ alt[a] # Gone
    BY <1>4 DEF AltStore
  <2> QED
    BY <1>4, <2>1, UfoSame, UseAltFiles DEF FilesInv
<1> QED
  BY <1>1, <1>2, <1>3, <1>4 DEF Store

(* Every step accounts for the files.                                        *)
LEMMA NextFiles == FilesInv /\ [Next]_vars => FilesInv'
<1> SUFFICES ASSUME FilesInv, [Next]_vars PROVE FilesInv'
  OBVIOUS
<1> USE DEF FilesInv
<1>1. CASE NewUfo
  <2>1. PICK o \in Ids, order \in Orders : New(o, order.source, order.type, order.extent)
    BY <1>1 DEF NewUfo
  <2> QED
    BY <1>1, <2>1, NewFiles, AltSame DEF NewUfo, altVars
<1>2. CASE CollectUfo
  <2>1. PICK o \in Ids : Collect(o)
    BY <1>2 DEF CollectUfo
  <2> QED
    BY <1>2, <2>1, CollectFiles, AltSame DEF CollectUfo, altVars
<1>3. CASE ReadUfo
  <2>1. UNCHANGED <<ufo, files, lost, alt, altFiles>>
    BY <1>3 DEF ReadUfo, Touch, history, altVars
  <2> QED
    BY <2>1, UfoSame, AltSame
<1>4. CASE WriteUfo
  <2>1. UNCHANGED <<ufo, files, lost, alt, altFiles>>
    BY <1>4 DEF WriteUfo, WriteElement, altVars
  <2> QED
    BY <2>1, UfoSame, AltSame
<1>5. CASE EvictChunk
  <2>1. UNCHANGED <<ufo, files, lost, alt, altFiles>>
    BY <1>5 DEF EvictChunk, Evict, history, altVars
  <2> QED
    BY <2>1, UfoSame, AltSame
<1>6. ASSUME NEW t \in Threads, TakeFault(t) PROVE FilesInv'
  <2>1. UNCHANGED <<ufo, files, lost, alt, altFiles>>
    BY <1>6 DEF TakeFault, BeginLoad, history, altVars
  <2> QED
    BY <2>1, UfoSame, AltSame
<1>7. ASSUME NEW w \in Workers, Populate(w) PROVE FilesInv'
  BY <1>7, PopulateFiles, UfoSame, AltSame DEF Populate, altVars
<1>8. CASE NewAlt
  <2>1. UfoFilesInv'
    BY <1>8, UfoSame DEF NewAlt, ufoVars, history
  <2>2. PICK a \in AltIds :
          \/ \E p \in Paths : AltNewFile(a, p)
          \/ \E order \in AltSeqs : AltNewSeq(a, order.source, order.type)
          \/ \E b \in AltIds : AltDuplicate(b, a)
    BY <1>8 DEF NewAlt
  <2> QED
    BY <2>1, <2>2, NewAltFiles, AltSeqsAssumption
<1>9. CASE UseAlt
  <2>1. UfoFilesInv'
    BY <1>9, UfoSame DEF UseAlt, ufoVars, history
  <2>2. PICK a \in AltIds :
          /\ alt[a] # Gone
          /\ \/ AltFinalize(a)
             \/ AltData(a)
             \/ \E i \in 0..(alt[a].length - 1) :
                   AltElement(a, i) \/ \E unit \in AltWritten : AltWrite(a, i, unit)
    BY <1>9 DEF UseAlt
  <2> QED
    BY <2>1, <2>2, UseAltFiles
<1>10. CASE Store
  BY <1>10, StoreFiles
<1>11. CASE UNCHANGED vars
  BY <1>11, UfoSame, AltSame DEF vars, ufoVars, altVars, history
<1> QED
  BY <1>1, <1>2, <1>3, <1>4, <1>5, <1>6, <1>7, <1>8, <1>9, <1>10, <1>11 DEF Next

(* Whatever R makes, copies, stores and collects, an open file is one that a *)
(* vector will close, or one of those the packages are known to leave open.  *)
THEOREM SpecFilesAccounted == Spec => []FilesAccounted
<1>1. FilesInv => FilesAccounted
  BY DEF FilesInv, UfoFilesInv, AltFilesInv, FilesAccounted, FileBodies, OpenAlts
<1> QED
  BY InitFiles, NextFiles, <1>1, PTL DEF Spec

-----------------------------------------------------------------------------
(* Sequences, as functions.                                                  *)
Sequence(s) == \E n \in Nat : s = [i \in 1..n |-> s[i]]

(* A function over 1..n is a sequence of n elements.                         *)
LEMMA FunctionSequence ==
  ASSUME NEW n \in Int, NEW s, s = [i \in 1..n |-> s[i]]
  PROVE  Sequence(s) /\ Len(s) = (IF n < 0 THEN 0 ELSE n) /\ DOMAIN s = 1..n
<1> DEFINE k == IF n < 0 THEN 0 ELSE n
           S == {s[i] : i \in 1..k}
<1>1. k \in Nat /\ 1..n = 1..k
  OBVIOUS
<1>2. s = [i \in 1..k |-> s[i]]
  BY <1>1
<1>3. s \in [1..k -> S]
  BY <1>2
<1>4. s \in Seq(S)
  BY <1>1, <1>3
<1>5. Len(s) \in Nat /\ DOMAIN s = 1..Len(s)
  BY <1>4, LenProperties
<1>6. DOMAIN s = 1..k
  BY <1>2
<1>7. Len(s) = k
  <2> DEFINE m == Len(s)
  <2>1. m \in Nat /\ 1..m = 1..k
    BY <1>5, <1>6
  <2> HIDE DEF m, k
  <2>2. ~(m < k)
    <3>1. ~(k \in 1..m) \/ k <= m
      BY <1>1, <2>1
    <3>2. k > 0 => k \in 1..k
      BY <1>1
    <3> QED
      BY <1>1, <2>1, <3>1, <3>2
  <2>3. ~(k < m)
    <3>1. ~(m \in 1..k) \/ m <= k
      BY <1>1, <2>1
    <3>2. m > 0 => m \in 1..m
      BY <2>1
    <3> QED
      BY <1>1, <2>1, <3>1, <3>2
  <2>4. m = k
    BY <1>1, <2>1, <2>2, <2>3
  <2> QED
    BY <2>4 DEF m
<1> QED
  BY <1>1, <1>2, <1>7 DEF Sequence

(* A sequence is the function of its elements.                               *)
LEMMA SequenceIs ==
  ASSUME NEW s, Sequence(s)
  PROVE  /\ Len(s) \in Nat /\ DOMAIN s = 1..Len(s) /\ s = [i \in 1..Len(s) |-> s[i]]
         /\ s \in Seq({s[i] : i \in DOMAIN s})
<1>1. PICK n \in Nat : s = [i \in 1..n |-> s[i]]
  BY DEF Sequence
<1>2. Len(s) = n /\ DOMAIN s = 1..n
  BY <1>1, FunctionSequence
<1>3. s \in [1..n -> {s[i] : i \in DOMAIN s}]
  BY <1>1, <1>2
<1> QED
  BY <1>1, <1>2, <1>3

(* Sequences with the same elements are the same.                            *)
LEMMA SequenceEqual ==
  ASSUME NEW s, NEW t, Sequence(s), Sequence(t), Len(s) = Len(t), \A i \in 1..Len(s) : s[i] = t[i]
  PROVE  s = t
<1>1. s = [i \in 1..Len(s) |-> s[i]] /\ t = [i \in 1..Len(s) |-> t[i]]
  BY SequenceIs
<1> QED
  BY <1>1

(* The empty sequence is one.                                                *)
LEMMA EmptySequence == Sequence(<<>>) /\ Len(<<>>) = 0 /\ DOMAIN <<>> = {}
<1>1. PICK e : e = <<>>
  OBVIOUS
<1>2. e \in Seq({}) /\ Len(e) = 0
  BY <1>1, EmptySeq
<1>3. e = [i \in 1..0 |-> e[i]]
  BY <1>2, LenProperties
<1>4. Sequence(e) /\ DOMAIN e = 1..0
  BY <1>3 DEF Sequence
<1> QED
  BY <1>1, <1>2, <1>4

(* The elements of a part of a sequence.                                     *)
LEMMA SliceIs ==
  ASSUME NEW s, NEW m \in Int, NEW n \in Int, m <= n + 1
  PROVE  /\ Sequence(SubSeq(s, m, n)) /\ Len(SubSeq(s, m, n)) = n - m + 1
         /\ \A i \in 1..(n - m + 1) : SubSeq(s, m, n)[i] = s[m + i - 1]
<1> DEFINE S == {s[i] : i \in m..n}
           r == SubSeq(s, m, n)
<1>1. \A i \in m..n : s[i] \in S
  OBVIOUS
<1>2. /\ r \in Seq(S) /\ Len(r) = IF m <= n THEN n - m + 1 ELSE 0
      /\ \A i \in 1..(n - m + 1) : r[i] = s[m + i - 1]
  <2> HIDE DEF S
  <2> QED
    BY <1>1, SubSeqProperties
<1>3. Len(r) = n - m + 1
  BY <1>2
<1>4. r \in [1..Len(r) -> S]
  BY <1>2, LenProperties
<1>5. r = [i \in 1..Len(r) |-> r[i]] /\ Len(r) \in Nat
  BY <1>3, <1>4
<1> HIDE DEF r
<1>6. Sequence(r)
  BY <1>5 DEF Sequence
<1> QED
  BY <1>2, <1>3, <1>6 DEF r

(* A part of a part.                                                         *)
LEMMA SliceOfSlice ==
  ASSUME NEW s, NEW a \in Int, NEW b \in Int, NEW c \in Int, NEW d \in Int,
         1 <= c, c <= d + 1, d <= b - a + 1
  PROVE  SubSeq(SubSeq(s, a, b), c, d) = SubSeq(s, a + c - 1, a + d - 1)
<1> DEFINE t == SubSeq(s, a, b)
           u == SubSeq(t, c, d)
           v == SubSeq(s, a + c - 1, a + d - 1)
<1>1. CASE c = d + 1
  <2>1. u = <<>>
    BY <1>1, SubSeqEmpty
  <2>2. v = <<>>
    BY <1>1, SubSeqEmpty
  <2> QED
    BY <2>1, <2>2
<1>2. CASE c <= d
  <2>1. \A i \in 1..(b - a + 1) : t[i] = s[a + i - 1]
    BY <1>2, SliceIs
  <2>2. Sequence(u) /\ Len(u) = d - c + 1 /\ \A i \in 1..(d - c + 1) : u[i] = t[c + i - 1]
    <3> HIDE DEF t
    <3> QED
      BY SliceIs
  <2>3. Sequence(v) /\ Len(v) = d - c + 1 /\ \A i \in 1..(d - c + 1) : v[i] = s[a + c - 1 + i - 1]
    <3>1. a + c - 1 \in Int /\ a + d - 1 \in Int /\ a + c - 1 <= a + d - 1 + 1
          /\ (a + d - 1) - (a + c - 1) + 1 = d - c + 1
      OBVIOUS
    <3>2. /\ Sequence(v) /\ Len(v) = (a + d - 1) - (a + c - 1) + 1
          /\ \A i \in 1..((a + d - 1) - (a + c - 1) + 1) : v[i] = s[(a + c - 1) + i - 1]
      BY <3>1, SliceIs
    <3> QED
      BY <3>1, <3>2
  <2> HIDE DEF t, u, v
  <2>4. ASSUME NEW i \in 1..(d - c + 1) PROVE u[i] = v[i]
    <3>1. c + i - 1 \in 1..(b - a + 1) /\ a + (c + i - 1) - 1 = a + c - 1 + i - 1
      OBVIOUS
    <3>2. t[c + i - 1] = s[a + (c + i - 1) - 1]
      BY <2>1, <3>1
    <3> QED
      BY <2>2, <2>3, <3>1, <3>2
  <2> QED
    BY <2>2, <2>3, <2>4, SequenceEqual DEF t, u, v
<1> QED
  BY <1>1, <1>2

(* The elements of two sequences, one after the other.                       *)
LEMMA JoinedIs ==
  ASSUME NEW s, NEW t, Sequence(s), Sequence(t)
  PROVE  /\ Sequence(s \o t) /\ Len(s \o t) = Len(s) + Len(t)
         /\ \A i \in 1..(Len(s) + Len(t)) : (s \o t)[i] = IF i <= Len(s) THEN s[i] ELSE t[i - Len(s)]
<1> DEFINE S == {s[i] : i \in DOMAIN s} \cup {t[i] : i \in DOMAIN t}
<1>1. s \in Seq(S) /\ t \in Seq(S)
  <2>1. s \in [1..Len(s) -> S] /\ t \in [1..Len(t) -> S] /\ Len(s) \in Nat /\ Len(t) \in Nat
    BY SequenceIs
  <2> QED
    BY <2>1
<1> HIDE DEF S
<1>2. s \o t \in Seq(S) /\ Len(s \o t) = Len(s) + Len(t)
  BY <1>1, ConcatProperties
<1>3. s \o t \in [1..Len(s \o t) -> S] /\ Len(s \o t) \in Nat
  BY <1>2, LenProperties
<1>4. Sequence(s \o t)
  BY <1>3 DEF Sequence
<1> QED
  BY <1>1, <1>2, <1>4, ConcatProperties
-----------------------------------------------------------------------------
(* Division by a number that is not known.                                   *)
LEMMA QuotientOf ==
  ASSUME NEW q \in Nat, NEW r \in Nat, NEW n \in Nat \ {0}, r < n
  PROVE  (q * n + r) \div n = q /\ (q * n + r) % n = r
BY SMT

(* Quotient and remainder make up the number.                                *)
LEMMA QuotientIs ==
  ASSUME NEW x \in Nat, NEW n \in Nat \ {0}
  PROVE  /\ x \div n \in Nat /\ x % n \in Nat /\ x % n < n
         /\ x = (x \div n) * n + (x % n)
OBVIOUS

(* Products of natural numbers are natural,                                  *)
LEMMA Products ==
  ASSUME NEW m \in Nat, NEW n \in Nat
  PROVE  m * n \in Nat
OBVIOUS

(* grow with a factor,                                                       *)
LEMMA ProductGrows ==
  ASSUME NEW m \in Nat, NEW n \in Nat, NEW d \in Nat, m <= n
  PROVE  m * d <= n * d
OBVIOUS

(* and by the other factor when it grows by one.                             *)
LEMMA ProductNext ==
  ASSUME NEW m \in Int, NEW d \in Int
  PROVE  (m + 1) * d = m * d + d
OBVIOUS

-----------------------------------------------------------------------------
(* The chunks of a vector of some length tile it.                            *)
EndIn(length, c) == IF First(c + 1) > length THEN length ELSE First(c + 1)
ChunksIn(length) == 0..ChunkOf(length - 1)

(* The chunks of a vector are those of its length.                           *)
LEMMA EndOfChunk == \A o, c : End(o, c) = EndIn(ufo[o].length, c) /\ Chunks(o) = ChunksIn(ufo[o].length)
BY DEF End, EndIn, Chunks, ChunksIn

(* An element lies within the borders of its chunk.                          *)
LEMMA ChunkOfIs ==
  ASSUME NEW i \in Nat
  PROVE  /\ ChunkOf(i) \in Nat /\ First(ChunkOf(i)) \in Nat
         /\ First(ChunkOf(i)) <= i /\ i < First(ChunkOf(i) + 1)
         /\ First(ChunkOf(i) + 1) = First(ChunkOf(i)) + LoadCount
<1> DEFINE q == i \div LoadCount
           r == i % LoadCount
<1>1. q \in Nat /\ r \in Nat /\ r < LoadCount /\ i = q * LoadCount + r
  BY QuotientIs, LoadCountAssumption
<1>2. (q + 1) * LoadCount = q * LoadCount + LoadCount /\ q * LoadCount \in Nat /\ LoadCount \in Nat
  BY <1>1, ProductNext, Products, LoadCountAssumption
<1> HIDE DEF q, r
<1>3. ChunkOf(i) = q /\ First(q) = q * LoadCount /\ First(q + 1) = (q + 1) * LoadCount
  BY DEF ChunkOf, First, q
<1> QED
  BY <1>1, <1>2, <1>3

(* Chunks follow one another.                                                *)
LEMMA FirstGrows ==
  ASSUME NEW c \in Nat, NEW d \in Nat
  PROVE  /\ First(c) \in Nat /\ First(c + 1) = First(c) + LoadCount
         /\ c <= d => First(c) <= First(d)
         /\ LoadCount \in Nat /\ LoadCount > 0
<1>1. LoadCount \in Nat /\ LoadCount > 0
  BY LoadCountAssumption
<1>2. c * LoadCount \in Nat /\ d * LoadCount \in Nat /\ (c + 1) * LoadCount = c * LoadCount + LoadCount
  BY <1>1, Products, ProductNext
<1>3. c <= d => c * LoadCount <= d * LoadCount
  BY <1>1, ProductGrows
<1> QED
  BY <1>1, <1>2, <1>3 DEF First

(* An element is in one chunk.                                               *)
LEMMA ChunkOfUnique ==
  ASSUME NEW i \in Nat, NEW c \in Nat, First(c) <= i, i < First(c) + LoadCount
  PROVE  ChunkOf(i) = c
<1> DEFINE d == ChunkOf(i)
<1>1. d \in Nat /\ First(d) <= i /\ i < First(d) + LoadCount /\ First(d) \in Nat
  BY ChunkOfIs
<1> HIDE DEF d
<1>2. First(c) \in Nat /\ LoadCount \in Nat
  BY FirstGrows
<1>3. ~(d < c)
  <2>1. d < c => First(d + 1) <= First(c) /\ First(d + 1) = First(d) + LoadCount
    BY <1>1, FirstGrows
  <2> QED
    BY <1>1, <1>2, <2>1
<1>4. ~(c < d)
  <2>1. c < d => First(c + 1) <= First(d) /\ First(c + 1) = First(c) + LoadCount
    BY <1>1, FirstGrows
  <2> QED
    BY <1>1, <1>2, <2>1
<1>5. d = c
  BY <1>1, <1>3, <1>4
<1> QED
  BY <1>5 DEF d

(* A chunk has elements, and they are elements of the vector; the next chunk *)
(* begins where it ends.                                                     *)
LEMMA Borders ==
  ASSUME NEW length \in Nat \ {0}, NEW c \in ChunksIn(length)
  PROVE  /\ c \in Nat /\ First(c) \in Nat /\ EndIn(length, c) \in Nat
         /\ First(c) < EndIn(length, c) /\ EndIn(length, c) <= length
         /\ \A i \in First(c)..(EndIn(length, c) - 1) : i \in 0..(length - 1) /\ ChunkOf(i) = c
         /\ IF c + 1 \in ChunksIn(length) THEN EndIn(length, c) = First(c + 1)
            ELSE EndIn(length, c) = length
<1> DEFINE d == ChunkOf(length - 1)
<1>1. /\ d \in Nat /\ First(d) \in Nat /\ First(d) <= length - 1 /\ length - 1 < First(d + 1)
      /\ First(d + 1) = First(d) + LoadCount
  <2>1. length - 1 \in Nat
    OBVIOUS
  <2> QED
    BY <2>1, ChunkOfIs
<1>2. ChunksIn(length) = 0..d
  BY DEF ChunksIn
<1> HIDE DEF d
<1>3. c \in Nat /\ c <= d /\ c + 1 \in Nat
  BY <1>1, <1>2
<1>4. /\ First(c) \in Nat /\ First(c + 1) = First(c) + LoadCount /\ First(c) <= First(d)
      /\ LoadCount \in Nat /\ LoadCount > 0
  BY <1>1, <1>3, FirstGrows
<1>5. c + 1 <= d => First(c + 1) <= First(d)
  BY <1>1, <1>3, FirstGrows
<1>6. CASE c = d
  <2>1. EndIn(length, c) = length /\ c + 1 \notin ChunksIn(length)
    BY <1>1, <1>2, <1>4, <1>6 DEF EndIn
  <2>2. \A i \in First(c)..(length - 1) : i \in 0..(length - 1) /\ ChunkOf(i) = c
    BY <1>1, <1>3, <1>4, <1>6, ChunkOfUnique
  <2> QED
    BY <1>1, <1>3, <1>4, <1>6, <2>1, <2>2
<1>7. CASE c < d
  <2>1. First(c + 1) <= First(d)
    BY <1>1, <1>3, <1>5, <1>7
  <2>2. EndIn(length, c) = First(c + 1) /\ c + 1 \in ChunksIn(length)
    BY <1>1, <1>2, <1>3, <1>4, <1>7, <2>1 DEF EndIn
  <2>3. \A i \in First(c)..(First(c + 1) - 1) : i \in 0..(length - 1) /\ ChunkOf(i) = c
    BY <1>1, <1>3, <1>4, <2>1, ChunkOfUnique
  <2> QED
    BY <1>1, <1>3, <1>4, <2>1, <2>2, <2>3
<1> QED
  BY <1>1, <1>3, <1>6, <1>7

(* Every element of a vector lies in one of its chunks.                      *)
LEMMA InItsChunk ==
  ASSUME NEW length \in Nat \ {0}, NEW i \in 0..(length - 1)
  PROVE  /\ ChunkOf(i) \in ChunksIn(length)
         /\ i \in First(ChunkOf(i))..(EndIn(length, ChunkOf(i)) - 1)
<1> DEFINE d == ChunkOf(length - 1)
           c == ChunkOf(i)
<1>1. /\ c \in Nat /\ First(c) \in Nat /\ First(c) <= i /\ i < First(c + 1)
      /\ First(c + 1) = First(c) + LoadCount
  BY ChunkOfIs
<1>2. d \in Nat /\ First(d) \in Nat /\ length - 1 < First(d) + LoadCount
  <2>1. length - 1 \in Nat
    OBVIOUS
  <2> QED
    BY <2>1, ChunkOfIs
<1>3. ChunksIn(length) = 0..d
  BY DEF ChunksIn
<1> HIDE DEF c, d
<1>4. ~(d < c)
  <2>1. d < c => First(d + 1) <= First(c) /\ First(d + 1) = First(d) + LoadCount
    BY <1>1, <1>2, FirstGrows
  <2>2. LoadCount \in Nat
    BY FirstGrows, <1>1
  <2> QED
    BY <1>1, <1>2, <2>1, <2>2
<1>5. c \in ChunksIn(length)
  BY <1>1, <1>2, <1>3, <1>4
<1>6. i < EndIn(length, c)
  BY <1>1 DEF EndIn
<1>7. EndIn(length, c) \in Nat
  BY <1>5, Borders
<1> QED
  BY <1>1, <1>5, <1>6, <1>7 DEF c

-----------------------------------------------------------------------------
(* UFOs are like plain vectors.                                              *)

(* What is kept of a vector: its source, its ideal of the same length, and   *)
(* chunks of the right lengths, those that were written to among them.       *)
VectorRecord(v) ==
    /\ v.type \in Types /\ v.length \in Nat \ {0}
    /\ \/ v.source.kind = "file" /\ v.source.path \in Paths
       \/ v.source.kind = "seq" /\ IntSequence(v.source) /\ v.length = SeqLength(v.source)
       \/ v.source.kind = "empty"

Maps ==
    /\ disk = [p \in Paths |-> disk[p]]
    /\ ufo = [o \in Ids |-> ufo[o]] /\ ideal = [o \in Ids |-> ideal[o]]
    /\ mem = [o \in Ids |-> mem[o]] /\ dirty = [o \in Ids |-> dirty[o]]
    /\ pos = [o \in Ids |-> pos[o]]
    /\ wants = [t \in Threads |-> wants[t]] /\ load = [w \in Workers |-> load[w]]

VectorsInv ==
    /\ \A p \in Paths : Sequence(disk[p])
    /\ \A o \in Ids : ufo[o] = Absent => dirty[o] = {}
    /\ \A o \in Bodies :
        /\ VectorRecord(ufo[o])
        /\ Sequence(ideal[o]) /\ Len(ideal[o]) = ufo[o].length
        /\ dirty[o] \subseteq DOMAIN mem[o] /\ DOMAIN mem[o] \subseteq Chunks(o)
        /\ \A c \in DOMAIN mem[o] : Sequence(mem[o][c]) /\ Len(mem[o][c]) = End(o, c) - First(c)

(* Threads wait for different chunks that are not resident.                  *)
WantOk(want) ==
    /\ want = [step |-> want.step, id |-> want.id, chunk |-> want.chunk]
    /\ want.step \in {"fault", "taken"}
    /\ want.id \in Bodies /\ want.chunk \in Chunks(want.id) /\ want.chunk \notin DOMAIN mem[want.id]

WantsInv ==
    /\ \A t \in Threads : wants[t] # Nothing => WantOk(wants[t])
    /\ \A s, t \in Threads : wants[s] # Nothing /\ wants[t] # Nothing /\ s # t =>
          ~(wants[s].id = wants[t].id /\ wants[s].chunk = wants[t].chunk)

(* A population works for the thread that waits for its chunk; nobody moves  *)
(* the position of the file under one that is alone.                         *)
LoadOk(this) ==
    /\ this = [step |-> this.step, id |-> this.id, chunk |-> this.chunk, for |-> this.for, alone |-> this.alone]
    /\ this.step \in {"compute", "end", "tell", "seek", "read"}
    /\ this.for \in Threads /\ this.alone \in BOOLEAN
    /\ wants[this.for] = [step |-> "taken", id |-> this.id, chunk |-> this.chunk]
    /\ this.step = "compute" <=> ufo[this.id].source.kind # "file"
    /\ this.alone /\ this.step = "read" => pos[this.id] = ElementSize[ufo[this.id].type] * First(this.chunk)

LoadsInv ==
    /\ \A w \in Workers : load[w] # Resting => LoadOk(load[w])
    /\ \A v, w \in Workers : load[v] # Resting /\ load[w] # Resting /\ v # w =>
          load[v].for # load[w].for /\ (load[v].alone => load[v].id # load[w].id)

(* Where R has not written, the ideal is what the source holds.              *)
PlainAt(source, type, i) ==
    CASE source.kind = "file" ->
            SubSeq(disk[source.path], ElementSize[type] * i + 1, ElementSize[type] * (i + 1))
      [] source.kind = "seq"  -> <<Term(source, i)>>
      [] OTHER                -> [u \in 1..ElementSize[type] |-> IF source.fill = "na" THEN NaFill ELSE 0]

Rewritten(o) == ufo[o].source.kind = "file" /\ o \in changed

SourceInv ==
    \A o \in Bodies : ~Rewritten(o) =>
        /\ ufo[o].source.kind = "file" =>
              ElementSize[ufo[o].type] * ufo[o].length <= Len(disk[ufo[o].source.path])
        /\ \A i \in 0..(ufo[o].length - 1) : ChunkOf(i) \notin dirty[o] =>
              ideal[o][i + 1] = PlainAt(ufo[o].source, ufo[o].type, i)

UfoLikePlain ==
    \A o \in Bodies : \A c \in DOMAIN mem[o] : <<o, c>> \notin spoiled =>
        \A i \in First(c)..(End(o, c) - 1) :
            \/ mem[o][c][i - First(c) + 1] = ideal[o][i + 1]
            \/ Wrong(ufo[o].source, ufo[o].type, ideal[o][i + 1])

UfoInv == Maps /\ VectorsInv /\ WantsInv /\ LoadsInv /\ SourceInv /\ UfoLikePlain

(* ALTREP vectors have a plain vector of their length beside them, and hold  *)
(* its elements once they are materialised; until then the source has them.  *)
AltPlainAt(content, v, i) ==
    IF v.source.kind = "file"
    THEN SubSeq(content[v.source.path], ElementSize["INT"] * i + 1, ElementSize["INT"] * (i + 1))
    ELSE <<Term(v.source, i)>>

AltShape(v, plain) ==
    /\ AltRecord(v) /\ v.length \in Int /\ v.filled \in BOOLEAN
    /\ \/ v.source.kind = "file" /\ v.source.path \in Paths /\ v.type = "INT"
       \/ v.source.kind = "seq" /\ IntSequence(v.source) /\ v.length = SeqLength(v.source)
    /\ plain = [i \in 1..v.length |-> plain[i]]
    /\ v.filled => v.payload = [i \in 1..v.length |-> v.payload[i]]

AltAgrees(v, plain, first, elements) ==
    \A i \in DOMAIN elements :
        elements[i] = plain[first + i] \/ Wrong(v.source, v.type, plain[first + i])

AltFresh(content, v, plain) ==
    IF v.filled THEN AltAgrees(v, plain, 0, v.payload)
    ELSE /\ v.source.kind = "file" => ElementSize["INT"] * v.length <= Len(content[v.source.path])
         /\ \A i \in 0..(v.length - 1) : plain[i + 1] = AltPlainAt(content, v, i)

AltInv ==
    /\ alt = [a \in AltIds |-> alt[a]] /\ altIdeal = [a \in AltIds |-> altIdeal[a]]
    /\ \A a \in AltIds : alt[a] # Gone =>
        /\ AltShape(alt[a], altIdeal[a])
        /\ a \notin altStale => AltFresh(disk, alt[a], altIdeal[a])

AltSeen == \A a \in AltIds \ altStale : seen.id = a => SameAsPlain(a, seen.first, seen.elements)

(* A file that is being stored holds the chunks that have been written, and  *)
(* the vectors that read it are known to.                                    *)
UnitsUpto(elements, n, size) ==
    [u \in 1..(n * size) |-> elements[((u - 1) \div size) + 1][((u - 1) % size) + 1]]

StoreInv ==
    /\ stored.right = TRUE
    /\ store # NoStore =>
        /\ store = [id |-> store.id, path |-> store.path, next |-> store.next, clean |-> store.clean]
        /\ store.id \in Bodies /\ store.path \in Paths /\ store.next \in Chunks(store.id)
        /\ \A o \in Bodies : ufo[o].source.kind = "file" /\ ufo[o].source.path = store.path => o \in changed
        /\ \A a \in AltIds : alt[a] # Gone /\ ~alt[a].filled /\ alt[a].source.kind = "file"
              /\ alt[a].source.path = store.path => a \in altStale
        /\ \/ ~store.clean
           \/ \E i \in DOMAIN ideal[store.id] :
                 Wrong(ufo[store.id].source, ufo[store.id].type, ideal[store.id][i])
           \/ disk[store.path] = UnitsUpto(ideal[store.id], First(store.next), ElementSize[ufo[store.id].type])

PlainInv == UfoInv /\ AltInv /\ AltSeen /\ StoreInv

-----------------------------------------------------------------------------
(* What does not change keeps its part of the invariant.                     *)
LEMMA SameVectors ==
  ASSUME VectorsInv, UNCHANGED <<disk, ufo, ideal, dirty, mem>>
  PROVE  VectorsInv'
BY DEF VectorsInv, Bodies, Chunks, End

(* The same for what the sources hold,                                       *)
LEMMA SameSource ==
  ASSUME SourceInv, UNCHANGED <<disk, ufo, ideal, dirty, changed>>
  PROVE  SourceInv'
BY DEF SourceInv, Bodies, Rewritten, PlainAt

(* for the resident chunks,                                                  *)
LEMMA SameLikePlain ==
  ASSUME UfoLikePlain, UNCHANGED <<ufo, mem, ideal, spoiled>>
  PROVE  UfoLikePlain'
BY DEF UfoLikePlain, Bodies, End

(* for the threads that wait                                                 *)
LEMMA SameWants ==
  ASSUME WantsInv, UNCHANGED <<wants, ufo, mem>>
  PROVE  WantsInv'
BY DEF WantsInv, WantOk, Bodies, Chunks

(* and for the populations.                                                  *)
LEMMA SameLoads ==
  ASSUME LoadsInv, UNCHANGED <<load, wants, ufo, pos>>
  PROVE  LoadsInv'
BY DEF LoadsInv, LoadOk

(* A thread begins to wait for a chunk nobody waits for.                     *)
LEMMA TouchPlain ==
  ASSUME UfoInv, NEW t \in Threads, NEW o \in Ids, NEW c, Touch(t, o, c), disk' = disk
  PROVE  UfoInv'
<1> DEFINE want == [step |-> "fault", id |-> o, chunk |-> c]
<1>1. /\ UNCHANGED <<ufo, mem, dirty, pos, load, ideal, changed, spoiled>>
      /\ wants' = [wants EXCEPT ![t] = want]
      /\ o \in Bodies /\ c \in Chunks(o) /\ c \notin DOMAIN mem[o] /\ wants[t] = Nothing
      /\ \A s \in Threads : wants[s] # Nothing => <<wants[s].id, wants[s].chunk>> # <<o, c>>
  BY DEF Touch, history, Resident
<1>2. Maps' /\ VectorsInv' /\ SourceInv' /\ UfoLikePlain'
  <2>1. Maps'
    BY <1>1 DEF UfoInv, Maps
  <2> QED
    BY <1>1, <2>1, SameVectors, SameSource, SameLikePlain DEF UfoInv
<1>3. wants'[t] = want /\ \A s \in Threads \ {t} : wants'[s] = wants[s]
  BY <1>1 DEF UfoInv, Maps
<1>4. WantsInv'
  <2>1. Bodies' = Bodies /\ \A x : Chunks(x)' = Chunks(x)
    BY <1>1 DEF Bodies, Chunks
  <2>2. ASSUME NEW s \in Threads, NEW v, v = wants'[s], v # Nothing PROVE WantOk(v)'
    <3>1. CASE s = t
      <4>1. v = want
        BY <1>3, <2>2, <3>1
      <4> QED
        BY <1>1, <2>1, <4>1 DEF WantOk
    <3>2. CASE s # t
      <4>1. WantOk(v)
        BY <1>3, <2>2, <3>2 DEF UfoInv, WantsInv
      <4> QED
        BY <1>1, <2>1, <4>1 DEF WantOk
    <3> QED
      BY <3>1, <3>2
  <2>3. ASSUME NEW r \in Threads, NEW s \in Threads, wants'[r] # Nothing, wants'[s] # Nothing, r # s
        PROVE ~(wants'[r].id = wants'[s].id /\ wants'[r].chunk = wants'[s].chunk)
    <3>1. CASE r = t
      BY <1>1, <1>3, <2>3, <3>1
    <3>2. CASE s = t
      BY <1>1, <1>3, <2>3, <3>2
    <3>3. CASE r # t /\ s # t
      BY <1>3, <2>3, <3>3 DEF UfoInv, WantsInv
    <3> QED
      BY <3>1, <3>2, <3>3
  <2> QED
    BY <2>2, <2>3 DEF WantsInv
<1>5. LoadsInv'
  <2>1. ASSUME NEW v, LoadOk(v) PROVE LoadOk(v)'
    <3>1. v.for \in Threads /\ wants[v.for].step = "taken"
      BY <2>1 DEF LoadOk
    <3>2. wants'[v.for] = wants[v.for]
      BY <1>1, <1>3, <3>1 DEF Nothing
    <3> QED
      BY <1>1, <2>1, <3>2 DEF LoadOk
  <2> QED
    BY <1>1, <2>1 DEF UfoInv, LoadsInv
<1> QED
  BY <1>2, <1>4, <1>5 DEF UfoInv

(* Nobody wrote to a chunk that is evicted.                                  *)
LEMMA EvictPlain ==
  ASSUME UfoInv, NEW o \in Ids, NEW c, Evict(o, c), disk' = disk
  PROVE  UfoInv'
<1>1. /\ UNCHANGED <<ufo, dirty, pos, wants, load, ideal, changed, spoiled>>
      /\ mem' = [mem EXCEPT ![o] = [d \in DOMAIN mem[o] \ {c} |-> mem[o][d]]]
      /\ o \in Bodies /\ c \in DOMAIN mem[o] /\ c \notin dirty[o]
  BY DEF Evict, history, Resident
<1>2. /\ mem'[o] = [d \in DOMAIN mem[o] \ {c} |-> mem[o][d]]
      /\ \A x \in Ids \ {o} : mem'[x] = mem[x]
      /\ mem' = [x \in Ids |-> mem'[x]]
  BY <1>1 DEF UfoInv, Maps
<1>3. \A x \in Ids : DOMAIN mem'[x] \subseteq DOMAIN mem[x] /\ \A d \in DOMAIN mem'[x] : mem'[x][d] = mem[x][d]
  BY <1>2
<1>4. Bodies' = Bodies /\ Bodies \subseteq Ids /\ (\A x : Chunks(x)' = Chunks(x)) /\ (\A x, d : End(x, d)' = End(x, d))
  BY <1>1 DEF Bodies, Chunks, End
<1>5. Maps' /\ SourceInv' /\ LoadsInv'
  <2>1. Maps'
    BY <1>1, <1>2 DEF UfoInv, Maps
  <2> QED
    BY <1>1, <2>1, SameSource, SameLoads DEF UfoInv
<1>6. WantsInv'
  <2>1. ASSUME NEW v, WantOk(v) PROVE WantOk(v)'
    BY <1>1, <1>3, <1>4, <2>1 DEF WantOk
  <2> QED
    BY <1>1, <2>1 DEF UfoInv, WantsInv
<1>7. VectorsInv'
  <2>1. \A x \in Bodies : dirty[x] \subseteq DOMAIN mem'[x]
    BY <1>1, <1>2, <1>4 DEF UfoInv, VectorsInv
  <2> QED
    BY <1>1, <1>3, <1>4, <2>1 DEF UfoInv, VectorsInv
<1>8. UfoLikePlain'
  BY <1>1, <1>3, <1>4 DEF UfoInv, UfoLikePlain
<1> QED
  BY <1>5, <1>6, <1>7, <1>8 DEF UfoInv

(* R writes to the vector and to its ideal.                                  *)
LEMMA WritePlain ==
  ASSUME UfoInv, NEW o, NEW i, NEW unit, WriteElement(o, i, unit), disk' = disk
  PROVE  UfoInv'
<1> DEFINE c == ChunkOf(i)
           value == [u \in 1..ElementSize[ufo[o].type] |-> unit]
           k == i - First(c) + 1
<1>1. /\ UNCHANGED <<ufo, pos, wants, load, changed, spoiled>>
      /\ o \in Bodies /\ o \in Ids /\ i \in 0..(ufo[o].length - 1) /\ c \in DOMAIN mem[o]
      /\ mem' = [mem EXCEPT ![o][c][k] = value]
      /\ ideal' = [ideal EXCEPT ![o][i + 1] = value]
      /\ dirty' = [dirty EXCEPT ![o] = @ \cup {c}]
  BY DEF WriteElement, Resident, Bodies
<1>2. /\ Bodies' = Bodies /\ Bodies \subseteq Ids
      /\ (\A x : Chunks(x)' = Chunks(x)) /\ (\A x, d : End(x, d)' = End(x, d))
  BY <1>1 DEF Bodies, Chunks, End
<1>3. /\ VectorRecord(ufo[o]) /\ Sequence(ideal[o]) /\ Len(ideal[o]) = ufo[o].length
      /\ dirty[o] \subseteq DOMAIN mem[o] /\ DOMAIN mem[o] \subseteq Chunks(o)
      /\ \A d \in DOMAIN mem[o] : Sequence(mem[o][d]) /\ Len(mem[o][d]) = End(o, d) - First(d)
  BY <1>1 DEF UfoInv, VectorsInv
<1>4. /\ ufo[o].length \in Nat \ {0} /\ Chunks(o) = ChunksIn(ufo[o].length)
      /\ \A d : End(o, d) = EndIn(ufo[o].length, d)
  BY <1>3, EndOfChunk DEF VectorRecord
<1>5. c \in Nat /\ First(c) \in Nat /\ End(o, c) \in Nat /\ i \in First(c)..(End(o, c) - 1)
  BY <1>1, <1>4, InItsChunk, Borders
<1> HIDE DEF c
<1>6. k \in 1..Len(mem[o][c]) /\ i + 1 \in 1..Len(ideal[o])
  <2>1. Len(mem[o][c]) = End(o, c) - First(c) /\ Len(ideal[o]) = ufo[o].length
    BY <1>1, <1>3
  <2>2. ufo[o].length \in Nat /\ i \in 0..(ufo[o].length - 1)
    BY <1>1, <1>4
  <2>3. k \in 1..(End(o, c) - First(c))
    BY <1>5
  <2>4. i + 1 \in 1..ufo[o].length
    BY <2>2
  <2> HIDE DEF k
  <2> QED
    BY <2>1, <2>3, <2>4
<1> HIDE DEF value, k
<1>7. /\ mem'[o][c] = [mem[o][c] EXCEPT ![k] = value]
      /\ DOMAIN mem'[o] = DOMAIN mem[o]
      /\ \A d \in DOMAIN mem[o] \ {c} : mem'[o][d] = mem[o][d]
      /\ \A x \in Ids \ {o} : mem'[x] = mem[x]
      /\ mem' = [x \in Ids |-> mem'[x]]
  BY <1>1 DEF UfoInv, Maps
<1>8. /\ ideal'[o] = [ideal[o] EXCEPT ![i + 1] = value]
      /\ \A x \in Ids \ {o} : ideal'[x] = ideal[x]
      /\ ideal' = [x \in Ids |-> ideal'[x]]
  BY <1>1 DEF UfoInv, Maps
<1>9. /\ dirty'[o] = dirty[o] \cup {c}
      /\ \A x \in Ids \ {o} : dirty'[x] = dirty[x]
      /\ dirty' = [x \in Ids |-> dirty'[x]]
  BY <1>1 DEF UfoInv, Maps
<1>10. /\ Sequence(mem'[o][c]) /\ Len(mem'[o][c]) = Len(mem[o][c]) /\ mem'[o][c][k] = value
       /\ \A j \in 1..Len(mem[o][c]) : j # k => mem'[o][c][j] = mem[o][c][j]
  <2>1. PICK f : f = mem[o][c]
    OBVIOUS
  <2>2. Sequence(f) /\ k \in 1..Len(f)
    BY <1>1, <1>3, <1>6, <2>1
  <2>3. Len(f) \in Nat /\ f = [j \in 1..Len(f) |-> f[j]]
    BY <2>2, SequenceIs
  <2>4. PICK g : g = [f EXCEPT ![k] = value]
    OBVIOUS
  <2>5. g = [j \in 1..Len(f) |-> g[j]] /\ g[k] = value /\ \A j \in 1..Len(f) : j # k => g[j] = f[j]
    BY <2>2, <2>3, <2>4
  <2>6. Sequence(g) /\ Len(g) = Len(f)
    BY <2>3, <2>5, FunctionSequence
  <2> QED
    BY <1>7, <2>1, <2>4, <2>5, <2>6
<1>11. /\ Sequence(ideal'[o]) /\ Len(ideal'[o]) = Len(ideal[o]) /\ ideal'[o][i + 1] = value
       /\ \A j \in 1..Len(ideal[o]) : j # i + 1 => ideal'[o][j] = ideal[o][j]
  <2>1. PICK f : f = ideal[o]
    OBVIOUS
  <2>2. Sequence(f) /\ i + 1 \in 1..Len(f)
    BY <1>3, <1>6, <2>1
  <2>3. Len(f) \in Nat /\ f = [j \in 1..Len(f) |-> f[j]]
    BY <2>2, SequenceIs
  <2>4. PICK g : g = [f EXCEPT ![i + 1] = value]
    OBVIOUS
  <2>5. g = [j \in 1..Len(f) |-> g[j]] /\ g[i + 1] = value /\ \A j \in 1..Len(f) : j # i + 1 => g[j] = f[j]
    BY <2>2, <2>3, <2>4
  <2>6. Sequence(g) /\ Len(g) = Len(f)
    BY <2>3, <2>5, FunctionSequence
  <2> QED
    BY <1>8, <2>1, <2>4, <2>5, <2>6
<1>12. Maps' /\ LoadsInv'
  BY <1>1, <1>7, <1>8, <1>9, SameLoads DEF UfoInv, Maps
<1>13. WantsInv'
  <2>1. \A x \in Ids : DOMAIN mem'[x] = DOMAIN mem[x]
    BY <1>7
  <2>2. ASSUME NEW v, WantOk(v) PROVE WantOk(v)'
    BY <1>1, <1>2, <2>1, <2>2 DEF WantOk
  <2> QED
    BY <1>1, <2>2 DEF UfoInv, WantsInv
<1>14. VectorsInv'
  <2>1. ASSUME NEW x \in Ids, ufo'[x] = Absent PROVE dirty'[x] = {}
    BY <1>1, <1>9, <2>1 DEF UfoInv, VectorsInv, Bodies, Absent
  <2>2. ASSUME NEW x \in Bodies, x # o
        PROVE /\ VectorRecord(ufo[x]) /\ Sequence(ideal'[x]) /\ Len(ideal'[x]) = ufo[x].length
              /\ dirty'[x] \subseteq DOMAIN mem'[x] /\ DOMAIN mem'[x] \subseteq Chunks(x)
              /\ \A d \in DOMAIN mem'[x] : Sequence(mem'[x][d]) /\ Len(mem'[x][d]) = End(x, d) - First(d)
    BY <1>2, <1>7, <1>8, <1>9, <2>2 DEF UfoInv, VectorsInv
  <2>3. /\ dirty'[o] \subseteq DOMAIN mem'[o] /\ DOMAIN mem'[o] \subseteq Chunks(o)
        /\ \A d \in DOMAIN mem'[o] : Sequence(mem'[o][d]) /\ Len(mem'[o][d]) = End(o, d) - First(d)
    <3>1. dirty'[o] \subseteq DOMAIN mem'[o] /\ DOMAIN mem'[o] \subseteq Chunks(o)
      BY <1>1, <1>3, <1>7, <1>9
    <3>2. ASSUME NEW d \in DOMAIN mem'[o]
          PROVE  Sequence(mem'[o][d]) /\ Len(mem'[o][d]) = End(o, d) - First(d)
      <4>1. CASE d = c
        BY <1>1, <1>3, <1>10, <4>1
      <4>2. CASE d # c
        BY <1>3, <1>7, <3>2, <4>2
      <4> QED
        BY <4>1, <4>2
    <3> QED
      BY <3>1, <3>2
  <2>4. \A p \in Paths : Sequence(disk'[p])
    BY DEF UfoInv, VectorsInv
  <2>5. ASSUME NEW x \in Bodies
        PROVE /\ VectorRecord(ufo[x]) /\ Sequence(ideal'[x]) /\ Len(ideal'[x]) = ufo[x].length
              /\ dirty'[x] \subseteq DOMAIN mem'[x] /\ DOMAIN mem'[x] \subseteq Chunks(x)
              /\ \A d \in DOMAIN mem'[x] : Sequence(mem'[x][d]) /\ Len(mem'[x][d]) = End(x, d) - First(d)
    <3>1. CASE x = o
      <4>1. VectorRecord(ufo[o]) /\ Sequence(ideal'[o]) /\ Len(ideal'[o]) = ufo[o].length
        BY <1>3, <1>11
      <4> QED
        BY <2>3, <3>1, <4>1
    <3> QED
      BY <2>2, <3>1
  <2>6. \A x \in Bodies : VectorRecord(ufo'[x]) /\ Sequence(ideal'[x]) /\ Len(ideal'[x]) = ufo'[x].length
    BY <1>1, <2>5
  <2>7. \A x \in Bodies : dirty'[x] \subseteq DOMAIN mem'[x] /\ DOMAIN mem'[x] \subseteq Chunks(x)'
    BY <1>2, <2>5
  <2>8. \A x \in Bodies : \A d \in DOMAIN mem'[x] :
           Sequence(mem'[x][d]) /\ Len(mem'[x][d]) = End(x, d)' - First(d)
    BY <1>2, <2>5
  <2> QED
    BY <1>2, <2>1, <2>4, <2>6, <2>7, <2>8, Zenon DEF VectorsInv
<1>15. SourceInv'
  <2>1. ASSUME NEW x \in Bodies, ~Rewritten(x), NEW j \in 0..(ufo[x].length - 1), ChunkOf(j) \notin dirty'[x]
        PROVE ideal'[x][j + 1] = PlainAt(ufo[x].source, ufo[x].type, j)
    <3>1. ChunkOf(j) \notin dirty[x]
      BY <1>2, <1>9, <2>1
    <3>2. ideal[x][j + 1] = PlainAt(ufo[x].source, ufo[x].type, j)
      BY <2>1, <3>1 DEF UfoInv, SourceInv
    <3>3. x = o => j # i
      BY <1>9, <2>1 DEF c
    <3>4. CASE x = o
      <4>1. j + 1 \in 1..Len(ideal[o]) /\ j + 1 # i + 1
        BY <1>1, <1>3, <1>4, <2>1, <3>3, <3>4
      <4> QED
        BY <1>11, <3>2, <3>4, <4>1
    <3>5. CASE x # o
      BY <1>2, <1>8, <3>2, <3>5
    <3> QED
      BY <3>4, <3>5
  <2>2. (\A x : Rewritten(x)' = Rewritten(x)) /\ \A a, b, j : PlainAt(a, b, j)' = PlainAt(a, b, j)
    BY <1>1 DEF Rewritten, PlainAt
  <2> QED
    BY <1>1, <1>2, <2>1, <2>2 DEF UfoInv, SourceInv
<1>16. UfoLikePlain'
  <2>1. ASSUME NEW x \in Bodies, NEW d \in DOMAIN mem'[x], <<x, d>> \notin spoiled,
               NEW j \in First(d)..(End(x, d) - 1)
        PROVE \/ mem'[x][d][j - First(d) + 1] = ideal'[x][j + 1]
              \/ Wrong(ufo[x].source, ufo[x].type, ideal'[x][j + 1])
    <3>1. CASE x # o
      BY <1>2, <1>7, <1>8, <2>1, <3>1 DEF UfoInv, UfoLikePlain
    <3>2. CASE x = o
      <4>1. /\ d \in DOMAIN mem[o] /\ d \in Nat /\ First(d) \in Nat /\ End(o, d) \in Nat
            /\ j \in 0..(ufo[o].length - 1) /\ ChunkOf(j) = d
        BY <1>3, <1>4, <1>7, <2>1, <3>2, Borders
      <4>2. \/ mem[o][d][j - First(d) + 1] = ideal[o][j + 1]
            \/ Wrong(ufo[o].source, ufo[o].type, ideal[o][j + 1])
        BY <2>1, <3>2, <4>1 DEF UfoInv, UfoLikePlain
      <4>3. CASE j = i
        BY <1>10, <1>11, <3>2, <4>1, <4>3 DEF k, c
      <4>4. CASE j # i
        <5>1. ideal'[o][j + 1] = ideal[o][j + 1]
          <6>1. j + 1 \in 1..Len(ideal[o]) /\ j + 1 # i + 1
            <7>1. ufo[o].length \in Nat /\ Len(ideal[o]) = ufo[o].length /\ i \in Nat
              BY <1>1, <1>3, <1>4
            <7> QED
              BY <4>1, <4>4, <7>1
          <6> QED
            BY <1>11, <6>1
        <5>2. mem'[o][d][j - First(d) + 1] = mem[o][d][j - First(d) + 1]
          <6>1. CASE d # c
            BY <1>7, <4>1, <6>1
          <6>2. CASE d = c
            <7>1. j - First(c) + 1 \in 1..Len(mem[o][c]) /\ j - First(c) + 1 # k
              <8>1. Len(mem[o][c]) = End(o, c) - First(c)
                BY <1>1, <1>3
              <8>2. j \in First(c)..(End(o, c) - 1) /\ First(c) \in Nat /\ End(o, c) \in Nat /\ i \in Nat
                BY <1>5, <2>1, <3>2, <6>2
              <8>3. j - First(c) + 1 \in 1..(End(o, c) - First(c)) /\ j - First(c) + 1 # i - First(c) + 1
                BY <4>4, <8>2
              <8> QED
                BY <8>1, <8>3 DEF k
            <7> QED
              BY <1>10, <6>2, <7>1
          <6> QED
            BY <6>1, <6>2
        <5> QED
          BY <3>2, <4>2, <5>1, <5>2
      <4> QED
        BY <4>3, <4>4
    <3> QED
      BY <3>1, <3>2
  <2> QED
    BY <1>1, <1>2, <2>1 DEF UfoLikePlain
<1> QED
  BY <1>12, <1>13, <1>14, <1>15, <1>16 DEF UfoInv

-----------------------------------------------------------------------------
(* Populations.                                                              *)

(* A population is for a chunk of a vector that somebody waits for.          *)
LEMMA LoadIs ==
  ASSUME UfoInv, NEW w \in Workers, load[w] # Resting
  PROVE  /\ LoadOk(load[w]) /\ load[w].id \in Bodies /\ load[w].id \in Ids
         /\ load[w].chunk \in Chunks(load[w].id) /\ load[w].chunk \notin DOMAIN mem[load[w].id]
         /\ load[w].for \in Threads /\ wants[load[w].for] # Nothing
         /\ wants[load[w].for].id = load[w].id /\ wants[load[w].for].chunk = load[w].chunk
<1>1. LoadOk(load[w])
  BY DEF UfoInv, LoadsInv
<1>2. load[w].for \in Threads /\ wants[load[w].for] = [step |-> "taken", id |-> load[w].id, chunk |-> load[w].chunk]
  BY <1>1 DEF LoadOk
<1>3. wants[load[w].for] # Nothing
  BY <1>2 DEF Nothing
<1>4. WantOk(wants[load[w].for])
  BY <1>2, <1>3 DEF UfoInv, WantsInv
<1> QED
  BY <1>1, <1>2, <1>3, <1>4 DEF WantOk, Bodies

(* A worker begins.                                                          *)
LEMMA BeginPlain ==
  ASSUME UfoInv, NEW w \in Workers, NEW t \in Threads, BeginLoad(w, t), disk' = disk
  PROVE  UfoInv'
<1> DEFINE o == wants[t].id
           others == {v \in Workers : load[v] # Resting /\ load[v].id = o}
           new == [step |-> IF ufo[o].source.kind = "file" THEN "end" ELSE "compute",
                   id |-> o, chunk |-> wants[t].chunk, for |-> t, alone |-> others = {}]
<1>1. /\ UNCHANGED <<ufo, mem, dirty, pos, ideal, changed, spoiled>>
      /\ load[w] = Resting /\ wants[t].step = "fault"
      /\ wants' = [wants EXCEPT ![t].step = "taken"]
      /\ load' = [v \in Workers |-> IF v = w THEN new
                                    ELSE IF v \in others THEN [load[v] EXCEPT !.alone = FALSE] ELSE load[v]]
  BY DEF BeginLoad, history
<1>2. wants[t] # Nothing /\ WantOk(wants[t])
  BY <1>1 DEF UfoInv, WantsInv, Nothing
<1>3. /\ wants'[t] = [step |-> "taken", id |-> o, chunk |-> wants[t].chunk]
      /\ \A s \in Threads \ {t} : wants'[s] = wants[s]
      /\ wants' = [s \in Threads |-> wants'[s]]
  <2>1. wants = [s \in Threads |-> wants[s]]
    BY DEF UfoInv, Maps
  <2>2. wants'[t] = [wants[t] EXCEPT !.step = "taken"]
    BY <1>1, <2>1
  <2>3. wants[t] = [step |-> wants[t].step, id |-> o, chunk |-> wants[t].chunk]
    BY <1>2 DEF WantOk
  <2> QED
    BY <1>1, <2>1, <2>2, <2>3
<1>4. Maps' /\ VectorsInv' /\ SourceInv' /\ UfoLikePlain'
  <2>1. Maps'
    BY <1>1, <1>3 DEF UfoInv, Maps
  <2> QED
    BY <1>1, <2>1, SameVectors, SameSource, SameLikePlain DEF UfoInv
<1>5. WantsInv'
  <2>1. \A v : WantOk(v) => WantOk(v)'
    BY <1>1 DEF WantOk, Bodies, Chunks
  <2>2. PICK v : v = [step |-> "taken", id |-> o, chunk |-> wants[t].chunk]
    OBVIOUS
  <2>3. WantOk(v)
    BY <1>2, <2>2 DEF WantOk
  <2>4. wants'[t] = v /\ v # Nothing /\ v.id = wants[t].id /\ v.chunk = wants[t].chunk
    BY <1>3, <2>2 DEF Nothing
  <2>5. \A s \in Threads : wants'[s] # Nothing => WantOk(wants'[s])
    BY <1>3, <2>3, <2>4 DEF UfoInv, WantsInv
  <2>6. \A s \in Threads : (wants'[s] # Nothing <=> wants[s] # Nothing)
                          /\ wants'[s].id = wants[s].id /\ wants'[s].chunk = wants[s].chunk
    BY <1>2, <1>3, <2>4
  <2>7. ASSUME NEW r \in Threads, NEW s \in Threads, wants'[r] # Nothing, wants'[s] # Nothing, r # s
        PROVE ~(wants'[r].id = wants'[s].id /\ wants'[r].chunk = wants'[s].chunk)
    BY <2>6, <2>7 DEF UfoInv, WantsInv
  <2>8. \A s \in Threads : \A u : u = wants'[s] /\ u # Nothing => WantOk(u)'
    BY <2>1, <2>5
  <2> QED
    BY <2>7, <2>8 DEF WantsInv
<1>6. LoadsInv'
  <2>1. \A v \in Workers : load[v] # Resting => LoadOk(load[v]) /\ load[v].for # t
    <3>1. \A v \in Workers : load[v] # Resting => LoadOk(load[v])
      BY DEF UfoInv, LoadsInv
    <3>2. \A v \in Workers : LoadOk(load[v]) => wants[load[v].for].step = "taken"
      BY DEF LoadOk
    <3> QED
      BY <1>1, <3>1, <3>2
  <2>2. ASSUME NEW v \in Workers, NEW x, x = load'[v], x # Resting PROVE LoadOk(x)'
    <3>1. CASE v = w
      <4>1. x = new
        BY <1>1, <2>2, <3>1
      <4>2. x.step \in {"compute", "end"} /\ (x.step = "compute" <=> ufo[o].source.kind # "file")
        BY <4>1
      <4>3. x.id = o /\ x.chunk = wants[t].chunk /\ x.for = t /\ x.alone \in BOOLEAN
        BY <4>1
      <4>4. x = [step |-> x.step, id |-> x.id, chunk |-> x.chunk, for |-> x.for, alone |-> x.alone]
        BY <4>1
      <4> HIDE DEF new
      <4> QED
        BY <1>1, <1>3, <4>2, <4>3, <4>4 DEF LoadOk
    <3>2. CASE v # w
      <4>1. /\ load[v] # Resting /\ x.step = load[v].step /\ x.id = load[v].id /\ x.chunk = load[v].chunk
            /\ x.for = load[v].for /\ x.alone \in BOOLEAN /\ (x.alone => load[v].alone)
            /\ x = [step |-> x.step, id |-> x.id, chunk |-> x.chunk, for |-> x.for, alone |-> x.alone]
        <5>1. CASE v \in others
          <6>1. x = [load[v] EXCEPT !.alone = FALSE] /\ load[v] # Resting
            BY <1>1, <2>2, <3>2, <5>1
          <6>2. LoadOk(load[v])
            BY <2>1, <6>1
          <6>3. load[v] = [step |-> load[v].step, id |-> load[v].id, chunk |-> load[v].chunk,
                           for |-> load[v].for, alone |-> load[v].alone]
            BY <6>2 DEF LoadOk
          <6> QED
            BY <6>1, <6>3
        <5>2. CASE v \notin others
          <6>1. x = load[v]
            BY <1>1, <2>2, <3>2, <5>2
          <6> QED
            BY <2>1, <2>2, <6>1 DEF LoadOk
        <5> QED
          BY <5>1, <5>2
      <4>2. LoadOk(load[v]) /\ load[v].for \in Threads /\ load[v].for # t
        BY <2>1, <4>1 DEF LoadOk
      <4>3. wants'[load[v].for] = wants[load[v].for]
        BY <1>3, <4>2
      <4> QED
        BY <1>1, <4>1, <4>2, <4>3 DEF LoadOk
    <3> QED
      BY <3>1, <3>2
  <2>3. \A v \in Workers : v # w /\ load'[v] # Resting =>
           /\ load[v] # Resting /\ load'[v].for = load[v].for /\ load'[v].id = load[v].id
           /\ load'[v].alone => load[v].alone /\ load[v].id # o
    <3> SUFFICES ASSUME NEW v \in Workers, v # w, load'[v] # Resting
                 PROVE /\ load[v] # Resting /\ load'[v].for = load[v].for /\ load'[v].id = load[v].id
                       /\ load'[v].alone => load[v].alone /\ load[v].id # o
      OBVIOUS
    <3>1. CASE v \in others
      <4>1. load'[v] = [load[v] EXCEPT !.alone = FALSE] /\ load[v] # Resting
        BY <1>1, <3>1
      <4>2. load[v] = [step |-> load[v].step, id |-> load[v].id, chunk |-> load[v].chunk,
                       for |-> load[v].for, alone |-> load[v].alone]
        BY <2>1, <4>1 DEF LoadOk
      <4> QED
        BY <4>1, <4>2
    <3>2. CASE v \notin others
      <4>1. load'[v] = load[v]
        BY <1>1, <3>2
      <4> QED
        BY <3>2, <4>1
    <3> QED
      BY <3>1, <3>2
  <2>4. load'[w] = new
    BY <1>1
  <2>5. ASSUME NEW u \in Workers, NEW v \in Workers, load'[u] # Resting, load'[v] # Resting, u # v
        PROVE load'[u].for # load'[v].for /\ (load'[u].alone => load'[u].id # load'[v].id)
    <3>1. CASE u # w /\ v # w
      BY <2>3, <2>5, <3>1 DEF UfoInv, LoadsInv
    <3>2. CASE u = w
      <4>1. load'[v].for = load[v].for /\ load'[v].id = load[v].id /\ load[v] # Resting
        BY <2>3, <2>5, <3>2
      <4>2. load'[u].for = t /\ load'[u].id = o /\ (load'[u].alone => others = {})
        <5>1. PICK e \in BOOLEAN : e = (others = {})
          OBVIOUS
        <5> HIDE DEF others
        <5>2. load'[w].for = t /\ load'[w].id = o /\ load'[w].alone = e
          BY <2>4, <5>1
        <5> QED
          BY <3>2, <5>1, <5>2
      <4>3. others = {} => load[v].id # o
        BY <4>1
      <4> HIDE DEF others
      <4> QED
        BY <2>1, <4>1, <4>2, <4>3
    <3>3. CASE v = w
      <4>1. load[u] # Resting /\ load'[u].for = load[u].for /\ load'[u].id = load[u].id
            /\ (load'[u].alone => load[u].id # o)
        BY <2>3, <2>5, <3>3
      <4>2. load'[v].for = t /\ load'[v].id = o
        BY <2>4, <3>3
      <4> QED
        BY <2>1, <4>1, <4>2
    <3> QED
      BY <3>1, <3>2, <3>3
  <2>6. \A v \in Workers : \A x : x = load'[v] /\ x # Resting => LoadOk(x)'
    BY <2>2
  <2> HIDE DEF new, others
  <2> QED
    BY <2>5, <2>6 DEF LoadsInv
<1> QED
  BY <1>4, <1>5, <1>6 DEF UfoInv

(* A worker that moves the position of its vector's file disturbs nobody who *)
(* is alone.                                                                 *)
LEMMA OthersGoOn ==
  ASSUME UfoInv, NEW w \in Workers, load[w] # Resting, ufo' = ufo,
         \A x \in Ids \ {load[w].id} : pos'[x] = pos[x],
         \A t \in Threads \ {load[w].for} : wants'[t] = wants[t],
         NEW v \in Workers, v # w, load[v] # Resting
  PROVE  LoadOk(load[v])' \/ load'[v] # load[v]
<1> SUFFICES ASSUME NEW x, x = load[v], load'[v] = x PROVE LoadOk(x)'
  OBVIOUS
<1>1. LoadOk(x) /\ x.for # load[w].for /\ (x.alone => x.id # load[w].id)
  BY DEF UfoInv, LoadsInv
<1>2. x.id \in Ids /\ x.for \in Threads
  BY LoadIs
<1>3. wants'[x.for] = wants[x.for]
  BY <1>1, <1>2
<1>4. x.alone => pos'[x.id] = pos[x.id]
  BY <1>1, <1>2
<1> QED
  BY <1>1, <1>3, <1>4 DEF LoadOk

(* One call of stdio.                                                        *)
LEMMA MovePlain ==
  ASSUME UfoInv, NEW w \in Workers, load[w] # Resting, load[w].step # "compute",
         NEW step \in {"tell", "seek", "read"}, load' = [load EXCEPT ![w].step = step],
         pos' = [x \in Ids |-> pos'[x]], \A x \in Ids \ {load[w].id} : pos'[x] = pos[x],
         step = "read" => pos'[load[w].id] = ElementSize[ufo[load[w].id].type] * First(load[w].chunk),
         UNCHANGED <<disk, ufo, mem, dirty, wants, ideal, changed, spoiled>>
  PROVE  UfoInv'
<1>1. Maps' /\ VectorsInv' /\ WantsInv' /\ SourceInv' /\ UfoLikePlain'
  <2>1. Maps'
    BY DEF UfoInv, Maps
  <2> QED
    BY <2>1, SameVectors, SameWants, SameSource, SameLikePlain DEF UfoInv
<1>2. load'[w] = [load[w] EXCEPT !.step = step] /\ \A v \in Workers \ {w} : load'[v] = load[v]
  BY DEF UfoInv, Maps
<1>3. PICK old : old = load[w]
  OBVIOUS
<1>4. LoadOk(old)
  BY <1>3, LoadIs
<1>5. PICK new : new = load'[w]
  OBVIOUS
<1>6. /\ new.step = step /\ new.id = old.id /\ new.chunk = old.chunk /\ new.for = old.for /\ new.alone = old.alone
      /\ new = [step |-> new.step, id |-> new.id, chunk |-> new.chunk, for |-> new.for, alone |-> new.alone]
  <2>1. old = [step |-> old.step, id |-> old.id, chunk |-> old.chunk, for |-> old.for, alone |-> old.alone]
    BY <1>4 DEF LoadOk
  <2> QED
    BY <1>2, <1>3, <1>5, <2>1
<1>7. LoadOk(new)'
  BY <1>3, <1>4, <1>6 DEF LoadOk
<1>8. LoadsInv'
  <2>1. \A v \in Workers : load'[v] # Resting => LoadOk(load[v])' \/ v = w
    BY <1>2, OthersGoOn
  <2>2. \A v \in Workers : \A x : x = load'[v] /\ x # Resting => LoadOk(x)'
    <3> SUFFICES ASSUME NEW v \in Workers, NEW x, x = load'[v], x # Resting PROVE LoadOk(x)'
      OBVIOUS
    <3>1. CASE v = w
      BY <1>5, <1>7, <3>1
    <3>2. CASE v # w
      <4>1. load[v] = x /\ load'[v] = load[v]
        BY <1>2, <3>2
      <4> QED
        BY <3>2, <4>1, OthersGoOn
    <3> QED
      BY <3>1, <3>2
  <2>3. \A v \in Workers : /\ load'[v] # Resting => load[v] # Resting
                          /\ load'[v].for = load[v].for /\ load'[v].alone = load[v].alone /\ load'[v].id = load[v].id
    BY <1>2, <1>3, <1>5, <1>6
  <2>4. \A u, v \in Workers : load'[u] # Resting /\ load'[v] # Resting /\ u # v =>
           load'[u].for # load'[v].for /\ (load'[u].alone => load'[u].id # load'[v].id)
    BY <2>3 DEF UfoInv, LoadsInv
  <2> QED
    BY <2>2, <2>4 DEF LoadsInv
<1> QED
  BY <1>1, <1>8 DEF UfoInv

(* A worker that is done, with its loads.                                    *)
LEMMA RestLoads ==
  ASSUME UfoInv, NEW w \in Workers, load[w] # Resting, load' = [load EXCEPT ![w] = Resting],
         \A x \in Ids \ {load[w].id} : pos'[x] = pos[x],
         \A t \in Threads \ {load[w].for} : wants'[t] = wants[t], ufo' = ufo
  PROVE  LoadsInv'
<1>1. load'[w] = Resting /\ \A v \in Workers \ {w} : load'[v] = load[v]
  BY DEF UfoInv, Maps
<1>2. \A v \in Workers : \A x : x = load'[v] /\ x # Resting => LoadOk(x)'
  <2> SUFFICES ASSUME NEW v \in Workers, NEW x, x = load'[v], x # Resting PROVE LoadOk(x)'
    OBVIOUS
  <2>1. v # w /\ load[v] = x /\ load'[v] = load[v]
    BY <1>1
  <2> QED
    BY <2>1, OthersGoOn
<1>3. \A u, v \in Workers : load'[u] # Resting /\ load'[v] # Resting /\ u # v =>
         load'[u].for # load'[v].for /\ (load'[u].alone => load'[u].id # load'[v].id)
  BY <1>1 DEF UfoInv, LoadsInv
<1> QED
  BY <1>2, <1>3 DEF LoadsInv

(* A population fails: the thread waits for ever.                            *)
LEMMA FailPlain ==
  ASSUME UfoInv, NEW w \in Workers, load[w] # Resting, Fail(w),
         pos' = [x \in Ids |-> pos'[x]], \A x \in Ids \ {load[w].id} : pos'[x] = pos[x],
         UNCHANGED <<disk, ufo, dirty, ideal, changed>>
  PROVE  UfoInv'
<1>1. UNCHANGED <<mem, wants, spoiled>> /\ load' = [load EXCEPT ![w] = Resting]
  BY DEF Fail
<1>2. Maps'
  BY <1>1 DEF UfoInv, Maps
<1> QED
  BY <1>1, <1>2, SameVectors, SameWants, SameSource, SameLikePlain, RestLoads DEF UfoInv

(* It succeeds: the chunk was not there, so nobody had written to it.        *)
LEMMA DeliverPlain ==
  ASSUME UfoInv, NEW w \in Workers, load[w] # Resting, NEW elements, Deliver(w, elements),
         Sequence(elements), Len(elements) = End(load[w].id, load[w].chunk) - First(load[w].chunk),
         load[w].alone /\ load[w].id \notin changed =>
            \A i \in First(load[w].chunk)..(End(load[w].id, load[w].chunk) - 1) :
               \/ elements[i - First(load[w].chunk) + 1] = ideal[load[w].id][i + 1]
               \/ Wrong(ufo[load[w].id].source, ufo[load[w].id].type, ideal[load[w].id][i + 1]),
         pos' = [x \in Ids |-> pos'[x]], \A x \in Ids \ {load[w].id} : pos'[x] = pos[x],
         UNCHANGED <<disk, ufo, dirty, ideal, changed>>
  PROVE  UfoInv'
<1>1. PICK o, c, t : o = load[w].id /\ c = load[w].chunk /\ t = load[w].for
  OBVIOUS
<1>2. /\ o \in Bodies /\ o \in Ids /\ c \in Chunks(o) /\ c \notin DOMAIN mem[o] /\ t \in Threads
      /\ wants[t] # Nothing /\ wants[t].id = o /\ wants[t].chunk = c
  BY <1>1, LoadIs
<1>3. /\ mem' = [mem EXCEPT ![o] = [d \in DOMAIN mem[o] \cup {c} |-> IF d = c THEN elements ELSE mem[o][d]]]
      /\ wants' = [wants EXCEPT ![t] = Nothing]
      /\ load' = [load EXCEPT ![w] = Resting]
      /\ spoiled' = IF load[w].alone /\ o \notin changed THEN spoiled \ {<<o, c>>} ELSE spoiled \cup {<<o, c>>}
  BY <1>1 DEF Deliver
<1>4. /\ mem'[o] = [d \in DOMAIN mem[o] \cup {c} |-> IF d = c THEN elements ELSE mem[o][d]]
      /\ \A x \in Ids \ {o} : mem'[x] = mem[x]
      /\ mem' = [x \in Ids |-> mem'[x]]
  BY <1>2, <1>3 DEF UfoInv, Maps
<1>5. /\ DOMAIN mem'[o] = DOMAIN mem[o] \cup {c} /\ mem'[o][c] = elements
      /\ \A d \in DOMAIN mem[o] : mem'[o][d] = mem[o][d]
  <2>1. PICK f, g : f = mem[o] /\ g = mem'[o]
    OBVIOUS
  <2>2. g = [d \in DOMAIN f \cup {c} |-> IF d = c THEN elements ELSE f[d]] /\ c \notin DOMAIN f
    BY <1>2, <1>4, <2>1
  <2>3. DOMAIN g = DOMAIN f \cup {c} /\ g[c] = elements /\ \A d \in DOMAIN f : g[d] = f[d]
    BY <2>2
  <2> QED
    BY <2>1, <2>3
<1>6. wants'[t] = Nothing /\ \A r \in Threads \ {t} : wants'[r] = wants[r]
  BY <1>2, <1>3 DEF UfoInv, Maps
<1>7. /\ Bodies' = Bodies /\ Bodies \subseteq Ids
      /\ (\A x : Chunks(x)' = Chunks(x)) /\ (\A x, d : End(x, d)' = End(x, d))
  BY DEF Bodies, Chunks, End
<1>8. Maps' /\ SourceInv' /\ LoadsInv'
  <2>1. Maps'
    BY <1>3, <1>4 DEF UfoInv, Maps
  <2> QED
    BY <1>1, <1>3, <1>6, <2>1, SameSource, RestLoads DEF UfoInv
<1>9. WantsInv'
  <2>1. ASSUME NEW r \in Threads, NEW v, v = wants'[r], v # Nothing PROVE WantOk(v)'
    <3>1. r # t /\ wants[r] = v
      BY <1>6, <2>1
    <3>2. WantOk(v) /\ ~(v.id = o /\ v.chunk = c)
      BY <1>2, <2>1, <3>1 DEF UfoInv, WantsInv
    <3>3. v.id \in Bodies /\ v.chunk \notin DOMAIN mem[v.id]
      BY <3>2 DEF WantOk
    <3>4. v.chunk \notin DOMAIN mem'[v.id]
      BY <1>4, <1>5, <1>7, <3>2, <3>3
    <3> QED
      BY <1>7, <3>2, <3>4 DEF WantOk
  <2>2. \A r, u \in Threads : wants'[r] # Nothing /\ wants'[u] # Nothing /\ r # u =>
           ~(wants'[r].id = wants'[u].id /\ wants'[r].chunk = wants'[u].chunk)
    BY <1>6 DEF UfoInv, WantsInv
  <2>3. \A r \in Threads : \A v : v = wants'[r] /\ v # Nothing => WantOk(v)'
    BY <2>1
  <2> QED
    BY <2>2, <2>3 DEF WantsInv
<1>10. VectorsInv'
  <2>1. ASSUME NEW x \in Bodies
        PROVE /\ dirty[x] \subseteq DOMAIN mem'[x] /\ DOMAIN mem'[x] \subseteq Chunks(x)
              /\ \A d \in DOMAIN mem'[x] : Sequence(mem'[x][d]) /\ Len(mem'[x][d]) = End(x, d) - First(d)
    <3>1. CASE x = o
      <4>1. dirty[o] \subseteq DOMAIN mem[o] /\ DOMAIN mem[o] \subseteq Chunks(o)
        BY <1>2 DEF UfoInv, VectorsInv
      <4>2. \A d \in DOMAIN mem[o] : Sequence(mem[o][d]) /\ Len(mem[o][d]) = End(o, d) - First(d)
        BY <1>2 DEF UfoInv, VectorsInv
      <4>3. Sequence(elements) /\ Len(elements) = End(o, c) - First(c)
        BY <1>1
      <4> QED
        BY <1>2, <1>5, <3>1, <4>1, <4>2, <4>3
    <3>2. CASE x # o
      BY <1>4, <1>7, <2>1, <3>2 DEF UfoInv, VectorsInv
    <3> QED
      BY <3>1, <3>2
  <2>2. \A x \in Bodies : /\ VectorRecord(ufo[x]) /\ Sequence(ideal[x]) /\ Len(ideal[x]) = ufo[x].length
    BY DEF UfoInv, VectorsInv
  <2>3. (\A p \in Paths : Sequence(disk[p])) /\ \A x \in Ids : ufo[x] = Absent => dirty[x] = {}
    BY DEF UfoInv, VectorsInv
  <2> QED
    BY <1>7, <2>1, <2>2, <2>3 DEF VectorsInv
<1>11. UfoLikePlain'
  <2>1. ASSUME NEW x \in Bodies, NEW d \in DOMAIN mem'[x], <<x, d>> \notin spoiled',
               NEW i \in First(d)..(End(x, d) - 1)
        PROVE \/ mem'[x][d][i - First(d) + 1] = ideal[x][i + 1]
              \/ Wrong(ufo[x].source, ufo[x].type, ideal[x][i + 1])
    <3>1. CASE x = o /\ d = c
      <4>1. load[w].alone /\ o \notin changed
        BY <1>3, <2>1, <3>1
      <4> QED
        BY <1>1, <1>5, <2>1, <3>1, <4>1
    <3>2. CASE ~(x = o /\ d = c)
      <4>1. <<x, d>> \notin spoiled
        BY <1>3, <2>1, <3>2
      <4>2. d \in DOMAIN mem[x] /\ mem'[x][d] = mem[x][d]
        BY <1>4, <1>5, <1>7, <2>1, <3>2
      <4> QED
        BY <2>1, <4>1, <4>2 DEF UfoInv, UfoLikePlain
    <3> QED
      BY <3>1, <3>2
  <2> QED
    BY <1>7, <2>1 DEF UfoLikePlain
<1> QED
  BY <1>8, <1>9, <1>10, <1>11 DEF UfoInv

(* What a sequence stores is its terms, but in doubles below zero.           *)
LEMMA TermStored ==
  ASSUME NEW n \in Int, -Word <= 2 * n, 2 * n < Word
  PROVE  IntOf(n) = n /\ (n >= 0 => DoubleOf(n) = n)
<1>1. Word \in Nat /\ Word > 0
  BY WordAssumption
<1>2. CASE n >= 0
  <2>1. n % Word = n
    BY <1>1, <1>2
  <2> QED
    BY <1>1, <1>2, <2>1 DEF IntOf, DoubleOf
<1>3. CASE n < 0
  <2>1. n % Word = n + Word
    BY <1>1, <1>3
  <2> QED
    BY <1>1, <1>3, <2>1 DEF IntOf
<1> QED
  BY <1>2, <1>3

(* The terms of a sequence of integers are stored as themselves.             *)
LEMMA TermsOf ==
  ASSUME NEW s, IntSequence(s), NEW i \in 0..(SeqLength(s) - 1)
  PROVE  /\ Term(s, i) \in Int
         /\ IntOf(Term(s, i)) = Term(s, i)
         /\ Term(s, i) >= 0 => DoubleOf(Term(s, i)) = Term(s, i)
<1>1. s.from \in Int /\ s.by \in Int /\ i \in Int
  BY DEF IntSequence
<1>2. s.by * i \in Int
  BY <1>1
<1>3. Term(s, i) \in Int
  BY <1>1, <1>2 DEF Term
<1>4. -Word <= 2 * Term(s, i) /\ 2 * Term(s, i) < Word
  BY DEF IntSequence
<1> QED
  BY <1>3, <1>4, TermStored

(* The length of a sequence is a number.                                     *)
LEMMA SeqLengthIs ==
  ASSUME NEW s, IntSequence(s)
  PROVE  SeqLength(s) \in Int
<1>1. PICK a \in Int, b \in Int : a = s.to - s.from /\ b = s.by /\ b # 0
  BY DEF IntSequence
<1>2. \A m \in Nat, n \in Nat \ {0} : m \div n \in Nat
  BY QuotientIs
<1>3. Quotient(a, b) \in Int
  <2> DEFINE m == IF a < 0 THEN -a ELSE a
             n == IF b < 0 THEN -b ELSE b
  <2>1. m \in Nat /\ n \in Nat \ {0}
    BY <1>1
  <2>2. m \div n \in Nat
    BY <1>2, <2>1
  <2>3. Quotient(a, b) = IF (a < 0) = (b < 0) THEN m \div n ELSE -(m \div n)
    BY Zenon DEF Quotient
  <2> HIDE DEF m, n
  <2> QED
    BY <2>2, <2>3
<1> QED
  BY <1>1, <1>3 DEF SeqLength

(* What is undisturbed puts into a chunk of a vector without a file.         *)
Computed(source, length) ==
    \/ source.kind = "seq" /\ IntSequence(source) /\ length = SeqLength(source)
    \/ source.kind = "empty"
AreElements(source, type, first, end, elements) ==
    /\ Sequence(elements) /\ Len(elements) = end - first
    /\ \A i \in first..(end - 1) : \/ elements[i - first + 1] = PlainAt(source, type, i)
                                  \/ Wrong(source, type, PlainAt(source, type, i))

(* Sequences and empty vectors produce what a plain vector holds.            *)
LEMMA ComputedIs ==
  ASSUME NEW source, NEW type \in Types, NEW length \in Nat, NEW first \in Nat, NEW end \in Nat,
         first <= end, end <= length, Computed(source, length)
  PROVE  AreElements(source, type, first, end, Produced(source, type, first, end))
<1> SUFFICES ASSUME NEW elements, elements = Produced(source, type, first, end)
             PROVE  /\ Sequence(elements) /\ Len(elements) = end - first
                    /\ \A i \in first..(end - 1) : \/ elements[i - first + 1] = PlainAt(source, type, i)
                                                  \/ Wrong(source, type, PlainAt(source, type, i))
  BY DEF AreElements
<1> USE DEF Computed
<1>1. CASE source.kind = "seq"
  <2>1. elements = SeqTerms(source, type, first, end)
    BY <1>1 DEF Produced
  <2>2. elements = [k \in 1..(end - first) |-> elements[k]]
    BY <2>1 DEF SeqTerms
  <2>3. Sequence(elements) /\ Len(elements) = end - first
    BY <2>2, FunctionSequence
  <2>4. ASSUME NEW i \in first..(end - 1)
        PROVE  \/ elements[i - first + 1] = PlainAt(source, type, i)
               \/ Wrong(source, type, PlainAt(source, type, i))
    <3>1. PICK term : term = Term(source, i)
      OBVIOUS
    <3>2. i - first + 1 \in 1..(end - first) /\ first + (i - first + 1) - 1 = i
      OBVIOUS
    <3>3. elements[i - first + 1] = <<IF type = "REAL" THEN DoubleOf(term) ELSE IntOf(term)>>
      BY <2>1, <3>1, <3>2 DEF SeqTerms
    <3>4. term \in Int /\ IntOf(term) = term /\ (term >= 0 => DoubleOf(term) = term)
      <4>1. IntSequence(source) /\ i \in 0..(SeqLength(source) - 1)
        BY <1>1
      <4> QED
        BY <3>1, <4>1, TermsOf
    <3>5. PlainAt(source, type, i) = <<term>>
      BY <1>1, <3>1 DEF PlainAt
    <3>6. CASE type = "REAL" /\ term < 0
      BY <1>1, <3>5, <3>6 DEF Wrong
    <3>7. CASE ~(type = "REAL" /\ term < 0)
      BY <3>3, <3>4, <3>5, <3>7
    <3> QED
      BY <3>6, <3>7
  <2> QED
    BY <2>3, <2>4
<1>2. CASE source.kind = "empty"
  <2> DEFINE value == IF source.fill # "na" THEN 0 ELSE IF type = "CPLX" THEN MinInt ELSE NaFill
             plain == IF source.fill = "na" THEN NaFill ELSE 0
             units == 1..ElementSize[type]
  <2>1. elements = [k \in 1..(end - first) |-> [u \in units |-> value]]
    BY <1>2 DEF Produced, EmptyValues
  <2>2. PlainAt(source, type, 0) = [u \in units |-> plain]
        /\ \A i : PlainAt(source, type, i) = [u \in units |-> plain]
    BY <1>2 DEF PlainAt
  <2>3. value = plain \/ (type = "CPLX" /\ plain = NaFill)
    BY DEF NaFill, MinInt
  <2>4. 1 \in units
    BY SizesAssumption
  <2> HIDE DEF value, plain, units
  <2>5. elements = [k \in 1..(end - first) |-> elements[k]]
    BY <2>1
  <2>6. Sequence(elements) /\ Len(elements) = end - first
    BY <2>5, FunctionSequence
  <2>7. ASSUME NEW i \in first..(end - 1)
        PROVE  \/ elements[i - first + 1] = PlainAt(source, type, i)
               \/ Wrong(source, type, PlainAt(source, type, i))
    <3>1. elements[i - first + 1] = [u \in units |-> value]
      BY <2>1
    <3>2. CASE value = plain
      BY <2>2, <3>1, <3>2
    <3>3. CASE type = "CPLX" /\ plain = NaFill
      <4>1. PlainAt(source, type, i)[1] = NaFill
        BY <2>2, <2>4, <3>3
      <4> QED
        BY <1>2, <3>3, <4>1 DEF Wrong
    <3> QED
      BY <2>3, <3>2, <3>3
  <2> QED
    BY <2>6, <2>7
<1> QED
  BY <1>1, <1>2

(* The chunk a worker populates, and what its ideal is.                      *)
LEMMA LoadedChunk ==
  ASSUME UfoInv, NEW w \in Workers, load[w] # Resting,
         NEW o, NEW c, o = load[w].id, c = load[w].chunk
  PROVE  /\ o \in Bodies /\ o \in Ids /\ VectorRecord(ufo[o]) /\ ufo[o].length \in Nat \ {0}
         /\ First(c) \in Nat /\ End(o, c) \in Nat /\ First(c) < End(o, c) /\ End(o, c) <= ufo[o].length
         /\ ~Rewritten(o) => \A i \in First(c)..(End(o, c) - 1) :
                ideal[o][i + 1] = PlainAt(ufo[o].source, ufo[o].type, i)
<1>1. o \in Bodies /\ o \in Ids /\ c \in Chunks(o) /\ c \notin DOMAIN mem[o]
  BY LoadIs
<1>2. VectorRecord(ufo[o]) /\ dirty[o] \subseteq DOMAIN mem[o]
  BY <1>1 DEF UfoInv, VectorsInv
<1>3. ufo[o].length \in Nat \ {0}
  BY <1>2 DEF VectorRecord
<1>4. End(o, c) = EndIn(ufo[o].length, c) /\ Chunks(o) = ChunksIn(ufo[o].length)
  BY EndOfChunk
<1>5. /\ First(c) \in Nat /\ End(o, c) \in Nat /\ First(c) < End(o, c) /\ End(o, c) <= ufo[o].length
      /\ \A i \in First(c)..(End(o, c) - 1) : i \in 0..(ufo[o].length - 1) /\ ChunkOf(i) = c
  BY <1>1, <1>3, <1>4, Borders
<1>6. ~Rewritten(o) => \A i \in 0..(ufo[o].length - 1) : ChunkOf(i) \notin dirty[o] =>
         ideal[o][i + 1] = PlainAt(ufo[o].source, ufo[o].type, i)
  BY <1>1 DEF UfoInv, SourceInv
<1> QED
  BY <1>1, <1>2, <1>3, <1>5, <1>6

(* A worker computes a chunk of one of them.                                 *)
LEMMA ComputePlain ==
  ASSUME UfoInv, NEW w \in Workers, Compute(w), disk' = disk
  PROVE  UfoInv'
<1>1. PICK o, c : o = load[w].id /\ c = load[w].chunk
  OBVIOUS
<1>2. PICK elements : elements = Produced(ufo[o].source, ufo[o].type, First(c), End(o, c))
  OBVIOUS
<1>3. load[w].step = "compute" /\ Deliver(w, elements) /\ UNCHANGED <<ufo, dirty, pos, ideal, changed>>
  BY <1>1, <1>2 DEF Compute
<1>4. load[w] # Resting
  BY <1>3 DEF Resting
<1>5. /\ VectorRecord(ufo[o]) /\ ufo[o].length \in Nat \ {0}
      /\ First(c) \in Nat /\ End(o, c) \in Nat /\ First(c) < End(o, c) /\ End(o, c) <= ufo[o].length
      /\ ~Rewritten(o) => \A i \in First(c)..(End(o, c) - 1) :
             ideal[o][i + 1] = PlainAt(ufo[o].source, ufo[o].type, i)
  BY <1>1, <1>4, LoadedChunk
<1>6. ufo[o].source.kind # "file"
  <2>1. LoadOk(load[w])
    BY <1>4, LoadIs
  <2> QED
    BY <1>1, <1>3, <2>1 DEF LoadOk
<1>7. /\ Sequence(elements) /\ Len(elements) = End(o, c) - First(c)
      /\ \A i \in First(c)..(End(o, c) - 1) :
            \/ elements[i - First(c) + 1] = PlainAt(ufo[o].source, ufo[o].type, i)
            \/ Wrong(ufo[o].source, ufo[o].type, PlainAt(ufo[o].source, ufo[o].type, i))
  <2>1. ufo[o].type \in Types /\ Computed(ufo[o].source, ufo[o].length)
    BY <1>5, <1>6 DEF VectorRecord, Computed
  <2>2. PICK e : e = End(o, c)
    OBVIOUS
  <2>3. /\ e \in Nat /\ ufo[o].length \in Nat /\ First(c) <= e /\ e <= ufo[o].length
    BY <1>5, <2>2
  <2>4. AreElements(ufo[o].source, ufo[o].type, First(c), e, Produced(ufo[o].source, ufo[o].type, First(c), e))
    BY <1>5, <2>1, <2>3, ComputedIs
  <2> QED
    BY <1>2, <2>2, <2>4 DEF AreElements
<1>8. \A i \in First(c)..(End(o, c) - 1) :
         \/ elements[i - First(c) + 1] = ideal[o][i + 1]
         \/ Wrong(ufo[o].source, ufo[o].type, ideal[o][i + 1])
  BY <1>5, <1>6, <1>7 DEF Rewritten
<1>9. pos' = [x \in Ids |-> pos'[x]] /\ \A x \in Ids : pos'[x] = pos[x]
  BY <1>3 DEF UfoInv, Maps
<1> QED
  BY <1>1, <1>3, <1>4, <1>7, <1>8, <1>9, DeliverPlain

(* The units of some elements, as a part of those of all.                    *)
ElementAt(file, size, i) == SubSeq(file, size * i + 1, size * (i + 1))
ElementRead(file, size, first, n, k) ==
    SubSeq(SubSeq(file, size * first + 1, size * first + size * n), size * (k - 1) + 1, size * k)

(* An element of what is read is the element of the file.                    *)
LEMMA ElementSlice ==
  ASSUME NEW file, NEW size \in Nat \ {0}, NEW first \in Nat, NEW n \in Nat, NEW k \in 1..n
  PROVE  ElementRead(file, size, first, n, k) = ElementAt(file, size, first + k - 1)
<1> USE DEF ElementRead, ElementAt
<1>1. PICK a \in Int, b \in Int, p \in Int :
         a = size * first /\ b = size * n /\ p = size * (k - 1)
  OBVIOUS
<1>2. size * k = p + size
  BY <1>1
<1>3. size * (first + k - 1) = a + p
  BY <1>1
<1>4. size * (first + k - 1 + 1) = a + p + size
  BY <1>1
<1>5. p >= 0
  <2>1. k - 1 \in Nat /\ size \in Nat
    OBVIOUS
  <2> QED
    BY <1>1, <2>1, Products
<1>6. p + size <= b
  <2>1. k \in Nat /\ k <= n /\ size \in Nat
    OBVIOUS
  <2>2. k * size <= n * size
    BY <2>1, ProductGrows
  <2>3. k * size = size * k /\ n * size = size * n
    OBVIOUS
  <2> QED
    BY <1>1, <1>2, <2>2, <2>3
<1>7. SubSeq(SubSeq(file, a + 1, a + b), p + 1, p + size) = SubSeq(file, (a + 1) + (p + 1) - 1, (a + 1) + (p + size) - 1)
  <2>1. /\ a + 1 \in Int /\ a + b \in Int /\ p + 1 \in Int /\ p + size \in Int
        /\ 1 <= p + 1 /\ p + 1 <= (p + size) + 1 /\ p + size <= (a + b) - (a + 1) + 1
    BY <1>1, <1>5, <1>6
  <2> QED
    BY <2>1, SliceOfSlice
<1>8. (a + 1) + (p + 1) - 1 = (a + p) + 1 /\ (a + 1) + (p + size) - 1 = a + p + size
  BY <1>1
<1> QED
  BY <1>1, <1>2, <1>3, <1>4, <1>7, <1>8

(* As many elements are read as were wanted.                                 *)
LEMMA UnitsOf ==
  ASSUME NEW size \in Nat \ {0}, NEW n \in Nat
  PROVE  (size * n) \div size = n
<1>1. (n * size + 0) \div size = n
  BY QuotientOf
<1>2. n * size + 0 = size * n
  OBVIOUS
<1> QED
  BY <1>1, <1>2

(* Reading, which is right where nobody moved the position.                  *)
LEMMA ReadPlain ==
  ASSUME UfoInv, NEW w \in Workers, Read(w), disk' = disk
  PROVE  UfoInv'
<1>1. PICK o, c, file, size, n :
         /\ o = load[w].id /\ c = load[w].chunk /\ file = disk[ufo[o].source.path]
         /\ size = ElementSize[ufo[o].type] /\ n = End(o, c) - First(c)
  OBVIOUS
<1>2. load[w].step = "read" /\ load[w] # Resting /\ UNCHANGED <<ufo, dirty, ideal, changed>>
  <2>1. load[w].step = "read" /\ UNCHANGED <<ufo, dirty, ideal, changed>>
    BY ReadChanges
  <2> QED
    BY <2>1 DEF Resting
<1>3. /\ o \in Bodies /\ o \in Ids /\ VectorRecord(ufo[o]) /\ ufo[o].length \in Nat \ {0}
      /\ First(c) \in Nat /\ End(o, c) \in Nat /\ First(c) < End(o, c) /\ End(o, c) <= ufo[o].length
      /\ ~Rewritten(o) => \A i \in First(c)..(End(o, c) - 1) :
             ideal[o][i + 1] = PlainAt(ufo[o].source, ufo[o].type, i)
  BY <1>1, <1>2, LoadedChunk
<1>4. size \in Nat \ {0} /\ n \in Nat
  BY <1>1, <1>3, SizesAssumption DEF VectorRecord
<1>5. ufo[o].source.kind = "file" /\ (load[w].alone => pos[o] = size * First(c))
  <2>1. LoadOk(load[w])
    BY <1>2, LoadIs
  <2> QED
    BY <1>1, <1>2, <2>1 DEF LoadOk
<1>6. pos' = [x \in Ids |-> pos'[x]] /\ \A x \in Ids \ {o} : pos'[x] = pos[x]
  <2>1. PICK e : pos' = [pos EXCEPT ![o] = e]
    <3>1. \E e : pos' = [pos EXCEPT ![load[w].id] = e]
      BY ReadChanges, Zenon
    <3> QED
      BY <1>1, <3>1, Zenon
  <2>2. pos = [x \in Ids |-> pos[x]]
    BY DEF UfoInv, Maps
  <2> QED
    BY <2>1, <2>2
<1> DEFINE found == SubSeq(file, pos[o] + 1, pos[o] + size * n)
<1>7. \/ Fail(w)
      \/ Deliver(w, [i \in 1..((size * n) \div size) |-> SubSeq(found, size * (i - 1) + 1, size * i)])
  BY <1>1 DEF Read, Size
<1>8. CASE Fail(w)
  BY <1>1, <1>2, <1>6, <1>8, FailPlain
<1>9. CASE Deliver(w, [i \in 1..((size * n) \div size) |-> SubSeq(found, size * (i - 1) + 1, size * i)])
  <2>1. PICK elements : elements = [i \in 1..n |-> SubSeq(found, size * (i - 1) + 1, size * i)]
    OBVIOUS
  <2>2. Deliver(w, elements)
    BY <1>4, <1>9, <2>1, UnitsOf
  <2>3. elements = [i \in 1..n |-> elements[i]]
    BY <2>1
  <2>4. Sequence(elements) /\ Len(elements) = n
    BY <1>4, <2>3, FunctionSequence
  <2>5. ASSUME load[w].alone, o \notin changed, NEW i \in First(c)..(End(o, c) - 1)
        PROVE  elements[i - First(c) + 1] = ideal[o][i + 1]
    <3>1. PICK k : k = i - First(c) + 1
      OBVIOUS
    <3>2. k \in 1..n /\ First(c) + k - 1 = i
      BY <1>1, <1>3, <2>5, <3>1
    <3>3. elements[k] = SubSeq(found, size * (k - 1) + 1, size * k)
      BY <2>1, <3>2
    <3>4. found = SubSeq(file, size * First(c) + 1, size * First(c) + size * n)
      BY <1>5, <2>5
    <3>5. elements[k] = ElementAt(file, size, i)
      <4>1. ElementRead(file, size, First(c), n, k) = ElementAt(file, size, First(c) + k - 1)
        BY <1>3, <1>4, <3>2, ElementSlice
      <4>2. elements[k] = ElementRead(file, size, First(c), n, k)
        <5> HIDE DEF found
        <5> QED
          BY <3>3, <3>4, Zenon DEF ElementRead
      <4> QED
        BY <3>2, <4>1, <4>2
    <3>6. ideal[o][i + 1] = PlainAt(ufo[o].source, ufo[o].type, i)
      <4>1. ~Rewritten(o)
        BY <2>5, Zenon DEF Rewritten
      <4> QED
        BY <1>3, <2>5, <4>1, Zenon
    <3>7. PlainAt(ufo[o].source, ufo[o].type, i) = ElementAt(file, size, i)
      BY <1>1, <1>5 DEF PlainAt, ElementAt
    <3> QED
      BY <3>1, <3>2, <3>5, <3>6, <3>7
  <2> QED
    BY <1>1, <1>2, <1>6, <2>2, <2>4, <2>5, DeliverPlain
<1> QED
  BY <1>7, <1>8, <1>9

(* Every step of a population.                                               *)
LEMMA PopulatePlain ==
  ASSUME UfoInv, NEW w \in Workers, PopulateStep(w), disk' = disk
  PROVE  UfoInv'
<1>1. PICK o : o = load[w].id
  OBVIOUS
<1>2. CASE SeekEnd(w)
  <2>1. /\ load[w].step = "end" /\ \E e : pos' = [pos EXCEPT ![o] = e]
        /\ load' = [load EXCEPT ![w].step = "tell"]
        /\ UNCHANGED <<ufo, mem, dirty, wants, ideal, changed, spoiled>>
    BY <1>1, <1>2 DEF SeekEnd, history
  <2>2. load[w] # Resting /\ load[w].step # "compute"
    BY <2>1 DEF Resting
  <2>3. pos' = [x \in Ids |-> pos'[x]] /\ \A x \in Ids \ {o} : pos'[x] = pos[x]
    BY <2>1 DEF UfoInv, Maps
  <2> QED
    BY <1>1, <2>1, <2>2, <2>3, MovePlain
<1>3. CASE Tell(w)
  <2>1. load[w].step = "tell" /\ UNCHANGED <<ufo, dirty, pos, ideal, changed>>
    BY <1>3 DEF Tell
  <2>2. load[w] # Resting /\ load[w].step # "compute"
    BY <2>1 DEF Resting
  <2>3. pos' = [x \in Ids |-> pos'[x]] /\ \A x \in Ids \ {o} : pos'[x] = pos[x]
    BY <2>1 DEF UfoInv, Maps
  <2>4. \/ Fail(w)
        \/ load' = [load EXCEPT ![w].step = "seek"] /\ UNCHANGED <<mem, wants, refused, spoiled>>
    BY <1>3 DEF Tell
  <2>5. CASE Fail(w)
    BY <1>1, <2>1, <2>2, <2>3, <2>5, FailPlain
  <2>6. CASE load' = [load EXCEPT ![w].step = "seek"] /\ UNCHANGED <<mem, wants, refused, spoiled>>
    BY <1>1, <2>1, <2>2, <2>3, <2>6, MovePlain
  <2> QED
    BY <2>4, <2>5, <2>6
<1>4. CASE Seek(w)
  <2>1. /\ load[w].step = "seek" /\ pos' = [pos EXCEPT ![o] = ElementSize[ufo[o].type] * First(load[w].chunk)]
        /\ load' = [load EXCEPT ![w].step = "read"]
        /\ UNCHANGED <<ufo, mem, dirty, wants, ideal, changed, spoiled>>
    BY <1>1, <1>4 DEF Seek, Size, history
  <2>2. load[w] # Resting /\ load[w].step # "compute"
    BY <2>1 DEF Resting
  <2>3. o \in Ids
    BY <1>1, <2>2, LoadIs
  <2>4. /\ pos' = [x \in Ids |-> pos'[x]] /\ \A x \in Ids \ {o} : pos'[x] = pos[x]
        /\ pos'[o] = ElementSize[ufo[o].type] * First(load[w].chunk)
    BY <2>1, <2>3 DEF UfoInv, Maps
  <2> QED
    BY <1>1, <2>1, <2>2, <2>4, MovePlain
<1> QED
  BY <1>2, <1>3, <1>4, ComputePlain, ReadPlain DEF PopulateStep

-----------------------------------------------------------------------------
(* Vectors are made and collected, files change.                             *)

(* What a plain vector of a source holds.                                    *)
LEMMA PlainIs ==
  ASSUME NEW source, NEW type \in Types, NEW length \in Nat, NEW plain, plain = Plain(source, type, length),
         source.kind \in {"file", "seq", "empty"}
  PROVE  /\ Sequence(plain) /\ Len(plain) = length
         /\ \A i \in 0..(length - 1) : plain[i + 1] = PlainAt(source, type, i)
<1> DEFINE size == ElementSize[type]
<1>1. size \in Nat \ {0}
  BY SizesAssumption
<1>2. plain = [k \in 1..length |-> plain[k]]
  <2>1. source.kind = "file" => plain = FromFile(source.path, type, 0, length)
    BY DEF Plain
  <2>2. source.kind = "file" => plain = [k \in 1..(length - 0) |-> plain[k]]
    BY <2>1 DEF FromFile
  <2>3. source.kind = "file" => plain = [k \in 1..length |-> plain[k]]
    BY <2>2
  <2> QED
    BY <2>3 DEF Plain
<1>3. Sequence(plain) /\ Len(plain) = length
  BY <1>2, FunctionSequence
<1>4. ASSUME NEW i \in 0..(length - 1) PROVE plain[i + 1] = PlainAt(source, type, i)
  <2>1. i + 1 \in 1..length /\ i + 1 \in 1..(length - 0) /\ 0 + (i + 1) - 1 = i /\ 0 + (i + 1) = i + 1 /\ (i + 1) - 1 = i
    OBVIOUS
  <2>2. CASE source.kind = "file"
    <3>1. plain = FromFile(source.path, type, 0, length)
      BY <2>2 DEF Plain
    <3>2. plain[i + 1] = SubSeq(disk[source.path], size * (0 + (i + 1) - 1) + 1, size * (0 + (i + 1)))
      BY <2>1, <3>1 DEF FromFile
    <3> HIDE DEF size
    <3>3. plain[i + 1] = SubSeq(disk[source.path], size * i + 1, size * (i + 1))
      BY <2>1, <3>2
    <3> QED
      BY <2>2, <3>3 DEF PlainAt, size
  <2>3. CASE source.kind = "seq"
    BY <2>1, <2>3 DEF Plain, PlainAt
  <2>4. CASE source.kind = "empty"
    BY <2>1, <2>4 DEF Plain, PlainAt
  <2> QED
    BY <2>2, <2>3, <2>4
<1> QED
  BY <1>3, <1>4

(* The elements of a file fit into it.                                       *)
LEMMA FileLengthIs ==
  ASSUME NEW p \in Paths, Sequence(disk[p]), NEW type \in Types
  PROVE  FileLength(p, type) \in Nat /\ ElementSize[type] * FileLength(p, type) <= Len(disk[p])
<1>1. PICK x \in Nat, n \in Nat \ {0} : x = Len(disk[p]) /\ n = ElementSize[type]
  BY SequenceIs, SizesAssumption
<1>2. FileLength(p, type) = x \div n
  BY <1>1 DEF FileLength
<1>3. x \div n \in Nat /\ x % n \in Nat /\ x = (x \div n) * n + (x % n)
  BY <1>1, QuotientIs
<1>4. \A a \in Nat : a * n \in Nat /\ a * n = n * a
  BY <1>1
<1>5. n * (x \div n) <= x
  BY <1>1, <1>3, <1>4
<1> QED
  BY <1>1, <1>2, <1>3, <1>5

(* The vector R asks for has elements.                                       *)
LEMMA OrderedIs ==
  ASSUME UfoInv, NEW order \in Orders, NEW o, NEW length,
         New(o, order.source, order.type, order.extent),
         length = SourceLength(order.source, order.type, order.extent)
  PROVE  /\ length \in Nat \ {0} /\ order.type \in Types
         /\ order.source.kind \in {"file", "seq", "empty"}
         /\ \/ order.source.kind = "file" /\ order.source.path \in Paths
            \/ order.source.kind = "seq" /\ IntSequence(order.source) /\ length = SeqLength(order.source)
            \/ order.source.kind = "empty"
         /\ order.source.kind = "file" =>
               ElementSize[order.type] * length <= Len(disk[order.source.path])
<1>1. PICK source, type, extent : source = order.source /\ type = order.type /\ extent = order.extent
  OBVIOUS
<1>2. /\ type \in Types
      /\ \/ source.kind = "file" /\ source.path \in Paths
         \/ source.kind = "seq" /\ IntSequence(source)
         \/ source.kind = "empty" /\ extent \in Nat
  BY <1>1, OrdersAssumption
<1>3. length = SourceLength(source, type, extent) /\ length > 0
  BY <1>1 DEF New
<1>4. CASE source.kind = "file"
  <2>1. length = FileLength(source.path, type)
    BY <1>3, <1>4 DEF SourceLength
  <2>2. Sequence(disk[source.path])
    BY <1>2, <1>4 DEF UfoInv, VectorsInv
  <2>3. length \in Nat /\ ElementSize[type] * length <= Len(disk[source.path])
    BY <1>2, <1>4, <2>1, <2>2, FileLengthIs
  <2> QED
    BY <1>1, <1>2, <1>3, <1>4, <2>3
<1>5. CASE source.kind = "seq"
  <2>1. length = SeqLength(source)
    BY <1>3, <1>5 DEF SourceLength
  <2>2. length \in Int
    BY <1>2, <1>5, <2>1, SeqLengthIs
  <2> QED
    BY <1>1, <1>2, <1>3, <1>5, <2>1, <2>2
<1>6. CASE source.kind = "empty"
  <2>1. length = extent
    BY <1>3, <1>6 DEF SourceLength
  <2> QED
    BY <1>1, <1>2, <1>3, <1>6, <2>1
<1> QED
  BY <1>2, <1>4, <1>5, <1>6

(* A new vector has no chunk yet, and its ideal is what the source holds.    *)
LEMMA NewPlain ==
  ASSUME UfoInv, NEW o \in Ids, NEW order \in Orders, New(o, order.source, order.type, order.extent), disk' = disk
  PROVE  UfoInv'
<1>1. PICK source, type, extent, length, scalar :
         /\ source = order.source /\ type = order.type /\ extent = order.extent
         /\ length = SourceLength(source, type, extent) /\ scalar = (extent = 1 /\ type \in Scalarised)
  OBVIOUS
<1>2. /\ UNCHANGED <<dirty, pos, wants, load, changed, spoiled>>
      /\ ufo[o] = Absent
      /\ \/ UNCHANGED <<ufo, mem, ideal>>
         \/ \E r, m : /\ r = [source |-> source, type |-> type, length |-> length,
                              shape |-> IF scalar THEN "scalar" ELSE "body"]
                      /\ scalar \/ m = <<>>
                      /\ ufo' = [ufo EXCEPT ![o] = r] /\ mem' = [mem EXCEPT ![o] = m]
                      /\ ideal' = [ideal EXCEPT ![o] = Plain(source, type, length)]
  BY <1>1 DEF New, Make
<1>3. CASE UNCHANGED <<ufo, mem, ideal>>
  <2>1. Maps'
    BY <1>2, <1>3 DEF UfoInv, Maps
  <2> QED
    BY <1>2, <1>3, <2>1, SameVectors, SameWants, SameLoads, SameSource, SameLikePlain DEF UfoInv
<1>4. ASSUME NEW r, NEW m,
             r = [source |-> source, type |-> type, length |-> length, shape |-> IF scalar THEN "scalar" ELSE "body"],
             scalar \/ m = <<>>,
             ufo' = [ufo EXCEPT ![o] = r], mem' = [mem EXCEPT ![o] = m],
             ideal' = [ideal EXCEPT ![o] = Plain(source, type, length)]
      PROVE UfoInv'
  <2>1. PICK plain : plain = Plain(source, type, length)
    OBVIOUS
  <2>2. /\ ufo'[o] = r /\ mem'[o] = m /\ ideal'[o] = plain
        /\ \A x \in Ids \ {o} : ufo'[x] = ufo[x] /\ mem'[x] = mem[x] /\ ideal'[x] = ideal[x]
    BY <1>4, <2>1 DEF UfoInv, Maps
  <2>3. Maps'
    BY <1>2, <1>4 DEF UfoInv, Maps
  <2>4. o \notin Bodies /\ r # Absent /\ dirty[o] = {} /\ Bodies \subseteq Ids
    BY <1>2, <1>4 DEF Bodies, Absent, UfoInv, VectorsInv
  <2>5. \A x \in Bodies' : x \in Bodies \/ x = o
    BY <2>2 DEF Bodies
  <2>6. Bodies \subseteq Bodies'
    BY <2>2, <2>4 DEF Bodies
  <2>7. \A x \in Bodies : /\ x # o /\ ufo'[x] = ufo[x] /\ mem'[x] = mem[x] /\ ideal'[x] = ideal[x]
                         /\ Chunks(x)' = Chunks(x) /\ (\A c : End(x, c)' = End(x, c)) /\ Rewritten(x)' = Rewritten(x)
    BY <1>2, <2>2, <2>4 DEF Chunks, End, Rewritten
  <2>8. o \in Bodies' => m = <<>> /\ r.shape = "body"
    BY <1>4, <2>2 DEF Bodies
  <2>9. /\ length \in Nat \ {0} /\ type \in Types /\ source.kind \in {"file", "seq", "empty"}
        /\ \/ source.kind = "file" /\ source.path \in Paths
           \/ source.kind = "seq" /\ IntSequence(source) /\ length = SeqLength(source)
           \/ source.kind = "empty"
        /\ source.kind = "file" => ElementSize[type] * length <= Len(disk[source.path])
    BY <1>1, OrderedIs
  <2>10. r.source = source /\ r.type = type /\ r.length = length
    BY <1>4
  <2>11. VectorRecord(r)
    BY <2>9, <2>10 DEF VectorRecord
  <2>12. /\ Sequence(plain) /\ Len(plain) = length
         /\ \A i \in 0..(length - 1) : plain[i + 1] = PlainAt(source, type, i)
    BY <2>1, <2>9, PlainIs
  <2>13. VectorsInv'
    <3>1. \A p \in Paths : Sequence(disk[p])
      BY DEF UfoInv, VectorsInv
    <3>2. \A x \in Ids : ufo'[x] = Absent => dirty[x] = {}
      BY <2>2, <2>4 DEF UfoInv, VectorsInv
    <3>3. ASSUME NEW x \in Bodies'
          PROVE /\ VectorRecord(ufo'[x]) /\ Sequence(ideal'[x]) /\ Len(ideal'[x]) = ufo'[x].length
                /\ dirty[x] \subseteq DOMAIN mem'[x] /\ DOMAIN mem'[x] \subseteq Chunks(x)'
                /\ \A c \in DOMAIN mem'[x] : Sequence(mem'[x][c]) /\ Len(mem'[x][c]) = End(x, c)' - First(c)
      <4>1. CASE x = o
        <5>1. DOMAIN mem'[o] = {}
          BY <2>2, <2>8, <3>3, <4>1, EmptySequence
        <5>2. VectorRecord(ufo'[o]) /\ Sequence(ideal'[o]) /\ Len(ideal'[o]) = ufo'[o].length
          BY <2>2, <2>10, <2>11, <2>12
        <5> QED
          BY <2>4, <4>1, <5>1, <5>2
      <4>2. CASE x \in Bodies
        BY <2>7, <4>2 DEF UfoInv, VectorsInv
      <4> QED
        BY <2>5, <4>1, <4>2
    <3> QED
      BY <1>2, <3>1, <3>2, <3>3 DEF VectorsInv
  <2>14. WantsInv'
    <3>1. ASSUME NEW v, WantOk(v) PROVE WantOk(v)'
      <4>1. v.id \in Bodies
        BY <3>1 DEF WantOk
      <4> QED
        BY <2>6, <2>7, <3>1, <4>1 DEF WantOk
    <3> QED
      BY <1>2, <3>1 DEF UfoInv, WantsInv
  <2>15. LoadsInv'
    <3>1. ASSUME NEW w \in Workers, NEW v, v = load[w], v # Resting PROVE LoadOk(v)'
      <4>1. LoadOk(v) /\ v.id \in Bodies
        BY <3>1, LoadIs
      <4> QED
        BY <1>2, <2>7, <4>1 DEF LoadOk
    <3> QED
      BY <1>2, <3>1 DEF UfoInv, LoadsInv
  <2>16. SourceInv'
    <3>1. \A a, b, i : PlainAt(a, b, i)' = PlainAt(a, b, i)
      BY DEF PlainAt
    <3>2. ASSUME NEW x \in Bodies', ~Rewritten(x)'
          PROVE /\ ufo'[x].source.kind = "file" =>
                     ElementSize[ufo'[x].type] * ufo'[x].length <= Len(disk[ufo'[x].source.path])
                /\ \A i \in 0..(ufo'[x].length - 1) : ChunkOf(i) \notin dirty[x] =>
                     ideal'[x][i + 1] = PlainAt(ufo'[x].source, ufo'[x].type, i)
      <4>1. CASE x = o
        BY <2>2, <2>9, <2>10, <2>12, <4>1
      <4>2. CASE x \in Bodies
        <5>1. ~Rewritten(x)
          BY <2>7, <3>2, <4>2
        <5> QED
          BY <2>7, <4>2, <5>1 DEF UfoInv, SourceInv
      <4> QED
        BY <2>5, <4>1, <4>2
    <3> QED
      BY <1>2, <3>1, <3>2 DEF SourceInv
  <2>17. UfoLikePlain'
    <3>1. ASSUME NEW x \in Bodies', NEW c \in DOMAIN mem'[x], <<x, c>> \notin spoiled,
                 NEW i \in First(c)..(End(x, c)' - 1)
          PROVE \/ mem'[x][c][i - First(c) + 1] = ideal'[x][i + 1]
                \/ Wrong(ufo'[x].source, ufo'[x].type, ideal'[x][i + 1])
      <4>1. x # o
        BY <2>2, <2>8, <3>1, EmptySequence
      <4> QED
        BY <2>5, <2>7, <3>1, <4>1 DEF UfoInv, UfoLikePlain
    <3> QED
      BY <1>2, <3>1 DEF UfoLikePlain
  <2> QED
    BY <2>3, <2>13, <2>14, <2>15, <2>16, <2>17 DEF UfoInv
<1> QED
  BY <1>2, <1>3, <1>4

-----------------------------------------------------------------------------
(* Nobody uses a vector that is collected.                                   *)
LEMMA CollectPlain ==
  ASSUME UfoInv, NEW o \in Ids, Collect(o), disk' = disk
  PROVE  UfoInv'
<1>1. /\ ~InUse(o)
      /\ ufo' = [ufo EXCEPT ![o] = Absent] /\ mem' = [mem EXCEPT ![o] = <<>>]
      /\ dirty' = [dirty EXCEPT ![o] = {}] /\ pos' = [pos EXCEPT ![o] = 0]
      /\ ideal' = [ideal EXCEPT ![o] = <<>>]
      /\ changed' = changed \ {o} /\ spoiled' = {s \in spoiled : s[1] # o}
      /\ UNCHANGED <<wants, load>>
  BY DEF Collect, Forget
<1>2. /\ ufo'[o] = Absent /\ dirty'[o] = {}
      /\ \A x \in Ids \ {o} : /\ ufo'[x] = ufo[x] /\ mem'[x] = mem[x] /\ dirty'[x] = dirty[x]
                              /\ pos'[x] = pos[x] /\ ideal'[x] = ideal[x]
  BY <1>1 DEF UfoInv, Maps
<1>3. Maps'
  BY <1>1 DEF UfoInv, Maps
<1>4. Bodies' = Bodies \ {o} /\ Bodies \subseteq Ids
  BY <1>2 DEF Bodies, Absent
<1>5. \A x \in Bodies' : /\ x # o /\ x \in Bodies /\ x \in Ids
                         /\ ufo'[x] = ufo[x] /\ mem'[x] = mem[x] /\ dirty'[x] = dirty[x]
                         /\ pos'[x] = pos[x] /\ ideal'[x] = ideal[x]
                         /\ Chunks(x)' = Chunks(x) /\ (\A c : End(x, c)' = End(x, c)) /\ Rewritten(x)' = Rewritten(x)
  BY <1>1, <1>2, <1>4 DEF Chunks, End, Rewritten
<1>6. VectorsInv'
  <2>1. \A x \in Ids : ufo'[x] = Absent => dirty'[x] = {}
    BY <1>2 DEF UfoInv, VectorsInv
  <2> QED
    BY <1>5, <2>1 DEF UfoInv, VectorsInv
<1>7. WantsInv'
  <2>1. ASSUME NEW t \in Threads, NEW v, v = wants[t], v # Nothing PROVE WantOk(v)'
    <3>1. WantOk(v) /\ v.id # o
      BY <1>1, <2>1 DEF UfoInv, WantsInv, InUse
    <3>2. v.id \in Bodies'
      BY <1>4, <3>1 DEF WantOk
    <3> QED
      BY <1>5, <3>1, <3>2 DEF WantOk
  <2> QED
    BY <1>1, <2>1 DEF UfoInv, WantsInv
<1>8. LoadsInv'
  <2>1. ASSUME NEW w \in Workers, NEW v, v = load[w], v # Resting PROVE LoadOk(v)'
    <3>1. LoadOk(v) /\ v.id \in Bodies /\ v.id # o
      BY <1>1, <2>1, LoadIs DEF InUse
    <3>2. v.id \in Bodies'
      BY <1>4, <3>1
    <3> QED
      BY <1>1, <1>5, <3>1, <3>2 DEF LoadOk
  <2> QED
    BY <1>1, <2>1 DEF UfoInv, LoadsInv
<1>9. SourceInv'
  <2>1. \A a, b, i : PlainAt(a, b, i)' = PlainAt(a, b, i)
    BY DEF PlainAt
  <2> QED
    BY <1>5, <2>1 DEF UfoInv, SourceInv
<1>10. UfoLikePlain'
  <2>1. ASSUME NEW x \in Bodies', NEW c \in DOMAIN mem'[x], <<x, c>> \notin spoiled' PROVE <<x, c>> \notin spoiled
    BY <1>1, <1>5, <2>1
  <2> QED
    BY <1>5, <2>1 DEF UfoInv, UfoLikePlain
<1> QED
  BY <1>3, <1>6, <1>7, <1>8, <1>9, <1>10 DEF UfoInv

(* A file changes, and the vectors that read from it are known to.           *)
LEMMA FileChangesPlain ==
  ASSUME UfoInv, NEW p \in Paths, NEW content, Sequence(content), disk' = [disk EXCEPT ![p] = content],
         UNCHANGED <<ufo, mem, dirty, pos, wants, load, ideal, spoiled>>,
         changed \subseteq changed',
         \A o \in Bodies : ufo[o].source.kind = "file" /\ ufo[o].source.path = p => o \in changed'
  PROVE  UfoInv'
<1>1. Bodies' = Bodies /\ (\A x : Chunks(x)' = Chunks(x)) /\ (\A x, c : End(x, c)' = End(x, c))
  BY DEF Bodies, Chunks, End
<1>2. disk'[p] = content /\ \A q \in Paths \ {p} : disk'[q] = disk[q]
  BY DEF UfoInv, Maps
<1>3. Maps' /\ WantsInv' /\ LoadsInv' /\ UfoLikePlain'
  <2>1. Maps'
    BY DEF UfoInv, Maps
  <2> QED
    BY <2>1, SameWants, SameLoads, SameLikePlain DEF UfoInv
<1>4. VectorsInv'
  <2>1. \A q \in Paths : Sequence(disk'[q])
    BY <1>2 DEF UfoInv, VectorsInv
  <2> QED
    BY <1>1, <2>1 DEF UfoInv, VectorsInv
<1>5. SourceInv'
  <2>1. ASSUME NEW o \in Bodies, ~Rewritten(o)'
        PROVE  /\ ~Rewritten(o)
               /\ ufo[o].source.kind = "file" => disk'[ufo[o].source.path] = disk[ufo[o].source.path]
               /\ \A type, i : PlainAt(ufo[o].source, type, i)' = PlainAt(ufo[o].source, type, i)
    <3>1. ~Rewritten(o)
      BY <2>1 DEF Rewritten
    <3>2. ufo[o].source.kind = "file" => disk'[ufo[o].source.path] = disk[ufo[o].source.path]
      <4>1. ufo[o].source.kind = "file" => ufo[o].source.path \in Paths
        BY DEF UfoInv, VectorsInv, VectorRecord
      <4> QED
        BY <1>2, <2>1, <4>1 DEF Rewritten
    <3>3. \A type, i : PlainAt(ufo[o].source, type, i)' = PlainAt(ufo[o].source, type, i)
      BY <3>2 DEF PlainAt
    <3> QED
      BY <3>1, <3>2, <3>3
  <2>2. ASSUME NEW o \in Bodies, ~Rewritten(o)'
        PROVE  /\ ufo[o].source.kind = "file" =>
                     ElementSize[ufo[o].type] * ufo[o].length <= Len(disk'[ufo[o].source.path])
               /\ \A i \in 0..(ufo[o].length - 1) : ChunkOf(i) \notin dirty[o] =>
                     ideal[o][i + 1] = PlainAt(ufo[o].source, ufo[o].type, i)'
    BY <2>1, <2>2 DEF UfoInv, SourceInv
  <2>3. ufo' = ufo /\ dirty' = dirty /\ ideal' = ideal
    OBVIOUS
  <2> QED
    BY <1>1, <2>2, <2>3 DEF SourceInv
<1> QED
  BY <1>3, <1>4, <1>5 DEF UfoInv

(* Nothing happens to the UFOs.                                              *)
LEMMA UfoKept ==
  ASSUME UfoInv, disk' = disk, UNCHANGED ufoVars
  PROVE  UfoInv'
<1>1. /\ UNCHANGED <<ufo, mem, dirty, pos, wants, load, ideal, changed, spoiled>>
      /\ disk' = disk
  BY DEF ufoVars, history
<1>2. Maps'
  BY <1>1 DEF UfoInv, Maps
<1>3. VectorsInv' /\ SourceInv' /\ UfoLikePlain' /\ WantsInv' /\ LoadsInv'
  BY <1>1, SameVectors, SameSource, SameLikePlain, SameWants, SameLoads DEF UfoInv
<1> QED
  BY <1>2, <1>3 DEF UfoInv

-----------------------------------------------------------------------------
(* ALTREP vectors are like plain vectors.                                    *)
LEMMA Agreement ==
  ASSUME NEW a, NEW first, NEW elements
  PROVE  SameAsPlain(a, first, elements) <=> AltAgrees(alt[a], altIdeal[a], first, elements)
BY DEF SameAsPlain, AltAgrees

(* One vector changes, and files do that only stale vectors have not read.   *)
LEMMA AltStep ==
  ASSUME AltInv, NEW a \in AltIds, NEW v, NEW plain,
         alt' = [alt EXCEPT ![a] = v], altIdeal' = [altIdeal EXCEPT ![a] = plain],
         v = Gone \/ (AltShape(v, plain) /\ (a \in altStale' \/ AltFresh(disk', v, plain))),
         altStale \ {a} \subseteq altStale',
         \A b \in (AltIds \ {a}) \ altStale' :
            alt[b] # Gone /\ ~alt[b].filled /\ alt[b].source.kind = "file" =>
                disk'[alt[b].source.path] = disk[alt[b].source.path]
  PROVE  AltInv'
<1>1. /\ alt' = [b \in AltIds |-> alt'[b]] /\ altIdeal' = [b \in AltIds |-> altIdeal'[b]]
      /\ alt'[a] = v /\ altIdeal'[a] = plain
      /\ \A b \in AltIds \ {a} : alt'[b] = alt[b] /\ altIdeal'[b] = altIdeal[b]
  BY DEF AltInv
<1>2. ASSUME NEW b \in AltIds, alt'[b] # Gone
      PROVE  /\ AltShape(alt'[b], altIdeal'[b])
             /\ b \notin altStale' => AltFresh(disk', alt'[b], altIdeal'[b])
  <2>1. CASE b = a
    BY <1>1, <1>2, <2>1
  <2>2. CASE b # a
    <3>1. PICK u, w : u = alt[b] /\ w = altIdeal[b]
      OBVIOUS
    <3>2. AltShape(u, w) /\ (b \notin altStale => AltFresh(disk, u, w))
      BY <1>1, <1>2, <2>2, <3>1 DEF AltInv
    <3>3. ASSUME b \notin altStale' PROVE AltFresh(disk', u, w)
      <4>1. AltFresh(disk, u, w)
        BY <2>2, <3>2, <3>3
      <4>2. CASE u.filled
        BY <4>1, <4>2 DEF AltFresh
      <4>3. CASE ~u.filled
        <5>1. u.source.kind = "file" => disk'[u.source.path] = disk[u.source.path]
          BY <1>1, <1>2, <2>2, <3>1, <3>3, <4>3
        <5>2. \A i : AltPlainAt(disk', u, i) = AltPlainAt(disk, u, i)
          BY <5>1 DEF AltPlainAt
        <5> QED
          BY <4>1, <4>3, <5>1, <5>2 DEF AltFresh
      <4> QED
        BY <4>2, <4>3
    <3> QED
      BY <1>1, <2>2, <3>1, <3>2, <3>3
  <2> QED
    BY <2>1, <2>2
<1> QED
  BY <1>1, <1>2 DEF AltInv

(* No vector changes.                                                        *)
LEMMA AltKept ==
  ASSUME AltInv, AltSeen, UNCHANGED <<alt, altIdeal, seen>>, altStale \subseteq altStale',
         \A b \in AltIds \ altStale' :
            alt[b] # Gone /\ ~alt[b].filled /\ alt[b].source.kind = "file" =>
                disk'[alt[b].source.path] = disk[alt[b].source.path]
  PROVE  AltInv' /\ AltSeen'
<1>1. AltSeen'
  BY DEF AltSeen, SameAsPlain
<1>2. ASSUME NEW b \in AltIds, NEW u, NEW w, u = alt[b], w = altIdeal[b], u # Gone, b \notin altStale'
      PROVE  AltFresh(disk', u, w)
  <2>1. AltFresh(disk, u, w)
    BY <1>2 DEF AltInv
  <2>2. ~u.filled /\ u.source.kind = "file" => disk'[u.source.path] = disk[u.source.path]
    BY <1>2
  <2>3. ~u.filled => \A i : AltPlainAt(disk', u, i) = AltPlainAt(disk, u, i)
    BY <2>2 DEF AltPlainAt
  <2> QED
    BY <2>1, <2>2, <2>3 DEF AltFresh
<1>3. AltInv'
  BY <1>2 DEF AltInv
<1> QED
  BY <1>1, <1>3

(* Nothing was read.                                                         *)
LEMMA NothingSeen ==
  ASSUME seen' = Nowhere
  PROVE  AltSeen'
<1>1. DOMAIN seen'.elements = {}
  BY EmptySequence DEF Nowhere
<1> QED
  BY <1>1 DEF AltSeen, SameAsPlain

(* All elements of a vector, found in its source, are those of a plain one.  *)
LEMMA AllElementsIs ==
  ASSUME NEW v, NEW plain, AltShape(v, plain), ~v.filled, NEW elements, elements = AltAllElements(v)
  PROVE  /\ elements = [i \in 1..v.length |-> elements[i]]
         /\ (v.source.kind = "file" => Sequence(disk[v.source.path])) /\ AltFresh(disk, v, plain)
            => AltAgrees(v, plain, 0, elements)
<1>1. v.length \in Int /\ v.length - 0 = v.length
  BY DEF AltShape
<1>2. CASE v.source.kind = "file"
  <2>1. PICK p, size : p = v.source.path /\ size = ElementSize["INT"]
    OBVIOUS
  <2>2. v.type = "INT" /\ size \in Nat \ {0}
    BY <1>2, <2>1, SizesAssumption, IntAssumption DEF AltShape
  <2>3. elements = AltLoad(v, 0, v.length)
    BY <1>2 DEF AltAllElements
  <2>4. elements = [i \in 1..v.length |-> elements[i]]
    <3>1. \/ elements = FromFile(p, "INT", 0, v.length)
          \/ elements = [i \in 1..(v.length - 0) |-> <<Garbage>>]
      BY <2>1, <2>2, <2>3 DEF AltLoad
    <3>2. elements = [i \in 1..(v.length - 0) |-> elements[i]]
      BY <3>1 DEF FromFile
    <3> QED
      BY <1>1, <3>2
  <2>5. ASSUME Sequence(disk[p]), AltFresh(disk, v, plain), NEW i \in 1..v.length
        PROVE  elements[i] = plain[0 + i]
    <3>1. size * v.length <= Len(disk[p]) /\ Len(disk[p]) \in Nat
      BY <1>2, <2>1, <2>5, SequenceIs DEF AltFresh
    <3>2. size * 0 = 0
      BY <2>2
    <3>3. LoadStatus(p, "INT", 0, v.length) = 0
      <4>1. ~(size * 0 > Len(disk[p])) /\ ~(size * v.length > Len(disk[p])) /\ 0 # v.length
        <5>1. PICK x : x = size * v.length
          OBVIOUS
        <5>2. x \in Int
          BY <1>1, <2>2, <5>1
        <5> QED
          BY <1>1, <2>5, <3>1, <3>2, <5>1, <5>2
      <4> QED
        BY <2>1, <4>1 DEF LoadStatus
    <3>4. elements = FromFile(p, "INT", 0, v.length)
      BY <2>1, <2>2, <2>3, <3>3 DEF AltLoad
    <3>5. /\ i \in 1..(v.length - 0) /\ 0 + i - 1 = i - 1 /\ 0 + i = (i - 1) + 1
          /\ i - 1 \in 0..(v.length - 1) /\ (i - 1) + 1 = i /\ 0 + i = i
      BY <1>1, <2>5
    <3>6. elements[i] = SubSeq(disk[p], size * (0 + i - 1) + 1, size * (0 + i))
      BY <2>1, <3>4, <3>5 DEF FromFile
    <3>7. AltPlainAt(disk, v, i - 1) = SubSeq(disk[p], size * (i - 1) + 1, size * ((i - 1) + 1))
      BY <1>2, <2>1 DEF AltPlainAt
    <3>8. plain[(i - 1) + 1] = AltPlainAt(disk, v, i - 1)
      BY <2>5, <3>5 DEF AltFresh
    <3> QED
      BY <3>5, <3>6, <3>7, <3>8
  <2> QED
    BY <1>2, <2>1, <2>4, <2>5, Zenon DEF AltAgrees
<1>3. CASE v.source.kind = "seq"
  <2>1. v.source.kind # "file" /\ IntSequence(v.source) /\ v.length = SeqLength(v.source)
    BY <1>3 DEF AltShape
  <2>2. elements = SeqTerms(v.source, v.type, 0, v.length)
    BY <2>1 DEF AltAllElements
  <2>3. elements = [i \in 1..(v.length - 0) |-> elements[i]]
    BY <2>2 DEF SeqTerms
  <2>4. elements = [i \in 1..v.length |-> elements[i]]
    BY <1>1, <2>3
  <2>5. ASSUME AltFresh(disk, v, plain), NEW i \in 1..v.length
        PROVE  elements[i] = plain[0 + i] \/ Wrong(v.source, v.type, plain[0 + i])
    <3>1. PICK term : term = Term(v.source, i - 1)
      OBVIOUS
    <3>2. i \in 1..(v.length - 0) /\ 0 + i - 1 = i - 1 /\ i - 1 \in 0..(v.length - 1) /\ (i - 1) + 1 = i /\ 0 + i = i
      BY <1>1, <2>5
    <3>3. elements[i] = <<IF v.type = "REAL" THEN DoubleOf(term) ELSE IntOf(term)>>
      BY <2>2, <3>1, <3>2 DEF SeqTerms
    <3>4. term \in Int /\ IntOf(term) = term /\ (term >= 0 => DoubleOf(term) = term)
      BY <2>1, <3>1, <3>2, TermsOf
    <3>5. plain[i] = <<term>>
      <4>1. plain[(i - 1) + 1] = AltPlainAt(disk, v, i - 1)
        BY <2>5, <3>2 DEF AltFresh
      <4> QED
        BY <2>1, <3>1, <3>2, <4>1 DEF AltPlainAt
    <3>6. CASE v.type = "REAL" /\ term < 0
      BY <1>3, <3>2, <3>5, <3>6 DEF Wrong
    <3>7. CASE ~(v.type = "REAL" /\ term < 0)
      BY <3>2, <3>3, <3>4, <3>5, <3>7
    <3> QED
      BY <3>6, <3>7
  <2>6. DOMAIN elements = 1..v.length
    BY <2>4
  <2> QED
    BY <2>4, <2>5, <2>6 DEF AltAgrees
<1> QED
  BY <1>2, <1>3 DEF AltShape

(* A materialised vector.                                                    *)
LEMMA MaterialisedIs ==
  ASSUME NEW v, NEW plain, AltShape(v, plain), NEW m, m = Materialised(v)
  PROVE  /\ AltShape(m, plain) /\ m.filled /\ m # Gone
         /\ m.source = v.source /\ m.type = v.type /\ m.length = v.length
         /\ (v.source.kind = "file" => Sequence(disk[v.source.path])) /\ AltFresh(disk, v, plain)
            => AltAgrees(m, plain, 0, m.payload)
<1>1. AltRecord(v) /\ v.filled \in BOOLEAN
  BY DEF AltShape
<1>2. CASE v.filled
  <2>1. m = v
    BY <1>2 DEF Materialised
  <2>2. v # Gone
    <3>1. DOMAIN v # DOMAIN Gone
      BY <1>1 DEF AltRecord, Gone
    <3> QED
      BY <3>1
  <2>3. AltFresh(disk, v, plain) => AltAgrees(v, plain, 0, v.payload)
    BY <1>2 DEF AltFresh
  <2> QED
    BY <1>2, <2>1, <2>2, <2>3
<1>3. CASE ~v.filled
  <2>1. PICK elements : elements = AltAllElements(v)
    OBVIOUS
  <2>2. m = [v EXCEPT !.payload = elements, !.filled = TRUE]
    BY <1>3, <2>1 DEF Materialised
  <2>3. m = [source |-> v.source, type |-> v.type, length |-> v.length, handle |-> v.handle,
             payload |-> elements, filled |-> TRUE]
    BY <1>1, <2>2 DEF AltRecord
  <2>4. /\ AltRecord(m) /\ m.source = v.source /\ m.type = v.type /\ m.length = v.length
        /\ m.payload = elements /\ m.filled = TRUE
    BY <2>3 DEF AltRecord
  <2>5. m # Gone
    <3>1. DOMAIN m # DOMAIN Gone
      BY <2>3 DEF Gone
    <3> QED
      BY <3>1
  <2>6. elements = [i \in 1..v.length |-> elements[i]]
    BY <1>3, <2>1, AllElementsIs
  <2>7. (v.source.kind = "file" => Sequence(disk[v.source.path])) /\ AltFresh(disk, v, plain)
        => AltAgrees(v, plain, 0, elements)
    BY <1>3, <2>1, AllElementsIs
  <2>8. AltAgrees(v, plain, 0, elements) => AltAgrees(m, plain, 0, m.payload)
    BY <2>4 DEF AltAgrees
  <2>9. AltShape(m, plain)
    BY <2>4, <2>6 DEF AltShape
  <2> QED
    BY <2>4, <2>5, <2>7, <2>8, <2>9
<1> QED
  BY <1>1, <1>2, <1>3

(* One element of it.                                                        *)
LEMMA OneElementIs ==
  ASSUME NEW v, NEW plain, AltShape(v, plain), ~v.filled, AltFresh(disk, v, plain),
         v.source.kind = "file" => Sequence(disk[v.source.path]),
         NEW i \in 0..(v.length - 1), NEW elements, elements = AltOneElement(v, i)
  PROVE  DOMAIN elements = {1} /\ elements[1] = plain[i + 1]
<1>1. v.length \in Int /\ i \in Nat /\ i < v.length
  BY DEF AltShape
<1>2. plain[i + 1] = AltPlainAt(disk, v, i)
  BY DEF AltFresh
<1>3. CASE v.source.kind = "file"
  <2>1. PICK p, size : p = v.source.path /\ size = ElementSize["INT"]
    OBVIOUS
  <2>2. v.type = "INT" /\ size \in Nat \ {0}
    BY <1>3, <2>1, SizesAssumption, IntAssumption DEF AltShape
  <2>3. elements = AltLoad(v, i, i + 1)
    BY <1>3 DEF AltOneElement
  <2>4. size * v.length <= Len(disk[p]) /\ Len(disk[p]) \in Nat
    BY <1>3, <2>1, SequenceIs DEF AltFresh
  <2>5. LoadStatus(p, "INT", i, i + 1) = 0
    <3>1. PICK x \in Nat, y \in Nat, z \in Nat : x = i * size /\ y = (i + 1) * size /\ z = v.length * size
      BY <1>1, <2>2, Products
    <3>2. x <= y /\ y <= z
      <4>1. i <= i + 1 /\ i + 1 <= v.length /\ i + 1 \in Nat /\ v.length \in Nat /\ size \in Nat
        BY <1>1, <2>2
      <4> QED
        BY <1>1, <3>1, <4>1, ProductGrows
    <3>3. size * i = x /\ size * (i + 1) = y /\ size * v.length = z
      BY <1>1, <2>2, <3>1
    <3>4. ~(size * i > Len(disk[p])) /\ ~(size * (i + 1) > Len(disk[p])) /\ i # i + 1
      BY <1>1, <2>4, <3>1, <3>2, <3>3
    <3> QED
      BY <2>1, <3>4 DEF LoadStatus
  <2>6. elements = FromFile(p, "INT", i, i + 1)
    BY <2>1, <2>2, <2>3, <2>5 DEF AltLoad
  <2>7. i + 1 - i = 1 /\ i + 1 - 1 = i /\ 1 \in 1..1 /\ 1..1 = {1}
    BY <1>1
  <2>8. DOMAIN elements = {1} /\ elements[1] = SubSeq(disk[p], size * i + 1, size * (i + 1))
    <3>1. DOMAIN elements = 1..(i + 1 - i)
      BY <2>6 DEF FromFile
    <3>2. 1 \in 1..(i + 1 - i)
      BY <2>7
    <3>3. PICK k, end : k = 1 /\ end = i + 1
      OBVIOUS
    <3>4. elements = FromFile(p, "INT", i, end) /\ k \in 1..(end - i)
      BY <2>6, <3>2, <3>3
    <3>5. elements[k] = SubSeq(disk[p], ElementSize["INT"] * (i + k - 1) + 1, ElementSize["INT"] * (i + k))
      BY <3>4, Zenon DEF FromFile
    <3> QED
      BY <2>1, <2>7, <3>1, <3>3, <3>5
  <2> QED
    BY <1>2, <1>3, <2>1, <2>8 DEF AltPlainAt
<1>4. CASE v.source.kind # "file"
  <2>1. elements = <<<<Term(v.source, i)>>>>
    BY <1>4 DEF AltOneElement
  <2>2. DOMAIN elements = {1} /\ elements[1] = <<Term(v.source, i)>>
    BY <2>1
  <2> QED
    BY <1>2, <1>4, <2>2 DEF AltPlainAt
<1> QED
  BY <1>3, <1>4

(* What is known of a vector that exists.                                    *)
LEMMA AltVectorIs ==
  ASSUME AltInv, \A p \in Paths : Sequence(disk[p]), NEW a \in AltIds, alt[a] # Gone,
         NEW v, NEW plain, v = alt[a], plain = altIdeal[a]
  PROVE  /\ AltShape(v, plain) /\ (a \notin altStale => AltFresh(disk, v, plain))
         /\ v.source.kind = "file" => Sequence(disk[v.source.path])
BY DEF AltInv, AltShape

(* Vectors are made.                                                         *)
LEMMA AltNewFilePlain ==
  ASSUME AltInv, \A p \in Paths : Sequence(disk[p]), NEW a \in AltIds, NEW p \in Paths, AltNewFile(a, p),
         disk' = disk
  PROVE  AltInv' /\ AltSeen'
<1>1. PICK length, plain, v :
         /\ length = FileLength(p, "INT") /\ plain = FromFile(p, "INT", 0, length)
         /\ v = AltVector(FileSource(p), "INT", length)
  OBVIOUS
<1>2. /\ alt' = [alt EXCEPT ![a] = v] /\ altIdeal' = [altIdeal EXCEPT ![a] = plain]
      /\ seen' = Nowhere /\ altStale' = altStale
  BY <1>1 DEF AltNewFile
<1>3. length \in Nat /\ ElementSize["INT"] * length <= Len(disk[p])
  BY <1>1, FileLengthIs, IntAssumption
<1>4. /\ AltRecord(v) /\ v.length = length /\ v.filled = FALSE /\ v.type = "INT"
      /\ v.source.kind = "file" /\ v.source.path = p
  BY <1>1 DEF AltVector, FileSource, AltRecord
<1>5. plain = [i \in 1..length |-> plain[i]]
  <2>1. plain = [i \in 1..(length - 0) |-> plain[i]]
    BY <1>1 DEF FromFile
  <2>2. length - 0 = length
    BY <1>3
  <2> QED
    BY <2>1, <2>2
<1>6. AltShape(v, plain)
  <2>1. AltRecord(v) /\ v.filled \in BOOLEAN /\ v.source.kind = "file" /\ v.source.path \in Paths /\ v.type = "INT"
    BY <1>4
  <2>2. v.length \in Int /\ plain = [i \in 1..v.length |-> plain[i]] /\ ~v.filled
    BY <1>3, <1>4, <1>5
  <2> QED
    BY <2>1, <2>2 DEF AltShape
<1>7. AltFresh(disk, v, plain)
  <2>1. ASSUME NEW i \in 0..(length - 1) PROVE plain[i + 1] = AltPlainAt(disk, v, i)
    <3>1. i + 1 \in 1..(length - 0) /\ 0 + (i + 1) - 1 = i /\ 0 + (i + 1) = i + 1
      BY <1>3
    <3>2. PICK size : size = ElementSize["INT"]
      OBVIOUS
    <3>3. plain[i + 1] = SubSeq(disk[p], size * (0 + (i + 1) - 1) + 1, size * (0 + (i + 1)))
      BY <1>1, <3>1, <3>2 DEF FromFile
    <3>4. AltPlainAt(disk, v, i) = SubSeq(disk[p], size * i + 1, size * (i + 1))
      BY <1>4, <3>2 DEF AltPlainAt
    <3> QED
      BY <3>1, <3>3, <3>4
  <2> QED
    BY <1>3, <1>4, <2>1 DEF AltFresh
<1> QED
  BY <1>2, <1>6, <1>7, AltStep, NothingSeen

(* The same of a sequence,                                                   *)
LEMMA AltNewSeqPlain ==
  ASSUME AltInv, NEW a \in AltIds, NEW s, NEW type, AltNewSeq(a, s, type), s.kind = "seq", IntSequence(s),
         disk' = disk
  PROVE  AltInv' /\ AltSeen'
<1>1. PICK length, plain, v :
         /\ length = SeqLength(s) /\ plain = [i \in 1..length |-> <<Term(s, i - 1)>>]
         /\ v = AltVector(s, type, length)
  OBVIOUS
<1>2. /\ alt' = [alt EXCEPT ![a] = v] /\ altIdeal' = [altIdeal EXCEPT ![a] = plain]
      /\ seen' = Nowhere /\ altStale' = altStale
  BY <1>1 DEF AltNewSeq
<1>3. length \in Int
  BY <1>1, SeqLengthIs
<1>4. /\ AltRecord(v) /\ v.length = length /\ v.filled = FALSE /\ v.source = s
  BY <1>1 DEF AltVector, AltRecord
<1>5. AltShape(v, plain)
  BY <1>1, <1>3, <1>4 DEF AltShape
<1>6. AltFresh(disk, v, plain)
  <2>1. ASSUME NEW i \in 0..(length - 1) PROVE plain[i + 1] = AltPlainAt(disk, v, i)
    <3>1. i + 1 \in 1..length /\ i + 1 - 1 = i
      BY <1>3
    <3> QED
      BY <1>1, <1>4, <3>1 DEF AltPlainAt
  <2> QED
    BY <1>4, <2>1 DEF AltFresh
<1> QED
  BY <1>2, <1>5, <1>6, AltStep, NothingSeen

(* of a copy, which is as fresh or stale as its original,                    *)
LEMMA AltDuplicatePlain ==
  ASSUME AltInv, NEW a \in AltIds, NEW b \in AltIds, AltDuplicate(a, b), disk' = disk
  PROVE  AltInv' /\ AltSeen'
<1>1. PICK u, plain, handle, v :
         /\ u = alt[a] /\ plain = altIdeal[a]
         /\ handle = IF alt[a].source.kind = "file" THEN "unset" ELSE "none"
         /\ v = [u EXCEPT !.handle = handle]
  OBVIOUS
<1>2. /\ alt[a] # Gone /\ alt' = [alt EXCEPT ![b] = v] /\ altIdeal' = [altIdeal EXCEPT ![b] = plain]
      /\ altStale' = (IF a \in altStale THEN altStale \cup {b} ELSE altStale) /\ seen' = Nowhere
  BY <1>1 DEF AltDuplicate
<1>3. AltShape(u, plain) /\ (a \notin altStale => AltFresh(disk, u, plain))
  BY <1>1, <1>2 DEF AltInv
<1>4. /\ AltRecord(v) /\ v.source = u.source /\ v.type = u.type /\ v.length = u.length
      /\ v.payload = u.payload /\ v.filled = u.filled
  <2>1. v = [source |-> u.source, type |-> u.type, length |-> u.length, handle |-> handle,
             payload |-> u.payload, filled |-> u.filled]
    BY <1>1, <1>3 DEF AltShape, AltRecord
  <2> QED
    BY <2>1 DEF AltRecord
<1>5. AltShape(v, plain)
  BY <1>3, <1>4 DEF AltShape
<1>6. AltFresh(disk, u, plain) => AltFresh(disk, v, plain)
  <2>1. \A i : AltPlainAt(disk, v, i) = AltPlainAt(disk, u, i)
    BY <1>4 DEF AltPlainAt
  <2> QED
    BY <1>4, <2>1 DEF AltFresh, AltAgrees
<1>7. b \in altStale' \/ AltFresh(disk', v, plain)
  BY <1>2, <1>3, <1>6
<1> QED
  BY <1>2, <1>5, <1>7, AltStep, NothingSeen

(* and of a vector that is finalized.                                        *)
LEMMA AltForgetPlain ==
  ASSUME AltInv, NEW a \in AltIds, AltForget(a), disk' = disk
  PROVE  AltInv' /\ AltSeen'
<1>1. /\ alt' = [alt EXCEPT ![a] = Gone] /\ altIdeal' = [altIdeal EXCEPT ![a] = <<>>]
      /\ altStale' = altStale \ {a} /\ seen' = Nowhere
  BY DEF AltForget
<1>2. PICK v, plain : v = Gone /\ plain = <<>>
  OBVIOUS
<1> QED
  BY <1>1, <1>2, AltStep, NothingSeen

(* One element is read.                                                      *)
LEMMA AltElementPlain ==
  ASSUME AltInv, AltSeen, \A p \in Paths : Sequence(disk[p]), NEW a \in AltIds,
         NEW i \in 0..(alt[a].length - 1), AltElement(a, i), disk' = disk
  PROVE  AltInv' /\ AltSeen'
<1>1. alt[a] # Gone /\ UNCHANGED <<alt, altIdeal, altStale>>
  BY DEF AltElement
<1>2. PICK v, plain : v = alt[a] /\ plain = altIdeal[a]
  OBVIOUS
<1>3. /\ AltShape(v, plain) /\ (a \notin altStale => AltFresh(disk, v, plain))
      /\ v.source.kind = "file" => Sequence(disk[v.source.path])
  BY <1>1, <1>2, AltVectorIs
<1>4. CASE UNCHANGED seen
  BY <1>1, <1>4, AltKept
<1>5. CASE ~UNCHANGED seen
  <2>1. PICK elements :
          /\ elements = IF v.filled THEN <<v.payload[i + 1]>> ELSE AltOneElement(v, i)
          /\ seen' = [id |-> a, first |-> i, elements |-> elements]
    BY <1>2, <1>5 DEF AltElement
  <2>2. ASSUME a \notin altStale PROVE AltAgrees(v, plain, i, elements)
    <3>1. v.length \in Int /\ i \in 0..(v.length - 1) /\ i + 1 \in 1..v.length /\ 0 + (i + 1) = i + 1
      BY <1>2, <1>3 DEF AltShape
    <3>2. CASE v.filled
      <4>1. DOMAIN elements = {1} /\ elements[1] = v.payload[i + 1]
        BY <2>1, <3>2
      <4>2. DOMAIN v.payload = 1..v.length
        BY <1>3, <3>2 DEF AltShape
      <4>3. v.payload[i + 1] = plain[i + 1] \/ Wrong(v.source, v.type, plain[i + 1])
        BY <1>3, <2>2, <3>1, <3>2, <4>2 DEF AltFresh, AltAgrees
      <4> QED
        BY <4>1, <4>3 DEF AltAgrees
    <3>3. CASE ~v.filled
      <4>1. DOMAIN elements = {1} /\ elements[1] = plain[i + 1]
        BY <1>3, <2>1, <2>2, <3>1, <3>3, OneElementIs
      <4> QED
        BY <4>1 DEF AltAgrees
    <3> QED
      BY <3>2, <3>3
  <2>3. AltSeen'
    <3>1. ASSUME NEW b \in AltIds, b \notin altStale, a = b PROVE SameAsPlain(b, i, elements)
      BY <1>2, <2>2, <3>1, Agreement
    <3>2. seen'.id = a /\ seen'.first = i /\ seen'.elements = elements
      BY <2>1
    <3>3. \A b : SameAsPlain(b, i, elements) => SameAsPlain(b, seen.first, seen.elements)'
      BY <1>1, <3>2 DEF SameAsPlain
    <3> QED
      BY <1>1, <3>1, <3>2, <3>3 DEF AltSeen
  <2>4. AltInv'
    BY <1>1 DEF AltInv
  <2> QED
    BY <2>3, <2>4
<1> QED
  BY <1>4, <1>5

(* All are, or written to.                                                   *)
LEMMA AltDataPlain ==
  ASSUME AltInv, \A p \in Paths : Sequence(disk[p]), NEW a \in AltIds, AltData(a), disk' = disk
  PROVE  AltInv' /\ AltSeen'
<1>1. alt[a] # Gone /\ UNCHANGED <<altIdeal, altStale>> /\ seen' = Nowhere
  BY DEF AltData
<1>2. PICK v, plain, m : v = alt[a] /\ plain = altIdeal[a] /\ m = Materialised(v)
  OBVIOUS
<1>3. /\ AltShape(v, plain) /\ (a \notin altStale => AltFresh(disk, v, plain))
      /\ v.source.kind = "file" => Sequence(disk[v.source.path])
  BY <1>1, <1>2, AltVectorIs
<1>4. AltSeen'
  BY <1>1, NothingSeen
<1>5. alt' = alt \/ alt' = [alt EXCEPT ![a] = m]
  BY <1>2 DEF AltData
<1>6. CASE alt' = alt
  BY <1>1, <1>4, <1>6 DEF AltInv
<1>7. CASE alt' = [alt EXCEPT ![a] = m]
  <2>1. AltShape(m, plain) /\ m.filled /\ (a \notin altStale => AltAgrees(m, plain, 0, m.payload))
    BY <1>2, <1>3, MaterialisedIs
  <2>2. a \in altStale' \/ AltFresh(disk', m, plain)
    BY <1>1, <2>1 DEF AltFresh
  <2>3. altIdeal' = [altIdeal EXCEPT ![a] = plain]
    BY <1>1, <1>2 DEF AltInv
  <2> QED
    BY <1>1, <1>4, <1>7, <2>1, <2>2, <2>3, AltStep
<1> QED
  BY <1>5, <1>6, <1>7

(* R writes to a materialised vector and to its plain one.                   *)
LEMMA AltWritePlain ==
  ASSUME AltInv, \A p \in Paths : Sequence(disk[p]), NEW a \in AltIds,
         NEW i \in 0..(alt[a].length - 1), NEW unit, AltWrite(a, i, unit), disk' = disk
  PROVE  AltInv' /\ AltSeen'
<1>1. alt[a] # Gone /\ altStale' = altStale /\ seen' = Nowhere
  BY DEF AltWrite
<1>2. PICK v, plain, m : v = alt[a] /\ plain = altIdeal[a] /\ m = Materialised(v)
  OBVIOUS
<1>3. /\ AltShape(v, plain) /\ (a \notin altStale => AltFresh(disk, v, plain))
      /\ v.source.kind = "file" => Sequence(disk[v.source.path])
  BY <1>1, <1>2, AltVectorIs
<1>4. AltSeen'
  BY <1>1, NothingSeen
<1>5. \/ UNCHANGED <<alt, altIdeal>>
      \/ /\ alt' = [alt EXCEPT ![a] = [m EXCEPT !.payload[i + 1] = <<unit>>]]
         /\ altIdeal' = [altIdeal EXCEPT ![a][i + 1] = <<unit>>]
  BY <1>2 DEF AltWrite
<1>6. CASE UNCHANGED <<alt, altIdeal>>
  BY <1>1, <1>4, <1>6 DEF AltInv
<1>7. CASE /\ alt' = [alt EXCEPT ![a] = [m EXCEPT !.payload[i + 1] = <<unit>>]]
           /\ altIdeal' = [altIdeal EXCEPT ![a][i + 1] = <<unit>>]
  <2>1. AltShape(m, plain) /\ m.filled /\ (a \notin altStale => AltAgrees(m, plain, 0, m.payload))
    BY <1>2, <1>3, MaterialisedIs
  <2>2. PICK old, new, plain2, n, element :
          /\ old = m.payload /\ element = <<unit>> /\ new = [old EXCEPT ![i + 1] = element]
          /\ plain2 = [plain EXCEPT ![i + 1] = element] /\ n = [m EXCEPT !.payload = new]
    OBVIOUS
  <2>3. /\ m = [source |-> m.source, type |-> m.type, length |-> m.length, handle |-> m.handle,
                payload |-> old, filled |-> m.filled]
        /\ m.length \in Int /\ m.length = v.length
        /\ old = [k \in 1..m.length |-> old[k]] /\ plain = [k \in 1..m.length |-> plain[k]]
    BY <1>2, <1>3, <2>1, <2>2, MaterialisedIs DEF AltShape, AltRecord
  <2>4. i + 1 \in 1..m.length
    BY <1>2, <2>3
  <2>5. /\ new = [k \in 1..m.length |-> new[k]] /\ plain2 = [k \in 1..m.length |-> plain2[k]]
        /\ new[i + 1] = element /\ plain2[i + 1] = element
        /\ \A k \in 1..m.length : k # i + 1 => new[k] = old[k] /\ plain2[k] = plain[k]
    BY <2>2, <2>3, <2>4
  <2>6. [m EXCEPT !.payload[i + 1] = element] = n
    BY <2>2
  <2>7. n = [source |-> m.source, type |-> m.type, length |-> m.length, handle |-> m.handle,
             payload |-> new, filled |-> m.filled]
    BY <2>2, <2>3
  <2>8. /\ AltRecord(n) /\ n.source = m.source /\ n.type = m.type /\ n.length = m.length
        /\ n.payload = new /\ n.filled = m.filled
    BY <2>7 DEF AltRecord
  <2>9. AltShape(n, plain2)
    BY <2>1, <2>5, <2>8 DEF AltShape
  <2>10. ASSUME a \notin altStale PROVE AltFresh(disk', n, plain2)
    <3>1. AltAgrees(m, plain, 0, old)
      BY <2>1, <2>2, <2>10
    <3>2. ASSUME NEW k \in 1..m.length
          PROVE  new[k] = plain2[0 + k] \/ Wrong(n.source, n.type, plain2[0 + k])
      <4>1. 0 + k = k /\ k \in DOMAIN old
        BY <2>3, <3>2
      <4>2. CASE k = i + 1
        BY <2>5, <4>1, <4>2
      <4>3. CASE k # i + 1
        BY <2>5, <2>8, <3>1, <4>1, <4>3 DEF AltAgrees
      <4> QED
        BY <4>2, <4>3
    <3>3. DOMAIN n.payload = 1..m.length
      BY <2>5, <2>8
    <3>4. AltAgrees(n, plain2, 0, n.payload)
      BY <2>8, <3>2, <3>3 DEF AltAgrees
    <3> QED
      BY <2>1, <2>8, <3>4 DEF AltFresh
  <2>11. alt' = [alt EXCEPT ![a] = n]
    BY <1>7, <2>2, <2>6
  <2>12. altIdeal' = [altIdeal EXCEPT ![a] = plain2]
    BY <1>2, <1>7, <2>2
  <2> QED
    BY <1>1, <1>4, <2>9, <2>10, <2>11, <2>12, AltStep
<1> QED
  BY <1>5, <1>6, <1>7

(* Every step of an ALTREP vector but storing it.                            *)
LEMMA NewAltPlain ==
  ASSUME AltInv, AltSeen, \A p \in Paths : Sequence(disk[p]), NewAlt
  PROVE  AltInv' /\ AltSeen'
<1>1. disk' = disk
  BY DEF NewAlt
<1>2. PICK a \in AltIds :
        \/ \E p \in Paths : AltNewFile(a, p)
        \/ \E order \in AltSeqs : AltNewSeq(a, order.source, order.type)
        \/ \E b \in AltIds : AltDuplicate(b, a)
  BY DEF NewAlt
<1>3. CASE \E p \in Paths : AltNewFile(a, p)
  BY <1>1, <1>3, AltNewFilePlain
<1>4. CASE \E order \in AltSeqs : AltNewSeq(a, order.source, order.type)
  <2>1. PICK order \in AltSeqs : AltNewSeq(a, order.source, order.type)
    BY <1>4
  <2>2. PICK s, type : s = order.source /\ type = order.type
    OBVIOUS
  <2>3. s.kind = "seq" /\ IntSequence(s) /\ AltNewSeq(a, s, type)
    BY <2>1, <2>2, AltSeqsAssumption
  <2> QED
    BY <1>1, <2>3, AltNewSeqPlain
<1>5. CASE \E b \in AltIds : AltDuplicate(b, a)
  BY <1>1, <1>5, AltDuplicatePlain
<1> QED
  BY <1>2, <1>3, <1>4, <1>5

(* What R does with a vector it has.                                         *)
LEMMA UseAltPlain ==
  ASSUME AltInv, AltSeen, \A p \in Paths : Sequence(disk[p]), UseAlt
  PROVE  AltInv' /\ AltSeen'
<1>1. disk' = disk
  BY DEF UseAlt
<1>2. PICK a \in AltIds :
        \/ AltFinalize(a)
        \/ AltData(a)
        \/ \E i \in 0..(alt[a].length - 1) :
              AltElement(a, i) \/ \E unit \in AltWritten : AltWrite(a, i, unit)
  BY DEF UseAlt
<1>3. CASE AltFinalize(a)
  <2>1. AltForget(a)
    BY <1>3 DEF AltFinalize
  <2> QED
    BY <1>1, <2>1, AltForgetPlain
<1>4. CASE AltData(a)
  BY <1>1, <1>4, AltDataPlain
<1>5. ASSUME NEW i \in 0..(alt[a].length - 1), AltElement(a, i) PROVE AltInv' /\ AltSeen'
  BY <1>1, <1>5, AltElementPlain
<1>6. ASSUME NEW i \in 0..(alt[a].length - 1), NEW unit \in AltWritten, AltWrite(a, i, unit)
      PROVE  AltInv' /\ AltSeen'
  BY <1>1, <1>6, AltWritePlain
<1> QED
  BY <1>2, <1>3, <1>4, <1>5, <1>6

-----------------------------------------------------------------------------
(* What is stored is the vector.                                             *)

(* Unit u of some elements.                                                  *)
UnitAt(elements, size, u) == elements[((u - 1) \div size) + 1][((u - 1) % size) + 1]

(* The units of the first n elements.                                        *)
LEMMA UnitsUptoIs ==
  ASSUME NEW elements, NEW n \in Nat, NEW size \in Nat \ {0}, NEW units, units = UnitsUpto(elements, n, size)
  PROVE  /\ n * size \in Nat /\ Sequence(units) /\ Len(units) = n * size
         /\ \A u \in 1..(n * size) : units[u] = UnitAt(elements, size, u)
<1>1. PICK k \in Nat : k = n * size
  BY Products
<1>2. units = [u \in 1..k |-> units[u]]
  BY <1>1 DEF UnitsUpto
<1>3. \A u \in 1..k : units[u] = UnitAt(elements, size, u)
  BY <1>1 DEF UnitsUpto, UnitAt
<1>4. Sequence(units) /\ Len(units) = k
  BY <1>2, FunctionSequence
<1> QED
  BY <1>1, <1>3, <1>4

(* All units are those of all elements.                                      *)
LEMMA UnitsInIs ==
  ASSUME NEW elements, NEW size
  PROVE  UnitsIn(elements, size) = UnitsUpto(elements, Len(elements), size)
BY DEF UnitsIn, UnitsUpto

(* The units of more elements follow those of the first ones.                *)
Follows(chunk, m, plain, n) == \A k \in 1..m : chunk[k] = plain[n + k]

(* The unit is at the same place of an element further on.                   *)
LEMMA UnitAfter ==
  ASSUME NEW size \in Nat \ {0}, NEW n \in Nat, NEW m \in Nat, NEW plain, NEW chunk,
         Follows(chunk, m, plain, n),
         NEW a, NEW b, a = n * size, b = m * size, NEW u \in 1..b
  PROVE  UnitAt(chunk, size, u) = UnitAt(plain, size, a + u)
<1>1. PICK x : x = u - 1
  OBVIOUS
<1>2. m * size \in Nat
  BY Products
<1>3. x \in Nat /\ x < m * size
  BY <1>1, <1>2
<1>4. PICK q, r : q = x \div size /\ r = x % size
  OBVIOUS
<1>5. q \in Nat /\ r \in Nat /\ r < size /\ x = q * size + r
  BY <1>3, <1>4, QuotientIs
<1>6. q < m
  <2>1. q * size \in Nat
    BY <1>5, Products
  <2>2. m <= q => m * size <= q * size
    BY <1>5, ProductGrows
  <2>3. PICK y \in Nat, z \in Nat : y = m * size /\ z = q * size
    BY <1>2, <2>1
  <2>4. ~(m <= q)
    BY <1>3, <1>5, <2>2, <2>3
  <2> QED
    BY <1>5, <2>4
<1>7. ((n + q) * size + r) \div size = n + q /\ ((n + q) * size + r) % size = r
  <2>1. n + q \in Nat
    BY <1>5
  <2> QED
    BY <1>5, <2>1, QuotientOf
<1>8. (n + q) * size = n * size + q * size
  BY <1>5
<1>9. n * size \in Nat /\ q * size \in Nat
  BY <1>5, Products
<1>10. (n * size + u) - 1 = (n + q) * size + r
  <2>1. PICK y \in Nat, z \in Nat : y = n * size /\ z = q * size
    BY <1>9
  <2> QED
    BY <1>1, <1>5, <1>8, <2>1
<1>11. chunk[q + 1] = plain[n + (q + 1)] /\ n + (q + 1) = n + q + 1
  BY <1>5, <1>6 DEF Follows
<1>12. UnitAt(chunk, size, u) = chunk[q + 1][r + 1]
  BY <1>1, <1>4 DEF UnitAt
<1>13. UnitAt(plain, size, a + u) = plain[n + q + 1][r + 1]
  <2>1. PICK w : w = n * size + u
    OBVIOUS
  <2>2. (w - 1) \div size = n + q /\ (w - 1) % size = r
    BY <1>7, <1>10, <2>1
  <2>3. UnitAt(plain, size, w) = plain[n + q + 1][r + 1]
    BY <2>2, Zenon DEF UnitAt
  <2> QED
    BY <2>1, <2>3
<1> QED
  BY <1>11, <1>12, <1>13

(* A chunk is appended to the chunks before it.                              *)
LEMMA UnitsJoin ==
  ASSUME NEW size \in Nat \ {0}, NEW n \in Nat, NEW m \in Nat, NEW plain, NEW chunk, Sequence(chunk), Len(chunk) = m,
         Follows(chunk, m, plain, n)
  PROVE  UnitsUpto(plain, n, size) \o UnitsIn(chunk, size) = UnitsUpto(plain, n + m, size)
<1>1. PICK s, t, all : /\ s = UnitsUpto(plain, n, size) /\ t = UnitsUpto(chunk, m, size)
                       /\ all = UnitsUpto(plain, n + m, size)
  OBVIOUS
<1>2. PICK a \in Nat, b \in Nat : a = n * size /\ b = m * size
  BY Products
<1>3. (n + m) * size = a + b /\ n + m \in Nat
  BY <1>2
<1>4. Sequence(s) /\ Len(s) = a /\ \A u \in 1..a : s[u] = UnitAt(plain, size, u)
  BY <1>1, <1>2, UnitsUptoIs
<1>5. Sequence(t) /\ Len(t) = b /\ \A u \in 1..b : t[u] = UnitAt(chunk, size, u)
  BY <1>1, <1>2, UnitsUptoIs
<1>6. Sequence(all) /\ Len(all) = a + b /\ \A u \in 1..(a + b) : all[u] = UnitAt(plain, size, u)
  BY <1>1, <1>3, UnitsUptoIs
<1>7. /\ Sequence(s \o t) /\ Len(s \o t) = a + b
      /\ \A u \in 1..(a + b) : (s \o t)[u] = IF u <= a THEN s[u] ELSE t[u - a]
  BY <1>4, <1>5, JoinedIs
<1>8. PICK joined : joined = s \o t
  OBVIOUS
<1>9. ASSUME NEW u \in 1..(a + b) PROVE joined[u] = all[u]
  <2>1. CASE u <= a
    BY <1>4, <1>6, <1>7, <1>8, <2>1
  <2>2. CASE u > a
    <3>1. PICK w : w = u - a
      OBVIOUS
    <3>2. w \in 1..b /\ a + w = u /\ ~(u <= a)
      BY <2>2, <3>1
    <3>3. UnitAt(chunk, size, w) = UnitAt(plain, size, a + w)
      BY <1>2, <3>2, UnitAfter
    <3>4. joined[u] = t[w]
      BY <1>7, <1>8, <3>1, <3>2
    <3>5. t[w] = UnitAt(chunk, size, w)
      BY <1>5, <3>2
    <3> QED
      BY <1>6, <3>2, <3>3, <3>4, <3>5
  <2> QED
    BY <2>1, <2>2
<1>10. joined = all
  BY <1>6, <1>7, <1>8, <1>9, SequenceEqual
<1> QED
  BY <1>1, <1>8, <1>10, UnitsInIs

-----------------------------------------------------------------------------
(* A file that nobody writes to.                                             *)
LEMMA StoreKept ==
  ASSUME StoreInv, UNCHANGED <<disk, store, stored, ufo, ideal, changed, alt, altStale>>
  PROVE  StoreInv'
BY DEF StoreInv, Bodies, Chunks

(* No file is being written.                                                 *)
LEMMA NoStoreKept ==
  ASSUME StoreInv, store = NoStore, UNCHANGED <<store, stored>>
  PROVE  StoreInv'
BY DEF StoreInv

(* It is emptied.                                                            *)
LEMMA BeginStorePlain ==
  ASSUME PlainInv, NEW o \in Ids, NEW p \in Paths, BeginStore(o, p)
  PROVE  PlainInv'
<1>1. /\ o \in Bodies /\ store = NoStore
      /\ disk' = [disk EXCEPT ![p] = <<>>]
      /\ changed' = changed \cup {x \in Bodies : ufo[x].source.kind = "file" /\ ufo[x].source.path = p}
      /\ altStale' = altStale \cup
            {a \in AltIds : alt[a] # Gone /\ ~alt[a].filled /\ alt[a].source.kind = "file"
                            /\ alt[a].source.path = p}
      /\ store' = [id |-> o, path |-> p, next |-> 0, clean |-> TRUE]
      /\ UNCHANGED <<ufo, mem, dirty, pos, wants, load, ideal, spoiled, alt, seen, altIdeal, stored>>
  BY DEF BeginStore, RIdle, UfoFileChanges, AltFileChanges
<1>2. PICK content : content = <<>>
  OBVIOUS
<1>3. Sequence(content) /\ Len(content) = 0
  BY <1>2, EmptySequence
<1>4. disk'[p] = content /\ \A q \in Paths \ {p} : disk'[q] = disk[q]
  BY <1>1, <1>2 DEF PlainInv, UfoInv, Maps
<1>5. UfoInv'
  <2>1. \A x \in Bodies : ufo[x].source.kind = "file" /\ ufo[x].source.path = p => x \in changed'
    BY <1>1
  <2> QED
    BY <1>1, <1>2, <1>3, <2>1, FileChangesPlain DEF PlainInv
<1>6. AltInv' /\ AltSeen'
  <2>1. ASSUME NEW b \in AltIds, b \notin altStale', alt[b] # Gone, ~alt[b].filled, alt[b].source.kind = "file"
        PROVE  disk'[alt[b].source.path] = disk[alt[b].source.path]
    <3>1. alt[b].source.path \in Paths /\ alt[b].source.path # p
      BY <1>1, <2>1 DEF PlainInv, AltInv, AltShape
    <3> QED
      BY <1>4, <3>1
  <2> QED
    BY <1>1, <2>1, AltKept DEF PlainInv
<1>7. StoreInv'
  <2>1. PICK this, size : this = [id |-> o, path |-> p, next |-> 0, clean |-> TRUE] /\ size = ElementSize[ufo[o].type]
    OBVIOUS
  <2>2. this.id = o /\ this.path = p /\ this.next = 0 /\ this.clean = TRUE
    BY <2>1
  <2>3. Bodies' = Bodies /\ Chunks(o)' = Chunks(o)
    BY <1>1 DEF Bodies, Chunks
  <2>4. ufo[o].length \in Nat \ {0} /\ size \in Nat \ {0}
    BY <1>1, <2>1, SizesAssumption DEF PlainInv, UfoInv, VectorsInv, VectorRecord
  <2>5. 0 \in Chunks(o)
    <3>1. ufo[o].length - 1 \in Nat
      BY <2>4
    <3>2. ChunkOf(ufo[o].length - 1) \in Nat
      BY <3>1, ChunkOfIs
    <3> QED
      BY <3>2 DEF Chunks
  <2>6. content = UnitsUpto(ideal[o], First(0), size)
    <3>1. First(0) = 0 /\ 0 * size = 0
      BY <2>4, LoadCountAssumption DEF First
    <3>2. PICK units : units = UnitsUpto(ideal[o], 0, size)
      OBVIOUS
    <3>3. Sequence(units) /\ Len(units) = 0
      BY <2>4, <3>1, <3>2, UnitsUptoIs
    <3>4. units = content
      BY <1>3, <3>3, SequenceEqual
    <3> QED
      BY <3>1, <3>2, <3>4
  <2>7. \A x \in Bodies : ufo[x].source.kind = "file" /\ ufo[x].source.path = p => x \in changed'
    BY <1>1
  <2>8. \A a \in AltIds : alt[a] # Gone /\ ~alt[a].filled /\ alt[a].source.kind = "file"
           /\ alt[a].source.path = p => a \in altStale'
    BY <1>1
  <2>9. stored.right = TRUE /\ stored' = stored /\ store' = this
    BY <1>1, <2>1 DEF PlainInv, StoreInv
  <2> QED
    BY <1>1, <1>4, <2>1, <2>2, <2>3, <2>5, <2>6, <2>7, <2>8, <2>9 DEF StoreInv
<1> QED
  BY <1>5, <1>6, <1>7 DEF PlainInv

(* The next chunk is written to it.                                          *)
LEMMA StoreChunkPlain ==
  ASSUME PlainInv, StoreChunk
  PROVE  PlainInv'
<1>1. PICK o, p, c, length, size, plain, chunk :
         /\ o = store.id /\ p = store.path /\ c = store.next
         /\ length = ufo[o].length /\ size = ElementSize[ufo[o].type]
         /\ plain = ideal[o] /\ chunk = mem[o][c]
  OBVIOUS
<1>2. PICK clean : clean = (store.clean /\ <<o, c>> \notin spoiled)
  OBVIOUS
<1>3. PICK content : content = disk[p] \o UnitsIn(chunk, size)
  OBVIOUS
<1>4. /\ store # NoStore /\ c \in DOMAIN mem[o]
      /\ disk' = [disk EXCEPT ![p] = content]
      /\ UNCHANGED <<ufo, mem, dirty, pos, wants, load, ideal, changed, spoiled, alt, seen, altIdeal, altStale>>
  BY <1>1, <1>3 DEF StoreChunk, Resident, ufoVars, history, altVars
<1>5. IF c + 1 \in Chunks(o)
      THEN store' = [store EXCEPT !.next = c + 1, !.clean = clean] /\ stored' = stored
      ELSE /\ store' = NoStore
           /\ stored' = [times |-> stored.times + 1, path |-> p,
                         right |-> \/ ~clean
                                   \/ \E i \in DOMAIN plain : Wrong(ufo[o].source, ufo[o].type, plain[i])
                                   \/ disk'[p] = UnitsIn(plain, size)]
  BY <1>1, <1>2 DEF StoreChunk
<1>6. /\ store = [id |-> o, path |-> p, next |-> c, clean |-> store.clean]
      /\ o \in Bodies /\ o \in Ids /\ p \in Paths /\ c \in Chunks(o)
      /\ \A x \in Bodies : ufo[x].source.kind = "file" /\ ufo[x].source.path = p => x \in changed
      /\ \A a \in AltIds : alt[a] # Gone /\ ~alt[a].filled /\ alt[a].source.kind = "file"
            /\ alt[a].source.path = p => a \in altStale
      /\ \/ ~store.clean
         \/ \E i \in DOMAIN plain : Wrong(ufo[o].source, ufo[o].type, plain[i])
         \/ disk[p] = UnitsUpto(plain, First(c), size)
      /\ stored.right = TRUE
  BY <1>1, <1>4 DEF PlainInv, StoreInv, Bodies
<1>7. /\ length \in Nat \ {0} /\ size \in Nat \ {0} /\ Sequence(plain) /\ Len(plain) = length
      /\ Sequence(chunk) /\ Len(chunk) = End(o, c) - First(c)
      /\ Sequence(disk[p])
  BY <1>1, <1>4, <1>6, SizesAssumption DEF PlainInv, UfoInv, VectorsInv, VectorRecord
<1>8. /\ c \in Nat /\ First(c) \in Nat /\ End(o, c) \in Nat /\ First(c) < End(o, c) /\ End(o, c) <= length
      /\ IF c + 1 \in Chunks(o) THEN End(o, c) = First(c + 1) ELSE End(o, c) = length
  <2>1. End(o, c) = EndIn(length, c) /\ Chunks(o) = ChunksIn(length)
    BY <1>1, EndOfChunk
  <2> QED
    BY <1>6, <1>7, <2>1, Borders
<1>9. Sequence(content)
  <2>1. PICK units : units = UnitsUpto(chunk, Len(chunk), size)
    OBVIOUS
  <2>2. Len(chunk) \in Nat
    BY <1>7, SequenceIs
  <2>3. Sequence(units)
    BY <1>7, <2>1, <2>2, UnitsUptoIs
  <2>4. content = disk[p] \o units
    BY <1>3, <2>1, UnitsInIs
  <2> QED
    BY <1>7, <2>3, <2>4, JoinedIs
<1>10. disk'[p] = content /\ \A q \in Paths \ {p} : disk'[q] = disk[q]
  BY <1>4, <1>6 DEF PlainInv, UfoInv, Maps
<1>11. UfoInv'
  BY <1>4, <1>6, <1>9, FileChangesPlain DEF PlainInv
<1>12. AltInv' /\ AltSeen'
  <2>1. ASSUME NEW b \in AltIds, b \notin altStale', alt[b] # Gone, ~alt[b].filled, alt[b].source.kind = "file"
        PROVE  disk'[alt[b].source.path] = disk[alt[b].source.path]
    <3>1. alt[b].source.path \in Paths /\ alt[b].source.path # p
      BY <1>4, <1>6, <2>1 DEF PlainInv, AltInv, AltShape
    <3> QED
      BY <1>10, <3>1
  <2> QED
    BY <1>4, <2>1, AltKept DEF PlainInv
<1>13. \/ ~clean
       \/ \E i \in DOMAIN plain : Wrong(ufo[o].source, ufo[o].type, plain[i])
       \/ content = UnitsUpto(plain, End(o, c), size)
  <2> SUFFICES ASSUME clean, ~\E i \in DOMAIN plain : Wrong(ufo[o].source, ufo[o].type, plain[i])
               PROVE  content = UnitsUpto(plain, End(o, c), size)
    OBVIOUS
  <2>1. store.clean /\ <<o, c>> \notin spoiled
    BY <1>2
  <2>2. disk[p] = UnitsUpto(plain, First(c), size)
    BY <1>6, <2>1
  <2>3. PICK m \in Nat : m = End(o, c) - First(c)
    BY <1>8
  <2>4. ASSUME NEW k \in 1..m PROVE chunk[k] = plain[First(c) + k]
    <3>1. PICK i : i = First(c) + k - 1
      OBVIOUS
    <3>2. i \in First(c)..(End(o, c) - 1) /\ i - First(c) + 1 = k /\ i + 1 = First(c) + k /\ i + 1 \in 1..length
      <4>1. PICK first \in Nat, end \in Nat : first = First(c) /\ end = End(o, c) /\ end <= length
        BY <1>8
      <4>2. length \in Nat
        BY <1>7
      <4>3. i \in first..(end - 1) /\ i - first + 1 = k /\ i + 1 = first + k /\ i + 1 \in 1..length
        BY <2>3, <2>4, <3>1, <4>1, <4>2
      <4> QED
        BY <4>1, <4>3
    <3>3. mem[o][c][i - First(c) + 1] = ideal[o][i + 1] \/ Wrong(ufo[o].source, ufo[o].type, ideal[o][i + 1])
      BY <1>4, <1>6, <2>1, <3>2 DEF PlainInv, UfoInv, UfoLikePlain
    <3>4. DOMAIN plain = 1..length
      BY <1>7, SequenceIs
    <3> QED
      BY <1>1, <3>2, <3>3, <3>4
  <2>5. UnitsUpto(plain, First(c), size) \o UnitsIn(chunk, size) = UnitsUpto(plain, First(c) + m, size)
    <3>1. PICK first \in Nat : first = First(c)
      BY <1>8
    <3>2. Len(chunk) = m /\ Sequence(chunk) /\ size \in Nat \ {0} /\ Follows(chunk, m, plain, first)
      BY <1>7, <2>3, <2>4, <3>1 DEF Follows
    <3>3. UnitsUpto(plain, first, size) \o UnitsIn(chunk, size) = UnitsUpto(plain, first + m, size)
      BY <3>2, UnitsJoin
    <3> QED
      BY <3>1, <3>3
  <2>6. First(c) + m = End(o, c)
    BY <1>8, <2>3
  <2> QED
    BY <1>3, <2>2, <2>5, <2>6
<1>14. StoreInv'
  <2>1. CASE c + 1 \in Chunks(o)
    <3>1. PICK this : this = [id |-> o, path |-> p, next |-> c + 1, clean |-> clean]
      OBVIOUS
    <3>2. store' = this /\ stored' = stored
      <4>1. store' = [store EXCEPT !.next = c + 1, !.clean = clean] /\ stored' = stored
        BY <1>5, <2>1
      <4>2. store = [id |-> o, path |-> p, next |-> c, clean |-> store.clean]
        BY <1>6
      <4>3. PICK r, d, n : r = store /\ d = r.clean /\ n = c + 1
        OBVIOUS
      <4>4. r = [id |-> o, path |-> p, next |-> c, clean |-> d]
        BY <4>2, <4>3
      <4>5. [r EXCEPT !.next = n, !.clean = clean] = [id |-> o, path |-> p, next |-> n, clean |-> clean]
        <5>1. PICK half : half = [r EXCEPT !.next = n]
          OBVIOUS
        <5>2. half = [id |-> o, path |-> p, next |-> n, clean |-> d]
          BY <4>4, <5>1
        <5>3. [half EXCEPT !.clean = clean] = [id |-> o, path |-> p, next |-> n, clean |-> clean]
          BY <5>2
        <5> QED
          BY <5>1, <5>3
      <4> QED
        BY <3>1, <4>1, <4>3, <4>5
    <3>3. this.id = o /\ this.path = p /\ this.next = c + 1 /\ this.clean = clean
      BY <3>1
    <3>4. Bodies' = Bodies /\ Chunks(o)' = Chunks(o)
      BY <1>4 DEF Bodies, Chunks
    <3>5. \/ ~clean
          \/ \E i \in DOMAIN plain : Wrong(ufo[o].source, ufo[o].type, plain[i])
          \/ disk'[p] = UnitsUpto(plain, First(c + 1), size)
      BY <1>8, <1>10, <1>13, <2>1
    <3> QED
      BY <1>1, <1>4, <1>6, <2>1, <3>1, <3>2, <3>3, <3>4, <3>5 DEF StoreInv
  <2>2. CASE c + 1 \notin Chunks(o)
    <3>1. \/ ~clean
          \/ \E i \in DOMAIN plain : Wrong(ufo[o].source, ufo[o].type, plain[i])
          \/ disk'[p] = UnitsIn(plain, size)
      BY <1>7, <1>8, <1>10, <1>13, <2>2, UnitsInIs
    <3>2. stored'.right = TRUE
      BY <1>5, <2>2, <3>1 DEF Wrong
    <3> QED
      BY <1>5, <2>2, <3>2 DEF StoreInv
  <2> QED
    BY <2>1, <2>2
<1> QED
  BY <1>11, <1>12, <1>14 DEF PlainInv

(* An ALTREP vector is materialised and stored at once.                      *)
LEMMA AltStorePlain ==
  ASSUME PlainInv, NEW a \in AltIds, NEW p \in Paths, AltStore(a, p)
  PROVE  PlainInv'
<1>1. PICK v, plain, m, content :
         /\ v = alt[a] /\ plain = altIdeal[a] /\ m = Materialised(v) /\ content = UnitsIn(m.payload, 1)
  OBVIOUS
<1>2. /\ store = NoStore /\ alt[a] # Gone
      /\ alt' = [alt EXCEPT ![a] = m] /\ disk' = [disk EXCEPT ![p] = content]
      /\ altStale' = altStale \cup
            {b \in AltIds \ {a} : alt[b] # Gone /\ ~alt[b].filled /\ alt[b].source.kind = "file"
                                  /\ alt[b].source.path = p}
      /\ changed' = changed \cup {x \in Bodies : ufo[x].source.kind = "file" /\ ufo[x].source.path = p}
      /\ seen' = Nowhere
      /\ UNCHANGED <<ufo, mem, dirty, pos, wants, load, ideal, spoiled, altIdeal, store>>
  BY <1>1 DEF AltStore, RIdle, UfoFileChanges, ToStore
<1>3. stored' = [times |-> stored.times + 1, path |-> p,
                 right |-> \/ a \in altStale
                           \/ \E i \in DOMAIN plain : Wrong(m.source, m.type, plain[i])
                           \/ disk'[p] = UnitsIn(plain, 1)]
  BY <1>1 DEF AltStore, ToStore
<1>4. \A q \in Paths : Sequence(disk[q])
  BY DEF PlainInv, UfoInv, VectorsInv
<1>5. /\ AltShape(v, plain) /\ (a \notin altStale => AltFresh(disk, v, plain))
      /\ v.source.kind = "file" => Sequence(disk[v.source.path])
  BY <1>1, <1>2, <1>4, AltVectorIs DEF PlainInv
<1>6. /\ AltShape(m, plain) /\ m.filled /\ m.source = v.source /\ m.type = v.type /\ m.length = v.length
      /\ a \notin altStale => AltAgrees(m, plain, 0, m.payload)
  BY <1>1, <1>5, MaterialisedIs
<1>7. /\ m.length \in Int /\ m.payload = [i \in 1..m.length |-> m.payload[i]]
      /\ plain = [i \in 1..m.length |-> plain[i]]
  BY <1>6 DEF AltShape
<1>8. PICK payload : payload = m.payload
  OBVIOUS
<1>9. /\ Sequence(payload) /\ Sequence(plain) /\ Len(payload) = Len(plain)
      /\ DOMAIN payload = 1..m.length /\ DOMAIN plain = 1..m.length
      /\ Len(payload) \in Nat /\ DOMAIN payload = 1..Len(payload)
  <2>1. payload = [i \in 1..m.length |-> payload[i]]
    BY <1>7, <1>8
  <2>2. Sequence(payload) /\ Len(payload) = (IF m.length < 0 THEN 0 ELSE m.length) /\ DOMAIN payload = 1..m.length
    BY <1>7, <2>1, FunctionSequence
  <2>3. Sequence(plain) /\ Len(plain) = (IF m.length < 0 THEN 0 ELSE m.length) /\ DOMAIN plain = 1..m.length
    BY <1>7, FunctionSequence
  <2>4. Len(payload) \in Nat /\ DOMAIN payload = 1..Len(payload)
    BY <2>2, SequenceIs
  <2> QED
    BY <2>2, <2>3, <2>4
<1>10. Sequence(content)
  <2>1. content = UnitsUpto(payload, Len(payload), 1)
    BY <1>1, <1>8, UnitsInIs
  <2> QED
    BY <1>9, <2>1, UnitsUptoIs
<1>11. disk'[p] = content /\ \A q \in Paths \ {p} : disk'[q] = disk[q]
  BY <1>2 DEF PlainInv, UfoInv, Maps
<1>12. UfoInv'
  <2>1. \A x \in Bodies : ufo[x].source.kind = "file" /\ ufo[x].source.path = p => x \in changed'
    BY <1>2
  <2> QED
    BY <1>2, <1>10, <2>1, FileChangesPlain DEF PlainInv
<1>13. AltInv' /\ AltSeen'
  <2>1. ASSUME NEW b \in AltIds \ {a}, b \notin altStale', alt[b] # Gone, ~alt[b].filled, alt[b].source.kind = "file"
        PROVE  disk'[alt[b].source.path] = disk[alt[b].source.path]
    <3>1. alt[b].source.path \in Paths /\ alt[b].source.path # p
      BY <1>2, <2>1 DEF PlainInv, AltInv, AltShape
    <3> QED
      BY <1>11, <3>1
  <2>2. a \in altStale' \/ AltFresh(disk', m, plain)
    BY <1>2, <1>6 DEF AltFresh
  <2>3. altIdeal' = [altIdeal EXCEPT ![a] = plain] /\ altStale \ {a} \subseteq altStale'
    BY <1>1, <1>2 DEF PlainInv, AltInv
  <2> QED
    BY <1>2, <1>6, <2>1, <2>2, <2>3, AltStep, NothingSeen DEF PlainInv
<1>14. \/ a \in altStale
       \/ \E i \in DOMAIN plain : Wrong(m.source, m.type, plain[i])
       \/ disk'[p] = UnitsIn(plain, 1)
  <2> SUFFICES ASSUME a \notin altStale, ~\E i \in DOMAIN plain : Wrong(m.source, m.type, plain[i])
               PROVE  disk'[p] = UnitsIn(plain, 1)
    OBVIOUS
  <2>1. ASSUME NEW i \in 1..m.length PROVE payload[i] = plain[i]
    <3>1. payload[i] = plain[0 + i] \/ Wrong(m.source, m.type, plain[0 + i])
      BY <1>6, <1>8, <1>9 DEF AltAgrees
    <3>2. 0 + i = i
      BY <1>7, <2>1
    <3> QED
      BY <1>9, <3>1, <3>2
  <2>2. payload = plain
    BY <1>7, <1>8, <2>1
  <2> QED
    BY <1>1, <1>8, <1>11, <2>2
<1>15. StoreInv'
  <2>1. stored'.right = TRUE
    BY <1>3, <1>14 DEF Wrong
  <2> QED
    BY <1>2, <2>1 DEF StoreInv
<1> QED
  BY <1>12, <1>13, <1>15 DEF PlainInv

-----------------------------------------------------------------------------
(* A session starts with vectors like plain ones: none.                      *)
LEMMA InitPlain == Init => PlainInv
<1> SUFFICES ASSUME Init PROVE PlainInv
  OBVIOUS
<1>1. /\ disk = Disk0 /\ ufo = [o \in Ids |-> Absent] /\ mem = [o \in Ids |-> <<>>]
      /\ dirty = [o \in Ids |-> {}] /\ pos = [o \in Ids |-> 0]
      /\ wants = [t \in Threads |-> Nothing] /\ load = [w \in Workers |-> Resting]
      /\ ideal = [o \in Ids |-> <<>>]
      /\ alt = [a \in AltIds |-> Gone] /\ altIdeal = [a \in AltIds |-> <<>>]
      /\ seen = Nowhere /\ store = NoStore /\ stored = [times |-> 0, path |-> "none", right |-> TRUE]
  BY DEF Init, UfoInit, AltInit
<1>2. Bodies = {}
  BY <1>1 DEF Bodies, Absent
<1>3. Maps
  BY <1>1, DiskAssumption DEF Maps
<1>4. VectorsInv
  <2>1. ASSUME NEW p \in Paths PROVE Sequence(disk[p])
    <3>1. PICK s : s = disk[p]
      OBVIOUS
    <3>2. s \in Seq(Int)
      BY <1>1, <3>1, DiskAssumption
    <3>3. Len(s) \in Nat /\ s = [i \in 1..Len(s) |-> s[i]]
      BY <3>2
    <3>4. Sequence(s)
      BY <3>3, FunctionSequence
    <3> QED
      BY <3>1, <3>4
  <2> QED
    BY <1>1, <1>2, <2>1 DEF VectorsInv
<1>5. WantsInv /\ LoadsInv
  BY <1>1 DEF WantsInv, LoadsInv
<1>6. SourceInv /\ UfoLikePlain
  BY <1>2 DEF SourceInv, UfoLikePlain
<1>7. AltInv
  BY <1>1 DEF AltInv
<1>8. AltSeen
  <2>1. DOMAIN seen.elements = {}
    BY <1>1, EmptySequence DEF Nowhere
  <2> QED
    BY <2>1 DEF AltSeen, SameAsPlain
<1>9. StoreInv
  BY <1>1 DEF StoreInv
<1> QED
  BY <1>3, <1>4, <1>5, <1>6, <1>7, <1>8, <1>9 DEF PlainInv, UfoInv

(* Steps that concern UFOs alone.                                            *)
LEMMA AltNotConcerned ==
  ASSUME AltInv, AltSeen, disk' = disk, UNCHANGED altVars
  PROVE  AltInv' /\ AltSeen'
<1>1. /\ UNCHANGED <<alt, altIdeal, seen>>
      /\ altStale' = altStale
  BY DEF altVars
<1> QED
  BY <1>1, AltKept

(* Steps while R reads or writes, which change no vector.                    *)
LEMMA UfoStep ==
  ASSUME PlainInv, UfoInv', UNCHANGED <<disk, altVars, store, stored>>, UNCHANGED <<ufo, ideal, changed>>
  PROVE  PlainInv'
<1>1. /\ UNCHANGED <<disk, store, stored, ufo, ideal, changed, alt, altStale>>
      /\ disk' = disk /\ UNCHANGED altVars
  BY DEF altVars
<1>2. AltInv' /\ AltSeen'
  BY <1>1, AltNotConcerned DEF PlainInv
<1>3. StoreInv'
  BY <1>1, StoreKept DEF PlainInv
<1> QED
  BY <1>2, <1>3 DEF PlainInv

(* Steps of R when it stores nothing.                                        *)
LEMMA IdleStep ==
  ASSUME PlainInv, UfoInv', RIdle, UNCHANGED <<disk, altVars, store, stored>>
  PROVE  PlainInv'
<1>1. /\ UNCHANGED <<store, stored>>
      /\ disk' = disk /\ UNCHANGED altVars /\ store = NoStore
  BY DEF RIdle
<1>2. AltInv' /\ AltSeen'
  BY <1>1, AltNotConcerned DEF PlainInv
<1>3. StoreInv'
  BY <1>1, NoStoreKept DEF PlainInv
<1> QED
  BY <1>2, <1>3 DEF PlainInv

(* Steps of R that concern ALTREP vectors alone.                             *)
LEMMA AltOnlyStep ==
  ASSUME PlainInv, AltInv' /\ AltSeen', RIdle, UNCHANGED <<disk, ufoVars, store, stored>>
  PROVE  PlainInv'
<1>1. /\ UNCHANGED <<store, stored>>
      /\ disk' = disk /\ UNCHANGED ufoVars /\ store = NoStore
  BY DEF RIdle
<1>2. UfoInv'
  BY <1>1, UfoKept DEF PlainInv
<1>3. StoreInv'
  BY <1>1, NoStoreKept DEF PlainInv
<1> QED
  BY <1>2, <1>3 DEF PlainInv

(* A population changes neither vectors nor what they should hold.           *)
LEMMA PopulateChanges ==
  ASSUME NEW w, PopulateStep(w)
  PROVE  UNCHANGED <<ufo, ideal, changed>>
<1>1. CASE Compute(w)
  BY <1>1 DEF Compute
<1>2. CASE SeekEnd(w)
  BY <1>2 DEF SeekEnd, history
<1>3. CASE Tell(w)
  BY <1>3 DEF Tell
<1>4. CASE Seek(w)
  BY <1>4 DEF Seek, history
<1>5. CASE Read(w)
  BY <1>5, ReadChanges
<1> QED
  BY <1>1, <1>2, <1>3, <1>4, <1>5 DEF PopulateStep

(* Storing reads the vector, and changes the files others read.              *)
LEMMA StorePlain ==
  ASSUME PlainInv, Store
  PROVE  PlainInv'
<1>1. CASE StoreFault
  <2>1. PICK o, c : o = store.id /\ c = store.next
    OBVIOUS
  <2>2. /\ store # NoStore /\ Touch(RThread, o, c) /\ disk' = disk
        /\ UNCHANGED <<disk, altVars, store, stored>>
    BY <1>1, <2>1 DEF StoreFault
  <2>3. o \in Ids /\ UNCHANGED <<ufo, ideal, changed>>
    BY <2>2 DEF Touch, Bodies, history
  <2>4. UfoInv'
    BY <2>2, <2>3, TouchPlain, RThreadAssumption DEF PlainInv
  <2> QED
    BY <2>2, <2>3, <2>4, UfoStep
<1>2. CASE StoreChunk
  BY <1>2, StoreChunkPlain
<1> QED
  BY <1>1, <1>2, BeginStorePlain, AltStorePlain DEF Store

(* Every step keeps vectors like plain ones.                                 *)
LEMMA NextPlain == PlainInv /\ [Next]_vars => PlainInv'
<1> SUFFICES ASSUME PlainInv, [Next]_vars PROVE PlainInv'
  OBVIOUS
<1>0. UfoInv /\ AltInv /\ AltSeen /\ \A p \in Paths : Sequence(disk[p])
  BY DEF PlainInv, UfoInv, VectorsInv
<1>1. CASE NewUfo
  <2>1. PICK o \in Ids, order \in Orders : New(o, order.source, order.type, order.extent)
    BY <1>1 DEF NewUfo
  <2>2. RIdle /\ disk' = disk /\ UNCHANGED <<disk, altVars, store, stored>>
    BY <1>1 DEF NewUfo
  <2> QED
    BY <1>0, <2>1, <2>2, NewPlain, IdleStep
<1>2. CASE CollectUfo
  <2>1. PICK o \in Ids : Collect(o)
    BY <1>2 DEF CollectUfo
  <2>2. RIdle /\ disk' = disk /\ UNCHANGED <<disk, altVars, store, stored>>
    BY <1>2 DEF CollectUfo
  <2> QED
    BY <1>0, <2>1, <2>2, CollectPlain, IdleStep
<1>3. CASE ReadUfo
  <2>1. PICK t \in Threads, o \in Ids : \E c \in Chunks(o) : Touch(t, o, c)
    BY <1>3 DEF ReadUfo
  <2>2. PICK c \in Chunks(o) : Touch(t, o, c)
    BY <2>1
  <2>3. disk' = disk /\ UNCHANGED <<disk, altVars, store, stored>>
    BY <1>3 DEF ReadUfo
  <2>4. UNCHANGED <<ufo, ideal, changed>>
    BY <2>2 DEF Touch, history
  <2> QED
    BY <1>0, <2>2, <2>3, <2>4, TouchPlain, UfoStep
<1>4. CASE WriteUfo
  <2>1. PICK o \in Bodies, unit \in Written : \E i \in 0..(ufo[o].length - 1) : WriteElement(o, i, unit)
    BY <1>4 DEF WriteUfo
  <2>2. PICK i : WriteElement(o, i, unit)
    BY <2>1
  <2>3. RIdle /\ disk' = disk /\ UNCHANGED <<disk, altVars, store, stored>>
    BY <1>4 DEF WriteUfo
  <2> QED
    BY <1>0, <2>2, <2>3, WritePlain, IdleStep
<1>5. CASE EvictChunk
  <2>1. PICK o \in Bodies : \E c \in DOMAIN mem[o] : Evict(o, c)
    BY <1>5 DEF EvictChunk
  <2>2. PICK c : Evict(o, c)
    BY <2>1
  <2>3. disk' = disk /\ UNCHANGED <<disk, altVars, store, stored>>
    BY <1>5 DEF EvictChunk
  <2>4. o \in Ids /\ UNCHANGED <<ufo, ideal, changed>>
    BY <2>2 DEF Evict, Bodies, history
  <2> QED
    BY <1>0, <2>2, <2>3, <2>4, EvictPlain, UfoStep
<1>6. ASSUME NEW t \in Threads, TakeFault(t) PROVE PlainInv'
  <2>1. PICK w \in Workers : BeginLoad(w, t)
    BY <1>6 DEF TakeFault
  <2>2. disk' = disk /\ UNCHANGED <<disk, altVars, store, stored>>
    BY <1>6 DEF TakeFault
  <2>3. UNCHANGED <<ufo, ideal, changed>>
    BY <2>1 DEF BeginLoad, history
  <2> QED
    BY <1>0, <2>1, <2>2, <2>3, BeginPlain, UfoStep
<1>7. ASSUME NEW w \in Workers, Populate(w) PROVE PlainInv'
  <2>1. PopulateStep(w) /\ disk' = disk /\ UNCHANGED <<disk, altVars, store, stored>>
    BY <1>7 DEF Populate
  <2>2. UNCHANGED <<ufo, ideal, changed>>
    BY <2>1, PopulateChanges
  <2> QED
    BY <1>0, <2>1, <2>2, PopulatePlain, UfoStep
<1>8. CASE NewAlt
  <2>1. RIdle /\ UNCHANGED <<disk, ufoVars, store, stored>>
    BY <1>8 DEF NewAlt
  <2> QED
    BY <1>0, <1>8, <2>1, NewAltPlain, AltOnlyStep
<1>9. CASE UseAlt
  <2>1. RIdle /\ UNCHANGED <<disk, ufoVars, store, stored>>
    BY <1>9 DEF UseAlt
  <2> QED
    BY <1>0, <1>9, <2>1, UseAltPlain, AltOnlyStep
<1>10. CASE Store
  BY <1>10, StorePlain
<1>11. CASE UNCHANGED vars
  <2>1. /\ UNCHANGED <<disk, altVars, store, stored>>
        /\ disk' = disk /\ UNCHANGED ufoVars
    BY <1>11 DEF vars
  <2>2. UNCHANGED <<ufo, ideal, changed>>
    BY <2>1 DEF ufoVars, history
  <2> QED
    BY <1>0, <2>1, <2>2, UfoKept, UfoStep
<1> QED
  BY <1>1, <1>2, <1>3, <1>4, <1>5, <1>6, <1>7, <1>8, <1>9, <1>10, <1>11 DEF Next

(* A resident chunk of a UFO that no other population overlapped, and what   *)
(* is read from an ALTREP vector, are what a plain vector of the same source *)
(* would hold, whatever was evicted, reloaded, written or stored meanwhile.  *)
THEOREM SpecLikePlainVector == Spec => []LikePlainVector
<1>1. PlainInv => LikePlainVector
  <2> SUFFICES ASSUME PlainInv PROVE LikePlainVector
    OBVIOUS
  <2>1. UfoLikePlain
    BY DEF PlainInv, UfoInv
  <2>2. ASSUME NEW a \in AltIds \ altStale
        PROVE  /\ alt[a] # Gone /\ alt[a].filled => SameAsPlain(a, 0, alt[a].payload)
               /\ seen.id = a => SameAsPlain(a, seen.first, seen.elements)
    <3>1. seen.id = a => SameAsPlain(a, seen.first, seen.elements)
      BY <2>2 DEF PlainInv, AltSeen
    <3>2. ASSUME alt[a] # Gone, alt[a].filled PROVE SameAsPlain(a, 0, alt[a].payload)
      <4>1. AltFresh(disk, alt[a], altIdeal[a])
        BY <2>2, <3>2 DEF PlainInv, AltInv
      <4> QED
        BY <3>2, <4>1, Agreement DEF AltFresh
    <3> QED
      BY <3>1, <3>2
  <2> QED
    BY <2>1, <2>2 DEF UfoLikePlain, LikePlainVector
<1> QED
  BY InitPlain, NextPlain, <1>1, PTL DEF Spec

(* A file that ufo_store_bin has written holds the vector it was written     *)
(* from, also when the vector reads from that file, unless a chunk of it was *)
(* populated by two workers at once or holds one of the Wrong elements.      *)
THEOREM SpecStoredIsVector == Spec => []StoredIsVector
<1>1. PlainInv => StoredIsVector
  BY DEF PlainInv, StoreInv, StoredIsVector
<1> QED
  BY InitPlain, NextPlain, <1>1, PTL DEF Spec
=============================================================================
