---------------------------- MODULE AltrepVectors ---------------------------
(***************************************************************************)
(* The ALTREP counterpart, ufoaltrep/src/altrep_ufo_vectors.c and           *)
(* altrep_seq.c: vectors over binary files and sequences that R's ALTREP    *)
(* framework calls back. Everything happens on R's thread. A vector reads   *)
(* its elements one by one until somebody asks for its memory; then it is   *)
(* materialised: the payload holds the data from then on.                   *)
(*                                                                         *)
(* Of the file vectors the integer and logical ones are here: the other     *)
(* classes are made as integer classes with methods of other types, whose   *)
(* results are read from the wrong registers.                               *)
(***************************************************************************)
EXTENDS VectorSources

CONSTANTS
    AltIds,         \* vectors that may exist at a time
    AltSeqs,        \* sequences R may make: [source, type]
    AltWritten      \* units R may store

ASSUME AltIdsAssumption == IsFiniteSet(AltIds)
ASSUME AltSeqsAssumption ==
    \A order \in AltSeqs : order.source.kind = "seq" /\ IntSequence(order.source)
ASSUME IntAssumption == "INT" \in Types

VARIABLES
    alt,        \* [AltIds -> Gone or [source, type, length, handle, payload, filled]]
    altFiles,   \* FILEs open for ALTREP vectors
    broken,     \* R has crashed
    seen,       \* what the last step read, if it read one element: [id, first, elements]
    altIdeal,   \* [AltIds -> what a plain R vector would hold]  (history)
    altStale    \* vectors that read from a file that has changed  (history)

altVars == <<alt, altFiles, broken, seen, altIdeal, altStale>>

Gone == [handle |-> "gone"]
Nowhere == [id |-> "nothing", first |-> 0, elements |-> <<>>]

AltInit ==
    /\ alt = [a \in AltIds |-> Gone]
    /\ altFiles = 0
    /\ broken = FALSE
    /\ seen = Nowhere
    /\ altIdeal = [a \in AltIds |-> <<>>]
    /\ altStale = {}

AltVector(source, type, length) ==
    [source |-> source, type |-> type, length |-> length,
     handle |-> IF source.kind = "file" THEN "open" ELSE "none",
     payload |-> <<>>, filled |-> FALSE]

-----------------------------------------------------------------------------
(* ufo_vector_new_altrep and seq_new.                                        *)
AltNewFile(a, p) ==
    /\ ~broken
    /\ alt[a] = Gone
    /\ WholeElements(p, "INT") /\ disk[p] # <<>>
    /\ alt' = [alt EXCEPT ![a] = AltVector(FileSource(p), "INT", FileLength(p, "INT"))]
    /\ altFiles' = altFiles + 1
    /\ altIdeal' = [altIdeal EXCEPT ![a] = FromFile(p, "INT", 0, FileLength(p, "INT"))]
    /\ seen' = Nowhere
    /\ UNCHANGED <<broken, altStale>>

AltNewSeq(a, s, type) ==
    /\ ~broken
    /\ alt[a] = Gone
    /\ alt' = [alt EXCEPT ![a] = AltVector(s, type, SeqLength(s))]
    /\ altIdeal' = [altIdeal EXCEPT ![a] = [i \in 1..SeqLength(s) |-> <<Term(s, i - 1)>>]]
    /\ seen' = Nowhere
    /\ UNCHANGED <<altFiles, broken, altStale>>

(* ufo_vector_duplicate and seq_duplicate. The copy of a file vector has no  *)
(* file and no finalizer. A payload is copied as integers; that of a numeric *)
(* sequence is not one, which is an error and no copy.                       *)
AltDuplicate(a, b) ==
    /\ ~broken
    /\ alt[a] # Gone
    /\ alt[b] = Gone
    /\ ~(alt[a].filled /\ alt[a].type = "REAL")
    /\ alt' = [alt EXCEPT ![b] = [alt[a] EXCEPT !.handle =
                    IF alt[a].source.kind = "file" THEN "unset" ELSE "none"]]
    /\ altIdeal' = [altIdeal EXCEPT ![b] = altIdeal[a]]
    /\ altStale' = IF a \in altStale THEN altStale \cup {b} ELSE altStale
    /\ seen' = Nowhere
    /\ UNCHANGED <<altFiles, broken>>

(* ufo_vector_finalize_altrep; a sequence has nothing to close.              *)
AltForget(a) ==
    /\ ~broken
    /\ alt[a] # Gone
    /\ alt' = [alt EXCEPT ![a] = Gone]
    /\ altIdeal' = [altIdeal EXCEPT ![a] = <<>>]
    /\ altStale' = altStale \ {a}
    /\ seen' = Nowhere
    /\ UNCHANGED broken

AltFinalizeLeavingFile(a) == AltForget(a) /\ UNCHANGED altFiles

AltFinalize(a) ==
    /\ AltForget(a)
    /\ altFiles' = altFiles - IF alt[a].handle = "open" THEN 1 ELSE 0

-----------------------------------------------------------------------------
(* Reading through a FILE pointer that was never set crashes.                *)
Unreadable(a) == alt[a].source.kind = "file" /\ alt[a].handle = "unset"

(* What a method finds for elements first..end-1 of a vector that is not     *)
(* materialised. A failed load leaves what was there: nobody looks at the    *)
(* status. One element of a sequence is computed with signed numbers.        *)
AltLoad(v, first, end) ==
    IF LoadStatus(v.source.path, v.type, first, end) = 0
    THEN FromFile(v.source.path, v.type, first, end)
    ELSE [i \in 1..(end - first) |-> <<Garbage>>]

AltOneElement(v, i) ==
    IF v.source.kind = "file" THEN AltLoad(v, i, i + 1) ELSE <<<<Term(v.source, i)>>>>

AltAllElements(v) ==
    IF v.source.kind = "file" THEN AltLoad(v, 0, v.length)
    ELSE SeqTerms(v.source, v.type, 0, v.length)

MaterialisedAnew(v) == [v EXCEPT !.payload = AltAllElements(v), !.filled = TRUE]

(* __materialize_data behind Dataptr and Dataptr_or_null: once.              *)
Materialised(v) ==
    IF v.filled THEN v ELSE [v EXCEPT !.payload = AltAllElements(v), !.filled = TRUE]

(* ufo_integer_element and the other Elt methods.                            *)
AltElement(a, i) ==
    /\ ~broken
    /\ alt[a] # Gone
    /\ i \in 0..(alt[a].length - 1)
    /\ IF ~alt[a].filled /\ Unreadable(a)
       THEN broken' = TRUE /\ UNCHANGED seen
       ELSE /\ seen' = [id |-> a, first |-> i, elements |->
                        IF alt[a].filled THEN <<alt[a].payload[i + 1]>> ELSE AltOneElement(alt[a], i)]
            /\ UNCHANGED broken
    /\ UNCHANGED <<alt, altFiles, altIdeal, altStale>>

(* R asks for the memory to read all of it; R's own GET_REGION does so too,  *)
(* because Dataptr_or_null never answers NULL.                               *)
AltData(a) ==
    /\ ~broken
    /\ alt[a] # Gone
    /\ IF ~alt[a].filled /\ Unreadable(a)
       THEN broken' = TRUE /\ UNCHANGED alt
       ELSE LET v == Materialised(alt[a]) IN
            /\ alt' = [alt EXCEPT ![a] = v]
            /\ UNCHANGED broken
    /\ seen' = Nowhere
    /\ UNCHANGED <<altFiles, altIdeal, altStale>>

(* R asks for the memory and stores an element.                              *)
AltWrite(a, i, unit) ==
    /\ ~broken
    /\ alt[a] # Gone
    /\ i \in 0..(alt[a].length - 1)
    /\ IF ~alt[a].filled /\ Unreadable(a)
       THEN broken' = TRUE /\ UNCHANGED <<alt, altIdeal>>
       ELSE LET v == Materialised(alt[a]) IN
            /\ alt' = [alt EXCEPT ![a] = [v EXCEPT !.payload[i + 1] = <<unit>>]]
            /\ altIdeal' = [altIdeal EXCEPT ![a][i + 1] = <<unit>>]
            /\ UNCHANGED broken
    /\ seen' = Nowhere
    /\ UNCHANGED <<altFiles, altStale>>

(* The file of some vectors changes: those that read from it are stale.      *)
AltFileChanges(p) ==
    altStale' = altStale \cup
        {a \in AltIds : alt[a] # Gone /\ ~alt[a].filled /\ alt[a].source.kind = "file"
                        /\ alt[a].source.path = p}
=============================================================================
