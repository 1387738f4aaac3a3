---------------------------- MODULE VectorSession ---------------------------
(***************************************************************************)
(* R working with UFO and ALTREP vectors over the same files: it makes,     *)
(* reads, writes, copies, stores and collects vectors on its own thread,    *)
(* while library threads may read UFOs and workers populate them.           *)
(***************************************************************************)
EXTENDS UfoVectors, AltrepVectors

CONSTANTS
    RThread,
    Room, UfoRoom,  \* vectors at a time
    MaxStores       \* files written in a behaviour

ASSUME RThreadAssumption == RThread \in Threads

VARIABLES
    store,      \* ufo_store_bin under way: [id, path, next], and whether it is clean so far
    stored      \* the file written last and the vector it was written from  (history)

vars == <<disk, ufoVars, altVars, store, stored>>

NoStore == [id |-> "none"]

CONSTANT Disk0
ASSUME DiskAssumption == Disk0 \in [Paths -> Seq(Int)]

Init ==
    /\ disk = Disk0
    /\ UfoInit /\ AltInit
    /\ store = NoStore
    /\ stored = [times |-> 0, path |-> "none", right |-> TRUE]

RIdle == ~broken /\ store = NoStore /\ wants[RThread] = Nothing

(* A bound: a UFO takes the room of UfoRoom ALTREP vectors, and a file left   *)
(* open for good that of one.                                                *)
Taken == UfoRoom * Cardinality({o \in Ids : ufo[o] # Absent})
         + Cardinality({a \in AltIds : alt[a] # Gone}) + lost

(* A double of a sequence below zero is a large number, and a complex NA is  *)
(* none: the two values a population gets wrong.                             *)
Wrong(source, type, element) ==
    \/ source.kind = "seq" /\ type = "REAL" /\ element[1] < 0
    \/ source.kind = "empty" /\ type = "CPLX" /\ element[1] = NaFill

-----------------------------------------------------------------------------
(* The file of some vectors changes.                                         *)
UfoFileChanges(p) ==
    changed' = changed \cup {o \in Bodies : ufo[o].source.kind = "file" /\ ufo[o].source.path = p}

(* ufo_store_bin of a UFO: fopen empties the file, then fwrite takes the     *)
(* bytes from the vector's memory, which faults where it is absent.          *)
BeginStore(o, p) ==
    /\ RIdle
    /\ stored.times < MaxStores
    /\ o \in Bodies
    /\ disk' = [disk EXCEPT ![p] = <<>>]
    /\ UfoFileChanges(p) /\ AltFileChanges(p)
    /\ store' = [id |-> o, path |-> p, next |-> 0, clean |-> TRUE]
    /\ UNCHANGED <<ufo, mem, dirty, pos, files, wants, load, ideal, refused, spoiled, lost,
                   alt, altFiles, broken, seen, altIdeal, stored>>

StoreFault ==
    /\ store # NoStore
    /\ Touch(RThread, store.id, store.next)
    /\ UNCHANGED <<disk, altVars, store, stored>>

StoreChunk ==
    LET o == store.id
        p == store.path
        clean == store.clean /\ <<o, store.next>> \notin spoiled
    IN /\ store # NoStore
       /\ Resident(o, store.next)
       /\ disk' = [disk EXCEPT ![p] =
                     @ \o UnitsIn(mem[o][store.next], ElementSize[ufo[o].type])]
       /\ IF store.next + 1 \in Chunks(o)
          THEN store' = [store EXCEPT !.next = @ + 1, !.clean = clean] /\ UNCHANGED stored
          ELSE /\ store' = NoStore
               /\ stored' = [times |-> stored.times + 1, path |-> p,
                             right |-> \/ ~clean
                                       \/ \E i \in DOMAIN ideal[o] :
                                             Wrong(ufo[o].source, ufo[o].type, ideal[o][i])
                                       \/ disk'[p] = UnitsIn(ideal[o], ElementSize[ufo[o].type])]
       /\ UNCHANGED <<ufoVars, altVars>>

OpenedFirst(v, p) ==
    IF ~v.filled /\ v.source.kind = "file" /\ v.source.path = p
    THEN [v EXCEPT !.payload = [i \in 1..v.length |-> <<Garbage>>], !.filled = TRUE]
    ELSE Materialised(v)

ToStore(v, p) == Materialised(v)

(* ufo_store_bin of an ALTREP vector: DATAPTR_RO materialises it before the  *)
(* file is opened.                                                           *)
AltStore(a, p) ==
    /\ RIdle
    /\ stored.times < MaxStores
    /\ alt[a] # Gone
    /\ alt[a].filled \/ ~Unreadable(a)
    /\ LET v == ToStore(alt[a], p) IN
       /\ alt' = [alt EXCEPT ![a] = v]
       /\ disk' = [disk EXCEPT ![p] = UnitsIn(v.payload, 1)]
       /\ stored' = [times |-> stored.times + 1, path |-> p,
                     right |-> \/ a \in altStale
                               \/ \E i \in DOMAIN altIdeal[a] : Wrong(v.source, v.type, altIdeal[a][i])
                               \/ disk'[p] = UnitsIn(altIdeal[a], 1)]
       /\ altStale' = altStale \cup
            {b \in AltIds \ {a} : alt[b] # Gone /\ ~alt[b].filled /\ alt[b].source.kind = "file"
                                  /\ alt[b].source.path = p}
    /\ UfoFileChanges(p)
    /\ seen' = Nowhere
    /\ UNCHANGED <<ufo, mem, dirty, pos, files, wants, load, ideal, refused, spoiled, lost,
                   altFiles, broken, altIdeal, store>>

-----------------------------------------------------------------------------
NewUfo ==
    /\ RIdle /\ Taken + UfoRoom <= Room
    /\ \E o \in Ids, order \in Orders : New(o, order.source, order.type, order.extent)
    /\ UNCHANGED <<disk, altVars, store, stored>>

CollectUfo ==
    /\ RIdle
    /\ \E o \in Ids : Collect(o)
    /\ UNCHANGED <<disk, altVars, store, stored>>

ReadUfo ==
    /\ \E t \in Threads, o \in Ids : o \in Bodies /\ \E c \in Chunks(o) :
          (t = RThread => RIdle) /\ Touch(t, o, c)
    /\ UNCHANGED <<disk, altVars, store, stored>>

WriteUfo ==
    /\ RIdle
    /\ \E o \in Bodies, unit \in Written : \E i \in 0..(ufo[o].length - 1) : WriteElement(o, i, unit)
    /\ UNCHANGED <<disk, altVars, store, stored>>

EvictChunk ==
    /\ \E o \in Bodies : \E c \in DOMAIN mem[o] : Evict(o, c)
    /\ UNCHANGED <<disk, altVars, store, stored>>

TakeFault(t) ==
    /\ \E w \in Workers : BeginLoad(w, t)
    /\ UNCHANGED <<disk, altVars, store, stored>>

Populate(w) ==
    /\ PopulateStep(w)
    /\ UNCHANGED <<disk, altVars, store, stored>>

NewAlt ==
    /\ RIdle /\ Taken < Room
    /\ \E a \in AltIds :
        \/ \E p \in Paths : AltNewFile(a, p)
        \/ \E order \in AltSeqs : AltNewSeq(a, order.source, order.type)
        \/ \E b \in AltIds : AltDuplicate(b, a)
    /\ UNCHANGED <<disk, ufoVars, store, stored>>

UseAlt ==
    /\ RIdle
    /\ \E a \in AltIds : alt[a] # Gone /\
        \/ AltFinalize(a)
        \/ AltData(a)
        \/ \E i \in 0..(alt[a].length - 1) :
              AltElement(a, i) \/ \E unit \in AltWritten : AltWrite(a, i, unit)
    /\ UNCHANGED <<disk, ufoVars, store, stored>>

Store ==
    \/ \E o \in Ids, p \in Paths : BeginStore(o, p)
    \/ StoreFault
    \/ StoreChunk
    \/ \E a \in AltIds, p \in Paths : AltStore(a, p)

Next ==
    \/ NewUfo \/ CollectUfo \/ ReadUfo \/ WriteUfo \/ EvictChunk
    \/ \E t \in Threads : TakeFault(t)
    \/ \E w \in Workers : Populate(w)
    \/ NewAlt \/ UseAlt \/ Store

(* A worker that has begun goes on. The faults wait in the userfaultfd in     *)
(* the order they were raised, so none is passed over for ever.              *)
Fairness ==
    /\ \A w \in Workers : WF_vars(Populate(w))
    /\ \A t \in Threads : SF_vars(TakeFault(t))

Spec == Init /\ [][Next]_vars /\ Fairness

-----------------------------------------------------------------------------
SameAsPlain(a, first, elements) ==
    \A i \in DOMAIN elements :
        LET element == altIdeal[a][first + i] IN
        elements[i] = element \/ Wrong(alt[a].source, alt[a].type, element)

(* Whatever was evicted, reloaded, written, copied or materialised in        *)
(* between, a resident chunk of a UFO and what is read from an ALTREP vector *)
(* are what a plain R vector of the source would hold, for every chunk that  *)
(* no other population overlapped and whose file is still the one the vector *)
(* was made from (__load_from_file, populate_*_seq, __populate_empty).       *)
LikePlainVector ==
    /\ \A o \in Bodies : \A c \in DOMAIN mem[o] : <<o, c>> \notin spoiled =>
          \A i \in First(c)..(End(o, c) - 1) :
             \/ mem[o][c][i - First(c) + 1] = ideal[o][i + 1]
             \/ Wrong(ufo[o].source, ufo[o].type, ideal[o][i + 1])
    /\ \A a \in AltIds \ altStale :
          /\ alt[a] # Gone /\ alt[a].filled => SameAsPlain(a, 0, alt[a].payload)
          /\ seen.id = a => SameAsPlain(a, seen.first, seen.elements)

(* A file that was stored completely holds the vector it was stored from,    *)
(* even when it is the file the vector reads from (ufo_store_bin).           *)
StoredIsVector == stored.right

(* Every open file belongs to a vector that will close it, but those of      *)
(* scalars and of matrices that were refused, which stay open                *)
(* (__destroy, ufo_vector_finalize_altrep, __make_source_or_die).            *)
FilesAccounted ==
    /\ files = lost + Cardinality({o \in Bodies : ufo[o].source.kind = "file"})
    /\ altFiles = Cardinality({a \in AltIds : alt[a] # Gone /\ alt[a].handle = "open"})

(* A thread that touches a chunk gets it, unless the vector's file has       *)
(* changed or another population made this one fail (__load_from_file).      *)
ReadsReturn ==
    \A t \in Threads : []<>(\/ wants[t] = Nothing
                            \/ wants[t].id \in changed \cup refused)
=============================================================================
