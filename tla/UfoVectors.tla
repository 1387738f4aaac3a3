----------------------------- MODULE UfoVectors -----------------------------
(***************************************************************************)
(* Vectors that are UFOs: binary files, sequences and empty vectors of      *)
(* ufovectors (ufo_vectors.c, bin/io.c, ufo_seq.c, ufo_empty.c) and how     *)
(* they are made and collected in ufos (ufos.c).                            *)
(*                                                                         *)
(* The framework is abstracted to what UfoCore promises: a thread that      *)
(* touches an absent chunk waits, one worker populates the chunk, which is  *)
(* then resident; a chunk nobody wrote to may be evicted and is populated   *)
(* again. A vector's populations share one FILE, and each call of stdio is  *)
(* atomic on its own.                                                       *)
(***************************************************************************)
EXTENDS VectorSources

CONSTANTS
    Ids,            \* vectors that may exist at a time
    LoadCount,      \* min_load_count: elements of a chunk
    Threads,        \* threads that read vectors: R's and those of libraries
    Workers,        \* threads of the populate pool
    Orders,         \* vectors R may make: [source, type, extent], the length R is told
    Written         \* units R may store

ASSUME LoadCountAssumption == LoadCount \in Nat \ {0}
ASSUME IdsAssumption == IsFiniteSet(Ids)
ASSUME OrdersAssumption ==
    \A order \in Orders :
        /\ order.type \in Types
        /\ \/ order.source.kind = "file" /\ order.source.path \in Paths
           \/ order.source.kind = "seq" /\ IntSequence(order.source)
           \/ order.source.kind = "empty" /\ order.extent \in Nat

VARIABLES
    ufo,        \* [Ids -> Absent or [source, type, length, shape]]
    mem,        \* [Ids -> [resident chunk -> its elements]]
    dirty,      \* [Ids -> chunks R wrote to]
    pos,        \* [Ids -> position of the vector's FILE]
    files,      \* FILEs open for UFOs
    wants,      \* [Threads -> Nothing or the chunk the thread waits for]
    load,       \* [Workers -> Resting or the population under way]
    ideal,      \* [Ids -> what a plain R vector would hold]  (history)
    changed,    \* vectors whose file was rewritten  (history)
    refused,    \* vectors of which a population failed that had overlapped another  (history)
    spoiled,    \* chunks populated while either was the case  (history)
    lost        \* FILEs that nothing will close any more  (history)

history == <<ideal, changed, refused, spoiled, lost>>
ufoVars == <<ufo, mem, dirty, pos, files, wants, load, history>>

Absent == [shape |-> "absent"]
Nothing == [step |-> "none"]
Resting == [step |-> "rest"]

ChunkOf(i) == i \div LoadCount
First(c) == c * LoadCount
End(o, c) == IF First(c + 1) > ufo[o].length THEN ufo[o].length ELSE First(c + 1)
Chunks(o) == 0..ChunkOf(ufo[o].length - 1)

Bodies == {o \in Ids : ufo[o].shape = "body"}

UfoInit ==
    /\ ufo = [o \in Ids |-> Absent]
    /\ mem = [o \in Ids |-> <<>>]
    /\ dirty = [o \in Ids |-> {}]
    /\ pos = [o \in Ids |-> 0]
    /\ files = 0
    /\ wants = [t \in Threads |-> Nothing]
    /\ load = [w \in Workers |-> Resting]
    /\ ideal = [o \in Ids |-> <<>>]
    /\ changed = {} /\ refused = {} /\ spoiled = {}
    /\ lost = 0

-----------------------------------------------------------------------------
(* What the population function of a source stores when it is not disturbed. *)
Produced(source, type, first, end) ==
    CASE source.kind = "file"  -> FromFile(source.path, type, first, end)
      [] source.kind = "seq"   -> SeqTerms(source, type, first, end)
      [] OTHER                 -> EmptyValues(source, type, first, end)

SourceLength(source, type, extent) ==
    CASE source.kind = "file"  -> FileLength(source.path, type)
      [] source.kind = "seq"   -> SeqLength(source)
      [] OTHER                 -> extent

(* The plain vector: readBin, seq, or rep of the value.                      *)
Plain(source, type, length) ==
    CASE source.kind = "file"  -> FromFile(source.path, type, 0, length)
      [] source.kind = "seq"   -> [i \in 1..length |-> <<Term(source, i - 1)>>]
      [] OTHER                 -> [i \in 1..length |-> [u \in 1..ElementSize[type] |->
                                      IF source.fill = "na" THEN NaFill ELSE 0]]

Make(o, record, chunks, source, type) ==
    /\ ufo' = [ufo EXCEPT ![o] = record]
    /\ mem' = [mem EXCEPT ![o] = chunks]
    /\ ideal' = [ideal EXCEPT ![o] = Plain(source, type, record.length)]

(* __make_source_or_die opens the file, ufo_new or ufo_new_multidim make the *)
(* vector. R makes a scalar of some types without the allocator, which is    *)
(* populated at once and never destroyed, and only when the file has one     *)
(* element; an allocation that is smaller than the source is refused, and    *)
(* leaves the file open. A source without elements is the subject of         *)
(* UfoGeometry.                                                              *)
New(o, source, type, extent) ==
    LET length == SourceLength(source, type, extent)
        opened == IF source.kind = "file" THEN 1 ELSE 0
        scalar == extent = 1 /\ type \in Scalarised
        record == [source |-> source, type |-> type, length |-> length,
                   shape |-> IF scalar THEN "scalar" ELSE "body"]
    IN /\ ufo[o] = Absent
       /\ source.kind = "file" => WholeElements(source.path, type)
       /\ length > 0
       /\ source.kind # "file" => extent = length
       /\ files' = files + opened
       /\ IF ~scalar /\ extent < length
          THEN /\ lost' = lost + opened
               /\ UNCHANGED <<ufo, mem, ideal>>
          ELSE /\ lost' = lost + IF scalar THEN opened ELSE 0
               /\ Make(o, record,
                       IF ~scalar THEN <<>>
                       ELSE IF length = 1 THEN [c \in {0} |-> Produced(source, type, 0, 1)]
                       ELSE [c \in {0} |-> <<<<Garbage>>>>],
                       source, type)
       /\ UNCHANGED <<dirty, pos, wants, load, changed, refused, spoiled>>

(* R collects a vector nobody uses. __ufo_free: the destructor closes the    *)
(* file, then the object goes. A scalar has no allocator to call.            *)
InUse(o) ==
    \/ \E t \in Threads : wants[t] # Nothing /\ wants[t].id = o
    \/ \E w \in Workers : load[w] # Resting /\ load[w].id = o

Forget(o) ==
    /\ ufo[o] # Absent
    /\ ~InUse(o)
    /\ ufo' = [ufo EXCEPT ![o] = Absent]
    /\ mem' = [mem EXCEPT ![o] = <<>>]
    /\ dirty' = [dirty EXCEPT ![o] = {}]
    /\ pos' = [pos EXCEPT ![o] = 0]
    /\ ideal' = [ideal EXCEPT ![o] = <<>>]
    /\ changed' = changed \ {o}
    /\ refused' = refused \ {o}
    /\ spoiled' = {s \in spoiled : s[1] # o}
    /\ UNCHANGED <<wants, load, lost>>

CollectLeavingFile(o) == Forget(o) /\ UNCHANGED files

Collect(o) ==
    /\ Forget(o)
    /\ files' = files - IF ufo[o].shape = "body" /\ ufo[o].source.kind = "file" THEN 1 ELSE 0

-----------------------------------------------------------------------------
Resident(o, c) == c \in DOMAIN mem[o]

(* A thread touches a chunk that is not there: the fault waits for a worker. *)
(* Two threads on one chunk are the subject of UfoCore.                      *)
Touch(t, o, c) ==
    /\ o \in Bodies
    /\ wants[t] = Nothing
    /\ c \in Chunks(o)
    /\ ~Resident(o, c)
    /\ \A s \in Threads : wants[s] # Nothing => <<wants[s].id, wants[s].chunk>> # <<o, c>>
    /\ wants' = [wants EXCEPT ![t] = [step |-> "fault", id |-> o, chunk |-> c]]
    /\ UNCHANGED <<ufo, mem, dirty, pos, files, load, history>>

(* R stores to an element that is resident.                                  *)
WriteElement(o, i, unit) ==
    /\ o \in Bodies
    /\ i \in 0..(ufo[o].length - 1)
    /\ Resident(o, ChunkOf(i))
    /\ LET value == [u \in 1..ElementSize[ufo[o].type] |-> unit] IN
       /\ mem' = [mem EXCEPT ![o][ChunkOf(i)][i - First(ChunkOf(i)) + 1] = value]
       /\ ideal' = [ideal EXCEPT ![o][i + 1] = value]
    /\ dirty' = [dirty EXCEPT ![o] = @ \cup {ChunkOf(i)}]
    /\ UNCHANGED <<ufo, pos, files, wants, load, changed, refused, spoiled, lost>>

(* The core discards a chunk whose hash has not changed.                     *)
Evict(o, c) ==
    /\ o \in Bodies
    /\ Resident(o, c)
    /\ c \notin dirty[o]
    /\ mem' = [mem EXCEPT ![o] = [d \in DOMAIN @ \ {c} |-> @[d]]]
    /\ UNCHANGED <<ufo, dirty, pos, files, wants, load, history>>

(* A worker takes a fault. Two populations of one vector at a time overlap.  *)
BeginLoad(w, t) ==
    /\ load[w] = Resting
    /\ wants[t].step = "fault"
    /\ LET o == wants[t].id
           others == {v \in Workers : load[v] # Resting /\ load[v].id = o}
       IN load' = [v \in Workers |->
            IF v = w THEN [step |-> IF ufo[o].source.kind = "file" THEN "end" ELSE "compute",
                           id |-> o, chunk |-> wants[t].chunk, for |-> t, alone |-> others = {}]
            ELSE IF v \in others THEN [load[v] EXCEPT !.alone = FALSE] ELSE load[v]]
    /\ wants' = [wants EXCEPT ![t].step = "taken"]
    /\ UNCHANGED <<ufo, mem, dirty, pos, files, history>>

(* The population has succeeded: the chunk is resident, the thread goes on.  *)
Deliver(w, elements) ==
    /\ mem' = [mem EXCEPT ![load[w].id] =
                [c \in DOMAIN @ \cup {load[w].chunk} |->
                    IF c = load[w].chunk THEN elements ELSE @[c]]]
    /\ wants' = [wants EXCEPT ![load[w].for] = Nothing]
    /\ load' = [load EXCEPT ![w] = Resting]
    /\ LET it == <<load[w].id, load[w].chunk>> IN
       spoiled' = IF load[w].alone /\ load[w].id \notin changed THEN spoiled \ {it}
                  ELSE spoiled \cup {it}
    /\ UNCHANGED refused

(* It has failed: the worker ends, the pool has another, the thread waits.   *)
Fail(w) ==
    /\ load' = [load EXCEPT ![w] = Resting]
    /\ refused' = IF load[w].alone THEN refused ELSE refused \cup {load[w].id}
    /\ UNCHANGED <<mem, wants, spoiled>>

(* Sequences and empty vectors.                                              *)
Compute(w) ==
    /\ load[w].step = "compute"
    /\ LET o == load[w].id IN
       Deliver(w, Produced(ufo[o].source, ufo[o].type, First(load[w].chunk), End(o, load[w].chunk)))
    /\ UNCHANGED <<ufo, dirty, pos, files, ideal, changed, lost>>

(* __load_from_file, one call of stdio at a time.                            *)
Size(w) == ElementSize[ufo[load[w].id].type]

SeekEnd(w) ==
    /\ load[w].step = "end"
    /\ pos' = [pos EXCEPT ![load[w].id] = Len(disk[ufo[load[w].id].source.path])]
    /\ load' = [load EXCEPT ![w].step = "tell"]
    /\ UNCHANGED <<ufo, mem, dirty, files, wants, history>>

TellRefusingEnd(w) ==
    /\ load[w].step = "tell"
    /\ LET o == load[w].id
           size == pos[o]
       IN IF Size(w) * First(load[w].chunk) > size \/ Size(w) * End(o, load[w].chunk) >= size
          THEN Fail(w)
          ELSE load' = [load EXCEPT ![w].step = "seek"] /\ UNCHANGED <<mem, wants, refused, spoiled>>
    /\ UNCHANGED <<ufo, dirty, pos, files, ideal, changed, lost>>

(* ftell, and the tests that give 42 and 43.                                 *)
Tell(w) ==
    /\ load[w].step = "tell"
    /\ LET o == load[w].id
           size == pos[o]
       IN IF Size(w) * First(load[w].chunk) > size \/ Size(w) * End(o, load[w].chunk) > size
          THEN Fail(w)
          ELSE load' = [load EXCEPT ![w].step = "seek"] /\ UNCHANGED <<mem, wants, refused, spoiled>>
    /\ UNCHANGED <<ufo, dirty, pos, files, ideal, changed, lost>>

Seek(w) ==
    /\ load[w].step = "seek"
    /\ pos' = [pos EXCEPT ![load[w].id] = Size(w) * First(load[w].chunk)]
    /\ load' = [load EXCEPT ![w].step = "read"]
    /\ UNCHANGED <<ufo, mem, dirty, files, wants, history>>

(* fread, and the test that gives 44.                                        *)
Read(w) ==
    /\ load[w].step = "read"
    /\ LET o == load[w].id
           wanted == Size(w) * (End(o, load[w].chunk) - First(load[w].chunk))
           file == disk[ufo[o].source.path]
           found == SubSeq(file, pos[o] + 1, pos[o] + wanted)
       IN /\ pos' = [pos EXCEPT ![o] = @ + IF pos[o] + wanted <= Len(file) THEN wanted
                                           ELSE IF pos[o] > Len(file) THEN 0 ELSE Len(file) - pos[o]]
          /\ IF pos[o] + wanted > Len(file)
             THEN Fail(w)
             ELSE Deliver(w, [i \in 1..(wanted \div Size(w)) |->
                                 SubSeq(found, Size(w) * (i - 1) + 1, Size(w) * i)])
    /\ UNCHANGED <<ufo, dirty, files, ideal, changed, lost>>

PopulateStep(w) == Compute(w) \/ SeekEnd(w) \/ Tell(w) \/ Seek(w) \/ Read(w)
=============================================================================
