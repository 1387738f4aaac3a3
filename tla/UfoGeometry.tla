----------------------------- MODULE UfoGeometry -----------------------------
(***************************************************************************)
(* Where the bytes of an object are (ufos/rust/ufos_core/src/              *)
(* ufo_objects.rs, math.rs and bitwise_spinlock.rs): the padding of header *)
(* and body to pages, the chunks that are loaded at once, the elements a   *)
(* populate function is asked for, and the temporary file with a bitmap of *)
(* written-back chunks, the chunks' lock bits, and the data.               *)
(*                                                                         *)
(* One object is followed byte by byte while its chunks are loaded,        *)
(* evicted and read back.  A byte of the array stands for itself: byte b   *)
(* is in its place when position b of the body holds the number b.         *)
(***************************************************************************)
EXTENDS Integers, FiniteSetsExt

CONSTANTS
  Page,       (* Bytes of a page.                                           *)
  Prototypes, (* [header, stride, count, minLoad] of the objects: bytes of  *)
              (* header and element, elements, elements to load at least.   *)
  MaxLoaded,  (* Bound: chunks in memory at the same time.                  *)
  MaxWritten, (* Bound: chunks in the file at the same time.                *)
  Missing,    (* A byte whose page is not in memory.                        *)
  Stale       (* A byte nobody has written: what a buffer or file had.      *)

ASSUME GeometryAssumption ==
  /\ Page \in Nat \ {0}
  /\ \A p \in Prototypes : /\ p.header \in Nat
                           /\ {p.stride, p.count, p.minLoad} \subseteq Nat \ {0}
  /\ {MaxLoaded, MaxWritten} \subseteq Nat
  /\ {Missing, Stale} \cap Nat = {} /\ Missing # Stale

VARIABLES
  cfg, wb,  (* The object's UfoObjectConfig and UfoFileWriteback.           *)
  mem,      (* The bytes of the body.                                       *)
  chunks,   (* The UfoChunks of the loaded chunks.                          *)
  bitmap,   (* The bits of the file's bitmap that are set.                  *)
  file      (* The bytes of the file.                                       *)

vars == <<cfg, wb, mem, chunks, bitmap, file>>
-----------------------------------------------------------------------------
(* math.rs.                                                                 *)

UpToNearest(x, n)   == ((x + n - 1) \div n) * n
DownToNearest(x, n) == (x \div n) * n
DivCeil(x, n)       == (x + n - 1) \div n

Divides(d, n) == n % d = 0
Lcm(a, b) == Min({m \in 1..(a * b) : Divides(a, m) /\ Divides(b, m)})
Coprime(a, b) == \A d \in 2..b : ~(Divides(d, a) /\ Divides(d, b))

(* Broken variant: only pages count, not elements.                          *)
WholePages(p) == UpToNearest(p.stride * p.minLoad, Page)

(* The least number of bytes that is whole pages and whole multiples of the *)
(* elements to load at least.                                               *)
LoadBytes(p) == Lcm(Page, p.stride * p.minLoad)

(* UfoObjectConfig::new_config.                                             *)
NewConfig(p) ==
  LET header == UpToNearest(p.header, Page)
  IN [header |-> header,
      true   |-> header + UpToNearest(p.stride * p.count, Page),
      stride |-> p.stride,
      count  |-> p.count,
      atOnce |-> LoadBytes(p) \div p.stride]

LoadSize == cfg.atOnce * cfg.stride
Body     == 0..(cfg.true - cfg.header - 1)
-----------------------------------------------------------------------------
(* The temporary file: bitmap, lock bits, data.                             *)

(* Broken variant: the last chunk is stored with the size it has.           *)
ExactData(bytes, chunk) == bytes

(* A chunk that is read back is read in full.                               *)
DataBytes(bytes, chunk) == UpToNearest(bytes, chunk)

(* Broken variant: chunks that are far apart share a bit.                   *)
AlwaysDefault(ct) == 512

(* Bitlock::new: neighbours are spread over the cache lines, and no two     *)
(* chunks meet because the multiplier and the number of bits are coprime.   *)
Multiplier(ct) == Min({m \in 512..(512 + ct) : Coprime(m, ct)})

(* UfoFileWriteback::new; the lock bits take as much room as the bitmap.    *)
NewWriteback(c) ==
  LET load   == c.atOnce * c.stride
      ct     == DivCeil(c.count, c.atOnce)
      bitmapBytes == UpToNearest(DivCeil(ct, 8), Page)
  IN [ct |-> ct,
      header |-> 2 * bitmapBytes,
      total  |-> 2 * bitmapBytes + DataBytes(c.count * c.stride, load),
      multiplier |-> Multiplier(ct)]

(* A bit, as the byte and the place in it.                                  *)
BitAt(n) == <<n \div 8, n % 8>>

LockBit(n) == BitAt((n * wb.multiplier) % wb.ct)
-----------------------------------------------------------------------------
(* Loading and eviction.                                                    *)

Init ==
  /\ cfg \in {NewConfig(p) : p \in Prototypes}
  /\ wb = NewWriteback(cfg)
  /\ mem = [b \in Body |-> Missing]
  /\ chunks = {}
  /\ bitmap = {}
  /\ file = [i \in 0..(wb.total - 1) |-> Stale]

ChunkNumber(b) == b \div LoadSize

(* Broken variant: the load starts at the page that is missing.             *)
PageStart(b) == DownToNearest(b, Page)

ChunkStart(b) == DownToNearest(b, LoadSize)

(* The elements the populate function is asked for.                         *)
First(b)  == ChunkStart(b) \div cfg.stride

(* Broken variant: the object is taken to end where the chunk does.         *)
LoadEnd(b) == First(b) + cfg.atOnce

PopEnd(b) == Min({First(b) + cfg.atOnce, cfg.count})

(* Broken variant: only pages that are full of elements are copied.         *)
FullPages(b) == DownToNearest((PopEnd(b) - First(b)) * cfg.stride, Page)

PopulateSize(b) == Min({LoadSize, cfg.true - (cfg.header + ChunkStart(b))})

(* What the worker's buffer holds when the populate function has written    *)
(* its elements to the front of it.                                         *)
Populated(b) ==
  [i \in 0..(LoadSize - 1) |->
     IF i < (PopEnd(b) - First(b)) * cfg.stride THEN First(b) * cfg.stride + i ELSE Stale]

(* try_readback; a read behind the end of the file finds anything.          *)
ReadBack(b) ==
  [i \in 0..(LoadSize - 1) |->
     LET p == wb.header + ChunkStart(b) + i
     IN IF p \in DOMAIN file THEN file[p] ELSE Stale]

RawData(b) == IF BitAt(ChunkNumber(b)) \in bitmap THEN ReadBack(b) ELSE Populated(b)

(* A fault at byte b of the body: the copied bytes are those of the chunk   *)
(* the byte is in.                                                          *)
Load(b) ==
  LET start == ChunkStart(b)
      size  == PopulateSize(b)
      data  == RawData(b)
  IN /\ mem[b] = Missing
     /\ Cardinality(chunks) < MaxLoaded
     /\ mem' = [a \in Body |-> IF a \in start..(start + size - 1)
                               THEN data[a - start] ELSE mem[a]]
     /\ chunks' = chunks \cup {[number |-> ChunkNumber(b), at |-> start, length |-> size]}
     /\ UNCHANGED <<cfg, wb, bitmap, file>>

(* Whole pages are moved out of the object.                                 *)
Removed(c) == c.at..(c.at + UpToNearest(c.length, Page) - 1)

(* free_and_writeback_dirty: only full chunks are accepted by writeback.    *)
Evict(c, dirty) ==
  LET pos == wb.header + c.at
      expected == Min({LoadSize, wb.total - pos})
  IN /\ c \in chunks
     /\ chunks' = chunks \ {c}
     /\ mem' = [a \in Body |-> IF a \in Removed(c) THEN Missing ELSE mem[a]]
     /\ IF dirty /\ c.length = expected
        THEN /\ bitmap' = bitmap \cup {BitAt(c.number)}
             /\ Cardinality(bitmap') <= MaxWritten
             /\ file' = [i \in DOMAIN file |->
                           IF i \in pos..(pos + expected - 1) THEN mem[c.at + i - pos] ELSE file[i]]
        ELSE UNCHANGED <<bitmap, file>>
     /\ UNCHANGED <<cfg, wb>>

(* reset_internal: the body and the whole file are discarded.               *)
Reset ==
  /\ mem' = [b \in Body |-> Missing]
  /\ chunks' = {}
  /\ bitmap' = {}
  /\ file' = [i \in DOMAIN file |-> Stale]
  /\ UNCHANGED <<cfg, wb>>

Next ==
  \/ \E b \in Body : Load(b)
  \/ \E c \in chunks, dirty \in BOOLEAN : Evict(c, dirty)
  \/ Reset

Spec == Init /\ [][Next]_vars
-----------------------------------------------------------------------------
ArrayBytes == 0..(cfg.count * cfg.stride - 1)

(* Every byte of the array that is in memory is the byte that belongs       *)
(* there, however its chunk was cut, populated, written and read back       *)
(* (ufo_core.rs:321-337, 359; ufo_objects.rs:151-153, 523, 556).            *)
BytesInPlace == \A b \in ArrayBytes : mem[b] \in {Missing, b}

(* What the kernel demands of a copy: whole pages, inside the mapping, none *)
(* of them in memory yet (ufo_core.rs:372-380, ufo_objects.rs:322).         *)
CopySucceeds ==
  \A b \in Body : mem[b] = Missing =>
    LET range == ChunkStart(b)..(ChunkStart(b) + PopulateSize(b) - 1)
    IN /\ Divides(Page, cfg.header + ChunkStart(b)) /\ Divides(Page, PopulateSize(b))
       /\ range \subseteq Body
       /\ \A a \in range : mem[a] = Missing

(* The thread that faulted finds its byte: it would fault for ever.         *)
FaultServed == [][\A b \in Body : Load(b) => mem'[b] # Missing]_vars

(* Populate functions are asked for one element at least, and for none that *)
(* does not exist.                                                          *)
ElementsExist == \A b \in Body : First(b) < PopEnd(b) /\ PopEnd(b) <= cfg.count

(* No two chunks share a lock bit, and the lock bits, like the bitmap's,    *)
(* stay in the bytes reserved for them (ufo_objects.rs:473, 527).           *)
BitsApart ==
  \A m, n \in 0..(wb.ct - 1) :
    /\ LockBit(m) = LockBit(n) => m = n
    /\ LockBit(n)[1] < wb.header \div 2 /\ BitAt(n)[1] < wb.header \div 2

(* Reading a chunk back does not leave the file (ufo_objects.rs:567), and   *)
(* nothing but data is where the data is.                                   *)
FileHoldsChunks ==
  /\ \A b \in Body : wb.header + ChunkStart(b) + LoadSize <= wb.total
  /\ \A i \in DOMAIN file : file[i] # Stale => i >= wb.header
==============================================================================
