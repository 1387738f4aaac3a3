------------------------------- MODULE UfoCore -------------------------------
(***************************************************************************)
(* The core of the UFO framework (ufos/rust/ufos_core/src/ufo_core.rs and  *)
(* ufo_objects.rs): application threads touch virtual memory and call the  *)
(* API, a pool of worker threads serves the page faults, one message loop  *)
(* allocates, resets and frees objects.                                    *)
(*                                                                         *)
(* A UFO is a set of chunks, the unit of loading and of eviction.  The     *)
(* content of a chunk is one value: the model does not look inside it.     *)
(* A step of a thread ends where the code takes or releases a lock, copies *)
(* into user memory, or waits; whatever happens under one uninterrupted    *)
(* hold of the state mutex, and cannot be observed before it is released,  *)
(* is one step.                                                            *)
(***************************************************************************)
EXTENDS Integers, SequencesExt

CONSTANTS
  Mutators,   (* Application threads.                                      *)
  Workers,    (* Threads of the populate pool that exist at the same time. *)
  Ufos,       (* Object identifiers.                                       *)
  Chunks,     (* Chunks of all objects.                                    *)
  UfoOf,      (* The object a chunk belongs to.                            *)
  Size,       (* Bytes of a chunk inside its object (populate_size).       *)
  LoadSize,   (* Bytes of a full chunk of an object (load_size).           *)
  ReadOnly,   (* Objects created with read_only.                           *)
  Needs,      (* The chunk a populate function reads, None if it reads no  *)
              (* other UFO.                                                *)
  Faulty,     (* Chunks whose populate function returns an error.          *)
  Touches,    (* The chunks a mutator accesses.                            *)
  Owns,       (* The objects a mutator allocates, resets and frees.        *)
  Written,    (* Values a mutator may write.                               *)
  Orig,       (* What every populate function produces.                    *)
  HighWater, LowWater,
  Ops,        (* API calls made in the instance, a subset of ApiOps.       *)
  MaxQueue,   (* Bound: length of the queue at which no object is reset or *)
              (* freed any more, as each time leaves dead entries behind.  *)
  None, NoOne, MsgLoop

(* Free is ufo_free of the C API; FreeHandle and Drop are the free method   *)
(* and the destructor of the Rust UfoHandle.                                *)
ApiOps == {"Allocate", "Reset", "Free", "FreeHandle", "Drop", "Shutdown"}
FreeOps == {"Free", "FreeHandle", "Drop"}
Values == Written \cup {Orig}
ChunksOf(u) == {c \in Chunks : UfoOf[c] = u}

ASSUME SortAssumption ==
  /\ None \notin Values \cup Chunks \cup Ufos
  /\ Workers \cap (Values \cup {None}) = {}
  /\ NoOne \notin Workers \cup Mutators \cup {MsgLoop}
  /\ MsgLoop \notin Workers \cup Mutators
  /\ Workers \cap Mutators = {}
  /\ Workers \cap Nat = {}
ASSUME ShapeAssumption ==
  /\ UfoOf \in [Chunks -> Ufos]
  /\ Size \in [Chunks -> Nat \ {0}]
  /\ LoadSize \in [Ufos -> Nat \ {0}]
  /\ \A c \in Chunks : Size[c] <= LoadSize[UfoOf[c]]
  /\ Needs \in [Chunks -> Chunks \cup {None}]
  /\ ReadOnly \subseteq Ufos
  /\ Faulty \subseteq Chunks
  /\ Touches \in [Mutators -> SUBSET Chunks]
  /\ Owns \in [Mutators -> SUBSET Ufos]
  /\ Ops \subseteq ApiOps
  /\ MaxQueue \in Nat
(* ufo_core.rs:278 asserts this before every load; ufo_new_core gives      *)
(* low < high.                                                             *)
ASSUME WatermarkAssumption ==
  /\ HighWater \in Nat
  /\ LowWater \in Nat
  /\ \A u \in Ufos : LoadSize[u] + LowWater < HighWater

VARIABLES
  mem,      (* Resident content of a chunk, None when its pages are missing.*)
  back,     (* Written-back content in the temporary file, None if unset.   *)
  live,     (* Objects known to the core (objects_by_id and _by_segment).   *)
  loaded,   (* The queue loaded_chunks.                                     *)
  used,     (* used_memory.                                                 *)
  victims,  (* Chunks popped by the eviction in progress.                   *)
  st,       (* Holder of the state mutex.                                   *)
  poisoned, (* The state mutex is poisoned.                                 *)
  rd, wr,   (* Readers and writer of each object's RwLock.                  *)
  bit,      (* Holder of each chunk's bit in the object's Bitlock.          *)
  wpc, wchunk, raw,   (* Worker: where it is, its chunk, the data it read.  *)
  want,     (* The missing chunk a thread is blocked on.                    *)
  unread,   (* Threads whose fault event nobody read from the userfaultfd.  *)
  acc,      (* The access a mutator is executing.                           *)
  api,      (* The API call a mutator is in.                                *)
  mlpc, msg, keys     (* Message loop: where it is, the message, the        *)
                      (* objects a shutdown has still to free.              *)

memVars  == <<mem, back, live>>
coreVars == <<loaded, used, victims>>
lockVars == <<st, poisoned, rd, wr, bit>>
workVars == <<wpc, wchunk, raw>>
mutVars  == <<want, unread, acc, api>>
msgVars  == <<mlpc, msg, keys>>
vars == <<memVars, coreVars, lockVars, workVars, mutVars, msgVars>>

Threads == Mutators \cup Workers
WorkerPcs == {"idle", "lookup", "read", "evict", "spin", "fill", "copy", "add",
              "hash", "exit", "dead"}
(* Where a worker is inside populate_impl and holds its object's read lock. *)
ReadPcs == {"evict", "spin", "fill", "copy", "add", "hash"}

(* A queue entry: live until its length is taken away, and with the hash of *)
(* the loaded data, or the worker that has still to provide the hash.       *)
Entry  == [chunk : Chunks, live : BOOLEAN, hash : Values \cup {None} \cup Workers]
Victim == [entry : Entry, stage : {"todo", "pivot", "done", "error"},
           data : Values \cup {None}]
Call   == [op : ApiOps, ufo : Ufos, pc : {"guard", "send", "wait"}]
NoAccess == [chunk |-> None, val |-> None]
NoMsg    == [op |-> "none", ufo |-> None, from |-> NoOne]
NoCall   == [op |-> "none", ufo |-> None, pc |-> "none"]

EntrySize(e) == IF e.live THEN Size[e.chunk] ELSE 0
TotalSize(q) ==
  LET sum[n \in 0..Len(q)] == IF n = 0 THEN 0 ELSE sum[n - 1] + EntrySize(q[n])
  IN  sum[Len(q)]

MemTypes ==
  /\ mem  \in [Chunks -> Values \cup {None}]
  /\ back \in [Chunks -> Values \cup {None}]
  /\ live \in [Ufos -> BOOLEAN]
(* The type of "used" is not stated here: UsedIsQueued says what it is.      *)
CoreTypes ==
  /\ loaded \in Seq(Entry)
  /\ victims \in Seq(Victim)
LockTypes ==
  /\ st \in Workers \cup {MsgLoop, NoOne}
  /\ poisoned \in BOOLEAN
  /\ rd \in [Ufos -> SUBSET (Workers \cup Nat)]
  /\ wr \in [Ufos -> Mutators \cup {NoOne}]
  /\ bit \in [Chunks -> Workers \cup {NoOne}]
WorkTypes ==
  /\ wpc \in [Workers -> WorkerPcs]
  /\ wchunk \in [Workers -> Chunks \cup {None}]
  /\ raw \in [Workers -> Values \cup {None}]
  /\ \A w \in Workers : wchunk[w] = None <=> wpc[w] \in {"idle", "exit"}
MutTypes ==
  /\ want \in [Threads -> Chunks \cup {None}]
  /\ unread \subseteq {t \in Threads : want[t] # None}
  /\ acc \in [Mutators -> [chunk : Chunks, val : Values \cup {None}] \cup {NoAccess}]
  /\ api \in [Mutators -> Call \cup {NoCall}]
MsgTypes ==
  /\ mlpc \in {"recv", "lock", "apply", "next", "closed", "dead"}
  /\ msg \in [op : ApiOps \cup {"Purge", "none"}, ufo : Ufos \cup {None},
              from : Mutators \cup {NoOne}]
  /\ keys \subseteq Ufos
TypeOK == MemTypes /\ CoreTypes /\ LockTypes /\ WorkTypes /\ MutTypes /\ MsgTypes

Init ==
  /\ mem = [c \in Chunks |-> None]
  /\ back = [c \in Chunks |-> None]
  /\ live = [u \in Ufos |-> FALSE]
  /\ loaded = <<>> /\ used = 0 /\ victims = <<>>
  /\ st = NoOne /\ poisoned = FALSE
  /\ rd = [u \in Ufos |-> {}]
  /\ wr = [u \in Ufos |-> NoOne]
  /\ bit = [c \in Chunks |-> NoOne]
  /\ wpc = [w \in Workers |-> "idle"]
  /\ wchunk = [w \in Workers |-> None]
  /\ raw = [w \in Workers |-> None]
  /\ want = [t \in Threads |-> None]
  /\ unread = {}
  /\ acc = [m \in Mutators |-> NoAccess]
  /\ api = [m \in Mutators |-> NoCall]
  /\ mlpc = "recv"
  /\ msg = NoMsg
  /\ keys = {}
------------------------------------------------------------------------------
(* Application threads.                                                     *)

Idle(m) == acc[m] = NoAccess /\ api[m] = NoCall

(* Use after free is the application's error, not a behaviour of interest:  *)
(* an object is freed only when nobody uses it or is about to.              *)
BeingFreed(u) ==
  \/ \E m \in Mutators : \/ api[m].op \in FreeOps /\ api[m].ufo = u
                         \/ api[m].op = "Shutdown"
  \/ mlpc \in {"lock", "apply"} /\ msg.op \in FreeOps /\ msg.ufo = u
Usable(u) == live[u] /\ ~BeingFreed(u)
DependsOn(c, u) == Needs[c] # None /\ UfoOf[Needs[c]] = u
Unused(u) ==
  /\ \A m \in Mutators : acc[m] # NoAccess => UfoOf[acc[m].chunk] # u
  /\ \A m \in Mutators : api[m].ufo # u
  /\ \A c \in Chunks : DependsOn(c, u) => UfoOf[c] = u \/ ~live[UfoOf[c]]

(* A load (v = None) or a store: it completes when the page is present and  *)
(* otherwise raises a fault, whose event waits in the userfaultfd.          *)
Attempt(m, c, v) ==
  \/ /\ mem[c] # None
     /\ mem' = [mem EXCEPT ![c] = IF v = None THEN @ ELSE v]
     /\ acc' = [acc EXCEPT ![m] = NoAccess]
     /\ UNCHANGED <<want, unread>>
  \/ /\ mem[c] = None
     /\ acc' = [acc EXCEPT ![m] = [chunk |-> c, val |-> v]]
     /\ want' = [want EXCEPT ![m] = c]
     /\ unread' = unread \cup {m}
     /\ UNCHANGED mem

Touch(m, c, v) ==
  /\ Idle(m)
  /\ Usable(UfoOf[c])
  /\ v # None => UfoOf[c] \notin ReadOnly
  /\ Attempt(m, c, v)
  /\ UNCHANGED <<back, live, coreVars, lockVars, workVars, api, msgVars>>

(* A woken thread executes the faulting instruction again.                  *)
Retry(m) ==
  /\ acc[m] # NoAccess
  /\ want[m] = None
  /\ Attempt(m, acc[m].chunk, acc[m].val)
  /\ UNCHANGED <<back, live, coreVars, lockVars, workVars, api, msgVars>>

(* allocate_ufo and shutdown send their message without any lock;           *)
(* UfoHandle's reset, free and drop lock the object for writing first.      *)
BeginCall(m, op, u) ==
  /\ Idle(m)
  /\ op \in FreeOps \cup {"Reset"} => Len(loaded) < MaxQueue
  /\ op = "Allocate" => /\ ~live[u]
                        /\ \A n \in Mutators : api[n].ufo # u
                        /\ mlpc # "closed"
                        /\ \A c \in ChunksOf(u) :
                              Needs[c] # None => UfoOf[Needs[c]] = u \/ Usable(UfoOf[Needs[c]])
  /\ op = "Reset" => Usable(u)
  /\ op \in FreeOps => Usable(u) /\ Unused(u)
  /\ op = "Shutdown" => /\ \A v \in Ufos : live[v] => Unused(v)
                        /\ \A n \in Mutators : api[n] = NoCall
                        /\ mlpc # "closed"
  /\ api' = [api EXCEPT ![m] = [op |-> op, ufo |-> u, pc |->
                 IF op \in {"Allocate", "Shutdown"} THEN "send" ELSE "guard"]]
  /\ UNCHANGED <<memVars, coreVars, lockVars, workVars, want, unread, acc, msgVars>>

(* Broken variant: a read lock is taken instead.                            *)
TakeReadGuard(m) ==
  /\ api[m].pc = "guard"
  /\ wr[api[m].ufo] = NoOne
  /\ api' = [api EXCEPT ![m].pc = "send"]
  /\ UNCHANGED <<memVars, coreVars, workVars, want, unread, acc, msgVars, lockVars>>

(* self.ufo.write(): the guard lives until the message is handed over.      *)
TakeGuard(m) ==
  /\ api[m].pc = "guard"
  /\ rd[api[m].ufo] = {}
  /\ wr[api[m].ufo] = NoOne
  /\ wr' = [wr EXCEPT ![api[m].ufo] = m]
  /\ api' = [api EXCEPT ![m].pc = "send"]
  /\ UNCHANGED <<memVars, coreVars, workVars, want, unread, acc, msgVars,
                 st, poisoned, rd, bit>>

(* free(self) consumes the handle, so that its destructor runs when it      *)
(* returns, with or without an error.                                       *)
Return(m) == IF api[m].op = "FreeHandle"
             THEN [api[m] EXCEPT !.op = "Drop", !.pc = "guard"] ELSE NoCall

(* Broken variant: the guard survives the call.                             *)
KeepGuard(m) == UNCHANGED wr

DropGuard(m) == wr' = [u \in Ufos |-> IF wr[u] = m THEN NoOne ELSE wr[u]]

(* The channel has no capacity: send returns when the loop receives.  Then  *)
(* the guard is dropped; only a handle's drop does not wait for the answer. *)
Send(m) ==
  /\ api[m].pc = "send"
  /\ mlpc = "recv"
  /\ msg' = [op |-> api[m].op, ufo |-> api[m].ufo, from |-> m]
  /\ mlpc' = "lock"
  /\ DropGuard(m)
  /\ api' = [api EXCEPT ![m] = IF @.op = "Drop" THEN NoCall ELSE [@ EXCEPT !.pc = "wait"]]
  /\ UNCHANGED <<memVars, coreVars, workVars, want, unread, acc, keys,
                 st, poisoned, rd, bit>>

(* The receiver is gone: the send fails and the call returns the error.     *)
SendFails(m) ==
  /\ api[m].pc = "send"
  /\ mlpc \in {"closed", "dead"}
  /\ DropGuard(m)
  /\ api' = [api EXCEPT ![m] = Return(m)]
  /\ UNCHANGED <<memVars, coreVars, workVars, want, unread, acc, msgVars,
                 st, poisoned, rd, bit>>
------------------------------------------------------------------------------
(* The message loop.                                                        *)

(* The WaitGroup or promise of the message is dropped: its sender goes on.  *)
Answer ==
  /\ api' = [m \in Mutators |->
               IF m = msg.from /\ api[m].pc = "wait" THEN Return(m) ELSE api[m]]
  /\ msg' = NoMsg

(* expect() on an error: the message loop panics.  The state mutex is not   *)
(* held any more, an error returns through its scope before.                *)
LoopPanics ==
  /\ mlpc' = "dead"
  /\ Answer
  /\ UNCHANGED keys

(* get_locked_state.                                                        *)
LoopLock ==
  /\ mlpc = "lock"
  /\ st = NoOne
  /\ IF poisoned THEN LoopPanics /\ UNCHANGED st
                 ELSE /\ st' = MsgLoop
                      /\ mlpc' = "apply"
                      /\ UNCHANGED <<msg, keys, api>>
  /\ UNCHANGED <<memVars, coreVars, poisoned, rd, wr, bit, workVars,
                 want, unread, acc>>

(* Broken variant: the bitmap of written-back chunks is not cleared.        *)
BlankPagesOnly(u) ==
  /\ mem'  = [c \in Chunks |-> IF UfoOf[c] = u THEN None ELSE mem[c]]
  /\ UNCHANGED back

(* No page and no written-back data of the object.                          *)
Blank(u) ==
  /\ mem'  = [c \in Chunks |-> IF UfoOf[c] = u THEN None ELSE mem[c]]
  /\ back' = [c \in Chunks |-> IF UfoOf[c] = u THEN None ELSE back[c]]

(* allocate_impl: a new mapping, a new temporary file, both maps.           *)
LoopAllocate ==
  /\ mlpc = "apply"
  /\ msg.op = "Allocate"
  /\ live' = [live EXCEPT ![msg.ufo] = TRUE]
  /\ Blank(msg.ufo)
  /\ st' = NoOne
  /\ mlpc' = "recv"
  /\ Answer
  /\ UNCHANGED <<coreVars, poisoned, rd, wr, bit, workVars, want, unread, acc, keys>>

Forgotten(e) == [e EXCEPT !.live = FALSE, !.hash = None]

(* Broken variants: used_memory is not computed anew, the entries are kept. *)
KeepUsed(u) ==
  /\ loaded' = [i \in DOMAIN loaded |->
                  IF UfoOf[loaded[i].chunk] = u THEN Forgotten(loaded[i]) ELSE loaded[i]]
  /\ UNCHANGED used
KeepUfoChunks(u) == UNCHANGED <<loaded, used>>

(* drop_ufo_chunks: the entries stay in the queue and weigh nothing; nobody *)
(* asks for their hash again.                                               *)
DropUfoChunks(u) ==
  /\ loaded' = [i \in DOMAIN loaded |->
                  IF UfoOf[loaded[i].chunk] = u THEN Forgotten(loaded[i]) ELSE loaded[i]]
  /\ used' = TotalSize(loaded')

(* reset_impl: under the state mutex and the object's write lock the body   *)
(* is discarded and the whole temporary file, lock bits included, punched.  *)
LoopReset ==
  /\ mlpc = "apply"
  /\ msg.op = "Reset"
  /\ live[msg.ufo]
  /\ rd[msg.ufo] = {} /\ wr[msg.ufo] = NoOne
  /\ Blank(msg.ufo)
  /\ bit'  = [c \in Chunks |-> IF UfoOf[c] = msg.ufo THEN NoOne ELSE bit[c]]
  /\ DropUfoChunks(msg.ufo)
  /\ st' = NoOne
  /\ mlpc' = "recv"
  /\ Answer
  /\ UNCHANGED <<live, victims, poisoned, rd, wr, workVars, want, unread, acc,
                 keys>>

(* free_impl, for a Free message, a handle's drop and a shutdown.  What is  *)
(* left of the mapping and the file is out of the core's reach from here.   *)
LoopFree ==
  /\ mlpc = "apply"
  /\ msg.op \in FreeOps \cup {"Purge"}
  /\ live[msg.ufo]
  /\ rd[msg.ufo] = {} /\ wr[msg.ufo] = NoOne
  /\ live' = [live EXCEPT ![msg.ufo] = FALSE]
  /\ Blank(msg.ufo)
  /\ DropUfoChunks(msg.ufo)
  /\ st' = NoOne
  /\ mlpc' = IF msg.op = "Purge" THEN "next" ELSE "recv"
  /\ IF msg.op = "Purge" THEN UNCHANGED <<api, msg>> ELSE Answer
  /\ UNCHANGED <<victims, poisoned, rd, wr, bit, workVars, want, unread, acc, keys>>

(* The object is unknown: "unknown ufo", "No such Ufo".                     *)
LoopUnknown ==
  /\ mlpc = "apply"
  /\ msg.op \in FreeOps \cup {"Reset", "Purge"}
  /\ ~live[msg.ufo]
  /\ st' = NoOne
  /\ LoopPanics
  /\ UNCHANGED <<memVars, coreVars, poisoned, rd, wr, bit, workVars,
                 want, unread, acc>>

(* shutdown_impl: collect the ids, then free them one by one, then tell the *)
(* pool, close the channel and let the caller go on.                        *)
LoopCollect ==
  /\ mlpc = "apply"
  /\ msg.op = "Shutdown"
  /\ keys' = {u \in Ufos : live[u]}
  /\ st' = NoOne
  /\ mlpc' = "next"
  /\ UNCHANGED <<memVars, coreVars, poisoned, rd, wr, bit, workVars, mutVars, msg>>

LoopNextKey(u) ==
  /\ mlpc = "next"
  /\ u \in keys
  /\ keys' = keys \ {u}
  /\ msg' = [msg EXCEPT !.op = "Purge", !.ufo = u]
  /\ mlpc' = "lock"
  /\ UNCHANGED <<memVars, coreVars, lockVars, workVars, mutVars>>

LoopClose ==
  /\ mlpc = "next"
  /\ keys = {}
  /\ mlpc' = "closed"
  /\ Answer
  /\ UNCHANGED <<memVars, coreVars, lockVars, workVars, want, unread, acc, keys>>
------------------------------------------------------------------------------
(* Worker threads: populate_loop and populate_impl.                         *)

Object(w) == UfoOf[wchunk[w]]
Goto(w, l) == wpc' = [wpc EXCEPT ![w] = l]

(* read_event: only a thread that is in the pool's waiting read.  What the  *)
(* pool guarantees about that is the subject of PopulatePool.               *)
ReadEvent(w, t) ==
  /\ wpc[w] = "idle"
  /\ t \in unread
  /\ unread' = unread \ {t}
  /\ wchunk' = [wchunk EXCEPT ![w] = want[t]]
  /\ Goto(w, "lookup")
  /\ UNCHANGED <<memVars, coreVars, lockVars, raw, want, acc, api, msgVars>>

(* The pool is shut down and the userfaultfd closed.                        *)
WorkerExit(w) ==
  /\ wpc[w] = "idle"
  /\ mlpc = "closed"
  /\ Goto(w, "exit")
  /\ UNCHANGED <<memVars, coreVars, lockVars, wchunk, raw, mutVars, msgVars>>

(* A panic ends the thread and runs the guards' destructors: read locks are *)
(* released without poisoning, a state mutex that is held is poisoned.      *)
Panic(w) ==
  /\ Goto(w, "dead")
  /\ rd' = [u \in Ufos |-> rd[u] \ {w}]
  /\ UNCHANGED <<memVars, wr, wchunk, raw, mutVars, msgVars>>

(* Lines 312-319: lock the state, find the object by address and keep both. *)
(* An object that was freed meanwhile is not found: "explodey time", with   *)
(* the state mutex held.                                                    *)
LockState(w) ==
  /\ wpc[w] = "lookup"
  /\ st = NoOne
  /\ IF poisoned \/ ~live[Object(w)]
     THEN /\ Panic(w)
          /\ poisoned' = TRUE
          /\ UNCHANGED <<st, bit, coreVars>>
     ELSE /\ st' = w
          /\ Goto(w, "read")
          /\ UNCHANGED <<memVars, coreVars, poisoned, rd, wr, bit, wchunk, raw,
                         mutVars, msgVars>>

(* Bytes in the first n entries of the queue.                               *)
Prefix(n) == TotalSize(SubSeq(loaded, 1, n))

(* free_until_low_water_mark pops the oldest entries until the rest fits    *)
(* under the low mark.                                                      *)
Suffices(n) ==
  /\ used - Prefix(n) <= LowWater
  /\ \A k \in 0..(n - 1) : used - Prefix(k) > LowWater

AtStage(e, s, d) == [entry |-> e, stage |-> s, data |-> d]
NewVictim(e) == AtStage(e, IF e.live THEN "todo" ELSE "done", None)

(* Broken variant: asks whether the high mark is exceeded before the load.  *)
AlreadyOver(u) == used > HighWater

(* ensure_capcity.                                                          *)
NeedsRoom(u) == LoadSize[u] + used > HighWater

(* Broken variant: the object is not kept locked.                           *)
NoReadGuard(u, holder) == UNCHANGED rd

ReadGuard(u, holder) == rd' = [rd EXCEPT ![u] = @ \cup {holder}]

(* Broken variant: the state mutex stays locked during the load.            *)
LoadUnderLock == UNCHANGED st

(* Line 344: unlock the state "before loading so that UFOs can be           *)
(* recursive".                                                              *)
UnlockToLoad == st' = NoOne

(* Lines 319-345: take the object's read lock, which waits for a writer     *)
(* while the state mutex stays locked, then ensure_capcity.                 *)
EnsureCapacity(w) ==
  /\ wpc[w] = "read"
  /\ wr[Object(w)] = NoOne
  /\ ReadGuard(Object(w), w)
  /\ IF NeedsRoom(Object(w))
     THEN /\ \E n \in 0..Len(loaded) :
                /\ Suffices(n)
                /\ victims' = [i \in 1..n |-> NewVictim(loaded[i])]
                /\ loaded' = SubSeq(loaded, n + 1, Len(loaded))
          /\ Goto(w, "evict")
          /\ UNCHANGED st
     ELSE /\ UnlockToLoad
          /\ Goto(w, "spin")
          /\ UNCHANGED <<victims, loaded>>
  /\ UNCHANGED <<memVars, used, poisoned, wr, bit, wchunk, raw, mutVars, msgVars>>

(* free_and_writeback_dirty, one rayon task per victim, in any order.  A    *)
(* read-only chunk is dropped.  Any other is moved to the pivot mapping     *)
(* under its chunk bit; finding the bit taken is an error.                  *)
Punch(w, i) ==
  LET v == victims[i]
      c == v.entry.chunk
      u == UfoOf[c]
      To(s, d) == victims' = [victims EXCEPT ![i] = AtStage(v.entry, s, d)]
  IN /\ wpc[w] = "evict"
     /\ i \in DOMAIN victims
     /\ v.stage = "todo"
     /\ wr[u] = NoOne
     /\ \/ /\ u \in ReadOnly
           /\ To("done", None)
           /\ mem' = [mem EXCEPT ![c] = None]
           /\ UNCHANGED <<bit, rd>>
        \/ /\ u \notin ReadOnly /\ bit[c] = NoOne
           /\ To("pivot", mem[c])
           /\ mem' = [mem EXCEPT ![c] = None]
           /\ bit' = [bit EXCEPT ![c] = w]
           /\ ReadGuard(u, i)
        \/ /\ u \notin ReadOnly /\ bit[c] # NoOne
           /\ To("error", None)
           /\ UNCHANGED <<mem, bit, rd>>
     /\ UNCHANGED <<back, live, loaded, used, st, poisoned, wr, workVars, mutVars, msgVars>>

(* writeback refuses data shorter than a full chunk, and its caller drops   *)
(* the error (ufo_objects.rs:398 and 534).                                  *)
Accepted(c) == Size[c] = LoadSize[UfoOf[c]]

(* Wait for the hash of the loaded data; a different hash means the chunk   *)
(* is dirty and its data goes to the temporary file.  The hash is the value.*)
WriteBack(w, i) ==
  LET v == victims[i]
      c == v.entry.chunk
  IN /\ wpc[w] = "evict"
     /\ i \in DOMAIN victims
     /\ v.stage = "pivot"
     /\ v.entry.hash \notin Workers
     /\ back' = IF v.data # v.entry.hash /\ Accepted(c)
                THEN [back EXCEPT ![c] = v.data] ELSE back
     /\ bit' = [bit EXCEPT ![c] = NoOne]
     /\ rd' = [rd EXCEPT ![UfoOf[c]] = @ \ {i}]
     /\ victims' = [victims EXCEPT ![i] = AtStage(v.entry, "done", None)]
     /\ UNCHANGED <<mem, live, loaded, used, st, poisoned, wr, workVars, mutVars, msgVars>>

VictimSize == TotalSize([i \in DOMAIN victims |-> victims[i].entry])

(* All tasks are done: account for them, unlock the state (line 344).  An   *)
(* error of any task is unwrapped with the state mutex held.                *)
EvictDone(w) ==
  /\ wpc[w] = "evict"
  /\ \A i \in DOMAIN victims : victims[i].stage \in {"done", "error"}
  /\ victims' = <<>>
  /\ IF \E i \in DOMAIN victims : victims[i].stage = "error"
     THEN /\ poisoned' = TRUE
          /\ st' = NoOne
          /\ Panic(w)
          /\ UNCHANGED used
     ELSE /\ UnlockToLoad
          /\ used' = used - VictimSize
          /\ Goto(w, "spin")
          /\ UNCHANGED <<memVars, poisoned, rd, wr, wchunk, raw, mutVars, msgVars>>
  /\ UNCHANGED <<loaded, bit>>

(* The chunk's bit of the Bitlock.                                          *)
SpinLock(w) ==
  /\ wpc[w] = "spin"
  /\ bit[wchunk[w]] = NoOne
  /\ bit' = [bit EXCEPT ![wchunk[w]] = w]
  /\ Goto(w, "fill")
  /\ UNCHANGED <<memVars, coreVars, st, poisoned, rd, wr, wchunk, raw, mutVars, msgVars>>

(* A populate function that reads another UFO whose page is missing faults  *)
(* like any other thread.                                                   *)
FaultWhilePopulating(w) ==
  LET d == Needs[wchunk[w]]
  IN /\ wpc[w] = "fill"
     /\ back[wchunk[w]] = None
     /\ want[w] = None
     /\ d # None
     /\ mem[d] = None
     /\ want' = [want EXCEPT ![w] = d]
     /\ unread' = unread \cup {w}
     /\ UNCHANGED <<memVars, coreVars, lockVars, workVars, acc, api, msgVars>>

Loaded(c) == IF back[c] = None THEN Orig ELSE back[c]

(* try_readback, or else the populate function; the chunk's bit is released *)
(* before the data is copied into place (line 370).                         *)
Fill(w) ==
  LET c == wchunk[w]
      d == Needs[c]
  IN /\ wpc[w] = "fill"
     /\ want[w] = None
     /\ back[c] = None /\ d # None => mem[d] # None
     /\ bit' = [bit EXCEPT ![c] = NoOne]
     /\ IF back[c] = None /\ c \in Faulty
        THEN /\ Panic(w)
             /\ UNCHANGED <<coreVars, st, poisoned>>
        ELSE /\ raw' = [raw EXCEPT ![w] = Loaded(c)]
             /\ Goto(w, "copy")
             /\ UNCHANGED <<memVars, coreVars, st, poisoned, rd, wr, wchunk, mutVars, msgVars>>

(* Broken variant: the event of a thread that was woken is left in the file.*)
WakeOnly(c) ==
  /\ want' = [t \in Threads |-> IF want[t] = c THEN None ELSE want[t]]
  /\ UNCHANGED unread

Wake(c) ==
  /\ want' = [t \in Threads |-> IF want[t] = c THEN None ELSE want[t]]
  /\ unread' = {t \in unread : want[t] # c}

(* UFFDIO_COPY fails if the page is present, otherwise it installs the page *)
(* and wakes every thread that faulted on it, read event or not.            *)
Copy(w) ==
  LET c == wchunk[w]
  IN /\ wpc[w] = "copy"
     /\ IF mem[c] # None
        THEN Panic(w) /\ UNCHANGED <<coreVars, st, poisoned, bit>>
        ELSE /\ mem' = [mem EXCEPT ![c] = raw[w]]
             /\ Wake(c)
             /\ Goto(w, "add")
             /\ UNCHANGED <<back, live, coreVars, lockVars, wchunk, raw, acc, api,
                            msgVars>>

(* Lines 387-392.                                                           *)
AddChunk(w) ==
  LET e == [chunk |-> wchunk[w], live |-> TRUE, hash |-> w]
  IN /\ wpc[w] = "add"
     /\ st = NoOne
     /\ IF poisoned
        THEN Panic(w) /\ UNCHANGED <<st, poisoned, bit, coreVars>>
        ELSE /\ loaded' = Append(loaded, e)
             /\ used' = used + EntrySize(e)
             /\ Goto(w, "hash")
             /\ UNCHANGED <<memVars, victims, lockVars, wchunk, raw, mutVars, msgVars>>

(* Broken variant: what is hashed is the page the application may have      *)
(* changed by now.                                                          *)
HashOfPage(w) == IF Object(w) \in ReadOnly THEN None ELSE mem[wchunk[w]]

HashOf(w) == IF Object(w) \in ReadOnly THEN None ELSE raw[w]

(* Lines 394-400: publish the hash, wherever the chunk is by now, and leave *)
(* populate_impl.                                                           *)
Hash(w) ==
  LET Fulfil(e) == IF e.hash = w THEN [e EXCEPT !.hash = HashOf(w)] ELSE e
  IN /\ wpc[w] = "hash"
     /\ loaded' = [i \in DOMAIN loaded |-> Fulfil(loaded[i])]
     /\ victims' = [i \in DOMAIN victims |-> [victims[i] EXCEPT !.entry = Fulfil(@)]]
     /\ rd' = [rd EXCEPT ![Object(w)] = @ \ {w}]
     /\ Goto(w, "idle")
     /\ wchunk' = [wchunk EXCEPT ![w] = None]
     /\ raw' = [raw EXCEPT ![w] = None]
     /\ UNCHANGED <<memVars, used, st, poisoned, wr, bit, mutVars, msgVars>>
------------------------------------------------------------------------------
MutatorStep(m) ==
  \/ \E c \in Touches[m], v \in Written \cup {None} : Touch(m, c, v)
  \/ Retry(m)
  \/ \E op \in Ops, u \in Owns[m] : BeginCall(m, op, u)
  \/ TakeGuard(m)
  \/ Send(m)
  \/ SendFails(m)

LoopStep ==
  \/ LoopLock \/ LoopAllocate \/ LoopReset \/ LoopFree \/ LoopUnknown
  \/ LoopCollect \/ (\E u \in Ufos : LoopNextKey(u)) \/ LoopClose

PopulateStep(w) ==
  \/ LockState(w) \/ EnsureCapacity(w)
  \/ \E i \in DOMAIN victims : Punch(w, i) \/ WriteBack(w, i)
  \/ EvictDone(w) \/ SpinLock(w) \/ FaultWhilePopulating(w) \/ Fill(w)
  \/ Copy(w) \/ AddChunk(w) \/ Hash(w)

WorkerStep(w) == PopulateStep(w) \/ WorkerExit(w)

Next ==
  \/ \E m \in Mutators : MutatorStep(m)
  \/ LoopStep
  \/ \E w \in Workers : WorkerStep(w) \/ \E t \in Threads : ReadEvent(w, t)

Spec == Init /\ [][Next]_vars

(* Threads that can run do run; every call that has begun goes on.  Which   *)
(* accesses and calls are made is the application's choice.                 *)
Fairness ==
  /\ \A m \in Mutators : WF_vars(Retry(m)) /\ WF_vars(TakeGuard(m))
                         /\ WF_vars(Send(m)) /\ WF_vars(SendFails(m))
  /\ WF_vars(LoopStep)
  /\ \A w \in Workers : WF_vars(PopulateStep(w))
  /\ \A t \in Threads : WF_vars(\E w \in Workers : ReadEvent(w, t))

FairSpec == Spec /\ Fairness
------------------------------------------------------------------------------
(* Properties.                                                              *)

(* Who produces the data of a chunk, and who moves it away.                 *)
Filling(c) == {w \in Workers : wpc[w] = "fill" /\ wchunk[w] = c}
WritingBack(c) ==
  {i \in DOMAIN victims : victims[i].stage = "pivot" /\ victims[i].entry.chunk = c}

(* The data of a chunk is read from its file, produced, or written to its   *)
(* file by one thread at a time, although a reset clears the chunk's bit,   *)
(* which lies in the file, without looking at it (ufo_objects.rs:350, 539:  *)
(* "writebacks never overlap", 575-586).                                    *)
ChunkExclusive ==
  \A c \in Chunks :
    /\ \A w, x \in Filling(c) : w = x
    /\ \A i, j \in WritingBack(c) : i = j
    /\ Filling(c) = {} \/ WritingBack(c) = {}

(* used_memory is the size of the queue and of the chunks being evicted,    *)
(* whatever reset, free and eviction did to the queue in between.           *)
UsedIsQueued == ~poisoned => used = TotalSize(loaded) + VictimSize

(* Who answers for a resident chunk: a live queue entry, a victim that has  *)
(* not been punched, a worker that copied it and has still to queue it.     *)
Queued(c)  == {i \in DOMAIN loaded : loaded[i].live /\ loaded[i].chunk = c}
Doomed(c)  == {i \in DOMAIN victims : victims[i].stage \in {"todo", "error"} /\ victims[i].entry.chunk = c}
Copied(c)  == {w \in Workers : wpc[w] = "add" /\ wchunk[w] = c}
Carriers(c) == Cardinality(Queued(c)) + Cardinality(Doomed(c)) + Cardinality(Copied(c))

(* Memory that is resident is known to the core exactly once, so it can be  *)
(* reclaimed, and memory that is not resident is not reclaimed again.       *)
ResidentOnce ==
  ~poisoned => \A c \in Chunks :
    live[UfoOf[c]] => Carriers(c) = IF mem[c] = None THEN 0 ELSE 1

(* The "expect" and "unwrap" calls of the worker threads and of the message *)
(* loop never fail.                                                         *)
NoPanic == (\A w \in Workers : wpc[w] # "dead") /\ mlpc # "dead"

(* The objects a worker waits to read lock with the state mutex locked.     *)
Awaited(w) ==
  IF wpc[w] = "read" THEN {Object(w)}
  ELSE {UfoOf[victims[i].entry.chunk] : i \in {j \in DOMAIN victims : victims[j].stage = "todo"}}

(* Two orders of taking locks meet in this code.  The message loop waits    *)
(* for an object's write lock with the state mutex locked (ufo_core.rs:     *)
(* 547-554): no reader of the object may then need the state mutex, and no  *)
(* caller may hold the lock and wait for the loop.  A worker waits for read *)
(* locks with the state mutex locked: no caller may then hold one of them   *)
(* and wait for the loop, while the loop waits for the state mutex.         *)
NoLockCycle ==
  /\ mlpc = "apply" /\ msg.op \in FreeOps \cup {"Reset", "Purge"} =>
       /\ \A w \in Workers : w \in rd[msg.ufo] => wpc[w] # "add"
       /\ wr[msg.ufo] = NoOne
  /\ mlpc = "lock" /\ st \in Workers => \A u \in Awaited(st) : wr[u] = NoOne

(* Threads that passed the capacity check may add what they load after      *)
(* each other, so used_memory can exceed the high watermark, but by no more *)
(* than one load of every other worker.                                     *)
MaxLoad == CHOOSE n \in {LoadSize[u] : u \in Ufos} : \A u \in Ufos : LoadSize[u] <= n
OvershootBounded == used <= HighWater + (Cardinality(Workers) - 1) * MaxLoad

(* A thread that faults is served.                                          *)
FaultsAreServed == \A t \in Threads : want[t] # None ~> want[t] = None

(* An API call returns.                                                     *)
CallsReturn == \A m \in Mutators : api[m] # NoCall ~> api[m] = NoCall

(* The message loop carries out every message: nobody is told that a call   *)
(* failed because the loop died of it (ufo_core.rs:635, 638).               *)
MessagesSucceed == mlpc # "dead"

(* What the application sees of a chunk: its page, or else the data on its  *)
(* way to the temporary file, or in it, or what populate produces.          *)
Content(c) ==
  CASE ~live[UfoOf[c]]                             -> Orig
    [] live[UfoOf[c]] /\ mem[c] # None             -> mem[c]
    [] live[UfoOf[c]] /\ mem[c] = None /\ WritingBack(c) # {}
         -> victims[CHOOSE i \in WritingBack(c) : TRUE].data
    [] OTHER                                       -> Loaded(c)

(* The object the message loop is about to change, and how.                 *)
Task ==
  IF mlpc \notin {"lock", "apply"} \/ msg.op = "Shutdown" THEN NoMsg
  ELSE [op |-> IF msg.op \in FreeOps \cup {"Purge"} THEN "Free" ELSE msg.op,
        ufo |-> msg.ufo]

(* An object behaves like an ordinary array: a store is seen until the      *)
(* next store or reset, whatever is evicted, written back and reloaded      *)
(* meanwhile, and no other step changes what the application reads.         *)
Memory == INSTANCE UfoMemory WITH
            val <- [c \in Chunks |-> Content(c)],
            here <- {c \in Chunks : mem[c] # None},
            task <- Task,
            NoTask <- NoMsg
BehavesLikeMemory == Memory!Spec
==============================================================================
