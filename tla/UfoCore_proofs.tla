--------------------------- MODULE UfoCore_proofs ---------------------------
(* Proofs about the core, for any number of threads, objects and chunks:     *)
(* types, and the discipline of the object locks and the chunk bits; then its*)
(* bookkeeping and what its users may rely on: what used_memory counts, how  *)
(* far it overshoots and who answers for resident memory; that objects behave*)
(* like arrays, that nothing panics and that the lock orders never meet, for *)
(* programs that use the core as R does.                                     *)
EXTENDS UfoCore, FiniteSetTheorems, SequenceTheorems, WellFoundedInduction, TLAPS

(* The parts of the state that a step leaves alone keep their types.        *)
LEMMA UnchangedTypes ==
  ASSUME TypeOK
  PROVE  /\ UNCHANGED memVars => MemTypes'
         /\ UNCHANGED <<loaded, victims>> => CoreTypes'
         /\ UNCHANGED lockVars => LockTypes'
         /\ UNCHANGED workVars => WorkTypes'
         /\ UNCHANGED mutVars => MutTypes'
         /\ UNCHANGED msgVars => MsgTypes'
BY DEF TypeOK, MemTypes, CoreTypes, LockTypes, WorkTypes, MutTypes, MsgTypes,
       memVars, lockVars, workVars, mutVars, msgVars

LEMMA AttemptTypes ==
  ASSUME TypeOK, NEW m \in Mutators, NEW c \in Chunks, NEW v \in Values \cup {None},
         Attempt(m, c, v), UNCHANGED <<back, live, api>>
  PROVE  MemTypes' /\ MutTypes'
<1> USE DEF TypeOK, MemTypes, MutTypes
<1>1. MemTypes'
  BY DEF Attempt
<1>2. acc' \in [Mutators -> [chunk : Chunks, val : Values \cup {None}] \cup {NoAccess}]
  BY DEF Attempt
<1>3. want' \in [Threads -> Chunks \cup {None}]
  BY DEF Attempt, Threads
<1>4. unread' \subseteq {t \in Threads : want'[t] # None}
  BY SortAssumption DEF Attempt, Threads
<1> QED
  BY <1>1, <1>2, <1>3, <1>4

LEMMA MutatorTypes ==
  ASSUME TypeOK, NEW m \in Mutators, MutatorStep(m)
  PROVE  TypeOK'
<1> USE UnchangedTypes
<1>1. ASSUME NEW c \in Touches[m], NEW v \in Written \cup {None}, Touch(m, c, v)
      PROVE  TypeOK'
  <2>1. c \in Chunks /\ v \in Values \cup {None}
    BY ShapeAssumption DEF Values
  <2>2. MemTypes' /\ MutTypes'
    BY <1>1, <2>1, AttemptTypes DEF Touch
  <2> QED
    BY <1>1, <2>2 DEF Touch, TypeOK, coreVars
<1>2. CASE Retry(m)
  <2>1. acc[m].chunk \in Chunks /\ acc[m].val \in Values \cup {None}
    BY <1>2 DEF Retry, TypeOK, MutTypes
  <2>2. MemTypes' /\ MutTypes'
    BY <1>2, <2>1, AttemptTypes DEF Retry
  <2> QED
    BY <1>2, <2>2 DEF Retry, TypeOK, coreVars
<1>3. ASSUME NEW op \in Ops, NEW u \in Owns[m], BeginCall(m, op, u)
      PROVE  TypeOK'
  <2>1. op \in ApiOps /\ u \in Ufos
    BY ShapeAssumption
  <2>2. MutTypes'
    BY <1>3, <2>1 DEF BeginCall, TypeOK, MutTypes, Call
  <2> QED
    BY <1>3, <2>2 DEF BeginCall, TypeOK, coreVars
<1>4. CASE TakeGuard(m)
  <2>1. LockTypes'
    BY <1>4 DEF TakeGuard, TypeOK, LockTypes
  <2>2. MutTypes'
    BY <1>4 DEF TakeGuard, TypeOK, MutTypes, Call, NoCall
  <2> QED
    BY <1>4, <2>1, <2>2 DEF TakeGuard, TypeOK, coreVars
<1>5. CASE Send(m)
  <2>1. LockTypes'
    BY <1>5 DEF Send, DropGuard, TypeOK, LockTypes
  <2>2. api[m] \in Call
    BY <1>5 DEF Send, TypeOK, MutTypes, NoCall
  <2>3. MutTypes'
    BY <1>5, <2>2 DEF Send, TypeOK, MutTypes, Call
  <2>4. MsgTypes'
    BY <1>5, <2>2 DEF Send, TypeOK, MsgTypes, Call
  <2> QED
    BY <1>5, <2>1, <2>3, <2>4 DEF Send, TypeOK, coreVars
<1>6. CASE SendFails(m)
  <2>1. LockTypes'
    BY <1>6 DEF SendFails, DropGuard, TypeOK, LockTypes
  <2>2. api[m] \in Call
    BY <1>6 DEF SendFails, TypeOK, MutTypes, NoCall
  <2>3. MutTypes'
    BY <1>6, <2>2 DEF SendFails, Return, TypeOK, MutTypes, Call, ApiOps
  <2> QED
    BY <1>6, <2>1, <2>3 DEF SendFails, TypeOK, coreVars
<1> QED
  BY <1>1, <1>2, <1>3, <1>4, <1>5, <1>6 DEF MutatorStep

LEMMA AnswerTypes ==
  ASSUME TypeOK, Answer, UNCHANGED <<want, unread, acc>>
  PROVE  /\ MutTypes'
         /\ msg' \in [op : ApiOps \cup {"Purge", "none"}, ufo : Ufos \cup {None},
                      from : Mutators \cup {NoOne}]
<1>1. ASSUME NEW m \in Mutators, api[m].pc = "wait"
      PROVE  Return(m) \in Call \cup {NoCall}
  <2>1. api[m] \in Call
    BY <1>1 DEF TypeOK, MutTypes, NoCall
  <2> QED
    BY <2>1 DEF Return, Call, ApiOps
<1>2. api' \in [Mutators -> Call \cup {NoCall}]
  BY <1>1 DEF Answer, TypeOK, MutTypes
<1>3. NoMsg \in [op : ApiOps \cup {"Purge", "none"}, ufo : Ufos \cup {None},
                 from : Mutators \cup {NoOne}]
  BY DEF NoMsg
<1> QED
  BY <1>2, <1>3 DEF Answer, TypeOK, MutTypes

LEMMA DropTypes ==
  ASSUME TypeOK, NEW u, DropUfoChunks(u), UNCHANGED victims
  PROVE  CoreTypes'
<1>1. \A i \in 1..Len(loaded) : loaded[i] \in Entry
  BY DEF TypeOK, CoreTypes
<1>2. \A e \in Entry : Forgotten(e) \in Entry
  BY DEF Forgotten, Entry
<1>3. Len(loaded) \in Nat /\ DOMAIN loaded = 1..Len(loaded)
  BY DEF TypeOK, CoreTypes
<1>4. loaded' \in Seq(Entry)
  BY <1>1, <1>2, <1>3 DEF DropUfoChunks
<1> QED
  BY <1>4 DEF TypeOK, CoreTypes

LEMMA BlankTypes ==
  ASSUME TypeOK, NEW u, Blank(u)
  PROVE  /\ mem'  \in [Chunks -> Values \cup {None}]
         /\ back' \in [Chunks -> Values \cup {None}]
BY DEF Blank, TypeOK, MemTypes

LEMMA LoopTypes ==
  ASSUME TypeOK, LoopStep
  PROVE  TypeOK'
<1> USE UnchangedTypes
<1>1. CASE LoopLock
  <2>1. LockTypes'
    BY <1>1 DEF LoopLock, TypeOK, LockTypes
  <2>2. CASE poisoned
    BY <1>1, <2>1, <2>2, AnswerTypes
    DEF LoopLock, LoopPanics, TypeOK, MsgTypes, coreVars
  <2>3. CASE ~poisoned
    BY <1>1, <2>1, <2>3 DEF LoopLock, TypeOK, MsgTypes, coreVars, mutVars
  <2> QED
    BY <2>2, <2>3
<1>2. CASE LoopAllocate
  <2>1. MemTypes'
    BY <1>2, BlankTypes DEF LoopAllocate, TypeOK, MemTypes
  <2>2. LockTypes'
    BY <1>2 DEF LoopAllocate, TypeOK, LockTypes
  <2> QED
    BY <1>2, <2>1, <2>2, AnswerTypes DEF LoopAllocate, TypeOK, MsgTypes, coreVars
<1>3. CASE LoopReset
  <2>1. MemTypes'
    BY <1>3, BlankTypes DEF LoopReset, TypeOK, MemTypes
  <2>2. LockTypes'
    BY <1>3 DEF LoopReset, TypeOK, LockTypes
  <2> QED
    BY <1>3, <2>1, <2>2, AnswerTypes, DropTypes DEF LoopReset, TypeOK, MsgTypes
<1>4. CASE LoopFree
  <2>1. MemTypes'
    BY <1>4, BlankTypes DEF LoopFree, TypeOK, MemTypes
  <2>2. LockTypes'
    BY <1>4 DEF LoopFree, TypeOK, LockTypes
  <2>3. CoreTypes'
    BY <1>4, DropTypes DEF LoopFree
  <2>4. CASE msg.op = "Purge"
    BY <1>4, <2>1, <2>2, <2>3, <2>4 DEF LoopFree, TypeOK, MsgTypes, mutVars
  <2>5. CASE msg.op # "Purge"
    BY <1>4, <2>1, <2>2, <2>3, <2>5, AnswerTypes DEF LoopFree, TypeOK, MsgTypes
  <2> QED
    BY <2>4, <2>5
<1>5. CASE LoopUnknown
  <2>1. LockTypes'
    BY <1>5 DEF LoopUnknown, TypeOK, LockTypes
  <2> QED
    BY <1>5, <2>1, AnswerTypes DEF LoopUnknown, LoopPanics, TypeOK, MsgTypes, coreVars
<1>6. CASE LoopCollect
  <2>1. LockTypes'
    BY <1>6 DEF LoopCollect, TypeOK, LockTypes
  <2> QED
    BY <1>6, <2>1 DEF LoopCollect, TypeOK, MsgTypes, coreVars
<1>7. ASSUME NEW u \in Ufos, LoopNextKey(u)
      PROVE  TypeOK'
  <2>1. MsgTypes'
    BY <1>7 DEF LoopNextKey, TypeOK, MsgTypes
  <2> QED
    BY <1>7, <2>1 DEF LoopNextKey, TypeOK, coreVars
<1>8. CASE LoopClose
  BY <1>8, AnswerTypes DEF LoopClose, TypeOK, MsgTypes, coreVars
<1> QED
  BY <1>1, <1>2, <1>3, <1>4, <1>5, <1>6, <1>7, <1>8 DEF LoopStep

(* A worker that moves on within populate_impl, or dies in it.              *)
LEMMA GotoTypes ==
  ASSUME TypeOK, NEW w \in Workers, NEW l \in WorkerPcs,
         wpc[w] \notin {"idle", "exit"}, l \notin {"idle", "exit"}, Goto(w, l),
         UNCHANGED wchunk, raw' \in [Workers -> Values \cup {None}]
  PROVE  WorkTypes'
BY DEF TypeOK, WorkTypes, Goto

LEMMA PanicTypes ==
  ASSUME TypeOK, NEW w \in Workers, wpc[w] \notin {"idle", "exit"}, Panic(w),
         st' \in Workers \cup {MsgLoop, NoOne}, poisoned' \in BOOLEAN,
         bit' \in [Chunks -> Workers \cup {NoOne}], CoreTypes'
  PROVE  TypeOK'
<1>1. WorkTypes'
  BY GotoTypes DEF Panic, WorkerPcs, TypeOK, WorkTypes
<1>2. LockTypes'
  BY DEF Panic, TypeOK, LockTypes
<1> QED
  BY <1>1, <1>2, UnchangedTypes DEF Panic, TypeOK

LEMMA VictimTypes ==
  ASSUME TypeOK
  PROVE  /\ \A e \in Entry : NewVictim(e) \in Victim
         /\ \A i \in DOMAIN victims : /\ victims[i] \in Victim
                                      /\ victims[i].entry.chunk \in Chunks
                                      /\ i \in Nat
         /\ \A i \in DOMAIN loaded : loaded[i] \in Entry
         /\ DOMAIN victims = 1..Len(victims) /\ Len(victims) \in Nat
         /\ DOMAIN loaded = 1..Len(loaded) /\ Len(loaded) \in Nat
<1>1. /\ DOMAIN victims = 1..Len(victims) /\ Len(victims) \in Nat
      /\ DOMAIN loaded = 1..Len(loaded) /\ Len(loaded) \in Nat
      /\ \A i \in DOMAIN victims : victims[i] \in Victim
      /\ \A i \in DOMAIN loaded : loaded[i] \in Entry
  BY DEF TypeOK, CoreTypes
<1>2. \A e \in Entry : NewVictim(e) \in Victim
  BY DEF NewVictim, AtStage, Victim
<1>3. \A v \in Victim : v.entry \in Entry
  BY DEF Victim
<1>4. \A e \in Entry : e.chunk \in Chunks
  BY DEF Entry
<1> QED
  BY <1>1, <1>2, <1>3, <1>4

LEMMA WorkerChunk ==
  ASSUME TypeOK, NEW w \in Workers, wpc[w] \notin {"idle", "exit"}
  PROVE  wchunk[w] \in Chunks /\ Object(w) \in Ufos
BY ShapeAssumption DEF TypeOK, WorkTypes, Object

(* A victim goes to another stage.                                          *)
LEMMA StageTypes ==
  ASSUME TypeOK, NEW i \in DOMAIN victims,
         NEW s \in {"todo", "pivot", "done", "error"}, NEW d \in Values \cup {None},
         victims' = [victims EXCEPT ![i] = AtStage(victims[i].entry, s, d)],
         UNCHANGED loaded
  PROVE  CoreTypes'
<1>1. victims[i].entry \in Entry
  BY VictimTypes DEF Victim
<1>2. AtStage(victims[i].entry, s, d) \in Victim
  BY <1>1 DEF AtStage, Victim
<1> QED
  BY <1>2, VictimTypes, ExceptSeq DEF TypeOK, CoreTypes


LEMMA PopulateTypes ==
  ASSUME TypeOK, NEW w \in Workers, PopulateStep(w)
  PROVE  TypeOK'
<1> USE UnchangedTypes
<1>1. CASE LockState(w)
  <2>1. CASE poisoned \/ ~live[Object(w)]
    BY <1>1, <2>1, PanicTypes
    DEF LockState, TypeOK, CoreTypes, LockTypes, coreVars
  <2>2. CASE ~(poisoned \/ ~live[Object(w)])
    <3>1. LockTypes'
      BY <1>1, <2>2 DEF LockState, TypeOK, LockTypes
    <3>2. WorkTypes'
      BY <1>1, <2>2, GotoTypes DEF LockState, TypeOK, WorkTypes, WorkerPcs
    <3> QED
      BY <1>1, <2>2, <3>1, <3>2 DEF LockState, TypeOK, coreVars
  <2> QED
    BY <2>1, <2>2
<1>2. CASE EnsureCapacity(w)
  <2>1. LockTypes'
    <3>1. rd' \in [Ufos -> SUBSET (Workers \cup Nat)]
      BY <1>2 DEF EnsureCapacity, ReadGuard, TypeOK, LockTypes
    <3>2. st' \in Workers \cup {MsgLoop, NoOne}
      BY <1>2 DEF EnsureCapacity, UnlockToLoad, TypeOK, LockTypes
    <3> QED
      BY <1>2, <3>1, <3>2 DEF EnsureCapacity, TypeOK, LockTypes
  <2>2. WorkTypes'
    BY <1>2, GotoTypes DEF EnsureCapacity, TypeOK, WorkTypes, WorkerPcs
  <2>3. CoreTypes'
    <3>1. CASE NeedsRoom(Object(w))
      <4>1. PICK n \in 0..Len(loaded) :
                /\ victims' = [i \in 1..n |-> NewVictim(loaded[i])]
                /\ loaded' = SubSeq(loaded, n + 1, Len(loaded))
        BY <1>2, <3>1 DEF EnsureCapacity
      <4>2. n \in Nat /\ \A i \in 1..n : NewVictim(loaded[i]) \in Victim
        BY VictimTypes
      <4>3. victims' \in Seq(Victim)
        BY <4>1, <4>2
      <4>4. \A i \in (n + 1)..Len(loaded) : loaded[i] \in Entry
        BY <4>2, VictimTypes
      <4>5. n + 1 \in Int /\ Len(loaded) \in Int
        BY <4>2, VictimTypes
      <4>6. loaded' \in Seq(Entry)
        BY <4>1, <4>4, <4>5, SubSeqProperties
      <4> QED
        BY <4>3, <4>6 DEF CoreTypes
    <3>2. CASE ~NeedsRoom(Object(w))
      BY <1>2, <3>2 DEF EnsureCapacity, TypeOK, CoreTypes
    <3> QED
      BY <3>1, <3>2
  <2> QED
    BY <1>2, <2>1, <2>2, <2>3 DEF EnsureCapacity, TypeOK
<1>3. ASSUME NEW i \in DOMAIN victims, Punch(w, i)
      PROVE  TypeOK'
  <2>1. victims[i].entry.chunk \in Chunks /\ i \in Nat
    BY VictimTypes
  <2>2. mem[victims[i].entry.chunk] \in Values \cup {None}
    BY <2>1 DEF TypeOK, MemTypes
  <2>3. CoreTypes'
    BY <1>3, <2>2, StageTypes DEF Punch
  <2>4. MemTypes'
    BY <1>3 DEF Punch, TypeOK, MemTypes
  <2>5. LockTypes'
    BY <1>3, <2>1 DEF Punch, ReadGuard, TypeOK, LockTypes
  <2> QED
    BY <1>3, <2>3, <2>4, <2>5 DEF Punch, TypeOK
<1>4. ASSUME NEW i \in DOMAIN victims, WriteBack(w, i)
      PROVE  TypeOK'
  <2>1. victims[i].data \in Values \cup {None}
    BY VictimTypes DEF Victim
  <2>2. CoreTypes'
    BY <1>4, StageTypes DEF WriteBack
  <2>3. MemTypes'
    BY <1>4, <2>1 DEF WriteBack, TypeOK, MemTypes
  <2>4. LockTypes'
    BY <1>4 DEF WriteBack, TypeOK, LockTypes
  <2> QED
    BY <1>4, <2>2, <2>3, <2>4 DEF WriteBack, TypeOK
<1>5. CASE EvictDone(w)
  <2>1. CoreTypes'
    BY <1>5 DEF EvictDone, TypeOK, CoreTypes
  <2>2. CASE \E i \in DOMAIN victims : victims[i].stage = "error"
    BY <1>5, <2>1, <2>2, PanicTypes DEF EvictDone, TypeOK, LockTypes
  <2>3. CASE ~\E i \in DOMAIN victims : victims[i].stage = "error"
    <3>1. LockTypes'
      BY <1>5, <2>3 DEF EvictDone, UnlockToLoad, TypeOK, LockTypes
    <3>2. WorkTypes'
      BY <1>5, <2>3, GotoTypes DEF EvictDone, TypeOK, WorkTypes, WorkerPcs
    <3> QED
      BY <1>5, <2>1, <2>3, <3>1, <3>2 DEF EvictDone, TypeOK
  <2> QED
    BY <2>2, <2>3
<1>6. CASE SpinLock(w)
  <2>1. LockTypes'
    BY <1>6 DEF SpinLock, TypeOK, LockTypes
  <2>2. WorkTypes'
    BY <1>6, GotoTypes DEF SpinLock, TypeOK, WorkTypes, WorkerPcs
  <2> QED
    BY <1>6, <2>1, <2>2 DEF SpinLock, TypeOK, coreVars
<1>7. CASE FaultWhilePopulating(w)
  <2>1. wchunk[w] \in Chunks
    BY <1>7, WorkerChunk DEF FaultWhilePopulating
  <2>2. Needs[wchunk[w]] \in Chunks
    BY <1>7, <2>1, ShapeAssumption DEF FaultWhilePopulating
  <2>3. MutTypes'
    BY <1>7, <2>2, SortAssumption
    DEF FaultWhilePopulating, TypeOK, MutTypes, Threads
  <2> QED
    BY <1>7, <2>3 DEF FaultWhilePopulating, TypeOK, coreVars
<1>8. CASE Fill(w)
  <2>1. wchunk[w] \in Chunks
    BY <1>8, WorkerChunk DEF Fill
  <2>2. LockTypes' \/ Panic(w)
    BY <1>8 DEF Fill, TypeOK, LockTypes
  <2>3. bit' \in [Chunks -> Workers \cup {NoOne}]
    BY <1>8 DEF Fill, TypeOK, LockTypes
  <2>4. CASE back[wchunk[w]] = None /\ wchunk[w] \in Faulty
    BY <1>8, <2>3, <2>4, PanicTypes
    DEF Fill, TypeOK, CoreTypes, LockTypes, coreVars
  <2>5. CASE ~(back[wchunk[w]] = None /\ wchunk[w] \in Faulty)
    <3>1. Loaded(wchunk[w]) \in Values \cup {None}
      BY <2>1 DEF Loaded, Values, TypeOK, MemTypes
    <3>2. raw' \in [Workers -> Values \cup {None}]
      BY <1>8, <2>5, <3>1 DEF Fill, TypeOK, WorkTypes
    <3>3. WorkTypes'
      BY <1>8, <2>5, <3>2, GotoTypes DEF Fill, WorkerPcs
    <3>4. LockTypes'
      BY <1>8, <2>3, <2>5 DEF Fill, TypeOK, LockTypes
    <3> QED
      BY <1>8, <2>5, <3>3, <3>4 DEF Fill, TypeOK, coreVars
  <2> QED
    BY <2>4, <2>5
<1>9. CASE Copy(w)
  <2>1. wchunk[w] \in Chunks /\ raw[w] \in Values \cup {None}
    BY <1>9, WorkerChunk DEF Copy, TypeOK, WorkTypes
  <2>2. CASE mem[wchunk[w]] # None
    BY <1>9, <2>2, PanicTypes DEF Copy, TypeOK, CoreTypes, LockTypes, coreVars
  <2>3. CASE mem[wchunk[w]] = None
    <3>1. MemTypes'
      BY <1>9, <2>1, <2>3 DEF Copy, TypeOK, MemTypes
    <3>2. MutTypes'
      BY <1>9, <2>3 DEF Copy, Wake, TypeOK, MutTypes
    <3>3. WorkTypes'
      BY <1>9, <2>3, GotoTypes DEF Copy, TypeOK, WorkTypes, WorkerPcs
    <3> QED
      BY <1>9, <2>3, <3>1, <3>2, <3>3 DEF Copy, TypeOK, coreVars
  <2> QED
    BY <2>2, <2>3
<1>10. CASE AddChunk(w)
  <2>1. CASE poisoned
    BY <1>10, <2>1, PanicTypes DEF AddChunk, TypeOK, CoreTypes, LockTypes, coreVars
  <2>2. CASE ~poisoned
    <3>1. [chunk |-> wchunk[w], live |-> TRUE, hash |-> w] \in Entry
      BY <1>10, WorkerChunk DEF AddChunk, Entry
    <3>2. CoreTypes'
      BY <1>10, <2>2, <3>1 DEF AddChunk, TypeOK, CoreTypes
    <3>3. WorkTypes'
      BY <1>10, <2>2, GotoTypes DEF AddChunk, TypeOK, WorkTypes, WorkerPcs
    <3> QED
      BY <1>10, <2>2, <3>2, <3>3 DEF AddChunk, TypeOK
  <2> QED
    BY <2>1, <2>2
<1>11. CASE Hash(w)
  <2> DEFINE Fulfil(e) == IF e.hash = w THEN [e EXCEPT !.hash = HashOf(w)] ELSE e
  <2>1. HashOf(w) \in Values \cup {None}
    BY DEF HashOf, TypeOK, WorkTypes
  <2>2. \A e \in Entry : Fulfil(e) \in Entry
    BY <2>1 DEF Entry
  <2> HIDE DEF Fulfil
  <2>3. loaded' = [i \in DOMAIN loaded |-> Fulfil(loaded[i])]
    BY <1>11 DEF Hash, Fulfil
  <2>4. victims' = [i \in DOMAIN victims |->
                      [victims[i] EXCEPT !.entry = Fulfil(victims[i].entry)]]
    BY <1>11 DEF Hash, Fulfil
  <2>5. loaded' \in Seq(Entry)
    BY <2>2, <2>3, VictimTypes
  <2>6. \A v \in Victim : [v EXCEPT !.entry = Fulfil(v.entry)] \in Victim
    BY <2>2 DEF Victim
  <2>7. victims' \in Seq(Victim)
    BY <2>4, <2>6, VictimTypes
  <2>8. WorkTypes'
    BY <1>11 DEF Hash, Goto, TypeOK, WorkTypes, WorkerPcs
  <2>9. LockTypes'
    BY <1>11 DEF Hash, TypeOK, LockTypes
  <2> QED
    BY <1>11, <2>5, <2>7, <2>8, <2>9 DEF Hash, TypeOK, CoreTypes
<1> QED
  BY <1>1, <1>2, <1>3, <1>4, <1>5, <1>6, <1>7, <1>8, <1>9, <1>10, <1>11
  DEF PopulateStep

LEMMA TypeStep ==
  ASSUME TypeOK, [Next]_vars
  PROVE  TypeOK'
<1> USE UnchangedTypes
<1>1. ASSUME NEW w \in Workers, WorkerExit(w)
      PROVE  TypeOK'
  <2>1. WorkTypes'
    BY <1>1 DEF WorkerExit, Goto, TypeOK, WorkTypes, WorkerPcs
  <2> QED
    BY <1>1, <2>1 DEF WorkerExit, TypeOK, coreVars
<1>2. ASSUME NEW w \in Workers, NEW t \in Threads, ReadEvent(w, t)
      PROVE  TypeOK'
  <2>1. WorkTypes'
    BY <1>2 DEF ReadEvent, Goto, TypeOK, WorkTypes, MutTypes, WorkerPcs
  <2>2. MutTypes'
    BY <1>2 DEF ReadEvent, TypeOK, MutTypes
  <2> QED
    BY <1>2, <2>1, <2>2 DEF ReadEvent, TypeOK, coreVars
<1>3. CASE UNCHANGED vars
  BY <1>3 DEF vars, TypeOK, coreVars
<1> QED
  BY <1>1, <1>2, <1>3, MutatorTypes, LoopTypes, PopulateTypes DEF Next, WorkerStep

LEMMA InitTypes == Init => TypeOK
<1> SUFFICES ASSUME Init PROVE TypeOK
  OBVIOUS
<1>1. MemTypes
  BY DEF Init, MemTypes
<1>3. CoreTypes
  BY EmptySeq DEF Init, CoreTypes
<1>4. LockTypes
  BY DEF Init, LockTypes
<1>2. WorkTypes /\ MutTypes /\ MsgTypes
  BY DEF Init, WorkTypes, MutTypes, MsgTypes, WorkerPcs, NoMsg
<1> QED
  BY <1>1, <1>2, <1>3, <1>4 DEF TypeOK

(* Every reachable state is well typed.                                     *)
THEOREM SpecTypeOK == Spec => []TypeOK
BY InitTypes, TypeStep, PTL DEF Spec

-----------------------------------------------------------------------------
(* Locks.                                                                   *)

(* The readers of an object are the workers inside populate_impl that work  *)
(* on it and the eviction tasks that have taken one of its chunks.          *)
Inside(u)  == {w \in Workers : wpc[w] \in ReadPcs /\ Object(w) = u}
Moving(i)  == i \in DOMAIN victims /\ victims[i].stage = "pivot"
Pivoted(u) == {i \in DOMAIN victims : Moving(i) /\ UfoOf[victims[i].entry.chunk] = u}
ReadersKnown == \A u \in Ufos : rd[u] = Inside(u) \cup Pivoted(u)

(* Who fills a chunk holds its bit; the bit of a chunk that is moved away   *)
(* is held by the worker that evicts, and only one task moves it.           *)
FillersHold == \A w \in Workers : wpc[w] = "fill" => bit[wchunk[w]] = w
MoversHold ==
  \A i \in DOMAIN victims : Moving(i) =>
    bit[victims[i].entry.chunk] \in {w \in Workers : wpc[w] = "evict"}
MoversDiffer ==
  \A i, j \in DOMAIN victims :
    Moving(i) /\ Moving(j) /\ victims[i].entry.chunk = victims[j].entry.chunk => i = j
BitsHeld == FillersHold /\ MoversHold /\ MoversDiffer

WriterExcludes == \A u \in Ufos : wr[u] # NoOne => rd[u] = {}

(* Whoever waits for an object's lock with the state mutex, evicts, or is a *)
(* message loop about to apply a message, holds that mutex.                 *)
StateHeld ==
  /\ \A w \in Workers : wpc[w] \in {"read", "evict"} => st = w
  /\ mlpc = "apply" => st = MsgLoop
  /\ victims # <<>> => \E w \in Workers : wpc[w] = "evict"

LockInv == ReadersKnown /\ BitsHeld /\ WriterExcludes /\ StateHeld

IInv == TypeOK /\ LockInv

(* Steps of callers, which take and release write locks.                    *)
LEMMA CallerSteps ==
  ASSUME IInv, UNCHANGED <<rd, bit, st, wpc, wchunk, victims>>,
         mlpc' = "apply" => mlpc = "apply",
         \A u \in Ufos : wr'[u] # NoOne => wr[u] # NoOne \/ rd[u] = {}
  PROVE  LockInv'
<1>1. /\ \A u : Inside(u)' = Inside(u) /\ Pivoted(u)' = Pivoted(u)
      /\ \A i : Moving(i)' <=> Moving(i)
  BY DEF Inside, Object, Pivoted, Moving
<1>2. ReadersKnown' /\ WriterExcludes'
  BY <1>1 DEF IInv, LockInv, ReadersKnown, WriterExcludes
<1>3. BitsHeld'
  BY <1>1 DEF IInv, LockInv, BitsHeld, FillersHold, MoversHold, MoversDiffer
<1>4. StateHeld'
  BY DEF IInv, LockInv, StateHeld
<1> QED
  BY <1>2, <1>3, <1>4 DEF LockInv

LEMMA MutatorLocks ==
  ASSUME IInv, NEW m \in Mutators, MutatorStep(m)
  PROVE  LockInv'
<1>1. CASE \/ \E c \in Touches[m], v \in Written \cup {None} : Touch(m, c, v)
           \/ Retry(m)
           \/ \E op \in Ops, u \in Owns[m] : BeginCall(m, op, u)
  BY <1>1, CallerSteps
  DEF Touch, Retry, BeginCall, coreVars, lockVars, workVars, msgVars
<1>2. CASE TakeGuard(m)
  <2>1. \A u \in Ufos : wr'[u] # NoOne => wr[u] # NoOne \/ rd[u] = {}
    BY <1>2 DEF TakeGuard, IInv, TypeOK, LockTypes
  <2> QED
    BY <1>2, <2>1, CallerSteps DEF TakeGuard, coreVars, workVars, msgVars
<1>3. CASE Send(m) \/ SendFails(m)
  <2>1. \A u \in Ufos : wr'[u] # NoOne => wr[u] # NoOne
    BY <1>3 DEF Send, SendFails, DropGuard
  <2> QED
    BY <1>3, <2>1, CallerSteps DEF Send, SendFails, coreVars, workVars, msgVars
<1> QED
  BY <1>1, <1>2, <1>3 DEF MutatorStep

(* The message loop.  While it applies a message no worker waits or evicts  *)
(* with the state mutex.  A reset clears only bits nobody holds, because it *)
(* has the write lock of their object.                                      *)
LEMMA LoopLocks ==
  ASSUME IInv, LoopStep
  PROVE  LockInv'
<1>1. UNCHANGED <<rd, wr, victims, wpc, wchunk>>
  BY DEF LoopStep, LoopLock, LoopAllocate, LoopReset, LoopFree, LoopUnknown, LoopCollect,
         LoopNextKey, LoopClose, coreVars, lockVars, workVars
<1>2. /\ \A u : Inside(u)' = Inside(u) /\ Pivoted(u)' = Pivoted(u)
      /\ \A i : Moving(i)' <=> Moving(i)
  BY <1>1 DEF Inside, Object, Pivoted, Moving
<1>3. ReadersKnown' /\ WriterExcludes'
  BY <1>1, <1>2 DEF IInv, LockInv, ReadersKnown, WriterExcludes
<1>4. BitsHeld'
  <2>1. CASE LoopReset
    <3>1. \A c \in Chunks : UfoOf[c] \in Ufos
      BY ShapeAssumption
    <3>2. \A u \in Ufos : u = msg.ufo => Inside(u) = {} /\ Pivoted(u) = {}
      BY <2>1 DEF LoopReset, IInv, LockInv, ReadersKnown
    <3>3. \A c \in Chunks : UfoOf[c] # msg.ufo => bit'[c] = bit[c]
      BY <2>1 DEF LoopReset
    <3>4. \A w \in Workers : wpc[w] = "fill" =>
             wchunk[w] \in Chunks /\ UfoOf[wchunk[w]] # msg.ufo
      BY <3>1, <3>2, WorkerChunk DEF Inside, Object, ReadPcs, IInv
    <3>5. \A i \in DOMAIN victims : Moving(i) =>
             /\ victims[i].entry.chunk \in Chunks
             /\ UfoOf[victims[i].entry.chunk] # msg.ufo
      BY <3>1, <3>2, VictimTypes DEF Pivoted, IInv
    <3> QED
      BY <1>1, <1>2, <3>3, <3>4, <3>5
      DEF IInv, LockInv, BitsHeld, FillersHold, MoversHold, MoversDiffer
  <2>2. CASE ~LoopReset
    <3>1. UNCHANGED bit
      BY <2>2 DEF LoopStep, LoopLock, LoopAllocate, LoopFree, LoopUnknown, LoopCollect,
                  LoopNextKey, LoopClose, lockVars
    <3> QED
      BY <1>1, <1>2, <3>1
      DEF IInv, LockInv, BitsHeld, FillersHold, MoversHold, MoversDiffer
  <2> QED
    BY <2>1, <2>2
<1>5. StateHeld'
  <2>1. CASE LoopLock
    BY <1>1, <2>1, SortAssumption DEF LoopLock, LoopPanics, IInv, LockInv, StateHeld
  <2>2. CASE LoopAllocate \/ LoopReset \/ LoopFree \/ LoopUnknown \/ LoopCollect
    <3>1. st = MsgLoop /\ st' = NoOne /\ mlpc' # "apply"
      BY <2>2 DEF LoopAllocate, LoopReset, LoopFree, LoopUnknown, LoopPanics,
                  LoopCollect, IInv, LockInv, StateHeld
    <3> QED
      BY <1>1, <3>1, SortAssumption DEF IInv, LockInv, StateHeld
  <2>3. CASE (\E u \in Ufos : LoopNextKey(u)) \/ LoopClose
    BY <1>1, <2>3 DEF LoopNextKey, LoopClose, lockVars, IInv, LockInv, StateHeld
  <2> QED
    BY <2>1, <2>2, <2>3 DEF LoopStep
<1> QED
  BY <1>3, <1>4, <1>5 DEF LockInv

(* A worker moves on, no victim and no lock of an object changes, and it    *)
(* is inside populate_impl afterwards if and only if it was before.         *)
LEMMA WorkerMoves ==
  ASSUME IInv, NEW w \in Workers, NEW l \in WorkerPcs, Goto(w, l),
         l \in ReadPcs <=> wpc[w] \in ReadPcs,
         UNCHANGED <<rd, wr, wchunk, victims>>
  PROVE  ReadersKnown' /\ WriterExcludes'
<1>1. \A u \in Ufos : Inside(u)' = Inside(u) /\ Pivoted(u)' = Pivoted(u)
  BY DEF Goto, Inside, Object, Pivoted, Moving, IInv, TypeOK, WorkTypes
<1> QED
  BY <1>1 DEF IInv, LockInv, ReadersKnown, WriterExcludes

(* A worker leaves populate_impl, or dies, and gives up its read lock.      *)
LEMMA WorkerLeaves ==
  ASSUME IInv, NEW w \in Workers, wpc'[w] \notin ReadPcs,
         \A x \in Workers \ {w} : wpc'[x] = wpc[x] /\ wchunk'[x] = wchunk[x],
         wpc[w] \in ReadPcs => Object(w) \in Ufos,
         \A u \in Ufos : rd'[u] = rd[u] \ {w},
         \A u \in Ufos : Pivoted(u)' = Pivoted(u), UNCHANGED wr
  PROVE  ReadersKnown' /\ WriterExcludes'
<1>1. \A u \in Ufos : Inside(u)' = Inside(u) \ {w}
  BY DEF Inside, Object
<1>2. \A u \in Ufos : w \notin Pivoted(u)
  BY VictimTypes, SortAssumption DEF Pivoted, Moving, IInv
<1> QED
  BY <1>1, <1>2 DEF IInv, LockInv, ReadersKnown, WriterExcludes

(* No bit and no victim changes, and the worker neither begins nor stops    *)
(* to evict, and does not begin to fill.                                    *)
LEMMA BitsStay ==
  ASSUME IInv, NEW w \in Workers, wpc'[w] # "fill",
         wpc[w] # "evict" \/ \A i \in DOMAIN victims : ~Moving(i),
         \A x \in Workers \ {w} : wpc'[x] = wpc[x] /\ wchunk'[x] = wchunk[x],
         UNCHANGED <<bit, victims>>
  PROVE  BitsHeld'
<1>1. \A i : Moving(i)' <=> Moving(i)
  BY DEF Moving
<1>2. FillersHold'
  BY DEF IInv, LockInv, BitsHeld, FillersHold
<1>3. MoversHold'
  BY <1>1 DEF IInv, LockInv, BitsHeld, MoversHold
<1>4. MoversDiffer'
  BY <1>1 DEF IInv, LockInv, BitsHeld, MoversDiffer
<1> QED
  BY <1>2, <1>3, <1>4 DEF BitsHeld

(* A worker panics outside an eviction.                                     *)
LEMMA PanicLocks ==
  ASSUME IInv, NEW w \in Workers, Panic(w), wpc[w] \notin {"idle", "exit", "evict"},
         UNCHANGED <<bit, victims>> \/ (wpc[w] = "fill" /\ bit' = [bit EXCEPT ![wchunk[w]] = NoOne]
                                        /\ UNCHANGED victims),
         st' = st
  PROVE  LockInv'
<1>1. /\ wpc'[w] = "dead"
      /\ \A x \in Workers \ {w} : wpc'[x] = wpc[x]
      /\ UNCHANGED wchunk
  BY DEF Panic, Goto, IInv, TypeOK, WorkTypes
<1>2. /\ \A u \in Ufos : rd'[u] = rd[u] \ {w}
      /\ UNCHANGED <<wr, mlpc>>
  BY DEF Panic, msgVars
<1>3. /\ \A i : Moving(i)' <=> Moving(i)
      /\ \A u \in Ufos : Pivoted(u)' = Pivoted(u)
  BY DEF Moving, Pivoted
<1>4. ReadersKnown' /\ WriterExcludes'
  BY <1>1, <1>2, <1>3, WorkerLeaves, WorkerChunk DEF IInv, ReadPcs
<1>5. BitsHeld'
  <2>1. CASE UNCHANGED <<bit, victims>>
    BY <1>1, <2>1, BitsStay
  <2>2. CASE wpc[w] = "fill" /\ bit' = [bit EXCEPT ![wchunk[w]] = NoOne]
    <3>1. bit[wchunk[w]] = w
      BY <2>2 DEF IInv, LockInv, BitsHeld, FillersHold
    <3>2. FillersHold'
      BY <1>1, <2>2, <3>1 DEF IInv, LockInv, BitsHeld, FillersHold
    <3>3. MoversHold'
      BY <1>1, <1>3, <2>2, <3>1 DEF IInv, LockInv, BitsHeld, MoversHold
    <3>4. MoversDiffer'
      BY <1>3 DEF IInv, LockInv, BitsHeld, MoversDiffer
    <3> QED
      BY <3>2, <3>3, <3>4 DEF BitsHeld
  <2> QED
    BY <2>1, <2>2
<1>6. StateHeld'
  BY <1>1, <1>2 DEF IInv, LockInv, StateHeld
<1> QED
  BY <1>4, <1>5, <1>6 DEF LockInv

(* While a worker waits for its object's read lock, nobody evicts.          *)
LEMMA NoVictims ==
  ASSUME IInv, NEW w \in Workers, wpc[w] # "evict", st = w \/ st = NoOne
  PROVE  victims = <<>> /\ \A i : ~Moving(i)
BY SortAssumption DEF IInv, LockInv, StateHeld, Moving

LEMMA PopulateLocks1 ==
  ASSUME IInv, NEW w \in Workers, LockState(w) \/ EnsureCapacity(w) \/ EvictDone(w)
  PROVE  LockInv'
<1>1. CASE LockState(w) /\ (poisoned \/ ~live[Object(w)])
  BY <1>1, PanicLocks DEF LockState, coreVars
<1>2. CASE LockState(w) /\ ~(poisoned \/ ~live[Object(w)])
  <2>1. Goto(w, "read") /\ "read" \notin ReadPcs /\ wpc[w] \notin ReadPcs
    BY <1>2 DEF LockState, ReadPcs
  <2>2. ReadersKnown' /\ WriterExcludes'
    BY <1>2, <2>1, WorkerMoves DEF LockState, coreVars, WorkerPcs
  <2>3. wpc'[w] = "read" /\ \A x \in Workers \ {w} : wpc'[x] = wpc[x]
    BY <2>1 DEF Goto, IInv, TypeOK, WorkTypes
  <2>4. BitsHeld'
    BY <1>2, <2>3, BitsStay DEF LockState, coreVars
  <2>5. StateHeld'
    <3>1. victims' = <<>>
      BY <1>2, NoVictims DEF LockState, coreVars
    <3>2. \A x \in Workers : wpc[x] \notin {"read", "evict"}
      BY <1>2, SortAssumption DEF LockState, IInv, LockInv, StateHeld
    <3>3. mlpc # "apply"
      BY <1>2, SortAssumption DEF LockState, IInv, LockInv, StateHeld
    <3> QED
      BY <1>2, <2>3, <3>1, <3>2, <3>3 DEF LockState, StateHeld, msgVars
  <2> QED
    BY <2>2, <2>4, <2>5 DEF LockInv
<1>3. CASE EnsureCapacity(w)
  <2>1. st = w /\ victims = <<>> /\ \A i : ~Moving(i)
    BY <1>3, NoVictims DEF EnsureCapacity, IInv, LockInv, StateHeld
  <2>2. wchunk[w] \in Chunks /\ Object(w) \in Ufos
    BY <1>3, WorkerChunk DEF EnsureCapacity, IInv
  <2>3. /\ wpc'[w] = IF NeedsRoom(Object(w)) THEN "evict" ELSE "spin"
        /\ \A x \in Workers \ {w} : wpc'[x] = wpc[x]
    BY <1>3 DEF EnsureCapacity, Goto, IInv, TypeOK, WorkTypes
  <2>4. \A i : ~Moving(i)'
    <3>1. CASE NeedsRoom(Object(w))
      <4>1. PICK n \in 0..Len(loaded) : victims' = [i \in 1..n |-> NewVictim(loaded[i])]
        BY <1>3, <3>1 DEF EnsureCapacity
      <4>2. \A i \in DOMAIN victims' : victims'[i].stage # "pivot"
        BY <4>1 DEF NewVictim, AtStage
      <4> QED
        BY <4>2 DEF Moving
    <3>2. CASE ~NeedsRoom(Object(w))
      BY <1>3, <2>1, <3>2 DEF EnsureCapacity, Moving
    <3> QED
      BY <3>1, <3>2
  <2>5. \A u \in Ufos : /\ Pivoted(u) = {} /\ Pivoted(u)' = {}
                        /\ Inside(u)' = IF u = Object(w) THEN Inside(u) \cup {w} ELSE Inside(u)
    <3>1. UNCHANGED wchunk
      BY <1>3 DEF EnsureCapacity
    <3> QED
      BY <2>1, <2>3, <2>4, <3>1, <1>3
      DEF EnsureCapacity, Pivoted, Inside, Object, ReadPcs
  <2>6. \A u \in Ufos : rd'[u] = IF u = Object(w) THEN rd[u] \cup {w} ELSE rd[u]
    BY <1>3 DEF EnsureCapacity, ReadGuard, IInv, TypeOK, LockTypes
  <2>7. wr[Object(w)] = NoOne /\ UNCHANGED <<wr, bit, wchunk, mlpc>>
    BY <1>3 DEF EnsureCapacity, msgVars
  <2>8. ReadersKnown'
    BY <2>5, <2>6 DEF ReadersKnown, IInv, LockInv
  <2>9. WriterExcludes'
    BY <2>6, <2>7 DEF WriterExcludes, IInv, LockInv
  <2>10. BitsHeld'
    <3>1. FillersHold'
      BY <2>3, <2>7 DEF IInv, LockInv, BitsHeld, FillersHold
    <3> QED
      BY <2>4, <3>1 DEF BitsHeld, MoversHold, MoversDiffer
  <2>11. StateHeld'
    <3>1. mlpc # "apply" /\ \A x \in Workers \ {w} : wpc[x] \notin {"read", "evict"}
      BY <2>1, SortAssumption DEF IInv, LockInv, StateHeld
    <3>2. NeedsRoom(Object(w)) => st' = w
      BY <1>3, <2>1 DEF EnsureCapacity
    <3>3. ~NeedsRoom(Object(w)) => victims' = <<>>
      BY <1>3, <2>1 DEF EnsureCapacity
    <3> QED
      BY <2>3, <2>7, <3>1, <3>2, <3>3 DEF StateHeld
  <2> QED
    BY <2>8, <2>9, <2>10, <2>11 DEF LockInv
<1>4. CASE EvictDone(w)
  <2>1. st = w /\ \A i : ~Moving(i)
    BY <1>4 DEF EvictDone, IInv, LockInv, StateHeld, Moving
  <2>2. victims' = <<>> /\ \A i : ~Moving(i)'
    BY <1>4 DEF EvictDone, Moving
  <2>3. /\ wpc'[w] \in {"dead", "spin"}
        /\ \A x \in Workers \ {w} : wpc'[x] = wpc[x]
    BY <1>4 DEF EvictDone, Panic, Goto, IInv, TypeOK, WorkTypes
  <2>4. UNCHANGED <<wr, bit, wchunk, mlpc>>
    BY <1>4 DEF EvictDone, Panic, msgVars
  <2>5. ReadersKnown' /\ WriterExcludes'
    <3>1. \A u \in Ufos : Pivoted(u) = {} /\ Pivoted(u)' = {}
      BY <2>1, <2>2 DEF Pivoted
    <3>2. CASE \E i \in DOMAIN victims : victims[i].stage = "error"
      <4>1. wpc'[w] = "dead" /\ \A u \in Ufos : rd'[u] = rd[u] \ {w}
        BY <1>4, <3>2 DEF EvictDone, Panic, Goto, IInv, TypeOK, WorkTypes
      <4> QED
        BY <1>4, <2>3, <2>4, <3>1, <4>1, WorkerLeaves, WorkerChunk
        DEF EvictDone, IInv, ReadPcs
    <3>3. CASE ~\E i \in DOMAIN victims : victims[i].stage = "error"
      <4>1. wpc'[w] = "spin" /\ UNCHANGED rd
        BY <1>4, <3>3 DEF EvictDone, Goto, IInv, TypeOK, WorkTypes
      <4>2. \A u \in Ufos : Inside(u)' = Inside(u)
        BY <1>4, <2>3, <2>4, <4>1 DEF EvictDone, Inside, Object, ReadPcs
      <4> QED
        BY <2>4, <3>1, <4>1, <4>2 DEF IInv, LockInv, ReadersKnown, WriterExcludes
    <3> QED
      BY <3>2, <3>3
  <2>6. BitsHeld'
    <3>1. FillersHold'
      BY <2>3, <2>4 DEF IInv, LockInv, BitsHeld, FillersHold
    <3> QED
      BY <2>2, <3>1 DEF BitsHeld, MoversHold, MoversDiffer
  <2>7. StateHeld'
    <3>1. mlpc # "apply" /\ \A x \in Workers \ {w} : wpc[x] \notin {"read", "evict"}
      BY <2>1, SortAssumption DEF IInv, LockInv, StateHeld
    <3> QED
      BY <2>2, <2>3, <2>4, <3>1 DEF StateHeld
  <2> QED
    BY <2>5, <2>6, <2>7 DEF LockInv
<1> QED
  BY <1>1, <1>2, <1>3, <1>4

(* One task of an eviction changes its victim.                              *)
LEMMA StageMoving ==
  ASSUME IInv, NEW i \in DOMAIN victims, NEW s, NEW d,
         victims' = [victims EXCEPT ![i] = AtStage(victims[i].entry, s, d)]
  PROVE  /\ DOMAIN victims' = DOMAIN victims
         /\ \A j \in DOMAIN victims : victims'[j].entry.chunk = victims[j].entry.chunk
         /\ \A j \in DOMAIN victims \ {i} : Moving(j)' <=> Moving(j)
         /\ Moving(i)' <=> s = "pivot"
         /\ \A u : Pivoted(u)' = IF s = "pivot" /\ UfoOf[victims[i].entry.chunk] = u
                                 THEN Pivoted(u) \cup {i} ELSE Pivoted(u) \ {i}
<1>1. /\ DOMAIN victims' = DOMAIN victims
      /\ victims'[i] = AtStage(victims[i].entry, s, d)
      /\ \A j \in DOMAIN victims \ {i} : victims'[j] = victims[j]
  BY VictimTypes DEF IInv
<1>2. victims'[i].entry = victims[i].entry /\ victims'[i].stage = s
  BY <1>1 DEF AtStage
<1> QED
  BY <1>1, <1>2 DEF Moving, Pivoted

LEMMA EvictionLocks ==
  ASSUME IInv, NEW w \in Workers, NEW i \in DOMAIN victims, Punch(w, i) \/ WriteBack(w, i)
  PROVE  LockInv'
<1> DEFINE c == victims[i].entry.chunk
           Moves(b) == /\ \A j \in DOMAIN victims \ {i} : Moving(j)' <=> Moving(j)
                       /\ Moving(i)' <=> b
<1>1. c \in Chunks /\ UfoOf[c] \in Ufos /\ i \in Nat
  BY VictimTypes, ShapeAssumption DEF IInv
<1>2. UNCHANGED <<wpc, wchunk, wr, st, mlpc>> /\ wpc[w] = "evict"
  BY DEF Punch, WriteBack, workVars, msgVars
<1>3. \A u \in Ufos : Inside(u)' = Inside(u) /\ i \notin Inside(u)
  BY <1>1, <1>2, SortAssumption DEF Inside, Object
<1>4. /\ DOMAIN victims' = DOMAIN victims
      /\ \A j \in DOMAIN victims : victims'[j].entry.chunk = victims[j].entry.chunk
  <2>1. PICK s, d : victims' = [victims EXCEPT ![i] = AtStage(victims[i].entry, s, d)]
    BY DEF Punch, WriteBack
  <2> QED
    BY <2>1, StageMoving
<1>5. StateHeld'
  BY <1>2 DEF StateHeld, IInv, LockInv
<1>10. \A x \in Workers : wpc[x] = "fill" => wchunk[x] \in Chunks /\ bit[wchunk[x]] = x
  BY WorkerChunk DEF IInv, LockInv, BitsHeld, FillersHold
<1>6. ASSUME Moves(FALSE), UNCHANGED rd, ~Moving(i)
      PROVE  ReadersKnown'
  <2>1. \A u \in Ufos : Pivoted(u)' = Pivoted(u)
    BY <1>4, <1>6 DEF Pivoted
  <2> QED
    BY <1>3, <1>6, <2>1 DEF ReadersKnown, IInv, LockInv
<1>7. CASE Punch(w, i) /\ UfoOf[c] \notin ReadOnly /\ bit[c] = NoOne
  <2>1. victims' = [victims EXCEPT ![i] = AtStage(victims[i].entry, "pivot", mem[c])]
    BY <1>7 DEF Punch
  <2>2. Moves(TRUE)
    BY <2>1, StageMoving
  <2>3. /\ \A x \in Chunks : bit'[x] = IF x = c THEN w ELSE bit[x]
        /\ \A u \in Ufos : rd'[u] = IF u = UfoOf[c] THEN rd[u] \cup {i} ELSE rd[u]
        /\ wr[UfoOf[c]] = NoOne
    BY <1>1, <1>7 DEF Punch, ReadGuard, IInv, TypeOK, LockTypes
  <2>4. \A u \in Ufos : Pivoted(u)' = IF u = UfoOf[c] THEN Pivoted(u) \cup {i} ELSE Pivoted(u)
    <3>1. ~Moving(i)
      BY <1>7 DEF Punch, Moving
    <3> QED
      BY <1>4, <2>2, <3>1 DEF Pivoted
  <2>5. ReadersKnown'
    <3>1. SUFFICES ASSUME NEW u \in Ufos
                   PROVE  rd'[u] = Inside(u)' \cup Pivoted(u)'
      BY DEF ReadersKnown
    <3>2. rd[u] = Inside(u) \cup Pivoted(u) /\ Inside(u)' = Inside(u) /\ i \notin Inside(u)
      BY <1>3 DEF ReadersKnown, IInv, LockInv
    <3> QED
      BY <2>3, <2>4, <3>2
  <2>6. WriterExcludes'
    BY <1>2, <2>3 DEF WriterExcludes, IInv, LockInv
  <2>7. FillersHold'
    <3>1. \A x \in Workers : wpc[x] = "fill" => wchunk[x] \in Chunks /\ wchunk[x] # c
      BY <1>7, <1>10, SortAssumption
    <3> QED
      BY <1>2, <1>10, <2>3, <3>1 DEF FillersHold
  <2>8. \A j \in DOMAIN victims :
           Moving(j) => victims[j].entry.chunk \in Chunks \ {c}
    BY <1>7, VictimTypes, SortAssumption DEF IInv, LockInv, BitsHeld, MoversHold
  <2>9. MoversHold'
    BY <1>1, <1>2, <1>4, <2>2, <2>3, <2>8 DEF IInv, LockInv, BitsHeld, MoversHold
  <2>10. MoversDiffer'
    BY <1>4, <2>2, <2>8 DEF IInv, LockInv, BitsHeld, MoversDiffer
  <2> QED
    BY <1>5, <2>5, <2>6, <2>7, <2>9, <2>10 DEF LockInv, BitsHeld
<1>8. CASE Punch(w, i) /\ ~(UfoOf[c] \notin ReadOnly /\ bit[c] = NoOne)
  <2>1. PICK s \in {"done", "error"} :
            victims' = [victims EXCEPT ![i] = AtStage(victims[i].entry, s, None)]
    BY <1>8 DEF Punch
  <2>2. UNCHANGED <<bit, rd>> /\ ~Moving(i)
    BY <1>8 DEF Punch, Moving
  <2>3. Moves(FALSE)
    BY <2>1, StageMoving
  <2>4. ReadersKnown' /\ WriterExcludes'
    BY <1>2, <1>6, <2>2, <2>3 DEF WriterExcludes, IInv, LockInv
  <2>5. BitsHeld'
    BY <1>2, <1>4, <2>2, <2>3
    DEF IInv, LockInv, BitsHeld, FillersHold, MoversHold, MoversDiffer
  <2> QED
    BY <1>5, <2>4, <2>5 DEF LockInv
<1>9. CASE WriteBack(w, i)
  <2>1. victims' = [victims EXCEPT ![i] = AtStage(victims[i].entry, "done", None)]
    BY <1>9 DEF WriteBack
  <2>2. Moves(FALSE)
    <3>1. ~Moving(i)'
      BY <2>1, VictimTypes DEF Moving, AtStage, IInv
    <3>2. \A j \in DOMAIN victims \ {i} : Moving(j)' <=> Moving(j)
      BY <2>1, StageMoving
    <3> QED
      BY <3>1, <3>2
  <2>3. /\ \A x \in Chunks : bit'[x] = IF x = c THEN NoOne ELSE bit[x]
        /\ \A u \in Ufos : rd'[u] = IF u = UfoOf[c] THEN rd[u] \ {i} ELSE rd[u]
        /\ Moving(i)
    BY <1>1, <1>9 DEF WriteBack, Moving, IInv, TypeOK, LockTypes
  <2>4. \A u \in Ufos : Pivoted(u)' = IF u = UfoOf[c] THEN Pivoted(u) \ {i} ELSE Pivoted(u)
    BY <1>4, <2>2 DEF Pivoted
  <2>5. ReadersKnown'
    <3>1. SUFFICES ASSUME NEW u \in Ufos
                   PROVE  rd'[u] = Inside(u)' \cup Pivoted(u)'
      BY DEF ReadersKnown
    <3>2. rd[u] = Inside(u) \cup Pivoted(u) /\ Inside(u)' = Inside(u) /\ i \notin Inside(u)
      BY <1>3 DEF ReadersKnown, IInv, LockInv
    <3> QED
      BY <2>3, <2>4, <3>2
  <2>6. WriterExcludes'
    BY <1>2, <2>3 DEF WriterExcludes, IInv, LockInv
  <2>7. bit[c] \in Workers /\ wpc[bit[c]] = "evict"
    BY <2>3 DEF IInv, LockInv, BitsHeld, MoversHold
  <2>8. FillersHold'
    <3>1. \A x \in Workers : wpc[x] = "fill" => wchunk[x] \in Chunks /\ wchunk[x] # c
      BY <1>10, <2>7
    <3> QED
      BY <1>2, <1>10, <2>3, <3>1 DEF FillersHold
  <2>9. \A j \in DOMAIN victims \ {i} :
           Moving(j) => victims[j].entry.chunk \in Chunks \ {c}
    BY <2>3, VictimTypes DEF IInv, LockInv, BitsHeld, MoversDiffer
  <2>10. MoversHold'
    <3>1. SUFFICES ASSUME NEW j \in DOMAIN victims, j # i, Moving(j)
                   PROVE  bit'[victims[j].entry.chunk] \in {x \in Workers : wpc[x] = "evict"}
      BY <1>2, <1>4, <2>2 DEF MoversHold
    <3> QED
      BY <2>3, <2>9, <3>1 DEF IInv, LockInv, BitsHeld, MoversHold
  <2>11. MoversDiffer'
    BY <1>4, <2>2 DEF IInv, LockInv, BitsHeld, MoversDiffer
  <2> QED
    BY <1>5, <2>5, <2>6, <2>8, <2>10, <2>11 DEF LockInv, BitsHeld
<1> QED
  BY <1>7, <1>8, <1>9

(* The worker's steps on its own chunk.                                     *)
LEMMA ChunkLocks ==
  ASSUME IInv, NEW w \in Workers, SpinLock(w) \/ FaultWhilePopulating(w) \/ Fill(w)
  PROVE  LockInv'
<1>1. wchunk[w] \in Chunks
  BY WorkerChunk DEF SpinLock, FaultWhilePopulating, Fill, IInv
<1>2. \A i : Moving(i)' <=> Moving(i)
  BY DEF Moving, SpinLock, FaultWhilePopulating, Fill, coreVars
<1>3. \A i \in DOMAIN victims : victims[i].entry.chunk \in Chunks
  BY VictimTypes DEF IInv
<1>4. \A x \in Workers : wpc[x] = "fill" => wchunk[x] \in Chunks /\ bit[wchunk[x]] = x
  BY WorkerChunk DEF IInv, LockInv, BitsHeld, FillersHold
<1>5. CASE SpinLock(w)
  <2>1. /\ wpc'[w] = "fill" /\ wpc[w] = "spin"
        /\ \A x \in Workers \ {w} : wpc'[x] = wpc[x]
    BY <1>5 DEF SpinLock, Goto, IInv, TypeOK, WorkTypes
  <2>2. /\ UNCHANGED <<wchunk, victims, st, mlpc>>
        /\ bit[wchunk[w]] = NoOne
        /\ \A c \in Chunks : bit'[c] = IF c = wchunk[w] THEN w ELSE bit[c]
    BY <1>1, <1>5 DEF SpinLock, IInv, TypeOK, LockTypes, coreVars, msgVars
  <2>3. ReadersKnown' /\ WriterExcludes'
    BY <1>5, WorkerMoves DEF SpinLock, WorkerPcs, ReadPcs, coreVars
  <2>4. FillersHold'
    BY <1>1, <1>4, <2>1, <2>2, SortAssumption DEF FillersHold
  <2>5. MoversHold'
    BY <1>2, <1>3, <2>1, <2>2, SortAssumption DEF MoversHold, IInv, LockInv, BitsHeld
  <2>6. MoversDiffer'
    BY <1>2, <2>2 DEF MoversDiffer, IInv, LockInv, BitsHeld
  <2>7. StateHeld'
    BY <2>1, <2>2 DEF StateHeld, IInv, LockInv
  <2> QED
    BY <2>3, <2>4, <2>5, <2>6, <2>7 DEF LockInv, BitsHeld
<1>6. CASE FaultWhilePopulating(w)
  BY <1>6, CallerSteps DEF FaultWhilePopulating, coreVars, lockVars, workVars, msgVars
<1>7. CASE Fill(w) /\ Panic(w)
  BY <1>7, PanicLocks DEF Fill, coreVars
<1>8. CASE Fill(w) /\ ~Panic(w)
  <2>1. /\ wpc'[w] = "copy" /\ wpc[w] = "fill"
        /\ \A x \in Workers \ {w} : wpc'[x] = wpc[x]
    BY <1>8 DEF Fill, Goto, IInv, TypeOK, WorkTypes
  <2>2. /\ UNCHANGED <<wchunk, victims, st, mlpc>>
        /\ bit[wchunk[w]] = w
        /\ \A c \in Chunks : bit'[c] = IF c = wchunk[w] THEN NoOne ELSE bit[c]
    BY <1>1, <1>4, <1>8 DEF Fill, IInv, TypeOK, LockTypes, coreVars, msgVars
  <2>3. ReadersKnown' /\ WriterExcludes'
    BY <1>8, WorkerMoves DEF Fill, WorkerPcs, ReadPcs, coreVars
  <2>4. FillersHold'
    BY <1>4, <2>1, <2>2 DEF FillersHold
  <2>5. MoversHold'
    BY <1>2, <1>3, <2>1, <2>2 DEF MoversHold, IInv, LockInv, BitsHeld
  <2>6. MoversDiffer'
    BY <1>2, <2>2 DEF MoversDiffer, IInv, LockInv, BitsHeld
  <2>7. StateHeld'
    BY <2>1, <2>2 DEF StateHeld, IInv, LockInv
  <2> QED
    BY <2>3, <2>4, <2>5, <2>6, <2>7 DEF LockInv, BitsHeld
<1> QED
  BY <1>5, <1>6, <1>7, <1>8

LEMMA PublishLocks ==
  ASSUME IInv, NEW w \in Workers, Copy(w) \/ AddChunk(w) \/ Hash(w)
  PROVE  LockInv'
<1>1. CASE (Copy(w) /\ mem[wchunk[w]] # None) \/ (AddChunk(w) /\ poisoned)
  BY <1>1, PanicLocks DEF Copy, AddChunk, coreVars
<1>2. CASE (Copy(w) /\ mem[wchunk[w]] = None) \/ (AddChunk(w) /\ ~poisoned)
  <2>1. /\ wpc'[w] \in {"add", "hash"} /\ wpc[w] \in {"copy", "add"}
        /\ \A x \in Workers \ {w} : wpc'[x] = wpc[x]
    BY <1>2 DEF Copy, AddChunk, Goto, IInv, TypeOK, WorkTypes
  <2>2. UNCHANGED <<rd, wr, wchunk, victims, st, mlpc, bit>>
    BY <1>2 DEF Copy, AddChunk, coreVars, lockVars, msgVars
  <2>3. ReadersKnown' /\ WriterExcludes'
    BY <1>2, <2>2, WorkerMoves DEF Copy, AddChunk, WorkerPcs, ReadPcs
  <2>4. BitsHeld'
    BY <2>1, <2>2, BitsStay
  <2>5. StateHeld'
    BY <2>1, <2>2 DEF StateHeld, IInv, LockInv
  <2> QED
    BY <2>3, <2>4, <2>5 DEF LockInv
<1>3. CASE Hash(w)
  <2>1. /\ wpc'[w] = "idle" /\ wpc[w] = "hash"
        /\ \A x \in Workers \ {w} : wpc'[x] = wpc[x] /\ wchunk'[x] = wchunk[x]
    BY <1>3 DEF Hash, Goto, IInv, TypeOK, WorkTypes
  <2>2. /\ DOMAIN victims' = DOMAIN victims
        /\ \A i \in DOMAIN victims : /\ victims'[i].stage = victims[i].stage
                                     /\ victims'[i].entry.chunk = victims[i].entry.chunk
    <3>1. PICK h : victims' = [i \in DOMAIN victims |-> [victims[i] EXCEPT !.entry =
                      IF @.hash = w THEN [@ EXCEPT !.hash = h] ELSE @]]
      BY <1>3 DEF Hash
    <3> QED
      BY <3>1, VictimTypes DEF IInv, Victim, Entry
  <2>3. /\ \A i : Moving(i)' <=> Moving(i)
        /\ \A u \in Ufos : Pivoted(u)' = Pivoted(u)
    BY <2>2 DEF Moving, Pivoted
  <2>4. UNCHANGED <<wr, st, mlpc, bit>>
    BY <1>3 DEF Hash, msgVars
  <2>5. /\ Object(w) \in Ufos
        /\ \A u \in Ufos : rd'[u] = IF u = Object(w) THEN rd[u] \ {w} ELSE rd[u]
    BY <1>3, WorkerChunk DEF Hash, IInv, TypeOK, LockTypes
  <2>6. \A u \in Ufos : w \in rd[u] => u = Object(w)
    <3>1. \A u \in Ufos : w \notin Pivoted(u)
      BY VictimTypes, SortAssumption DEF Pivoted, Moving, IInv
    <3> QED
      BY <3>1 DEF IInv, LockInv, ReadersKnown, Inside
  <2>7. \A u \in Ufos : rd'[u] = rd[u] \ {w}
    BY <2>5, <2>6
  <2>8. ReadersKnown' /\ WriterExcludes'
    BY <2>1, <2>3, <2>4, <2>5, <2>7, WorkerLeaves DEF ReadPcs
  <2>9. FillersHold'
    BY <2>1, <2>4 DEF FillersHold, IInv, LockInv, BitsHeld
  <2>10. MoversHold'
    BY <2>1, <2>2, <2>3, <2>4 DEF MoversHold, IInv, LockInv, BitsHeld
  <2>11. MoversDiffer'
    BY <2>2, <2>3 DEF MoversDiffer, IInv, LockInv, BitsHeld
  <2>12. StateHeld'
    <3>1. victims = <<>> => victims' = <<>>
      BY <2>2, <1>3 DEF Hash
    <3> QED
      BY <2>1, <2>4, <3>1 DEF StateHeld, IInv, LockInv
  <2> QED
    BY <2>8, <2>9, <2>10, <2>11, <2>12 DEF LockInv, BitsHeld
<1> QED
  BY <1>1, <1>2, <1>3

LEMMA LockStep ==
  ASSUME IInv, [Next]_vars
  PROVE  LockInv'
<1>1. ASSUME NEW m \in Mutators, MutatorStep(m) PROVE LockInv'
  BY <1>1, MutatorLocks
<1>2. CASE LoopStep
  BY <1>2, LoopLocks
<1>3. ASSUME NEW w \in Workers, PopulateStep(w) PROVE LockInv'
  BY <1>3, PopulateLocks1, EvictionLocks, ChunkLocks, PublishLocks DEF PopulateStep
<1>4. ASSUME NEW w \in Workers,
             WorkerExit(w) \/ \E t \in Threads : ReadEvent(w, t)
      PROVE  LockInv'
  <2>1. /\ wpc'[w] \in {"exit", "lookup"} /\ wpc[w] = "idle"
        /\ \A x \in Workers \ {w} : wpc'[x] = wpc[x] /\ wchunk'[x] = wchunk[x]
    BY <1>4 DEF WorkerExit, ReadEvent, Goto, IInv, TypeOK, WorkTypes
  <2>2. UNCHANGED <<rd, wr, bit, st, victims, mlpc>>
    BY <1>4 DEF WorkerExit, ReadEvent, coreVars, lockVars, msgVars
  <2>3. \A u \in Ufos : Inside(u)' = Inside(u) /\ Pivoted(u)' = Pivoted(u)
    BY <2>1, <2>2 DEF Inside, Object, Pivoted, Moving, ReadPcs
  <2>4. ReadersKnown' /\ WriterExcludes'
    BY <2>2, <2>3 DEF ReadersKnown, WriterExcludes, IInv, LockInv
  <2>5. BitsHeld'
    BY <2>1, <2>2, BitsStay
  <2>6. StateHeld'
    BY <2>1, <2>2 DEF StateHeld, IInv, LockInv
  <2> QED
    BY <2>4, <2>5, <2>6 DEF LockInv
<1>5. CASE UNCHANGED vars
  BY <1>5, CallerSteps DEF vars, coreVars, lockVars, workVars, msgVars
<1> QED
  BY <1>1, <1>2, <1>3, <1>4, <1>5 DEF Next, WorkerStep

LEMMA InitLocks == Init => LockInv
BY SortAssumption
DEF Init, LockInv, ReadersKnown, Inside, Pivoted, Moving, ReadPcs, BitsHeld, FillersHold,
    MoversHold, MoversDiffer, WriterExcludes, StateHeld

(* The lock discipline holds in every reachable state.                      *)
THEOREM SpecLocks == Spec => []IInv
<1>1. Init => IInv
  BY InitTypes, InitLocks DEF IInv
<1>2. IInv /\ [Next]_vars => IInv'
  <2> SUFFICES ASSUME IInv, [Next]_vars PROVE IInv'
    OBVIOUS
  <2>1. TypeOK'
    BY TypeStep DEF IInv
  <2>2. LockInv'
    BY LockStep
  <2> QED
    BY <2>1, <2>2 DEF IInv
<1> QED
  BY <1>1, <1>2, PTL DEF Spec

(* However many threads, objects and chunks there are, the data of a chunk  *)
(* is produced, read back or written back by one thread at a time, although *)
(* a reset clears the bits of the chunks without looking at them            *)
(* (ufo_objects.rs:350-354, 539, 575-586).                                  *)
THEOREM SpecChunkExclusive == Spec => []ChunkExclusive
<1>1. IInv => ChunkExclusive
  <2> SUFFICES ASSUME IInv, NEW c \in Chunks
               PROVE  /\ \A w, x \in Filling(c) : w = x
                      /\ \A i, j \in WritingBack(c) : i = j
                      /\ Filling(c) = {} \/ WritingBack(c) = {}
    BY DEF ChunkExclusive
  <2>1. \A w \in Filling(c) : bit[c] = w /\ wpc[w] = "fill"
    BY DEF Filling, IInv, LockInv, BitsHeld, FillersHold
  <2>2. \A i \in WritingBack(c) : wpc[bit[c]] = "evict"
    BY DEF WritingBack, Moving, IInv, LockInv, BitsHeld, MoversHold
  <2>3. \A i, j \in WritingBack(c) : i = j
    BY DEF WritingBack, Moving, IInv, LockInv, BitsHeld, MoversDiffer
  <2> QED
    BY <2>1, <2>2, <2>3
<1> QED
  BY <1>1, SpecLocks, PTL

-----------------------------------------------------------------------------
(* Induction over the natural numbers, from the fact that < is well founded *)
(* on them.                                                                 *)
Less == {p \in Nat \X Nat : p[1] < p[2]}
LEMMA LessWellFounded == IsWellFoundedOn(Less, Nat)
BY NatLessThanWellFounded DEF OpToRel, Less

LEMMA LeastElement ==
  ASSUME NEW S \in SUBSET Nat, S # {}
  PROVE  \E n \in S : \A m \in S : n <= m
<1>1. PICK n \in S : \A m \in S : <<m, n>> \notin Less
  BY LessWellFounded, WFMin, Zenon
<1>2. \A m \in S : ~(m < n)
  BY <1>1 DEF Less
<1> QED
  BY <1>2

LEMMA SetInduction ==
  ASSUME NEW S, 0 \in S, \A n \in Nat : n \in S => n + 1 \in S
  PROVE  Nat \subseteq S
<1> SUFFICES ASSUME NEW k \in Nat, k \notin S PROVE FALSE
  OBVIOUS
<1> DEFINE T == {n \in Nat : n \notin S}
<1>1. PICK n \in T : \A m \in T : n <= m
  BY LeastElement, T # {}
<1>2. n # 0 /\ n - 1 \in Nat /\ n - 1 \notin T
  BY <1>1
<1> QED
  BY <1>2
-----------------------------------------------------------------------------
(* The bytes of a sequence of entries.                                      *)

LEMMA EntrySizes == \A e \in Entry : EntrySize(e) \in Nat /\ Forgotten(e) \in Entry
                                     /\ EntrySize(Forgotten(e)) = 0
BY ShapeAssumption DEF EntrySize, Entry, Forgotten

(* The sums of the first entries, and their last value.                     *)
PartialSums(f, q) ==
  /\ f \in [0..Len(q) -> Nat]
  /\ f[0] = 0
  /\ \A n \in 1..Len(q) : f[n] = f[n - 1] + EntrySize(q[n])

LEMMA SumsExist ==
  ASSUME NEW q \in Seq(Entry)
  PROVE  \E f : PartialSums(f, q)
<1> DEFINE Upto(f, k) == /\ f \in [0..k -> Nat] /\ f[0] = 0
                         /\ \A n \in 1..k : f[n] = f[n - 1] + EntrySize(q[n])
           S == {k \in Nat : k <= Len(q) => \E f : Upto(f, k)}
<1>1. 0 \in S
  <2>1. Upto([n \in 0..0 |-> 0], 0)
    OBVIOUS
  <2> QED
    BY <2>1
<1>2. ASSUME NEW k \in Nat, k \in S PROVE k + 1 \in S
  <2> SUFFICES ASSUME k + 1 <= Len(q) PROVE \E f : Upto(f, k + 1)
    OBVIOUS
  <2>1. PICK f : Upto(f, k)
    BY <1>2
  <2>2. EntrySize(q[k + 1]) \in Nat
    BY EntrySizes
  <2> DEFINE g == [n \in 0..(k + 1) |-> IF n = k + 1 THEN f[k] + EntrySize(q[k + 1]) ELSE f[n]]
  <2>3. g \in [0..(k + 1) -> Nat] /\ g[0] = 0
    BY <2>1, <2>2
  <2>4. ASSUME NEW n \in 1..(k + 1) PROVE g[n] = g[n - 1] + EntrySize(q[n])
    <3>1. CASE n = k + 1
      BY <3>1
    <3>2. CASE n # k + 1
      <4>1. n \in 1..k /\ n - 1 # k + 1 /\ n - 1 \in 0..(k + 1)
        BY <3>2
      <4> QED
        BY <4>1, <2>1
    <3> QED
      BY <3>1, <3>2
  <2>5. Upto(g, k + 1)
    BY <2>3, <2>4
  <2> QED
    BY <2>5
<1>3. Len(q) \in S
  <2> HIDE DEF S
  <2>1. Nat \subseteq S
    BY <1>1, <1>2, SetInduction
  <2> QED
    BY <2>1
<1> QED
  BY <1>3 DEF PartialSums

LEMMA SumsAgree ==
  ASSUME NEW q \in Seq(Entry), NEW f, PartialSums(f, q), NEW g,
         g[0] = 0, \A n \in 1..Len(q) : g[n] = g[n - 1] + EntrySize(q[n])
  PROVE  \A n \in 0..Len(q) : f[n] = g[n]
<1> DEFINE S == {n \in Nat : n \in 0..Len(q) => f[n] = g[n]}
<1>1. 0 \in S
  BY DEF PartialSums
<1>2. ASSUME NEW n \in Nat, n \in S PROVE n + 1 \in S
  <2> SUFFICES ASSUME n + 1 \in 0..Len(q) PROVE f[n + 1] = g[n + 1]
    OBVIOUS
  <2>1. n + 1 \in 1..Len(q) /\ n \in 0..Len(q) /\ (n + 1) - 1 = n
    OBVIOUS
  <2>2. f[n + 1] = f[(n + 1) - 1] + EntrySize(q[n + 1])
    BY <2>1 DEF PartialSums
  <2>3. g[n + 1] = g[(n + 1) - 1] + EntrySize(q[n + 1])
    BY <2>1
  <2> QED
    BY <1>2, <2>1, <2>2, <2>3
<1>3. Nat \subseteq S
  <2> HIDE DEF S
  <2> QED
    BY <1>1, <1>2, SetInduction
<1> QED
  BY <1>3

LEMMA SumIs ==
  ASSUME NEW q \in Seq(Entry), NEW f, PartialSums(f, q)
  PROVE  TotalSize(q) = f[Len(q)]
<1> DEFINE Body(g) == [n \in 0..Len(q) |-> IF n = 0 THEN 0 ELSE g[n - 1] + EntrySize(q[n])]
           s == CHOOSE g : g = Body(g)
<1>1. f = Body(f)
  BY DEF PartialSums
<1>2. s = Body(s)
  BY <1>1
<1>3. TotalSize(q) = s[Len(q)]
  BY DEF TotalSize
<1> HIDE DEF s
<1>4. s[0] = 0 /\ \A n \in 1..Len(q) : s[n] = s[n - 1] + EntrySize(q[n])
  BY <1>2
<1> QED
  BY <1>3, <1>4, SumsAgree

LEMMA SumNat ==
  ASSUME NEW q \in Seq(Entry)
  PROVE  TotalSize(q) \in Nat
<1>1. PICK f : PartialSums(f, q)
  BY SumsExist
<1> QED
  BY <1>1, SumIs DEF PartialSums

LEMMA SumEmpty == TotalSize(<<>>) = 0
<1>1. PICK f : PartialSums(f, <<>>)
  BY SumsExist, EmptySeq
<1> QED
  BY <1>1, SumIs, EmptySeq DEF PartialSums

LEMMA SumAppend ==
  ASSUME NEW q \in Seq(Entry), NEW e \in Entry
  PROVE  TotalSize(Append(q, e)) = TotalSize(q) + EntrySize(e)
<1> DEFINE a == Append(q, e)
<1>6. a \in Seq(Entry)
  OBVIOUS
<1>1. PICK f : PartialSums(f, a)
  BY <1>6, SumsExist
<1>2. /\ Len(Append(q, e)) = Len(q) + 1 /\ Append(q, e)[Len(q) + 1] = e
      /\ \A n \in 1..Len(q) : Append(q, e)[n] = q[n]
      /\ Len(q) \in Nat
  OBVIOUS
<1>3. PartialSums([n \in 0..Len(q) |-> f[n]], q)
  BY <1>1, <1>2 DEF PartialSums
<1>4. TotalSize(q) = f[Len(q)]
  BY <1>2, <1>3, SumIs
<1>5. f[Len(q) + 1] = f[Len(q)] + EntrySize(e)
  BY <1>1, <1>2 DEF PartialSums
<1> HIDE DEF a
<1>7. TotalSize(a) = f[Len(a)] /\ Len(a) = Len(q) + 1
  BY <1>1, <1>2, <1>6, SumIs DEF a
<1> QED
  BY <1>4, <1>5, <1>7 DEF a

LEMMA SumSplit ==
  ASSUME NEW q \in Seq(Entry), NEW k \in 0..Len(q)
  PROVE  TotalSize(q) = TotalSize(SubSeq(q, 1, k)) + TotalSize(SubSeq(q, k + 1, Len(q)))
<1>1. PICK f : PartialSums(f, q)
  BY SumsExist
<1> DEFINE a == SubSeq(q, 1, k)
           b == SubSeq(q, k + 1, Len(q))
<1>2. /\ a \in Seq(Entry) /\ Len(a) = k /\ \A n \in 1..k : a[n] = q[n]
      /\ b \in Seq(Entry) /\ Len(b) = Len(q) - k
      /\ \A n \in 1..(Len(q) - k) : b[n] = q[k + n]
  OBVIOUS
<1> HIDE DEF a, b
<1>3. PartialSums([n \in 0..k |-> f[n]], a)
  <2>4. \A n \in 0..k : n \in 0..Len(q)
    OBVIOUS
  <2>5. \A n \in 1..k : n \in 0..k /\ n - 1 \in 0..k /\ n \in 1..Len(q)
    OBVIOUS
  <2>1. /\ \A n \in 0..k : n \in 0..Len(q) /\ f[n] \in Nat
        /\ \A n \in 1..k : n \in 0..k /\ n - 1 \in 0..k /\ n \in 1..Len(q)
        /\ f[0] = 0 /\ 0 \in 0..k
    <3>1. f \in [0..Len(q) -> Nat] /\ f[0] = 0
      BY <1>1 DEF PartialSums
    <3>2. \A n \in 0..k : f[n] \in Nat
      BY <2>4, <3>1
    <3>3. 0 \in 0..k
      OBVIOUS
    <3> QED
      BY <2>4, <2>5, <3>1, <3>2, <3>3
  <2>2. \A n \in 1..k : f[n] = f[n - 1] + EntrySize(a[n])
    BY <1>1, <1>2, <2>1 DEF PartialSums
  <2> QED
    BY <1>2, <2>1, <2>2 DEF PartialSums
<1>4. TotalSize(a) = f[k]
  BY <1>2, <1>3, SumIs
<1>5. PICK g : PartialSums(g, b)
  BY <1>2, SumsExist
<1> DEFINE h == [n \in 0..Len(q) |-> IF n <= k THEN f[n] ELSE f[k] + g[n - k]]
<1>6. ASSUME NEW n \in 1..Len(q)
      PROVE  h[n] = h[n - 1] + EntrySize(q[n])
  <2>1. CASE n <= k
    BY <1>1, <2>1 DEF PartialSums
  <2>2. CASE n > k
    <3>1. n - k \in 1..(Len(q) - k) /\ k + (n - k) = n /\ (n - k) - 1 = (n - 1) - k
      BY <2>2
    <3>2. g[n - k] = g[(n - k) - 1] + EntrySize(b[n - k]) /\ b[n - k] = q[n]
      BY <1>2, <1>5, <3>1 DEF PartialSums
    <3>3. g \in [0..(Len(q) - k) -> Nat] /\ f[k] \in Nat /\ g[0] = 0
      BY <1>1, <1>2, <1>5 DEF PartialSums
    <3>4. EntrySize(q[n]) \in Nat
      BY EntrySizes
    <3>5. h[n - 1] = f[k] + g[(n - 1) - k]
      <4>1. n - 1 \in 0..Len(q)
        OBVIOUS
      <4>2. CASE n - 1 = k
        BY <3>3, <4>1, <4>2
      <4>3. CASE n - 1 # k
        BY <2>2, <4>1, <4>3
      <4> QED
        BY <4>2, <4>3
    <3>6. h[n] = f[k] + g[n - k]
      BY <2>2
    <3>7. g[(n - k) - 1] \in Nat
      BY <3>1, <3>3
    <3> QED
      BY <3>1, <3>2, <3>3, <3>4, <3>5, <3>6, <3>7
  <2> QED
    BY <2>1, <2>2
<1>7. h[0] = 0
  BY <1>1 DEF PartialSums
<1>8. h[Len(q)] = f[k] + g[Len(q) - k]
  <2>1. Len(q) \in 0..Len(q) /\ g[0] = 0 /\ f[k] \in Nat
    BY <1>1, <1>5 DEF PartialSums
  <2>2. CASE Len(q) = k
    BY <2>1, <2>2
  <2>3. CASE Len(q) # k
    BY <2>1, <2>3
  <2> QED
    BY <2>2, <2>3
<1>9. f[Len(q)] = h[Len(q)]
  BY <1>1, <1>6, <1>7, SumsAgree
<1> QED
  BY <1>1, <1>2, <1>4, <1>5, <1>8, <1>9, SumIs DEF a, b

(* Entries of the same sizes, or of sizes that are not larger.              *)
LEMMA SumMonotone ==
  ASSUME NEW p \in Seq(Entry), NEW q \in Seq(Entry), Len(p) = Len(q),
         \A n \in 1..Len(q) : EntrySize(p[n]) <= EntrySize(q[n])
  PROVE  TotalSize(p) <= TotalSize(q)
<1>1. PICK f : PartialSums(f, p)
  BY SumsExist
<1>2. PICK g : PartialSums(g, q)
  BY SumsExist
<1> DEFINE S == {n \in Nat : n \in 0..Len(q) => f[n] <= g[n]}
<1>3. 0 \in S
  BY <1>1, <1>2 DEF PartialSums
<1>4. ASSUME NEW n \in Nat, n \in S PROVE n + 1 \in S
  <2> SUFFICES ASSUME n + 1 \in 0..Len(q) PROVE f[n + 1] <= g[n + 1]
    OBVIOUS
  <2>1. n + 1 \in 1..Len(q) /\ n \in 0..Len(q) /\ (n + 1) - 1 = n
    OBVIOUS
  <2>2. /\ f[n + 1] = f[n] + EntrySize(p[n + 1])
        /\ g[n + 1] = g[n] + EntrySize(q[n + 1])
        /\ f[n] \in Nat /\ g[n] \in Nat
    BY <1>1, <1>2, <2>1 DEF PartialSums
  <2>3. EntrySize(p[n + 1]) \in Nat /\ EntrySize(q[n + 1]) \in Nat
    BY <2>1, EntrySizes
  <2> QED
    BY <1>4, <2>1, <2>2, <2>3
<1>5. Nat \subseteq S
  <2> HIDE DEF S
  <2> QED
    BY <1>3, <1>4, SetInduction
<1>6. f[Len(q)] <= g[Len(q)]
  BY <1>5
<1> QED
  BY <1>1, <1>2, <1>6, SumIs

LEMMA SumSame ==
  ASSUME NEW p \in Seq(Entry), NEW q \in Seq(Entry), Len(p) = Len(q),
         \A n \in 1..Len(q) : EntrySize(p[n]) = EntrySize(q[n])
  PROVE  TotalSize(p) = TotalSize(q)
<1>1. \A n \in 1..Len(q) : EntrySize(p[n]) \in Nat /\ EntrySize(q[n]) \in Nat
  BY EntrySizes
<1>2. TotalSize(p) <= TotalSize(q) /\ TotalSize(q) <= TotalSize(p)
  BY <1>1, SumMonotone
<1> QED
  BY <1>2, SumNat
-----------------------------------------------------------------------------
(* What used_memory counts.                                                 *)

(* Nobody works under a state mutex that is poisoned.                       *)
PoisonStops ==
  poisoned => mlpc # "apply" /\ \A w \in Workers : wpc[w] \notin {"read", "evict"}

(* The eviction that is under way will reach the low mark.                  *)
WillSuffice == \A w \in Workers : wpc[w] = "evict" => used - VictimSize <= LowWater

AccountInv == PoisonStops /\ used \in Nat /\ UsedIsQueued /\ WillSuffice

LEMMA VictimEntries ==
  ASSUME IInv
  PROVE  /\ [i \in DOMAIN victims |-> victims[i].entry] \in Seq(Entry)
         /\ VictimSize \in Nat
         /\ TotalSize(loaded) \in Nat
         /\ victims = <<>> => VictimSize = 0
<1>1. [i \in DOMAIN victims |-> victims[i].entry] \in Seq(Entry)
  BY VictimTypes DEF IInv, Victim
<1>2. VictimSize \in Nat
  BY <1>1, SumNat DEF VictimSize
<1>3. TotalSize(loaded) \in Nat
  BY SumNat DEF IInv, TypeOK, CoreTypes
<1>4. ASSUME victims = <<>> PROVE VictimSize = 0
  <2>1. [i \in DOMAIN victims |-> victims[i].entry] = <<>>
    BY <1>4
  <2> QED
    BY <2>1, SumEmpty DEF VictimSize
<1> QED
  BY <1>1, <1>2, <1>3, <1>4

(* While the state mutex is not with an evicting worker, nothing is being   *)
(* evicted.                                                                 *)
LEMMA NoEviction ==
  ASSUME IInv, st \notin Workers
  PROVE  victims = <<>> /\ \A w \in Workers : wpc[w] \notin {"read", "evict"}
BY DEF IInv, LockInv, StateHeld

(* Steps that change neither the queue nor an eviction.                     *)
LEMMA AccountStays ==
  ASSUME AccountInv, UNCHANGED <<loaded, used, victims, poisoned>>,
         \A w \in Workers : wpc'[w] \in {"read", "evict"} => wpc'[w] = wpc[w] \/ ~poisoned,
         \A w \in Workers : wpc'[w] = "evict" => wpc[w] = "evict",
         mlpc' = "apply" => mlpc = "apply" \/ ~poisoned
  PROVE  AccountInv'
<1>1. VictimSize' = VictimSize
  BY DEF VictimSize
<1> QED
  BY <1>1 DEF AccountInv, PoisonStops, UsedIsQueued, WillSuffice

LEMMA LoopAccount ==
  ASSUME IInv, AccountInv, LoopStep
  PROVE  AccountInv'
<1>1. UNCHANGED <<wpc, victims, poisoned>>
  BY DEF LoopStep, LoopLock, LoopAllocate, LoopReset, LoopFree, LoopUnknown, LoopCollect,
         LoopNextKey, LoopClose, coreVars, lockVars, workVars
<1>2. CASE LoopReset \/ LoopFree
  <2>1. victims = <<>> /\ \A w \in Workers : wpc[w] \notin {"read", "evict"}
    BY <1>2, NoEviction, SortAssumption DEF LoopReset, LoopFree, IInv, LockInv, StateHeld
  <2>2. VictimSize = 0 /\ VictimSize' = 0
    BY <1>1, <2>1, VictimEntries DEF VictimSize
  <2>3. loaded' \in Seq(Entry) /\ used' = TotalSize(loaded')
    BY <1>2, DropTypes DEF LoopReset, LoopFree, DropUfoChunks, IInv, CoreTypes
  <2>4. used' \in Nat
    BY <2>3, SumNat
  <2> QED
    BY <1>1, <1>2, <2>1, <2>2, <2>3, <2>4
    DEF AccountInv, PoisonStops, UsedIsQueued, WillSuffice, LoopReset, LoopFree
<1>3. CASE ~(LoopReset \/ LoopFree)
  <2>1. UNCHANGED <<loaded, used>> /\ (mlpc' = "apply" => mlpc = "apply" \/ ~poisoned)
    BY <1>3 DEF LoopStep, LoopLock, LoopPanics, LoopAllocate, LoopUnknown, LoopCollect,
                LoopNextKey, LoopClose, coreVars
  <2> QED
    BY <1>1, <2>1, AccountStays
<1> QED
  BY <1>2, <1>3

(* The entries that are taken out weigh what they did in the queue, and     *)
(* what is left fits under the low mark.                                    *)
LEMMA CapacityAccount ==
  ASSUME IInv, AccountInv, NEW w \in Workers, EnsureCapacity(w)
  PROVE  AccountInv'
<1>1. st = w /\ victims = <<>> /\ ~poisoned
  BY NoVictims DEF EnsureCapacity, IInv, LockInv, StateHeld, AccountInv, PoisonStops
<1>2. /\ UNCHANGED <<used, poisoned, mlpc>>
      /\ \A x \in Workers \ {w} : wpc'[x] = wpc[x] /\ wpc[x] \notin {"read", "evict"}
  BY <1>1 DEF EnsureCapacity, Goto, msgVars, IInv, TypeOK, WorkTypes, LockInv, StateHeld
<1>3. used = TotalSize(loaded) /\ TotalSize(loaded) \in Nat
  BY <1>1, VictimEntries DEF AccountInv, UsedIsQueued
<1>4. CASE NeedsRoom(Object(w))
  <2>1. PICK n \in 0..Len(loaded) :
           /\ Suffices(n)
           /\ victims' = [i \in 1..n |-> NewVictim(loaded[i])]
           /\ loaded' = SubSeq(loaded, n + 1, Len(loaded))
    BY <1>4 DEF EnsureCapacity
  <2>2. loaded \in Seq(Entry) /\ n \in Nat /\ n <= Len(loaded)
    BY DEF IInv, TypeOK, CoreTypes
  <2>3. [i \in DOMAIN victims' |-> victims'[i].entry] = SubSeq(loaded, 1, n)
    <3>1. DOMAIN victims' = 1..n /\ \A i \in 1..n : victims'[i].entry = loaded[i]
      BY <2>1 DEF NewVictim, AtStage
    <3> QED
      BY <2>2, <3>1
  <2>4. VictimSize' = Prefix(n)
    BY <2>3 DEF VictimSize, Prefix
  <2>5. TotalSize(loaded) = Prefix(n) + TotalSize(loaded')
    BY <2>1, <2>2, SumSplit DEF Prefix
  <2>6. used - Prefix(n) <= LowWater
    BY <2>1 DEF Suffices
  <2>7. Prefix(n) \in Nat /\ TotalSize(loaded') \in Nat
    <3>1. SubSeq(loaded, 1, n) \in Seq(Entry) /\ SubSeq(loaded, n + 1, Len(loaded)) \in Seq(Entry)
      BY <2>2
    <3> QED
      BY <2>1, <3>1, SumNat DEF Prefix
  <2> QED
    BY <1>1, <1>2, <1>3, <2>4, <2>5, <2>6, <2>7
    DEF AccountInv, PoisonStops, UsedIsQueued, WillSuffice
<1>5. CASE ~NeedsRoom(Object(w))
  BY <1>1, <1>2, <1>5, AccountStays
  DEF EnsureCapacity, Goto, IInv, TypeOK, WorkTypes
<1> QED
  BY <1>4, <1>5

LEMMA EvictionAccount ==
  ASSUME IInv, AccountInv, NEW w \in Workers,
         EvictDone(w) \/ \E i \in DOMAIN victims : Punch(w, i) \/ WriteBack(w, i)
  PROVE  AccountInv'
<1>1. /\ wpc[w] = "evict" /\ st = w /\ ~poisoned /\ mlpc # "apply"
      /\ \A x \in Workers \ {w} : wpc[x] \notin {"read", "evict"}
  BY SortAssumption
  DEF EvictDone, Punch, WriteBack, IInv, LockInv, StateHeld, AccountInv, PoisonStops
<1>2. CASE EvictDone(w)
  <2>1. /\ wpc'[w] \notin {"read", "evict"}
        /\ \A x \in Workers \ {w} : wpc'[x] = wpc[x]
        /\ UNCHANGED <<loaded, mlpc>>
    BY <1>2 DEF EvictDone, Panic, Goto, IInv, TypeOK, WorkTypes, msgVars
  <2>2. VictimSize' = 0
    <3>1. victims' = <<>>
      BY <1>2 DEF EvictDone
    <3>2. [i \in DOMAIN victims' |-> victims'[i].entry] = <<>>
      BY <3>1
    <3> QED
      BY <3>2, SumEmpty DEF VictimSize
  <2>3. used = TotalSize(loaded) + VictimSize /\ VictimSize \in Nat /\ TotalSize(loaded) \in Nat
    BY <1>1, VictimEntries DEF AccountInv, UsedIsQueued
  <2>4. CASE \E i \in DOMAIN victims : victims[i].stage = "error"
    <3>1. poisoned' = TRUE /\ used' = used
      BY <1>2, <2>4 DEF EvictDone
    <3> QED
      BY <1>1, <2>1, <2>3, <3>1 DEF AccountInv, PoisonStops, UsedIsQueued, WillSuffice
  <2>5. CASE ~\E i \in DOMAIN victims : victims[i].stage = "error"
    <3>1. poisoned' = poisoned /\ used' = used - VictimSize
      BY <1>2, <2>5 DEF EvictDone
    <3> QED
      BY <1>1, <2>1, <2>2, <2>3, <3>1 DEF AccountInv, PoisonStops, UsedIsQueued, WillSuffice
  <2> QED
    BY <2>4, <2>5
<1>3. ASSUME NEW i \in DOMAIN victims, Punch(w, i) \/ WriteBack(w, i)
      PROVE  AccountInv'
  <2>1. PICK s, d : victims' = [victims EXCEPT ![i] = AtStage(victims[i].entry, s, d)]
    BY <1>3 DEF Punch, WriteBack
  <2>2. [j \in DOMAIN victims' |-> victims'[j].entry] = [j \in DOMAIN victims |-> victims[j].entry]
    BY <2>1 DEF AtStage
  <2>3. VictimSize' = VictimSize
    BY <2>2 DEF VictimSize
  <2>4. UNCHANGED <<loaded, used, poisoned, wpc, mlpc>>
    BY <1>3 DEF Punch, WriteBack, workVars, msgVars
  <2> QED
    BY <2>3, <2>4 DEF AccountInv, PoisonStops, UsedIsQueued, WillSuffice
<1> QED
  BY <1>2, <1>3

LEMMA PublishAccount ==
  ASSUME IInv, AccountInv, NEW w \in Workers, AddChunk(w) \/ Hash(w)
  PROVE  AccountInv'
<1>1. /\ wpc'[w] \notin {"read", "evict"} /\ wpc[w] \notin {"read", "evict"}
      /\ \A x \in Workers \ {w} : wpc'[x] = wpc[x]
      /\ UNCHANGED <<poisoned, mlpc>>
  BY DEF AddChunk, Hash, Panic, Goto, IInv, TypeOK, WorkTypes, lockVars, msgVars
<1>2. CASE AddChunk(w) /\ poisoned
  BY <1>1, <1>2, AccountStays DEF AddChunk, coreVars
<1>3. CASE AddChunk(w) /\ ~poisoned
  <2> DEFINE e == [chunk |-> wchunk[w], live |-> TRUE, hash |-> w]
  <2>1. e \in Entry
    BY <1>3, WorkerChunk DEF AddChunk, Entry, IInv
  <2>2. loaded' = Append(loaded, e) /\ used' = used + EntrySize(e) /\ UNCHANGED victims
    BY <1>3 DEF AddChunk
  <2>3. TotalSize(loaded') = TotalSize(loaded) + EntrySize(e)
    BY <2>1, <2>2, SumAppend DEF IInv, TypeOK, CoreTypes
  <2>4. victims = <<>> /\ \A x \in Workers : wpc[x] \notin {"read", "evict"}
    BY <1>3, NoEviction, SortAssumption DEF AddChunk
  <2>5. VictimSize' = VictimSize
    BY <2>2 DEF VictimSize
  <2>6. EntrySize(e) \in Nat
    BY <2>1, EntrySizes
  <2> HIDE DEF e
  <2> QED
    BY <1>1, <1>3, <2>2, <2>3, <2>4, <2>5, <2>6, VictimEntries
    DEF AccountInv, PoisonStops, UsedIsQueued, WillSuffice
<1>4. CASE Hash(w)
  <2> DEFINE Fulfil(e) == IF e.hash = w THEN [e EXCEPT !.hash = HashOf(w)] ELSE e
  <2>1. \A e \in Entry : EntrySize(Fulfil(e)) = EntrySize(e)
    BY DEF Entry, EntrySize
  <2>2. \A e \in Entry : Fulfil(e) \in Entry
    BY DEF Entry, HashOf, IInv, TypeOK, WorkTypes
  <2> HIDE DEF Fulfil
  <2>3. /\ loaded' = [i \in DOMAIN loaded |-> Fulfil(loaded[i])]
        /\ victims' = [i \in DOMAIN victims |->
                         [victims[i] EXCEPT !.entry = Fulfil(victims[i].entry)]]
        /\ UNCHANGED used
    BY <1>4 DEF Hash, Fulfil
  <2>4. /\ DOMAIN victims = 1..Len(victims) /\ Len(victims) \in Nat
        /\ DOMAIN loaded = 1..Len(loaded) /\ Len(loaded) \in Nat
        /\ loaded \in Seq(Entry)
        /\ \A i \in DOMAIN loaded : loaded[i] \in Entry
        /\ \A i \in DOMAIN victims : victims[i].entry \in Entry /\ victims[i] \in Victim
    BY VictimTypes DEF Victim, IInv, TypeOK, CoreTypes
  <2>5. TotalSize(loaded') = TotalSize(loaded)
    <3>1. loaded' \in Seq(Entry) /\ Len(loaded') = Len(loaded)
      BY <2>2, <2>3, <2>4
    <3>2. \A n \in 1..Len(loaded) : EntrySize(loaded'[n]) = EntrySize(loaded[n])
      BY <2>1, <2>3, <2>4
    <3> QED
      BY <2>4, <3>1, <3>2, SumSame
  <2>6. VictimSize' = VictimSize
    <3> DEFINE es == [i \in DOMAIN victims |-> victims[i].entry]
               fs == [i \in DOMAIN victims |-> Fulfil(victims[i].entry)]
    <3>1. [i \in DOMAIN victims' |-> victims'[i].entry] = fs
      BY <2>3, <2>4 DEF Victim
    <3>2. /\ es \in Seq(Entry) /\ fs \in Seq(Entry) /\ Len(es) = Len(fs)
          /\ Len(es) = Len(victims)
      BY <2>2, <2>4
    <3>3. \A n \in 1..Len(es) : EntrySize(fs[n]) = EntrySize(es[n])
      BY <2>1, <2>4, <3>2
    <3> HIDE DEF es, fs
    <3>4. TotalSize(fs) = TotalSize(es)
      BY <3>2, <3>3, SumSame
    <3> QED
      BY <3>1, <3>4 DEF VictimSize, es
  <2> QED
    BY <1>1, <2>3, <2>5, <2>6 DEF AccountInv, PoisonStops, UsedIsQueued, WillSuffice
<1> QED
  BY <1>2, <1>3, <1>4

LEMMA AccountStep ==
  ASSUME IInv, AccountInv, [Next]_vars
  PROVE  AccountInv'
<1>1. ASSUME NEW m \in Mutators, MutatorStep(m) PROVE AccountInv'
  <2>1. UNCHANGED <<loaded, used, victims, poisoned, wpc>> /\ (mlpc' = "apply" => mlpc = "apply")
    BY <1>1 DEF MutatorStep, Touch, Retry, BeginCall, TakeGuard, Send, SendFails,
                coreVars, lockVars, workVars, msgVars
  <2> QED
    BY <2>1, AccountStays
<1>2. ASSUME NEW w \in Workers, LockState(w) PROVE AccountInv'
  <2>1. /\ UNCHANGED <<loaded, used, victims, mlpc>>
        /\ \A x \in Workers : wpc[x] \notin {"read", "evict"}
        /\ \A x \in Workers \ {w} : wpc'[x] = wpc[x]
        /\ mlpc # "apply"
    BY <1>2, NoEviction, SortAssumption
    DEF LockState, Goto, Panic, coreVars, msgVars, IInv, TypeOK, WorkTypes, LockInv, StateHeld
  <2>2. CASE poisoned \/ ~live[Object(w)]
    <3>1. wpc'[w] = "dead" /\ poisoned'
      BY <1>2, <2>2 DEF LockState, Panic, Goto, IInv, TypeOK, WorkTypes
    <3> QED
      BY <2>1, <3>1 DEF AccountInv, PoisonStops, UsedIsQueued, WillSuffice, VictimSize
  <2>3. CASE ~(poisoned \/ ~live[Object(w)])
    <3>1. wpc'[w] = "read" /\ UNCHANGED poisoned
      BY <1>2, <2>3 DEF LockState, Goto, IInv, TypeOK, WorkTypes
    <3> QED
      BY <2>1, <2>3, <3>1, AccountStays
  <2> QED
    BY <2>2, <2>3
<1>3. ASSUME NEW w \in Workers,
             \/ SpinLock(w) \/ FaultWhilePopulating(w) \/ Fill(w) \/ Copy(w)
             \/ WorkerExit(w) \/ \E t \in Threads : ReadEvent(w, t)
      PROVE  AccountInv'
  <2>1. /\ UNCHANGED <<loaded, used, victims, poisoned, mlpc>>
        /\ wpc'[w] \notin {"read", "evict"}
        /\ \A x \in Workers \ {w} : wpc'[x] = wpc[x]
    BY <1>3 DEF SpinLock, FaultWhilePopulating, Fill, Copy, WorkerExit, ReadEvent, Panic, Goto,
                coreVars, lockVars, workVars, msgVars, IInv, TypeOK, WorkTypes
  <2> QED
    BY <2>1, AccountStays
<1>4. CASE UNCHANGED vars
  BY <1>4, AccountStays DEF vars, coreVars, lockVars, workVars, msgVars
<1> QED
  BY <1>1, <1>2, <1>3, <1>4, LoopAccount, CapacityAccount, EvictionAccount, PublishAccount
  DEF Next, WorkerStep, PopulateStep

LEMMA InitAccount == Init => AccountInv
<1> SUFFICES ASSUME Init PROVE AccountInv
  OBVIOUS
<1>1. IInv
  BY InitTypes, InitLocks DEF IInv
<1>2. VictimSize = 0 /\ TotalSize(loaded) = 0
  BY <1>1, VictimEntries, SumEmpty DEF Init
<1> QED
  BY <1>2 DEF Init, AccountInv, PoisonStops, UsedIsQueued, WillSuffice

LEMMA SpecAccount == Spec => [](IInv /\ AccountInv)
<1>1. Init => AccountInv
  BY InitAccount
<1>2. IInv /\ AccountInv /\ [Next]_vars => AccountInv'
  BY AccountStep
<1> QED
  BY <1>1, <1>2, SpecLocks, PTL DEF Spec

(* used_memory is the size of the queue and of the chunks being evicted in  *)
(* every reachable state in which the state mutex is not poisoned, however  *)
(* resets and frees, which compute it anew, evictions and loads alternate   *)
(* (ufo_core.rs:183-241, 387-392).                                          *)
THEOREM SpecUsedIsQueued == Spec => []UsedIsQueued
<1>1. AccountInv => UsedIsQueued
  BY DEF AccountInv
<1> QED
  BY <1>1, SpecAccount, PTL
-----------------------------------------------------------------------------
(* How far used_memory exceeds the high mark.                               *)

(* Workers that passed the capacity test and have not queued their chunk.   *)
Pending == {w \in Workers : wpc[w] \in {"spin", "fill", "copy", "add"}}
ChunkLoad(w) == LoadSize[Object(w)]

(* One of the pending workers was the last to pass the test: it fits, and   *)
(* the others add a load each.                                              *)
Bound == HighWater + (Cardinality(Workers) - 1) * MaxLoad
LastFits ==
  /\ used <= Bound
  /\ Pending # {} =>
       \E w \in Pending :
          used + ChunkLoad(w) + (Cardinality(Pending) - 1) * MaxLoad <= Bound

LEMMA MaxLoadIs ==
  ASSUME Ufos # {}
  PROVE  /\ MaxLoad \in Nat /\ MaxLoad + LowWater < HighWater
         /\ \A u \in Ufos : LoadSize[u] \in Nat /\ LoadSize[u] <= MaxLoad
<1> DEFINE S == {n \in Nat : \A u \in Ufos : LoadSize[u] <= n}
<1>1. \A u \in Ufos : LoadSize[u] \in Nat /\ LoadSize[u] > 0 /\ LoadSize[u] + LowWater < HighWater
  BY ShapeAssumption, WatermarkAssumption
<1>2. HighWater \in S
  BY <1>1, WatermarkAssumption
<1>3. PICK n \in S : \A k \in S : n <= k
  BY <1>2, LeastElement
<1>4. \E u \in Ufos : LoadSize[u] = n
  <2> SUFFICES ASSUME \A u \in Ufos : LoadSize[u] # n PROVE FALSE
    OBVIOUS
  <2>1. n - 1 \in S
    BY <1>1, <1>3
  <2> QED
    BY <1>3, <2>1
<1>5. MaxLoad \in {LoadSize[u] : u \in Ufos} /\ \A u \in Ufos : LoadSize[u] <= MaxLoad
  BY <1>3, <1>4 DEF MaxLoad
<1> QED
  BY <1>1, <1>5, WatermarkAssumption

LEMMA Products ==
  /\ \A a, b, m \in Nat : a <= b => a * m <= b * m
  /\ \A a, m \in Int : (a + 1) * m = a * m + m /\ (a - 1) * m = a * m - m
  /\ \A a, m \in Int : a * m \in Int
<1>1. \A a, m \in Int : a * m \in Int /\ (a + 1) * m = a * m + m /\ (a - 1) * m = a * m - m
  OBVIOUS
<1>2. ASSUME NEW a \in Nat, NEW b \in Nat, NEW m \in Nat, a <= b
      PROVE  a * m <= b * m
  <2>1. (b - a) * m \in Nat /\ b * m = a * m + (b - a) * m
    BY <1>2
  <2> QED
    BY <2>1
<1> QED
  BY <1>1, <1>2

LEMMA PendingFacts ==
  ASSUME IInv, IsFiniteSet(Workers), Ufos # {}
  PROVE  /\ Cardinality(Workers) \in Nat
         /\ IsFiniteSet(Pending) /\ Cardinality(Pending) \in Nat
         /\ Cardinality(Pending) <= Cardinality(Workers)
         /\ \A w \in Pending : ChunkLoad(w) \in Nat /\ ChunkLoad(w) <= MaxLoad
                               /\ wchunk[w] \in Chunks /\ Cardinality(Pending) >= 1
         /\ \A w \in Workers \ Pending : Cardinality(Pending) + 1 <= Cardinality(Workers)
         /\ \A w \in Pending : Cardinality(Pending \ {w}) = Cardinality(Pending) - 1
         /\ \A w \in Workers \ Pending :
               Cardinality(Pending \cup {w}) = Cardinality(Pending) + 1
         /\ Bound \in Int
<1>1. /\ Cardinality(Workers) \in Nat /\ IsFiniteSet(Pending) /\ Cardinality(Pending) \in Nat
      /\ Cardinality(Pending) <= Cardinality(Workers)
  BY FS_CardinalityType, FS_Subset DEF Pending
<1>2. \A w \in Pending : wchunk[w] \in Chunks /\ Object(w) \in Ufos /\ w \in Workers
  BY WorkerChunk DEF Pending, IInv
<1>3. \A w \in Pending : Cardinality(Pending) >= 1
  BY <1>1, FS_EmptySet
<1>4. \A w \in Pending : Cardinality(Pending \ {w}) = Cardinality(Pending) - 1
  BY <1>1, FS_RemoveElement
<1>5. ASSUME NEW w \in Workers \ Pending
      PROVE  /\ Cardinality(Pending) + 1 <= Cardinality(Workers)
             /\ Cardinality(Pending \cup {w}) = Cardinality(Pending) + 1
  <2>1. Cardinality(Pending \cup {w}) = Cardinality(Pending) + 1
    BY <1>1, FS_AddElement
  <2>2. Cardinality(Pending \cup {w}) <= Cardinality(Workers)
    BY <1>1, FS_Subset DEF Pending
  <2> QED
    BY <2>1, <2>2
<1>6. Bound \in Int
  BY <1>1, MaxLoadIs, Products, WatermarkAssumption DEF Bound
<1> QED
  BY <1>1, <1>2, <1>3, <1>4, <1>5, <1>6, MaxLoadIs DEF ChunkLoad

(* Nobody passes the test or gives up, and used_memory does not grow.       *)
LEMMA FitsStays ==
  ASSUME IInv, IsFiniteSet(Workers), Ufos # {}, LastFits, used \in Nat,
         used' \in Nat, used' <= used, Pending' = Pending,
         \A w \in Pending : wchunk'[w] = wchunk[w]
  PROVE  LastFits'
<1>1. \A w \in Pending : ChunkLoad(w)' = ChunkLoad(w)
  BY DEF ChunkLoad, Object
<1>2. Bound' = Bound
  BY DEF Bound
<1>3. used' <= Bound
  BY PendingFacts DEF LastFits
<1>4. ASSUME Pending # {}
      PROVE  \E w \in Pending :
                used' + ChunkLoad(w) + (Cardinality(Pending) - 1) * MaxLoad <= Bound
  <2>1. PICK w \in Pending :
                used + ChunkLoad(w) + (Cardinality(Pending) - 1) * MaxLoad <= Bound
    BY <1>4 DEF LastFits
  <2>2. (Cardinality(Pending) - 1) * MaxLoad \in Int
    BY PendingFacts, MaxLoadIs, Products
  <2> QED
    BY <2>1, <2>2, PendingFacts
<1> QED
  BY <1>1, <1>2, <1>3, <1>4 DEF LastFits

(* A worker passes the test.                                                *)
LEMMA FitsPasses ==
  ASSUME IInv, IsFiniteSet(Workers), Ufos # {}, LastFits, NEW w \in Workers \ Pending,
         used' \in Nat, used' + ChunkLoad(w) <= HighWater, Pending' = Pending \cup {w},
         ChunkLoad(w) \in Nat, UNCHANGED wchunk
  PROVE  LastFits'
<1> DEFINE p == Cardinality(Pending)
           k == Cardinality(Workers)
<1>1. p \in Nat /\ k \in Nat /\ p + 1 <= k /\ Cardinality(Pending \cup {w}) = p + 1
  BY PendingFacts
<1>2. p * MaxLoad <= (k - 1) * MaxLoad /\ p * MaxLoad \in Int /\ (k - 1) * MaxLoad \in Int
      /\ 0 <= (k - 1) * MaxLoad
  <2>1. p \in Nat /\ k - 1 \in Nat /\ p <= k - 1 /\ 0 * MaxLoad = 0 /\ 0 <= k - 1
    BY <1>1, MaxLoadIs
  <2> QED
    BY <2>1, MaxLoadIs, Products
<1>3. ChunkLoad(w)' = ChunkLoad(w) /\ Bound' = Bound
  BY DEF ChunkLoad, Object, Bound
<1>4. used' + ChunkLoad(w) + p * MaxLoad <= Bound /\ used' <= Bound
  BY <1>2, WatermarkAssumption DEF Bound
<1>5. Cardinality(Pending') - 1 = p
  BY <1>1
<1> QED
  BY <1>3, <1>4, <1>5 DEF LastFits

(* A worker queues its chunk, or dies.                                      *)
LEMMA FitsLeaves ==
  ASSUME IInv, IsFiniteSet(Workers), Ufos # {}, LastFits, NEW w \in Pending,
         used \in Nat, used' \in Nat, used' <= used + ChunkLoad(w), Pending' = Pending \ {w},
         UNCHANGED wchunk
  PROVE  LastFits'
<1> DEFINE p == Cardinality(Pending)
           M == MaxLoad
<1>1. PICK x \in Pending : used + ChunkLoad(x) + (p - 1) * M <= Bound
  BY DEF LastFits
<1>2. /\ p \in Nat /\ M \in Nat /\ ChunkLoad(w) \in Nat /\ ChunkLoad(w) <= M
      /\ ChunkLoad(x) \in Nat /\ ChunkLoad(x) <= M /\ Bound \in Int /\ p >= 1
      /\ Cardinality(Pending \ {w}) = p - 1
  BY PendingFacts, MaxLoadIs
<1>3. \A y \in Pending : ChunkLoad(y)' = ChunkLoad(y) /\ ChunkLoad(y) <= M /\ ChunkLoad(y) \in Nat
  BY PendingFacts DEF ChunkLoad, Object
<1>4. Bound' = Bound
  BY DEF Bound
<1>5. (p - 1) * M \in Nat /\ ((p - 1) - 1) * M = (p - 1) * M - M /\ (p >= 2 => M <= (p - 1) * M)
  <2>1. p - 1 \in Nat /\ 0 * M = 0 /\ 1 * M = M
    BY <1>2
  <2>2. 0 <= (p - 1) * M /\ (p - 1) * M \in Int
    BY <1>2, <2>1, Products
  <2>3. ((p - 1) - 1) * M = (p - 1) * M - M
    BY <1>2, <2>1, Products
  <2>4. p >= 2 => M <= (p - 1) * M
    BY <1>2, <2>1, Products
  <2> QED
    BY <2>2, <2>3, <2>4
<1> HIDE DEF p, M
<1>6. x # w => p >= 2
  <2>1. ASSUME x # w, p = 1 PROVE FALSE
    <3>1. IsFiniteSet(Pending) /\ Cardinality(Pending) = 1
      BY <2>1, PendingFacts DEF p
    <3>2. PICK z : Pending = {z}
      BY <3>1, FS_Singleton
    <3> QED
      BY <2>1, <3>2
  <2> QED
    BY <1>2, <2>1
<1>7. used' <= Bound
  BY <1>1, <1>2, <1>5, <1>6
<1>8. ASSUME NEW y \in Pending, y # w
      PROVE  \E z \in Pending \ {w} :
                used' + ChunkLoad(z) + ((p - 1) - 1) * M <= Bound
  <2>1. CASE x = w
    <3>1. used' + ChunkLoad(y) + ((p - 1) - 1) * M <= Bound
      BY <1>1, <1>2, <1>3, <1>5, <2>1
    <3> QED
      BY <1>8, <3>1
  <2>2. CASE x # w
    <3>1. used' + ChunkLoad(x) + ((p - 1) - 1) * M <= Bound
      BY <1>1, <1>2, <1>5
    <3> QED
      BY <2>2, <3>1
  <2> QED
    BY <2>1, <2>2
<1>9. Cardinality(Pending') = p - 1
  BY <1>2
<1> QED
  BY <1>3, <1>4, <1>7, <1>8, <1>9 DEF LastFits, M

LEMMA FitsStep ==
  ASSUME IInv, AccountInv, AccountInv', IsFiniteSet(Workers), Ufos # {}, LastFits,
         [Next]_vars
  PROVE  LastFits'
<1>1. used \in Nat /\ used' \in Nat
  BY DEF AccountInv
<1>2. ASSUME NEW w \in Workers, EnsureCapacity(w) PROVE LastFits'
  <2>1. w \notin Pending /\ Object(w) \in Ufos /\ ChunkLoad(w) \in Nat
    BY <1>2, WorkerChunk, MaxLoadIs DEF EnsureCapacity, Pending, IInv, ChunkLoad
  <2>2. UNCHANGED <<used, wchunk>>
    BY <1>2 DEF EnsureCapacity
  <2>3. CASE NeedsRoom(Object(w))
    <3>1. Pending' = Pending
      BY <1>2, <2>3 DEF EnsureCapacity, Goto, Pending, IInv, TypeOK, WorkTypes
    <3> QED
      BY <1>1, <2>2, <3>1, FitsStays
  <2>4. CASE ~NeedsRoom(Object(w))
    <3>1. Pending' = Pending \cup {w}
      BY <1>2, <2>4 DEF EnsureCapacity, Goto, Pending, IInv, TypeOK, WorkTypes
    <3>2. used' + ChunkLoad(w) <= HighWater
      BY <1>1, <2>1, <2>2, <2>4, WatermarkAssumption DEF NeedsRoom, ChunkLoad
    <3> QED
      BY <1>1, <2>1, <2>2, <3>1, <3>2, FitsPasses
  <2> QED
    BY <2>3, <2>4
<1>3. ASSUME NEW w \in Workers, EvictDone(w) PROVE LastFits'
  <2>1. w \notin Pending /\ Object(w) \in Ufos /\ ChunkLoad(w) \in Nat /\ UNCHANGED wchunk
    BY <1>3, WorkerChunk, MaxLoadIs DEF EvictDone, Panic, Pending, IInv, ChunkLoad
  <2>2. CASE \E i \in DOMAIN victims : victims[i].stage = "error"
    <3>1. Pending' = Pending /\ used' = used
      BY <1>3, <2>2 DEF EvictDone, Panic, Goto, Pending, IInv, TypeOK, WorkTypes
    <3> QED
      BY <1>1, <2>1, <3>1, FitsStays
  <2>3. CASE ~\E i \in DOMAIN victims : victims[i].stage = "error"
    <3>1. Pending' = Pending \cup {w} /\ used' = used - VictimSize
      BY <1>3, <2>3 DEF EvictDone, Goto, Pending, IInv, TypeOK, WorkTypes
    <3>2. used' <= LowWater
      BY <1>3, <3>1 DEF EvictDone, AccountInv, WillSuffice
    <3>3. ChunkLoad(w) <= MaxLoad /\ MaxLoad + LowWater < HighWater /\ MaxLoad \in Nat
      BY <2>1, MaxLoadIs DEF ChunkLoad
    <3>4. used' + ChunkLoad(w) <= HighWater
      BY <1>1, <2>1, <3>2, <3>3, WatermarkAssumption
    <3> QED
      BY <1>1, <2>1, <3>1, <3>4, FitsPasses
  <2> QED
    BY <2>2, <2>3
<1>4. ASSUME NEW w \in Workers, Fill(w) \/ Copy(w) \/ AddChunk(w) PROVE LastFits'
  <2>1. /\ w \in Pending /\ UNCHANGED wchunk
        /\ wchunk[w] \in Chunks /\ Object(w) \in Ufos /\ ChunkLoad(w) \in Nat
    BY <1>4, WorkerChunk, MaxLoadIs DEF Fill, Copy, AddChunk, Panic, Pending, IInv, ChunkLoad
  <2>2. CASE wpc'[w] \in {"copy", "add"}
    <3>1. Pending' = Pending /\ used' = used
      BY <1>4, <2>2 DEF Fill, Copy, AddChunk, Panic, Goto, Pending, IInv, TypeOK, WorkTypes, coreVars
    <3> QED
      BY <1>1, <2>1, <3>1, FitsStays
  <2>3. CASE wpc'[w] \notin {"copy", "add"}
    <3>1. wpc'[w] \in {"dead", "hash"} /\ \A x \in Workers \ {w} : wpc'[x] = wpc[x]
      BY <1>4, <2>3 DEF Fill, Copy, AddChunk, Panic, Goto, IInv, TypeOK, WorkTypes
    <3>2. Pending' = Pending \ {w}
      BY <3>1 DEF Pending
    <3>3. used' <= used + ChunkLoad(w)
      <4>1. Size[wchunk[w]] \in Nat /\ Size[wchunk[w]] <= ChunkLoad(w)
        BY <2>1, ShapeAssumption DEF ChunkLoad, Object
      <4>2. used' = used \/ used' = used + Size[wchunk[w]]
        BY <1>4 DEF Fill, Copy, AddChunk, EntrySize, coreVars
      <4> QED
        BY <1>1, <2>1, <4>1, <4>2
    <3> QED
      BY <1>1, <2>1, <3>2, <3>3, FitsLeaves
  <2> QED
    BY <2>2, <2>3
<1>5. CASE LoopStep
  <2>1. Pending' = Pending /\ UNCHANGED wchunk
    BY <1>5 DEF LoopStep, LoopLock, LoopAllocate, LoopReset, LoopFree, LoopUnknown, LoopCollect,
                LoopNextKey, LoopClose, Pending, workVars
  <2>2. used' <= used
    <3>1. CASE LoopReset \/ LoopFree
      <4>1. victims = <<>> /\ ~poisoned
        BY <3>1, NoEviction, SortAssumption
        DEF LoopReset, LoopFree, IInv, LockInv, StateHeld, AccountInv, PoisonStops
      <4>2. used = TotalSize(loaded) /\ loaded \in Seq(Entry) /\ TotalSize(loaded) \in Nat
        BY <4>1, VictimEntries DEF AccountInv, UsedIsQueued, IInv, TypeOK, CoreTypes
      <4>3. /\ loaded' \in Seq(Entry) /\ used' = TotalSize(loaded')
            /\ loaded' = [i \in DOMAIN loaded |-> IF UfoOf[loaded[i].chunk] = msg.ufo
                                                  THEN Forgotten(loaded[i]) ELSE loaded[i]]
        BY <3>1, DropTypes DEF LoopReset, LoopFree, DropUfoChunks, IInv, CoreTypes
      <4>4. /\ Len(loaded') = Len(loaded)
            /\ \A n \in 1..Len(loaded) : EntrySize(loaded'[n]) <= EntrySize(loaded[n])
        <5>1. \A n \in 1..Len(loaded) : loaded[n] \in Entry
          BY <4>2
        <5>2. \A e \in Entry : EntrySize(Forgotten(e)) <= EntrySize(e) /\ EntrySize(e) <= EntrySize(e)
          BY EntrySizes
        <5> QED
          BY <4>2, <4>3, <5>1, <5>2
      <4> QED
        BY <4>2, <4>3, <4>4, SumMonotone
    <3>2. CASE ~(LoopReset \/ LoopFree)
      <4>1. used' = used
        BY <1>5, <3>2 DEF LoopStep, LoopLock, LoopAllocate, LoopUnknown, LoopCollect,
                          LoopNextKey, LoopClose, coreVars
      <4> QED
        BY <1>1, <4>1
    <3> QED
      BY <3>1, <3>2
  <2> QED
    BY <1>1, <2>1, <2>2, FitsStays
<1>6. ASSUME NEW w \in Workers,
             \/ LockState(w) \/ SpinLock(w) \/ FaultWhilePopulating(w) \/ Hash(w)
             \/ \E i \in DOMAIN victims : Punch(w, i) \/ WriteBack(w, i)
             \/ WorkerExit(w) \/ \E t \in Threads : ReadEvent(w, t)
      PROVE  LastFits'
  <2>1. UNCHANGED used
    BY <1>6 DEF LockState, SpinLock, FaultWhilePopulating, Hash, Punch, WriteBack, WorkerExit,
                ReadEvent, Panic, coreVars
  <2>2. /\ \A x \in Workers \ {w} : wpc'[x] = wpc[x] /\ wchunk'[x] = wchunk[x]
        /\ w \in Pending' <=> w \in Pending
        /\ w \in Pending => wchunk'[w] = wchunk[w]
    BY <1>6 DEF LockState, SpinLock, FaultWhilePopulating, Hash, Punch, WriteBack, WorkerExit,
                ReadEvent, Panic, Goto, Pending, workVars, IInv, TypeOK, WorkTypes
  <2>3. Pending' = Pending
    BY <2>2 DEF Pending
  <2> QED
    BY <1>1, <2>1, <2>2, <2>3, FitsStays DEF Pending
<1>7. CASE (\E m \in Mutators : MutatorStep(m)) \/ UNCHANGED vars
  <2>1. UNCHANGED <<used, wpc, wchunk>>
    BY <1>7 DEF MutatorStep, Touch, Retry, BeginCall, TakeGuard, Send, SendFails,
                vars, coreVars, workVars
  <2> QED
    BY <1>1, <2>1, FitsStays DEF Pending
<1> QED
  BY <1>2, <1>3, <1>4, <1>5, <1>6, <1>7 DEF Next, WorkerStep, PopulateStep

(* used_memory never exceeds the high watermark by more than one load of    *)
(* every other thread of the pool, however many threads pass the capacity   *)
(* test before one of them has queued what it loads (ufo_core.rs:262-297,   *)
(* 344, 387-392).                                                           *)
THEOREM SpecOvershootBounded ==
  ASSUME IsFiniteSet(Workers), Ufos # {}
  PROVE  Spec => []OvershootBounded
<1>1. Init => LastFits
  <2> SUFFICES ASSUME Init PROVE LastFits
    OBVIOUS
  <2>1. used = 0 /\ Pending = {}
    BY DEF Init, Pending
  <2>2. 0 <= Bound
    <3>1. Cardinality(Workers) \in Nat /\ MaxLoad \in Nat /\ MaxLoad < HighWater
      BY FS_CardinalityType, MaxLoadIs, WatermarkAssumption
    <3>2. 0 <= Cardinality(Workers) * MaxLoad /\ Cardinality(Workers) * MaxLoad \in Int
      BY <3>1, Products
    <3>3. (Cardinality(Workers) - 1) * MaxLoad = Cardinality(Workers) * MaxLoad - MaxLoad
      BY <3>1, Products
    <3> QED
      BY <3>1, <3>2, <3>3, WatermarkAssumption DEF Bound
  <2> QED
    BY <2>1, <2>2 DEF LastFits
<1>2. IInv /\ AccountInv /\ AccountInv' /\ LastFits /\ [Next]_vars => LastFits'
  BY FitsStep
<1>3. LastFits => OvershootBounded
  BY DEF LastFits, Bound, OvershootBounded
<1> QED
  BY <1>1, <1>2, <1>3, SpecAccount, PTL DEF Spec
-----------------------------------------------------------------------------
(* Who answers for resident memory.                                         *)

(* Whoever works on an object works on one that exists, and so do the live  *)
(* entries of the queue and of an eviction.                                 *)
WorkedOnLives == \A w \in Workers : wpc[w] \in ReadPcs \cup {"read"} => live[Object(w)]
QueuedLives ==
  /\ \A i \in DOMAIN loaded : loaded[i].live => live[UfoOf[loaded[i].chunk]]
  /\ \A i \in DOMAIN victims :
        /\ victims[i].stage # "done" => victims[i].entry.live
        /\ victims[i].entry.live => live[UfoOf[victims[i].entry.chunk]]
DataRead == \A w \in Workers : wpc[w] \in {"copy", "add", "hash"} => raw[w] \in Values

(* An object that is being allocated does not exist yet, and one call only  *)
(* allocates it.                                                            *)
AllocatesNew ==
  /\ \A m \in Mutators : api[m].op = "Allocate" =>
        /\ ~live[api[m].ufo]
        /\ \A n \in Mutators \ {m} : api[n].ufo # api[m].ufo
  /\ mlpc \in {"lock", "apply"} =>
        /\ msg.op # "none" /\ (msg.op # "Shutdown" => msg.ufo \in Ufos)
        /\ msg.op = "Allocate" => /\ msg.from \in Mutators
                                  /\ api[msg.from] = [op |-> msg.op, ufo |-> msg.ufo, pc |-> "wait"]

(* A chunk's page and those who answer for it, without counting.            *)
SingleCarrier(c) ==
  /\ \A i, j \in Queued(c) : i = j
  /\ \A i, j \in Doomed(c) : i = j
  /\ \A w, x \in Copied(c) : w = x
  /\ Queued(c) = {} \/ Doomed(c) = {}
  /\ Queued(c) = {} \/ Copied(c) = {}
  /\ Doomed(c) = {} \/ Copied(c) = {}
  /\ mem[c] # None <=> Queued(c) \cup Doomed(c) \cup Copied(c) # {}
SingleCarriers == ~poisoned => \A c \in Chunks : live[UfoOf[c]] => SingleCarrier(c)

LivesInv == WorkedOnLives /\ QueuedLives /\ DataRead /\ AllocatesNew

(* What no step of a worker changes.                                        *)
LEMMA WorkerKeeps ==
  ASSUME NEW w \in Workers, WorkerStep(w) \/ \E t \in Threads : ReadEvent(w, t)
  PROVE  UNCHANGED <<live, wr, acc, api, mlpc, msg, keys>>
<1>1. CASE LockState(w) \/ EnsureCapacity(w) \/ EvictDone(w)
  BY <1>1 DEF LockState, EnsureCapacity, EvictDone, Panic, memVars, mutVars, msgVars
<1>2. CASE \E i \in DOMAIN victims : Punch(w, i) \/ WriteBack(w, i)
  BY <1>2 DEF Punch, WriteBack, mutVars, msgVars
<1>3. CASE SpinLock(w) \/ FaultWhilePopulating(w) \/ Fill(w)
  BY <1>3 DEF SpinLock, FaultWhilePopulating, Fill, Panic, memVars, lockVars, mutVars, msgVars
<1>4. CASE Copy(w) \/ AddChunk(w) \/ Hash(w)
  BY <1>4 DEF Copy, AddChunk, Hash, Panic, memVars, lockVars, mutVars, msgVars
<1>5. CASE WorkerExit(w) \/ \E t \in Threads : ReadEvent(w, t)
  BY <1>5 DEF WorkerExit, ReadEvent, memVars, lockVars, mutVars, msgVars
<1> QED
  BY <1>1, <1>2, <1>3, <1>4, <1>5 DEF WorkerStep, PopulateStep

LEMMA AllocatesStep ==
  ASSUME IInv, AllocatesNew, [Next]_vars
  PROVE  AllocatesNew'
<1> USE DEF AllocatesNew
<1>t. /\ api \in [Mutators -> Call \cup {NoCall}]
      /\ msg.op \in ApiOps \cup {"Purge", "none"} /\ msg.from \in Mutators \cup {NoOne}
      /\ live \in [Ufos -> BOOLEAN]
      /\ \A m \in Mutators : api[m] # NoCall => api[m].ufo \in Ufos /\ api[m].op \in ApiOps
      /\ NoCall.ufo = None /\ NoCall.op = "none" /\ NoCall.pc = "none" /\ None \notin Ufos
  BY SortAssumption DEF IInv, TypeOK, MutTypes, MsgTypes, MemTypes, Call, NoCall
<1>1. ASSUME NEW m \in Mutators, NEW op \in Ops, NEW u \in Owns[m], BeginCall(m, op, u)
      PROVE  AllocatesNew'
  <2>1. u \in Ufos /\ op \in ApiOps /\ api[m] = NoCall
    BY <1>1, ShapeAssumption DEF BeginCall, Idle
  <2>2. /\ UNCHANGED <<live, mlpc, msg>>
        /\ api'[m].op = op /\ api'[m].ufo = u
        /\ \A n \in Mutators \ {m} : api'[n] = api[n]
    BY <1>1, <1>t DEF BeginCall, memVars, msgVars
  <2>3. CASE op = "Allocate"
    BY <1>1, <1>t, <2>1, <2>2, <2>3 DEF BeginCall
  <2>4. CASE op = "Shutdown"
    BY <1>1, <1>t, <2>1, <2>2, <2>4 DEF BeginCall
  <2>5. CASE op \in FreeOps \cup {"Reset"}
    <3>1. live[u]
      BY <1>1, <2>5 DEF BeginCall, Usable
    <3> QED
      BY <1>t, <2>1, <2>2, <2>5, <3>1 DEF FreeOps
  <2> QED
    BY <2>1, <2>3, <2>4, <2>5 DEF ApiOps, FreeOps
<1>2. ASSUME NEW m \in Mutators, TakeGuard(m) PROVE AllocatesNew'
  <2>1. /\ UNCHANGED <<live, mlpc, msg>> /\ api[m].pc = "guard"
        /\ api'[m].op = api[m].op /\ api'[m].ufo = api[m].ufo
        /\ \A n \in Mutators \ {m} : api'[n] = api[n]
    BY <1>2, <1>t DEF TakeGuard, memVars, msgVars, Call, NoCall
  <2> QED
    BY <2>1
<1>3. ASSUME NEW m \in Mutators, Send(m) PROVE AllocatesNew'
  <2>1. api[m] \in Call
    BY <1>3, <1>t DEF Send
  <2>2. /\ UNCHANGED live
        /\ \A n \in Mutators \ {m} : api'[n] = api[n]
        /\ msg' = [op |-> api[m].op, ufo |-> api[m].ufo, from |-> m]
        /\ IF api[m].op = "Drop" THEN api'[m] = NoCall ELSE api'[m] = [api[m] EXCEPT !.pc = "wait"]
    BY <1>3, <1>t DEF Send, memVars
  <2>3. api[m].op # "Drop" =>
           api'[m] = [op |-> api[m].op, ufo |-> api[m].ufo, pc |-> "wait"]
    BY <2>1, <2>2 DEF Call
  <2> QED
    BY <1>t, <2>1, <2>2, <2>3 DEF Call, ApiOps
<1>4. ASSUME NEW m \in Mutators, SendFails(m) PROVE AllocatesNew'
  <2>1. /\ UNCHANGED <<live, mlpc, msg>> /\ mlpc \notin {"lock", "apply"}
        /\ api'[m] = Return(m)
        /\ \A n \in Mutators \ {m} : api'[n] = api[n]
    BY <1>4, <1>t DEF SendFails, memVars, msgVars
  <2>2. Return(m).op # "Allocate" /\ Return(m).ufo \in {api[m].ufo, None}
    BY <1>4, <1>t DEF SendFails, Return, Call, NoCall
  <2> QED
    BY <1>t, <2>1, <2>2
<1>5. ASSUME Answer, mlpc' \notin {"lock", "apply"},
             \A u \in Ufos : live'[u] = live[u] \/ ~live'[u] \/
                (/\ u = msg.ufo /\ msg.op = "Allocate" /\ mlpc = "apply")
      PROVE  AllocatesNew'
  <2>1. \A m \in Mutators :
           \/ api'[m] = api[m]
           \/ /\ m = msg.from /\ api[m].pc = "wait"
              /\ api'[m].op # "Allocate" /\ api'[m].ufo \in {api[m].ufo, None}
    <3>1. ASSUME NEW m \in Mutators, api[m].pc = "wait"
          PROVE  Return(m).op # "Allocate" /\ Return(m).ufo \in {api[m].ufo, None}
      <4>1. api[m] \in Call
        BY <1>t, <3>1
      <4> QED
        BY <1>t, <4>1 DEF Return, Call
    <3> QED
      BY <1>5, <1>t, <3>1 DEF Answer
  <2>2. ASSUME NEW m \in Mutators, api'[m].op = "Allocate"
        PROVE  ~live'[api'[m].ufo]
    <3>1. api'[m] = api[m] /\ api[m].ufo \in Ufos /\ ~live[api[m].ufo]
      BY <1>t, <2>1, <2>2
    <3>2. ASSUME msg.op = "Allocate", mlpc = "apply", api[m].ufo = msg.ufo
          PROVE  FALSE
      <4>1. msg.from \in Mutators /\ api[msg.from].op = "Allocate"
            /\ api[msg.from].ufo = msg.ufo /\ api[msg.from].pc = "wait"
        BY <3>2
      <4>2. m = msg.from
        BY <3>2, <4>1
      <4>3. Return(m).op = "none"
        BY <4>1, <4>2, <1>t DEF Return
      <4>4. api'[m] = Return(m)
        BY <1>5, <4>1, <4>2 DEF Answer
      <4> QED
        BY <2>2, <4>3, <4>4
    <3> QED
      BY <1>5, <3>1, <3>2
  <2>3. ASSUME NEW m \in Mutators, api'[m].op = "Allocate", NEW n \in Mutators \ {m}
        PROVE  api'[n].ufo # api'[m].ufo
    BY <1>t, <2>1, <2>3
  <2> QED
    BY <1>5, <2>2, <2>3
<1>6. CASE LoopStep
  <2>1. CASE LoopLock /\ poisoned
    BY <1>5, <2>1 DEF LoopLock, LoopPanics, memVars
  <2>2. CASE LoopLock /\ ~poisoned
    BY <2>2 DEF LoopLock, memVars
  <2>3. CASE LoopAllocate
    BY <1>5, <1>t, <2>3 DEF LoopAllocate
  <2>4. CASE LoopReset
    BY <1>5, <2>4 DEF LoopReset
  <2>5. CASE LoopFree
    <3>1. \A u \in Ufos : live'[u] = live[u] \/ ~live'[u]
      BY <1>t, <2>5 DEF LoopFree
    <3>2. CASE msg.op = "Purge"
      BY <1>t, <2>5, <3>1, <3>2 DEF LoopFree
    <3>3. CASE msg.op # "Purge"
      BY <1>5, <2>5, <3>1, <3>3 DEF LoopFree
    <3> QED
      BY <3>2, <3>3
  <2>6. CASE LoopUnknown
    BY <1>5, <2>6 DEF LoopUnknown, LoopPanics, memVars
  <2>7. CASE LoopCollect
    BY <2>7 DEF LoopCollect, memVars, mutVars
  <2>8. ASSUME NEW u \in Ufos, LoopNextKey(u) PROVE AllocatesNew'
    <3>1. msg'.op = "Purge" /\ msg'.ufo = u /\ UNCHANGED <<live, api>>
      BY <2>8 DEF LoopNextKey, memVars, mutVars, IInv, TypeOK, MsgTypes
    <3> QED
      BY <3>1
  <2>9. CASE LoopClose
    BY <1>5, <2>9 DEF LoopClose, memVars
  <2> QED
    BY <1>6, <2>1, <2>2, <2>3, <2>4, <2>5, <2>6, <2>7, <2>8, <2>9 DEF LoopStep
<1>7. CASE \/ UNCHANGED vars
           \/ \E m \in Mutators : \/ \E c \in Touches[m], v \in Written \cup {None} : Touch(m, c, v)
                                  \/ Retry(m)
           \/ \E w \in Workers : WorkerStep(w) \/ \E t \in Threads : ReadEvent(w, t)
  <2>1. ASSUME NEW w \in Workers, WorkerStep(w) \/ \E t \in Threads : ReadEvent(w, t)
        PROVE  UNCHANGED <<live, api, mlpc, msg>>
    BY <2>1, WorkerKeeps
  <2>2. UNCHANGED <<live, api, mlpc, msg>>
    BY <1>7, <2>1 DEF vars, Touch, Retry, memVars, mutVars, msgVars
  <2> QED
    BY <2>2
<1> QED
  BY <1>1, <1>2, <1>3, <1>4, <1>6, <1>7 DEF Next, MutatorStep

(* Where a worker of populate_impl comes from.                              *)
LEMMA WorkerEnters ==
  ASSUME IInv, [Next]_vars, NEW w \in Workers, wpc'[w] \in ReadPcs \cup {"read"}
  PROVE  /\ wchunk'[w] = wchunk[w]
         /\ \/ wpc[w] \in ReadPcs \cup {"read"}
            \/ LockState(w) /\ live[Object(w)] /\ UNCHANGED live
<1>1. CASE \/ \E m \in Mutators : MutatorStep(m)
           \/ LoopStep \/ UNCHANGED vars
  <2>1. UNCHANGED <<wpc, wchunk>>
    BY <1>1 DEF MutatorStep, Touch, Retry, BeginCall, TakeGuard, Send, SendFails, vars,
                LoopStep, LoopLock, LoopAllocate, LoopReset, LoopFree, LoopUnknown, LoopCollect,
                LoopNextKey, LoopClose, workVars
  <2> QED
    BY <2>1
<1>2. ASSUME NEW x \in Workers, WorkerStep(x) \/ \E t \in Threads : ReadEvent(x, t), x # w
      PROVE  wpc'[w] = wpc[w] /\ wchunk'[w] = wchunk[w]
  BY <1>2 DEF WorkerStep, PopulateStep, LockState, EnsureCapacity, Punch, WriteBack,
              EvictDone, SpinLock, FaultWhilePopulating, Fill, Copy, AddChunk, Hash,
              WorkerExit, ReadEvent, Panic, Goto, workVars, IInv, TypeOK, WorkTypes
<1>3. CASE WorkerStep(w) \/ \E t \in Threads : ReadEvent(w, t)
  <2>1. CASE LockState(w)
    BY <2>1 DEF LockState, Panic, Goto, ReadPcs, memVars, IInv, TypeOK, WorkTypes
  <2>2. CASE ~LockState(w)
    BY <1>3, <2>2
    DEF WorkerStep, PopulateStep, EnsureCapacity, Punch, WriteBack, EvictDone, SpinLock,
        FaultWhilePopulating, Fill, Copy, AddChunk, Hash, WorkerExit, ReadEvent, Panic, Goto,
        ReadPcs, workVars, IInv, TypeOK, WorkTypes
  <2> QED
    BY <2>1, <2>2
<1> QED
  BY <1>1, <1>2, <1>3 DEF Next

LEMMA WorkedOnStep ==
  ASSUME IInv, WorkedOnLives, [Next]_vars
  PROVE  WorkedOnLives'
<1> SUFFICES ASSUME NEW w \in Workers, wpc'[w] \in ReadPcs \cup {"read"}
             PROVE  live'[Object(w)']
  BY DEF WorkedOnLives
<1>1. Object(w)' = Object(w) /\ live[Object(w)]
  BY WorkerEnters DEF WorkedOnLives, Object
<1>2. CASE LoopFree
  <2>1. UNCHANGED <<wpc, wchunk>> /\ rd[msg.ufo] = {} /\ st = MsgLoop
    BY <1>2 DEF LoopFree, workVars, IInv, LockInv, StateHeld
  <2>2. wpc[w] \in ReadPcs /\ Object(w) \in Ufos
    BY <2>1, NoEviction, SortAssumption, WorkerChunk DEF IInv, ReadPcs
  <2>3. Object(w) # msg.ufo
    BY <2>1, <2>2 DEF IInv, LockInv, ReadersKnown, Inside
  <2> QED
    BY <1>1, <1>2, <2>2, <2>3 DEF LoopFree, IInv, TypeOK, MemTypes
<1>3. CASE LoopStep /\ ~LoopFree
  <2>1. wpc[w] \in ReadPcs \cup {"read"} /\ Object(w) \in Ufos
    BY <1>3, WorkerChunk DEF LoopStep, LoopLock, LoopAllocate, LoopReset, LoopUnknown, LoopCollect,
                LoopNextKey, LoopClose, workVars, IInv, ReadPcs
  <2> QED
    BY <1>1, <1>3, <2>1 DEF LoopStep, LoopLock, LoopAllocate, LoopReset, LoopUnknown, LoopCollect,
                LoopNextKey, LoopClose, memVars, IInv, TypeOK, MemTypes
<1>4. CASE ~LoopStep
  <2>1. UNCHANGED live
    BY <1>4, WorkerKeeps
    DEF Next, MutatorStep, Touch, Retry, BeginCall, TakeGuard, Send, SendFails, vars, memVars
  <2> QED
    BY <1>1, <2>1
<1> QED
  BY <1>2, <1>3, <1>4

LEMMA DataStep ==
  ASSUME IInv, DataRead, [Next]_vars
  PROVE  DataRead'
<1> USE DEF DataRead
<1>1. CASE \/ \E m \in Mutators : MutatorStep(m)
           \/ LoopStep \/ UNCHANGED vars
  <2>1. UNCHANGED <<wpc, raw>>
    BY <1>1 DEF MutatorStep, Touch, Retry, BeginCall, TakeGuard, Send, SendFails, vars,
                LoopStep, LoopLock, LoopAllocate, LoopReset, LoopFree, LoopUnknown, LoopCollect,
                LoopNextKey, LoopClose, workVars
  <2> QED
    BY <2>1
<1>2. ASSUME NEW w \in Workers, Fill(w) PROVE DataRead'
  <2>1. Loaded(wchunk[w]) \in Values
    BY <1>2, WorkerChunk DEF Fill, Loaded, Values, IInv, TypeOK, MemTypes
  <2> QED
    BY <1>2, <2>1 DEF Fill, Panic, Goto, IInv, TypeOK, WorkTypes
<1>3. ASSUME NEW w \in Workers,
             (WorkerStep(w) /\ ~Fill(w)) \/ \E t \in Threads : ReadEvent(w, t)
      PROVE  DataRead'
  BY <1>3 DEF WorkerStep, PopulateStep, LockState, EnsureCapacity, Punch, WriteBack,
              EvictDone, SpinLock, FaultWhilePopulating, Copy, AddChunk, Hash,
              WorkerExit, ReadEvent, Panic, Goto, workVars, IInv, TypeOK, WorkTypes
<1> QED
  BY <1>1, <1>2, <1>3 DEF Next

(* The entries of the queue and of an eviction after a step of a worker:    *)
(* some task changes the stage of one victim, the queue is cut, a new entry *)
(* is added, a hash is filled in.                                           *)
LEMMA HashKeeps ==
  ASSUME IInv, NEW w \in Workers, Hash(w)
  PROVE  /\ DOMAIN loaded' = DOMAIN loaded /\ DOMAIN victims' = DOMAIN victims
         /\ \A i \in DOMAIN loaded : /\ loaded'[i].chunk = loaded[i].chunk
                                     /\ loaded'[i].live = loaded[i].live
                                     /\ loaded'[i].hash = IF loaded[i].hash = w THEN HashOf(w)
                                                          ELSE loaded[i].hash
         /\ \A i \in DOMAIN victims : /\ victims'[i].entry.chunk = victims[i].entry.chunk
                                      /\ victims'[i].entry.live = victims[i].entry.live
                                      /\ victims'[i].entry.hash =
                                            IF victims[i].entry.hash = w THEN HashOf(w)
                                            ELSE victims[i].entry.hash
                                      /\ victims'[i].stage = victims[i].stage
                                      /\ victims'[i].data = victims[i].data
<1> DEFINE Fulfil(e) == IF e.hash = w THEN [e EXCEPT !.hash = HashOf(w)] ELSE e
<1>1. /\ loaded' = [i \in DOMAIN loaded |-> Fulfil(loaded[i])]
      /\ victims' = [i \in DOMAIN victims |->
                       [victims[i] EXCEPT !.entry = Fulfil(victims[i].entry)]]
  BY DEF Hash
<1>2. \A e \in Entry : /\ Fulfil(e).chunk = e.chunk /\ Fulfil(e).live = e.live
                       /\ Fulfil(e).hash = IF e.hash = w THEN HashOf(w) ELSE e.hash
  BY DEF Entry
<1> HIDE DEF Fulfil
<1>3. \A v \in Victim : /\ v.entry \in Entry
                        /\ [v EXCEPT !.entry = Fulfil(v.entry)].entry = Fulfil(v.entry)
                        /\ [v EXCEPT !.entry = Fulfil(v.entry)].stage = v.stage
                        /\ [v EXCEPT !.entry = Fulfil(v.entry)].data = v.data
  BY DEF Victim
<1>4. /\ \A i \in DOMAIN loaded : loaded[i] \in Entry
      /\ \A i \in DOMAIN victims : victims[i] \in Victim
  BY VictimTypes DEF IInv
<1>5. /\ DOMAIN loaded' = DOMAIN loaded /\ DOMAIN victims' = DOMAIN victims
      /\ \A i \in DOMAIN loaded : loaded'[i] = Fulfil(loaded[i])
      /\ \A i \in DOMAIN victims :
            victims'[i] = [victims[i] EXCEPT !.entry = Fulfil(victims[i].entry)]
  BY <1>1
<1>6. ASSUME NEW i \in DOMAIN victims
      PROVE  /\ victims'[i].entry = Fulfil(victims[i].entry) /\ victims[i].entry \in Entry
             /\ victims'[i].stage = victims[i].stage /\ victims'[i].data = victims[i].data
  BY <1>3, <1>4, <1>5
<1>7. ASSUME NEW i \in DOMAIN loaded
      PROVE  loaded'[i] = Fulfil(loaded[i]) /\ loaded[i] \in Entry
  BY <1>4, <1>5
<1> QED
  BY <1>2, <1>5, <1>6, <1>7

LEMMA PunchKeeps ==
  ASSUME IInv, NEW w \in Workers, NEW i \in DOMAIN victims, Punch(w, i) \/ WriteBack(w, i)
  PROVE  /\ DOMAIN victims' = DOMAIN victims /\ UNCHANGED loaded
         /\ \A j \in DOMAIN victims : victims'[j].entry = victims[j].entry
         /\ \A j \in DOMAIN victims \ {i} : victims'[j] = victims[j]
         /\ Punch(w, i) => victims[i].stage = "todo"
         /\ WriteBack(w, i) => victims[i].stage = "pivot" /\ victims'[i].stage = "done"
<1>1. PICK s, d : victims' = [victims EXCEPT ![i] = AtStage(victims[i].entry, s, d)]
  BY DEF Punch, WriteBack
<1>2. /\ DOMAIN victims' = DOMAIN victims
      /\ victims'[i] = AtStage(victims[i].entry, s, d)
      /\ \A j \in DOMAIN victims \ {i} : victims'[j] = victims[j]
  BY <1>1
<1>3. WriteBack(w, i) => victims[i].stage = "pivot" /\ victims'[i].stage = "done"
  BY DEF WriteBack, AtStage
<1> QED
  BY <1>2, <1>3 DEF Punch, WriteBack, AtStage

(* The popped entries are in front of those that stay.                      *)
LEMMA CutKeeps ==
  ASSUME IInv, NEW w \in Workers, EnsureCapacity(w), NeedsRoom(Object(w))
  PROVE  /\ victims = <<>>
         /\ \E n \in 0..Len(loaded) :
              /\ DOMAIN victims' = 1..n
              /\ \A i \in 1..n : /\ victims'[i].entry = loaded[i]
                                 /\ victims'[i].stage = IF loaded[i].live THEN "todo" ELSE "done"
              /\ DOMAIN loaded' = 1..(Len(loaded) - n)
              /\ \A i \in 1..(Len(loaded) - n) : loaded'[i] = loaded[i + n]
<1>1. victims = <<>>
  BY NoVictims DEF EnsureCapacity, IInv, LockInv, StateHeld
<1>2. PICK n \in 0..Len(loaded) :
         /\ victims' = [i \in 1..n |-> NewVictim(loaded[i])]
         /\ loaded' = SubSeq(loaded, n + 1, Len(loaded))
  BY DEF EnsureCapacity
<1>3. DOMAIN victims' = 1..n
      /\ \A i \in 1..n : /\ victims'[i].entry = loaded[i]
                         /\ victims'[i].stage = IF loaded[i].live THEN "todo" ELSE "done"
  BY <1>2 DEF NewVictim, AtStage
<1>4. loaded \in Seq(Entry)
  BY DEF IInv, TypeOK, CoreTypes
<1>5. DOMAIN loaded' = 1..(Len(loaded) - n)
      /\ \A i \in 1..(Len(loaded) - n) : loaded'[i] = loaded[i + n]
  BY <1>2, <1>4
<1> QED
  BY <1>1, <1>3, <1>5

LEMMA AddKeeps ==
  ASSUME IInv, NEW w \in Workers, AddChunk(w), ~poisoned
  PROVE  /\ Len(loaded) \in Nat /\ DOMAIN loaded = 1..Len(loaded)
         /\ DOMAIN loaded' = 1..(Len(loaded) + 1)
         /\ \A i \in 1..Len(loaded) : loaded'[i] = loaded[i]
         /\ loaded'[Len(loaded) + 1].chunk = wchunk[w]
         /\ loaded'[Len(loaded) + 1].live
         /\ loaded'[Len(loaded) + 1].hash = w
<1>1. loaded \in Seq(Entry)
  BY DEF IInv, TypeOK, CoreTypes
<1>2. loaded' = Append(loaded, [chunk |-> wchunk[w], live |-> TRUE, hash |-> w])
  BY DEF AddChunk
<1> QED
  BY <1>1, <1>2

LEMMA DropKeeps ==
  ASSUME IInv, NEW u, DropUfoChunks(u)
  PROVE  /\ DOMAIN loaded' = DOMAIN loaded
         /\ \A i \in DOMAIN loaded :
              /\ loaded'[i].chunk = loaded[i].chunk
              /\ IF UfoOf[loaded[i].chunk] = u
                 THEN ~loaded'[i].live /\ loaded'[i].hash = None
                 ELSE loaded'[i] = loaded[i]
<1>1. \A i \in DOMAIN loaded : loaded[i] \in Entry
  BY VictimTypes DEF IInv
<1>2. \A e \in Entry : Forgotten(e).chunk = e.chunk /\ ~Forgotten(e).live
                       /\ Forgotten(e).hash = None
  BY DEF Forgotten, Entry
<1> QED
  BY <1>1, <1>2 DEF DropUfoChunks

LEMMA QueuedStep ==
  ASSUME IInv, WorkedOnLives, QueuedLives, [Next]_vars
  PROVE  QueuedLives'
<1>t. /\ \A i \in DOMAIN loaded : loaded[i] \in Entry /\ UfoOf[loaded[i].chunk] \in Ufos
      /\ \A i \in DOMAIN victims : UfoOf[victims[i].entry.chunk] \in Ufos
      /\ Len(loaded) \in Nat /\ DOMAIN loaded = 1..Len(loaded)
  BY VictimTypes, ShapeAssumption DEF IInv, Entry
<1>1. CASE LoopReset \/ LoopFree
  <2>1. victims = <<>> /\ victims' = <<>>
    BY <1>1, NoEviction, SortAssumption DEF LoopReset, LoopFree, IInv, LockInv, StateHeld
  <2>2. /\ DOMAIN loaded' = DOMAIN loaded
        /\ \A i \in DOMAIN loaded :
             /\ loaded'[i].chunk = loaded[i].chunk
             /\ IF UfoOf[loaded[i].chunk] = msg.ufo
                THEN ~loaded'[i].live ELSE loaded'[i] = loaded[i]
    BY <1>1, DropKeeps DEF LoopReset, LoopFree
  <2>3. \A u \in Ufos : u # msg.ufo => live'[u] = live[u]
    BY <1>1 DEF LoopReset, LoopFree, IInv, TypeOK, MemTypes
  <2> QED
    BY <1>t, <2>1, <2>2, <2>3 DEF QueuedLives
<1>2. CASE LoopStep /\ ~(LoopReset \/ LoopFree)
  <2>1. UNCHANGED <<loaded, victims>> /\ \A u \in Ufos : live[u] => live'[u]
    BY <1>2 DEF LoopStep, LoopLock, LoopAllocate, LoopUnknown, LoopCollect, LoopNextKey, LoopClose,
                coreVars, memVars, IInv, TypeOK, MemTypes
  <2> QED
    BY <1>t, <2>1 DEF QueuedLives
<1>3. ASSUME NEW w \in Workers, EnsureCapacity(w) PROVE QueuedLives'
  <2>1. UNCHANGED live
    BY <1>3 DEF EnsureCapacity, memVars
  <2>2. CASE NeedsRoom(Object(w))
    <3>1. PICK n \in 0..Len(loaded) :
              /\ DOMAIN victims' = 1..n
              /\ \A i \in 1..n : /\ victims'[i].entry = loaded[i]
                                 /\ victims'[i].stage = IF loaded[i].live THEN "todo" ELSE "done"
              /\ DOMAIN loaded' = 1..(Len(loaded) - n)
              /\ \A i \in 1..(Len(loaded) - n) : loaded'[i] = loaded[i + n]
      BY <1>3, <2>2, CutKeeps
    <3>2. \A i \in 1..n : i \in DOMAIN loaded
      BY <1>t
    <3>3. \A i \in 1..(Len(loaded) - n) : i + n \in DOMAIN loaded
      BY <1>t
    <3> QED
      BY <2>1, <3>1, <3>2, <3>3 DEF QueuedLives
  <2>3. CASE ~NeedsRoom(Object(w))
    BY <1>3, <2>1, <2>3 DEF EnsureCapacity, QueuedLives
  <2> QED
    BY <2>2, <2>3
<1>4. ASSUME NEW w \in Workers, NEW i \in DOMAIN victims, Punch(w, i) \/ WriteBack(w, i)
      PROVE  QueuedLives'
  <2>1. UNCHANGED live
    BY <1>4 DEF Punch, WriteBack
  <2> QED
    BY <1>4, <2>1, PunchKeeps DEF QueuedLives
<1>5. ASSUME NEW w \in Workers, EvictDone(w) PROVE QueuedLives'
  BY <1>5 DEF EvictDone, Panic, memVars, QueuedLives
<1>6. ASSUME NEW w \in Workers, AddChunk(w) PROVE QueuedLives'
  <2>1. CASE poisoned
    BY <1>6, <2>1 DEF AddChunk, Panic, coreVars, memVars, QueuedLives
  <2>2. CASE ~poisoned
    <3>1. live[UfoOf[wchunk[w]]] /\ UNCHANGED <<live, victims>>
      BY <1>6, <2>2 DEF AddChunk, WorkedOnLives, ReadPcs, Object, memVars
    <3>2. ASSUME NEW j \in DOMAIN loaded', loaded'[j].live
          PROVE  live[UfoOf[loaded'[j].chunk]]
      <4>1. CASE j \in 1..Len(loaded)
        BY <1>6, <1>t, <2>2, <3>2, <4>1, AddKeeps DEF QueuedLives
      <4>2. CASE j = Len(loaded) + 1
        BY <1>6, <2>2, <3>1, <4>2, AddKeeps
      <4> QED
        BY <1>6, <2>2, <4>1, <4>2, AddKeeps
    <3> QED
      BY <3>1, <3>2 DEF QueuedLives
  <2> QED
    BY <2>1, <2>2
<1>7. ASSUME NEW w \in Workers, Hash(w) PROVE QueuedLives'
  <2>1. UNCHANGED live
    BY <1>7 DEF Hash, memVars
  <2> QED
    BY <1>7, <2>1, HashKeeps DEF QueuedLives
<1>8. CASE \/ UNCHANGED vars
           \/ \E m \in Mutators : MutatorStep(m)
           \/ \E w \in Workers : \/ LockState(w) \/ SpinLock(w) \/ FaultWhilePopulating(w)
                                 \/ Fill(w) \/ Copy(w) \/ WorkerExit(w)
                                 \/ \E t \in Threads : ReadEvent(w, t)
  <2>1. UNCHANGED <<loaded, victims, live>>
    BY <1>8 DEF vars, MutatorStep, Touch, Retry, BeginCall, TakeGuard, Send, SendFails, LockState,
                SpinLock, FaultWhilePopulating, Fill, Copy, WorkerExit, ReadEvent, Panic,
                coreVars, memVars
  <2> QED
    BY <2>1 DEF QueuedLives
<1> QED
  BY <1>1, <1>2, <1>3, <1>4, <1>5, <1>6, <1>7, <1>8 DEF Next, WorkerStep, PopulateStep

LEMMA LivesStep ==
  ASSUME IInv, LivesInv, [Next]_vars
  PROVE  LivesInv'
BY WorkedOnStep, QueuedStep, DataStep, AllocatesStep DEF LivesInv

(* Steps after which the same answer for a chunk, and its page is where it  *)
(* was.                                                                     *)
LEMMA CarrierStays ==
  ASSUME NEW c \in Chunks, SingleCarrier(c), Queued(c)' = Queued(c), Doomed(c)' = Doomed(c),
         Copied(c)' = Copied(c), mem'[c] = None <=> mem[c] = None
  PROVE  SingleCarrier(c)'
BY DEF SingleCarrier

LEMMA LoopCarriers ==
  ASSUME IInv, LivesInv, SingleCarriers, LoopStep
  PROVE  SingleCarriers'
<1>1. UNCHANGED <<wpc, wchunk, victims, poisoned>>
  BY DEF LoopStep, LoopLock, LoopAllocate, LoopReset, LoopFree, LoopUnknown, LoopCollect,
         LoopNextKey, LoopClose, coreVars, lockVars, workVars
<1> SUFFICES ASSUME ~poisoned, NEW c \in Chunks, live'[UfoOf[c]] PROVE SingleCarrier(c)'
  BY <1>1 DEF SingleCarriers
<1>2. Copied(c)' = Copied(c) /\ Doomed(c)' = Doomed(c) /\ UfoOf[c] \in Ufos
  BY <1>1, ShapeAssumption DEF Copied, Doomed
<1>3. CASE LoopAllocate
  <2>1. Queued(c)' = Queued(c)
    BY <1>3 DEF LoopAllocate, coreVars, Queued
  <2>2. CASE UfoOf[c] = msg.ufo
    <3>1. ~live[UfoOf[c]] /\ mem'[c] = None
      BY <1>3, <2>2 DEF LoopAllocate, Blank, LivesInv, AllocatesNew
    <3>2. Queued(c) = {} /\ Doomed(c) = {}
      BY <3>1 DEF LivesInv, QueuedLives, Queued, Doomed
    <3>3. Copied(c) = {}
      BY <3>1 DEF LivesInv, WorkedOnLives, Copied, Object, ReadPcs
    <3> QED
      BY <1>2, <2>1, <3>1, <3>2, <3>3 DEF SingleCarrier
  <2>3. CASE UfoOf[c] # msg.ufo
    <3>1. live[UfoOf[c]] /\ mem'[c] = mem[c]
      BY <1>2, <1>3, <2>3 DEF LoopAllocate, Blank, IInv, TypeOK, MemTypes
    <3> QED
      BY <1>2, <2>1, <3>1, CarrierStays DEF SingleCarriers
  <2> QED
    BY <2>2, <2>3
<1>4. CASE LoopReset \/ LoopFree
  <2>1. /\ DOMAIN loaded' = DOMAIN loaded
        /\ \A i \in DOMAIN loaded :
             /\ loaded'[i].chunk = loaded[i].chunk
             /\ IF UfoOf[loaded[i].chunk] = msg.ufo
                THEN ~loaded'[i].live ELSE loaded'[i] = loaded[i]
    BY <1>4, DropKeeps DEF LoopReset, LoopFree
  <2>2. CASE UfoOf[c] = msg.ufo
    <3>1. LoopReset /\ mem'[c] = None
      BY <1>2, <1>4, <2>2 DEF LoopReset, LoopFree, Blank, IInv, TypeOK, MemTypes
    <3>2. victims = <<>> /\ rd[UfoOf[c]] = {}
      BY <2>2, <3>1, NoEviction, SortAssumption DEF LoopReset, IInv, LockInv, StateHeld
    <3>3. Queued(c)' = {}
      BY <2>1, <2>2 DEF Queued
    <3>4. Copied(c) = {}
      BY <1>2, <3>2 DEF IInv, LockInv, ReadersKnown, Inside, Copied, Object, ReadPcs
    <3>5. Doomed(c) = {}
      BY <3>2 DEF Doomed
    <3> QED
      BY <1>2, <3>1, <3>3, <3>4, <3>5 DEF SingleCarrier
  <2>3. CASE UfoOf[c] # msg.ufo
    <3>1. live[UfoOf[c]] /\ mem'[c] = mem[c]
      BY <1>2, <1>4, <2>3 DEF LoopReset, LoopFree, Blank, IInv, TypeOK, MemTypes
    <3>2. Queued(c)' = Queued(c)
      BY <2>1, <2>3 DEF Queued
    <3> QED
      BY <1>2, <3>1, <3>2, CarrierStays DEF SingleCarriers
  <2> QED
    BY <2>2, <2>3
<1>5. CASE ~(LoopAllocate \/ LoopReset \/ LoopFree)
  <2>1. UNCHANGED <<mem, live, loaded>>
    BY <1>5 DEF LoopStep, LoopLock, LoopUnknown, LoopCollect, LoopNextKey, LoopClose,
                coreVars, memVars
  <2> QED
    BY <1>2, <2>1, CarrierStays DEF SingleCarriers, Queued
<1> QED
  BY <1>3, <1>4, <1>5

LEMMA EvictionCarriers ==
  ASSUME IInv, LivesInv, SingleCarriers, NEW w \in Workers,
         \/ EnsureCapacity(w) \/ EvictDone(w)
         \/ \E i \in DOMAIN victims : Punch(w, i) \/ WriteBack(w, i)
  PROVE  SingleCarriers'
<1>1. UNCHANGED <<live, wchunk>>
  BY DEF EnsureCapacity, EvictDone, Punch, WriteBack, Panic, memVars, workVars
<1> SUFFICES ASSUME ~poisoned', NEW c \in Chunks, live[UfoOf[c]] PROVE SingleCarrier(c)'
  BY <1>1 DEF SingleCarriers
<1>2. /\ \A x \in Workers : wpc'[x] = "add" <=> wpc[x] = "add"
      /\ ~poisoned
  BY DEF EnsureCapacity, EvictDone, Punch, WriteBack, Panic, Goto, workVars,
         IInv, TypeOK, WorkTypes
<1>3. Copied(c)' = Copied(c)
  BY <1>1, <1>2 DEF Copied
<1>4. SingleCarrier(c)
  BY <1>2 DEF SingleCarriers
<1>t. Len(loaded) \in Nat /\ DOMAIN loaded = 1..Len(loaded)
  BY VictimTypes DEF IInv
<1>5. CASE EnsureCapacity(w) /\ NeedsRoom(Object(w))
  <2>1. PICK n \in 0..Len(loaded) :
              /\ DOMAIN victims' = 1..n
              /\ \A i \in 1..n : /\ victims'[i].entry = loaded[i]
                                 /\ victims'[i].stage = IF loaded[i].live THEN "todo" ELSE "done"
              /\ DOMAIN loaded' = 1..(Len(loaded) - n)
              /\ \A i \in 1..(Len(loaded) - n) : loaded'[i] = loaded[i + n]
    BY <1>5, CutKeeps
  <2>2. Doomed(c)' = {i \in Queued(c) : i <= n}
    <3>1. \A i \in 1..n : i \in DOMAIN loaded
      BY <1>t
    <3>2. \A i \in DOMAIN loaded : i <= n => i \in 1..n
      BY <1>t
    <3> QED
      BY <2>1, <3>1, <3>2 DEF Doomed, Queued
  <2>3. \A i \in Queued(c)' : i + n \in Queued(c) /\ i + n > n
    BY <1>t, <2>1 DEF Queued
  <2>4. \A i \in Queued(c) : i > n => i - n \in Queued(c)'
    <3>1. \A i \in DOMAIN loaded : i > n => i - n \in 1..(Len(loaded) - n) /\ (i - n) + n = i
      BY <1>t
    <3> QED
      BY <2>1, <3>1 DEF Queued
  <2>5. Doomed(c) = {} /\ mem' = mem
    BY <1>5, CutKeeps DEF Doomed, EnsureCapacity, memVars
  <2>6. \A i \in Queued(c) : i \in Int
    BY <1>t DEF Queued
  <2>7. \A i \in Queued(c)' : i \in Int
    BY <2>1 DEF Queued
  <2>8. \A i, j \in Queued(c)' : i = j
    BY <1>4, <2>3, <2>7 DEF SingleCarrier
  <2>9. Queued(c)' = {} \/ Doomed(c)' = {}
    BY <1>4, <2>2, <2>3, <2>6 DEF SingleCarrier
  <2>10. Queued(c) # {} <=> Queued(c)' \cup Doomed(c)' # {}
    BY <2>2, <2>3, <2>4, <2>6
  <2> QED
    BY <1>3, <1>4, <2>2, <2>5, <2>8, <2>9, <2>10 DEF SingleCarrier
<1>6. CASE EnsureCapacity(w) /\ ~NeedsRoom(Object(w))
  BY <1>3, <1>4, <1>6, CarrierStays DEF EnsureCapacity, Queued, Doomed, memVars
<1>7. CASE EvictDone(w)
  <2>1. ~\E i \in DOMAIN victims : victims[i].stage = "error"
    BY <1>7 DEF EvictDone
  <2>2. Doomed(c) = {} /\ Doomed(c)' = {}
    BY <1>7, <2>1 DEF EvictDone, Doomed
  <2> QED
    BY <1>3, <1>4, <1>7, <2>1, <2>2, CarrierStays DEF EvictDone, Queued, memVars
<1>8. ASSUME NEW i \in DOMAIN victims, Punch(w, i) PROVE SingleCarrier(c)'
  <2> DEFINE d == victims[i].entry.chunk
  <2>1. Queued(c)' = Queued(c)
    BY <1>8 DEF Punch, Queued
  <2>2. /\ DOMAIN victims' = DOMAIN victims
        /\ \A j \in DOMAIN victims : victims'[j].entry = victims[j].entry
        /\ \A j \in DOMAIN victims \ {i} : victims'[j] = victims[j]
        /\ victims[i].stage = "todo" /\ d \in Chunks
    BY <1>8, PunchKeeps, VictimTypes DEF IInv
  <2>3. CASE victims'[i].stage = "error"
    <3>1. mem' = mem
      BY <1>8, <2>3 DEF Punch, AtStage
    <3>2. Doomed(c)' = Doomed(c)
      BY <2>2, <2>3 DEF Doomed
    <3> QED
      BY <1>3, <1>4, <2>1, <3>1, <3>2, CarrierStays
  <2>4. CASE victims'[i].stage # "error"
    <3>1. /\ victims'[i].stage \in {"done", "pivot"}
          /\ \A x \in Chunks : mem'[x] = IF x = d THEN None ELSE mem[x]
      BY <1>8, <2>2, <2>4 DEF Punch, AtStage, IInv, TypeOK, MemTypes
    <3>2. Doomed(c)' = Doomed(c) \ {i}
      BY <2>2, <3>1 DEF Doomed
    <3>3. i \in Doomed(c) <=> d = c
      BY <2>2 DEF Doomed
    <3> QED
      BY <1>3, <1>4, <2>1, <2>2, <3>1, <3>2, <3>3 DEF SingleCarrier
  <2> QED
    BY <2>3, <2>4
<1>9. ASSUME NEW i \in DOMAIN victims, WriteBack(w, i) PROVE SingleCarrier(c)'
  <2>1. Queued(c)' = Queued(c) /\ mem' = mem
    BY <1>9 DEF WriteBack, Queued
  <2>2. Doomed(c)' = Doomed(c)
    BY <1>9, PunchKeeps DEF Doomed
  <2> QED
    BY <1>3, <1>4, <2>1, <2>2, CarrierStays
<1> QED
  BY <1>5, <1>6, <1>7, <1>8, <1>9

LEMMA LoadCarriers ==
  ASSUME IInv, LivesInv, SingleCarriers, NEW w \in Workers, Copy(w) \/ AddChunk(w) \/ Hash(w)
  PROVE  SingleCarriers'
<1>1. UNCHANGED <<live, poisoned>>
  BY DEF Copy, AddChunk, Hash, Panic, memVars, lockVars
<1> SUFFICES ASSUME ~poisoned, NEW c \in Chunks, live[UfoOf[c]] PROVE SingleCarrier(c)'
  BY <1>1 DEF SingleCarriers
<1>2. SingleCarrier(c)
  BY DEF SingleCarriers
<1>3. wchunk[w] \in Chunks /\ \A x \in Workers \ {w} : wpc'[x] = wpc[x] /\ wchunk'[x] = wchunk[x]
  BY WorkerChunk DEF Copy, AddChunk, Hash, Panic, Goto, IInv, TypeOK, WorkTypes
<1>4. CASE Copy(w) /\ mem[wchunk[w]] # None
  <2>1. UNCHANGED <<mem, loaded, victims>> /\ wpc'[w] = "dead" /\ wpc[w] = "copy"
    BY <1>4 DEF Copy, Panic, Goto, memVars, coreVars, IInv, TypeOK, WorkTypes
  <2>2. Copied(c)' = Copied(c)
    BY <1>3, <2>1 DEF Copied
  <2> QED
    BY <1>2, <2>1, <2>2, CarrierStays DEF Queued, Doomed
<1>5. CASE Copy(w) /\ mem[wchunk[w]] = None
  <2>1. /\ UNCHANGED <<loaded, victims, wchunk>> /\ wpc'[w] = "add" /\ wpc[w] = "copy"
        /\ mem' = [mem EXCEPT ![wchunk[w]] = raw[w]] /\ raw[w] # None
    BY <1>5, SortAssumption
    DEF Copy, Goto, memVars, coreVars, IInv, TypeOK, WorkTypes, LivesInv, DataRead
  <2>2. Queued(c)' = Queued(c) /\ Doomed(c)' = Doomed(c)
    BY <2>1 DEF Queued, Doomed
  <2>3. CASE wchunk[w] = c
    <3>1. Copied(c)' = Copied(c) \cup {w}
      BY <1>3, <2>1, <2>3 DEF Copied
    <3>2. mem'[c] # None /\ mem[c] = None
      BY <1>3, <1>5, <2>1, <2>3 DEF IInv, TypeOK, MemTypes
    <3> QED
      BY <1>2, <2>2, <3>1, <3>2 DEF SingleCarrier
  <2>4. CASE wchunk[w] # c
    <3>1. Copied(c)' = Copied(c) /\ mem'[c] = mem[c]
      BY <1>3, <2>1, <2>4 DEF Copied, IInv, TypeOK, MemTypes
    <3> QED
      BY <1>2, <2>2, <3>1, CarrierStays
  <2> QED
    BY <2>3, <2>4
<1>6. CASE AddChunk(w)
  <2>1. /\ UNCHANGED <<mem, victims, wchunk>> /\ wpc'[w] = "hash" /\ wpc[w] = "add"
    BY <1>6 DEF AddChunk, Goto, memVars, IInv, TypeOK, WorkTypes
  <2>2. Copied(c)' = Copied(c) \ {w} /\ (w \in Copied(c) <=> wchunk[w] = c)
    BY <1>3, <2>1 DEF Copied
  <2>3. Doomed(c)' = Doomed(c)
    BY <2>1 DEF Doomed
  <2>4. Queued(c)' = IF wchunk[w] = c THEN Queued(c) \cup {Len(loaded) + 1} ELSE Queued(c)
    <3>1. /\ Len(loaded) \in Nat /\ DOMAIN loaded = 1..Len(loaded)
          /\ DOMAIN loaded' = 1..(Len(loaded) + 1)
          /\ \A i \in 1..Len(loaded) : loaded'[i] = loaded[i]
          /\ loaded'[Len(loaded) + 1].chunk = wchunk[w] /\ loaded'[Len(loaded) + 1].live
      BY <1>6, AddKeeps
    <3>2. 1..(Len(loaded) + 1) = (1..Len(loaded)) \cup {Len(loaded) + 1}
      BY <3>1
    <3> QED
      BY <3>1, <3>2 DEF Queued
  <2> QED
    BY <1>2, <2>1, <2>2, <2>3, <2>4 DEF SingleCarrier
<1>7. CASE Hash(w)
  <2>1. UNCHANGED mem /\ wpc'[w] = "idle" /\ wpc[w] = "hash"
    BY <1>7 DEF Hash, Goto, memVars, IInv, TypeOK, WorkTypes
  <2>2. Copied(c)' = Copied(c)
    BY <1>3, <2>1 DEF Copied
  <2>3. Queued(c)' = Queued(c) /\ Doomed(c)' = Doomed(c)
    BY <1>7, HashKeeps DEF Queued, Doomed
  <2> QED
    BY <1>2, <2>1, <2>2, <2>3, CarrierStays
<1> QED
  BY <1>4, <1>5, <1>6, <1>7

LEMMA CarriersStep ==
  ASSUME IInv, LivesInv, SingleCarriers, [Next]_vars
  PROVE  SingleCarriers'
<1>1. ASSUME NEW m \in Mutators, MutatorStep(m) PROVE SingleCarriers'
  <2>1. UNCHANGED <<live, loaded, victims, wpc, wchunk, poisoned>>
    BY <1>1 DEF MutatorStep, Touch, Retry, BeginCall, TakeGuard, Send, SendFails,
                memVars, coreVars, lockVars, workVars
  <2>2. \A c \in Chunks : mem'[c] = None <=> mem[c] = None
    <3>1. ASSUME NEW c \in Chunks, NEW v \in Values \cup {None}, Attempt(m, c, v)
          PROVE  \A d \in Chunks : mem'[d] = None <=> mem[d] = None
      BY <3>1, SortAssumption DEF Attempt, IInv, TypeOK, MemTypes
    <3>2. ASSUME NEW c \in Touches[m], NEW v \in Written \cup {None}, Touch(m, c, v)
          PROVE  c \in Chunks /\ v \in Values \cup {None} /\ Attempt(m, c, v)
      BY <3>2, ShapeAssumption DEF Values, Touch
    <3>3. CASE Retry(m)
      <4>1. acc[m].chunk \in Chunks /\ acc[m].val \in Values \cup {None}
        BY <3>3 DEF Retry, IInv, TypeOK, MutTypes
      <4> QED
        BY <3>1, <3>3, <4>1 DEF Retry
    <3>4. CASE (\E op \in Ops, u \in Owns[m] : BeginCall(m, op, u)) \/ TakeGuard(m)
               \/ Send(m) \/ SendFails(m)
      BY <3>4 DEF BeginCall, TakeGuard, Send, SendFails, memVars
    <3> QED
      BY <1>1, <3>1, <3>2, <3>3, <3>4 DEF MutatorStep
  <2> QED
    BY <2>1, <2>2, CarrierStays DEF SingleCarriers, Queued, Doomed, Copied
<1>2. ASSUME NEW w \in Workers,
             \/ LockState(w) \/ SpinLock(w) \/ FaultWhilePopulating(w) \/ Fill(w)
             \/ WorkerExit(w) \/ \E t \in Threads : ReadEvent(w, t)
      PROVE  SingleCarriers'
  <2>1. UNCHANGED <<mem, live, loaded, victims>> /\ (poisoned => poisoned')
    BY <1>2 DEF LockState, SpinLock, FaultWhilePopulating, Fill, WorkerExit, ReadEvent, Panic,
                memVars, coreVars, lockVars
  <2>2. /\ \A x \in Workers \ {w} : wpc'[x] = wpc[x] /\ wchunk'[x] = wchunk[x]
        /\ wpc[w] # "add" /\ wpc'[w] # "add"
    BY <1>2 DEF LockState, SpinLock, FaultWhilePopulating, Fill, WorkerExit, ReadEvent, Panic,
                Goto, workVars, IInv, TypeOK, WorkTypes
  <2>3. \A c \in Chunks : Copied(c)' = Copied(c)
    BY <2>2 DEF Copied
  <2> QED
    BY <2>1, <2>3, CarrierStays DEF SingleCarriers, Queued, Doomed
<1>3. CASE UNCHANGED vars
  BY <1>3, CarrierStays
  DEF vars, memVars, coreVars, lockVars, workVars, SingleCarriers, Queued, Doomed, Copied
<1> QED
  BY <1>1, <1>2, <1>3, LoopCarriers, EvictionCarriers, LoadCarriers
  DEF Next, WorkerStep, PopulateStep

LEMMA SpecCarriers == Spec => [](IInv /\ AccountInv /\ LivesInv /\ SingleCarriers)
<1>1. Init => LivesInv /\ SingleCarriers
  <2> SUFFICES ASSUME Init PROVE LivesInv /\ SingleCarriers
    OBVIOUS
  <2>1. WorkedOnLives /\ QueuedLives /\ DataRead
    BY DEF Init, WorkedOnLives, QueuedLives, DataRead, ReadPcs
  <2>2. AllocatesNew
    BY DEF Init, AllocatesNew, NoCall
  <2>3. SingleCarriers
    BY ShapeAssumption DEF Init, SingleCarriers
  <2> QED
    BY <2>1, <2>2, <2>3 DEF LivesInv
<1>2. IInv /\ LivesInv /\ SingleCarriers /\ [Next]_vars => LivesInv' /\ SingleCarriers'
  BY LivesStep, CarriersStep
<1> QED
  BY <1>1, <1>2, SpecAccount, PTL DEF Spec

(* Memory of an existing object that is resident is known to the core       *)
(* exactly once, as a live queue entry, a chunk about to be evicted or a    *)
(* chunk a worker has still to queue, so that it is reclaimed, and not      *)
(* twice; what is not resident is not known (ufo_core.rs:183-241, 262-297,  *)
(* 371-392; reset and free, 499-600).                                       *)
THEOREM SpecResidentOnce == Spec => []ResidentOnce
<1>1. SingleCarriers => ResidentOnce
  <2> SUFFICES ASSUME SingleCarriers, ~poisoned, NEW c \in Chunks, live[UfoOf[c]]
               PROVE  Carriers(c) = IF mem[c] = None THEN 0 ELSE 1
    BY DEF ResidentOnce
  <2>1. SingleCarrier(c)
    BY DEF SingleCarriers
  <2>2. \A S : (\A x, y \in S : x = y) => Cardinality(S) = IF S = {} THEN 0 ELSE 1
    <3> SUFFICES ASSUME NEW S, \A x, y \in S : x = y, S # {} PROVE Cardinality(S) = 1
      BY FS_EmptySet
    <3>1. PICK x : S = {x}
      OBVIOUS
    <3> QED
      BY <3>1, FS_Singleton
  <2>3. /\ Cardinality(Queued(c)) = IF Queued(c) = {} THEN 0 ELSE 1
        /\ Cardinality(Doomed(c)) = IF Doomed(c) = {} THEN 0 ELSE 1
        /\ Cardinality(Copied(c)) = IF Copied(c) = {} THEN 0 ELSE 1
    BY <2>1, <2>2 DEF SingleCarrier
  <2> QED
    BY <2>1, <2>3 DEF SingleCarrier, Carriers
<1> QED
  BY <1>1, SpecCarriers, PTL
-----------------------------------------------------------------------------
(* The memory the application sees.                                         *)

(* A worker that has a fault to serve and has not copied the data yet.      *)
Loading(w) == wpc[w] \in {"lookup", "read", "evict", "spin", "fill", "copy"}

(* No chunk is loaded by two workers at the same time.                      *)
OneLoader ==
  \A w, x \in Workers : Loading(w) /\ Loading(x) /\ wchunk[w] = wchunk[x] => w = x

(* A fault nobody has read, and one that is being served, is for a page     *)
(* that is missing.                                                         *)
FaultsMissing ==
  /\ \A t \in unread : mem[want[t]] = None
  /\ \A w \in Workers : Loading(w) => mem[wchunk[w]] = None

(* Nobody is about to copy into a chunk whose data is being moved away.     *)
MovedAway ==
  \A i \in DOMAIN victims : Moving(i) =>
    LET c == victims[i].entry.chunk
    IN  /\ mem[c] = None /\ UfoOf[c] \notin ReadOnly /\ victims[i].data \in Values
        /\ \A w \in Workers : wpc[w] = "copy" => wchunk[w] # c

(* The data a worker is about to copy or to queue is what a reader of the   *)
(* missing page would get, and the hash an eviction compares with is that   *)
(* of this data, or the worker that computes it still has the data.         *)
DataCurrent == \A w \in Workers : wpc[w] \in {"copy", "add"} => raw[w] = Loaded(wchunk[w])
HashKnown(e) ==
  e.live /\ UfoOf[e.chunk] \notin ReadOnly =>
    IF e.hash \in Workers
    THEN wpc[e.hash] = "hash" /\ wchunk[e.hash] = e.chunk /\ raw[e.hash] = Loaded(e.chunk)
    ELSE e.hash = Loaded(e.chunk)
HashesKnown ==
  /\ \A i \in DOMAIN loaded : HashKnown(loaded[i])
  /\ \A i \in DOMAIN victims :
        victims[i].stage \in {"todo", "pivot"} => HashKnown(victims[i].entry)

(* Nothing is ever stored in a read-only object.                            *)
ReadOnlyKept ==
  /\ \A c \in Chunks : UfoOf[c] \in ReadOnly => mem[c] \in {None, Orig} /\ back[c] = None
  /\ \A m \in Mutators : acc[m].val # None => UfoOf[acc[m].chunk] \notin ReadOnly

MemoryInv == FaultsMissing /\ MovedAway /\ DataCurrent /\ HashesKnown /\ ReadOnlyKept

Base == IInv /\ AccountInv /\ LivesInv /\ SingleCarriers

LEMMA LoopKeeps ==
  ASSUME LoopStep
  PROVE  /\ UNCHANGED <<wpc, wchunk, raw, victims, want, unread, acc, poisoned, rd>>
         /\ \/ UNCHANGED <<mem, back, live, loaded>>
            \/ LoopAllocate /\ Blank(msg.ufo) /\ UNCHANGED loaded
            \/ (LoopReset \/ LoopFree) /\ Blank(msg.ufo) /\ DropUfoChunks(msg.ufo)
BY DEF LoopStep, LoopLock, LoopAllocate, LoopReset, LoopFree, LoopUnknown, LoopCollect,
       LoopNextKey, LoopClose, LoopPanics, coreVars, lockVars, workVars, mutVars, memVars

LEMMA CallKeeps ==
  ASSUME NEW m \in Mutators,
         \/ \E op \in Ops, u \in Owns[m] : BeginCall(m, op, u)
         \/ TakeGuard(m) \/ Send(m) \/ SendFails(m)
  PROVE  UNCHANGED <<mem, back, live, loaded, victims, used, wpc, wchunk, raw, want, unread, acc,
                     poisoned, bit, rd, st>>
BY DEF BeginCall, TakeGuard, Send, SendFails, memVars, coreVars, lockVars, workVars

(* A step of a mutator that accesses a chunk.                               *)
LEMMA AccessKeeps ==
  ASSUME IInv, NEW m \in Mutators,
         \/ \E c \in Touches[m], v \in Written \cup {None} : Touch(m, c, v)
         \/ Retry(m)
  PROVE  /\ UNCHANGED <<back, live, loaded, victims, used, wpc, wchunk, raw, poisoned, bit, rd, st,
                        api, mlpc, msg>>
         /\ \E c \in Chunks, v \in Values \cup {None} :
              /\ Attempt(m, c, v)
              /\ \/ c \in Touches[m] /\ Touch(m, c, v) /\ Idle(m)
                 \/ Retry(m) /\ acc[m] # NoAccess /\ acc[m].chunk = c /\ acc[m].val = v
              /\ \A d \in Chunks : mem'[d] = mem[d] \/ (d = c /\ mem[c] # None /\ mem'[c] = v /\ v # None)
<1>1. ASSUME NEW c \in Chunks, NEW v \in Values \cup {None}, Attempt(m, c, v)
      PROVE  \A d \in Chunks : mem'[d] = mem[d] \/ (d = c /\ mem[c] # None /\ mem'[c] = v /\ v # None)
  BY <1>1 DEF Attempt, IInv, TypeOK, MemTypes
<1>2. CASE \E c \in Touches[m], v \in Written \cup {None} : Touch(m, c, v)
  <2>1. PICK c \in Touches[m], v \in Written \cup {None} : Touch(m, c, v)
    BY <1>2
  <2>2. c \in Chunks /\ v \in Values \cup {None} /\ Attempt(m, c, v) /\ Idle(m)
    BY <2>1, ShapeAssumption DEF Values, Touch
  <2>3. UNCHANGED <<back, live, loaded, victims, used, wpc, wchunk, raw, poisoned, bit, rd, st,
                    api, mlpc, msg>>
    BY <2>1 DEF Touch, coreVars, lockVars, workVars, msgVars
  <2> QED
    BY <1>1, <2>1, <2>2, <2>3
<1>3. CASE Retry(m)
  <2>1. acc[m].chunk \in Chunks /\ acc[m].val \in Values \cup {None} /\ acc[m] # NoAccess
        /\ Attempt(m, acc[m].chunk, acc[m].val)
    BY <1>3 DEF Retry, IInv, TypeOK, MutTypes
  <2>2. UNCHANGED <<back, live, loaded, victims, used, wpc, wchunk, raw, poisoned, bit, rd, st,
                    api, mlpc, msg>>
    BY <1>3 DEF Retry, coreVars, lockVars, workVars, msgVars
  <2> QED
    BY <1>1, <1>3, <2>1, <2>2
<1> QED
  BY <1>2, <1>3

(* While an object is allocated, reset or freed, nobody loads or evicts a   *)
(* chunk of it.                                                             *)
LEMMA BlankAlone ==
  ASSUME Base, LoopAllocate \/ LoopReset \/ LoopFree
  PROVE  /\ victims = <<>> /\ msg.ufo \in Ufos
         /\ \A w \in Workers : wpc[w] \in ReadPcs => Object(w) # msg.ufo
         /\ \A i \in DOMAIN loaded : loaded[i].live /\ LoopAllocate => UfoOf[loaded[i].chunk] # msg.ufo
<1>1. victims = <<>> /\ mlpc = "apply"
  BY NoEviction, SortAssumption
  DEF Base, LoopAllocate, LoopReset, LoopFree, IInv, LockInv, StateHeld
<1>2. msg.ufo \in Ufos
  BY <1>1 DEF Base, LivesInv, AllocatesNew, LoopAllocate, LoopReset, LoopFree, FreeOps
<1>3. CASE LoopAllocate
  <2>1. ~live[msg.ufo]
    BY <1>3 DEF Base, LivesInv, AllocatesNew, LoopAllocate
  <2> QED
    BY <1>1, <1>2, <2>1 DEF Base, LivesInv, WorkedOnLives, QueuedLives
<1>4. CASE LoopReset \/ LoopFree
  <2>1. rd[msg.ufo] = {} /\ ~LoopAllocate
    BY <1>4 DEF LoopReset, LoopFree, LoopAllocate, FreeOps
  <2>2. \A w \in Workers : wpc[w] \in ReadPcs => Object(w) # msg.ufo
    BY <1>2, <2>1 DEF Base, IInv, LockInv, ReadersKnown, Inside
  <2> QED
    BY <1>1, <1>2, <2>1, <2>2
<1> QED
  BY <1>3, <1>4

(* Whoever evicts works with a state mutex that is not poisoned, and the    *)
(* chunk it still has to punch is resident, the one it moves is not.        *)
LEMMA EvictFacts ==
  ASSUME Base, NEW w \in Workers, wpc[w] = "evict", NEW i \in DOMAIN victims
  PROVE  LET c == victims[i].entry.chunk
         IN  /\ ~poisoned /\ c \in Chunks /\ UfoOf[c] \in Ufos
             /\ victims[i].entry \in Entry /\ victims[i] \in Victim
             /\ mem[c] \in Values \cup {None}
             /\ victims[i].stage # "done" => /\ victims[i].entry.live /\ live[UfoOf[c]]
                                             /\ SingleCarrier(c)
             /\ victims[i].stage = "todo" => mem[c] # None /\ mem[c] \in Values
<1> DEFINE c == victims[i].entry.chunk
<1>1. ~poisoned
  BY DEF Base, AccountInv, PoisonStops
<1>2. c \in Chunks /\ UfoOf[c] \in Ufos /\ victims[i].entry \in Entry /\ victims[i] \in Victim
  BY VictimTypes, ShapeAssumption DEF Base, IInv, Victim
<1>3. mem[c] \in Values \cup {None}
  BY <1>2 DEF Base, IInv, TypeOK, MemTypes
<1>4. victims[i].stage # "done" => victims[i].entry.live /\ live[UfoOf[c]] /\ SingleCarrier(c)
  BY <1>1, <1>2 DEF Base, LivesInv, QueuedLives, SingleCarriers
<1>5. victims[i].stage = "todo" => mem[c] # None
  <2>1. victims[i].stage = "todo" => i \in Doomed(c)
    BY DEF Doomed
  <2> QED
    BY <1>4, <2>1 DEF SingleCarrier
<1> QED
  BY <1>1, <1>2, <1>3, <1>4, <1>5

LEMMA FaultsStay ==
  ASSUME IInv, FaultsMissing, \A c \in Chunks : mem[c] = None => mem'[c] = None,
         unread' \subseteq unread, \A t \in unread' : want'[t] = want[t],
         \A w \in Workers : Loading(w)' => Loading(w) /\ wchunk'[w] = wchunk[w]
  PROVE  FaultsMissing'
<1>1. \A t \in unread : want[t] \in Chunks
  BY DEF IInv, TypeOK, MutTypes
<1>2. \A w \in Workers : Loading(w) => wchunk[w] \in Chunks
  BY WorkerChunk DEF IInv, Loading
<1> QED
  BY <1>1, <1>2 DEF FaultsMissing

LEMMA FaultsStep ==
  ASSUME Base, FaultsMissing, OneLoader, [Next]_vars
  PROVE  FaultsMissing'
<1> USE DEF Base
<1>1. ASSUME NEW m \in Mutators,
             \/ \E c \in Touches[m], v \in Written \cup {None} : Touch(m, c, v)
             \/ Retry(m)
      PROVE  FaultsMissing'
  <2>1. PICK c \in Chunks, v \in Values \cup {None} :
              /\ Attempt(m, c, v)
              /\ \A d \in Chunks : mem'[d] = mem[d] \/ (d = c /\ mem[c] # None /\ mem'[c] = v /\ v # None)
    BY <1>1, AccessKeeps
  <2>2. UNCHANGED <<wpc, wchunk>>
    BY <1>1, AccessKeeps
  <2>3. \A d \in Chunks : mem[d] = None => mem'[d] = None
    BY <2>1
  <2>4. CASE mem[c] # None
    BY <2>1, <2>2, <2>3, <2>4, FaultsStay DEF Attempt, Loading
  <2>5. CASE mem[c] = None
    <3>1. mem' = mem /\ unread' = unread \cup {m} /\ want'[m] = c
          /\ \A t \in unread \ {m} : want'[t] = want[t]
      BY <2>1, <2>5 DEF Attempt, IInv, TypeOK, MutTypes, Threads
    <3> QED
      BY <2>2, <2>5, <3>1 DEF FaultsMissing, Loading
  <2> QED
    BY <2>4, <2>5
<1>2. ASSUME NEW m \in Mutators,
             \/ \E op \in Ops, u \in Owns[m] : BeginCall(m, op, u)
             \/ TakeGuard(m) \/ Send(m) \/ SendFails(m)
      PROVE  FaultsMissing'
  BY <1>2, CallKeeps, FaultsStay DEF Loading
<1>3. CASE LoopStep
  <2>1. \A c \in Chunks : mem[c] = None => mem'[c] = None
    BY <1>3, LoopKeeps DEF Blank
  <2> QED
    BY <1>3, <2>1, LoopKeeps, FaultsStay DEF Loading
<1>4. ASSUME NEW w \in Workers, Copy(w) PROVE FaultsMissing'
  <2>1. CASE mem[wchunk[w]] # None
    <3>1. /\ UNCHANGED <<mem, want, unread, wchunk>> /\ wpc'[w] = "dead"
          /\ \A x \in Workers \ {w} : wpc'[x] = wpc[x]
      BY <1>4, <2>1 DEF Copy, Panic, Goto, memVars, mutVars, IInv, TypeOK, WorkTypes
    <3> QED
      BY <3>1, FaultsStay DEF Loading
  <2>2. CASE mem[wchunk[w]] = None
    <3>1. /\ \A c \in Chunks : c # wchunk[w] => mem'[c] = mem[c]
          /\ wchunk[w] \in Chunks /\ UNCHANGED wchunk
          /\ wpc'[w] = "add" /\ \A x \in Workers \ {w} : wpc'[x] = wpc[x]
          /\ Loading(w)
      BY <1>4, <2>2, WorkerChunk DEF Copy, Goto, Loading, IInv, TypeOK, WorkTypes, MemTypes
    <3>2. \A t \in unread' : t \in unread /\ want[t] # wchunk[w] /\ want'[t] = want[t]
                             /\ want[t] \in Chunks
      BY <1>4, <2>2 DEF Copy, Wake, IInv, TypeOK, MutTypes
    <3>3. \A x \in Workers : Loading(x)' => Loading(x) /\ x # w /\ wchunk[x] # wchunk[w]
                                            /\ wchunk[x] \in Chunks
      BY <3>1, WorkerChunk DEF Loading, OneLoader, IInv
    <3> QED
      BY <3>1, <3>2, <3>3 DEF FaultsMissing
  <2> QED
    BY <2>1, <2>2
<1>5. ASSUME NEW w \in Workers, FaultWhilePopulating(w) PROVE FaultsMissing'
  <2>1. /\ UNCHANGED <<mem, wpc, wchunk>> /\ unread' = unread \cup {w}
        /\ mem[want'[w]] = None /\ \A t \in unread \ {w} : want'[t] = want[t]
    BY <1>5 DEF FaultWhilePopulating, memVars, workVars, IInv, TypeOK, MutTypes, Threads
  <2> QED
    BY <2>1 DEF FaultsMissing, Loading
<1>6. ASSUME NEW w \in Workers, NEW t \in Threads, ReadEvent(w, t) PROVE FaultsMissing'
  <2>1. /\ UNCHANGED <<mem, want>> /\ unread' \subseteq unread /\ mem[want[t]] = None
        /\ wchunk'[w] = want[t]
        /\ \A x \in Workers \ {w} : wpc'[x] = wpc[x] /\ wchunk'[x] = wchunk[x]
    BY <1>6 DEF ReadEvent, Goto, memVars, IInv, TypeOK, WorkTypes, FaultsMissing
  <2> QED
    BY <2>1 DEF FaultsMissing, Loading
<1>7. ASSUME NEW w \in Workers, NEW i \in DOMAIN victims, Punch(w, i) \/ WriteBack(w, i)
      PROVE  FaultsMissing'
  <2>1. \A c \in Chunks : mem[c] = None => mem'[c] = None
    BY <1>7 DEF Punch, WriteBack, IInv, TypeOK, MemTypes
  <2> QED
    BY <1>7, <2>1, FaultsStay DEF Punch, WriteBack, workVars, mutVars, Loading
<1>8. ASSUME NEW w \in Workers,
             LockState(w) \/ EnsureCapacity(w) \/ EvictDone(w) \/ SpinLock(w) \/ Fill(w)
      PROVE  FaultsMissing'
  <2>1. UNCHANGED <<mem, want, unread, wchunk>> /\ Loading(w)
        /\ \A x \in Workers \ {w} : wpc'[x] = wpc[x]
    BY <1>8 DEF LockState, EnsureCapacity, EvictDone, SpinLock, Fill, Panic, Goto, Loading,
                memVars, mutVars, IInv, TypeOK, WorkTypes
  <2> QED
    BY <2>1, FaultsStay DEF Loading
<1>9. ASSUME NEW w \in Workers, AddChunk(w) \/ Hash(w) \/ WorkerExit(w)
      PROVE  FaultsMissing'
  <2>1. UNCHANGED <<mem, want, unread>> /\ ~Loading(w)'
        /\ \A x \in Workers \ {w} : wpc'[x] = wpc[x] /\ wchunk'[x] = wchunk[x]
    BY <1>9 DEF AddChunk, Hash, WorkerExit, Panic, Goto, Loading,
                memVars, mutVars, IInv, TypeOK, WorkTypes
  <2> QED
    BY <2>1, FaultsStay DEF Loading
<1>10. CASE UNCHANGED vars
  BY <1>10, FaultsStay DEF vars, memVars, workVars, mutVars, Loading
<1> QED
  BY <1>1, <1>2, <1>3, <1>4, <1>5, <1>6, <1>7, <1>8, <1>9, <1>10
  DEF Next, MutatorStep, WorkerStep, PopulateStep

(* What a worker does to its own variables only.                            *)
LEMMA OthersKeep ==
  ASSUME IInv, NEW w \in Workers, WorkerStep(w) \/ \E t \in Threads : ReadEvent(w, t)
  PROVE  /\ \A x \in Workers \ {w} : wpc'[x] = wpc[x] /\ wchunk'[x] = wchunk[x] /\ raw'[x] = raw[x]
         /\ wpc'[w] = "copy" => wpc[w] = "copy" \/ Fill(w)
         /\ wpc'[w] = "add" => wpc[w] = "add" \/ Copy(w)
         /\ wpc'[w] = "hash" => wpc[w] = "hash" \/ AddChunk(w)
         /\ wpc[w] \in {"copy", "add", "hash"} /\ wpc'[w] \in {"copy", "add", "hash"}
               => wchunk'[w] = wchunk[w] /\ raw'[w] = raw[w]
         /\ wpc[w] = "hash" => Hash(w)
<1> USE DEF Goto, IInv, TypeOK, WorkTypes
<1>1. CASE LockState(w) \/ EnsureCapacity(w) \/ EvictDone(w)
  BY <1>1 DEF LockState, EnsureCapacity, EvictDone, Panic
<1>2. CASE \E i \in DOMAIN victims : Punch(w, i) \/ WriteBack(w, i)
  BY <1>2 DEF Punch, WriteBack, workVars
<1>3. CASE SpinLock(w) \/ FaultWhilePopulating(w) \/ Fill(w)
  BY <1>3 DEF SpinLock, FaultWhilePopulating, Fill, Panic, workVars
<1>4. CASE Copy(w) \/ AddChunk(w) \/ Hash(w)
  BY <1>4 DEF Copy, AddChunk, Hash, Panic
<1>5. CASE WorkerExit(w) \/ \E t \in Threads : ReadEvent(w, t)
  BY <1>5 DEF WorkerExit, ReadEvent
<1> QED
  BY <1>1, <1>2, <1>3, <1>4, <1>5 DEF WorkerStep, PopulateStep

LEMMA MovedStays ==
  ASSUME IInv, MovedAway,
         \A c \in Chunks : mem[c] = None /\ (\E i \in DOMAIN victims : Moving(i) /\ victims[i].entry.chunk = c)
                              => mem'[c] = None,
         \A i \in DOMAIN victims' : Moving(i)' =>
            /\ Moving(i)
            /\ victims'[i].entry.chunk = victims[i].entry.chunk /\ victims'[i].data = victims[i].data,
         \A w \in Workers : wpc'[w] = "copy" =>
            \/ wpc[w] = "copy" /\ wchunk'[w] = wchunk[w]
            \/ \A i \in DOMAIN victims : Moving(i) => victims[i].entry.chunk # wchunk'[w]
  PROVE  MovedAway'
<1> SUFFICES ASSUME NEW i \in DOMAIN victims', Moving(i)'
             PROVE  LET c == victims'[i].entry.chunk
                    IN  /\ mem'[c] = None /\ UfoOf[c] \notin ReadOnly /\ victims'[i].data \in Values
                        /\ \A w \in Workers : wpc'[w] = "copy" => wchunk'[w] # c
  BY DEF MovedAway
<1>1. i \in DOMAIN victims /\ Moving(i)
  BY DEF Moving
<1>2. victims[i].entry.chunk \in Chunks
  BY <1>1, VictimTypes DEF IInv
<1> QED
  BY <1>1, <1>2 DEF MovedAway

LEMMA MovedStep ==
  ASSUME Base, FaultsMissing, MovedAway, [Next]_vars
  PROVE  MovedAway'
<1> USE DEF Base
<1>1. CASE (\E m \in Mutators : MutatorStep(m)) \/ LoopStep \/ UNCHANGED vars
  <2>1. UNCHANGED <<victims, wpc, wchunk>> /\ \A c \in Chunks : mem[c] = None => mem'[c] = None
    <3>1. ASSUME NEW m \in Mutators, MutatorStep(m)
          PROVE  UNCHANGED <<victims, wpc, wchunk>> /\ \A c \in Chunks : mem[c] = None => mem'[c] = None
      BY <3>1, CallKeeps, AccessKeeps DEF MutatorStep
    <3>2. CASE LoopStep
      BY <3>2, LoopKeeps DEF Blank
    <3> QED
      BY <1>1, <3>1, <3>2 DEF vars, memVars, coreVars, workVars
  <2>2. \A i : Moving(i)' <=> Moving(i)
    BY <2>1 DEF Moving
  <2> QED
    BY <2>1, <2>2, MovedStays
<1>2. ASSUME NEW w \in Workers, NEW i \in DOMAIN victims, Punch(w, i)
      PROVE  MovedAway'
  <2> DEFINE c == victims[i].entry.chunk
  <2>1. /\ UNCHANGED <<wpc, wchunk>> /\ wpc[w] = "evict" /\ c \in Chunks
        /\ victims[i].stage = "todo" /\ mem'[c] \in {None, mem[c]} /\ mem[c] # None /\ mem[c] \in Values
        /\ \A d \in Chunks \ {c} : mem'[d] = mem[d]
        /\ DOMAIN victims' = DOMAIN victims
        /\ \A j \in DOMAIN victims \ {i} : victims'[j] = victims[j]
    <3>1. c \in Chunks /\ wpc[w] = "evict" /\ victims[i].stage = "todo"
      BY <1>2, VictimTypes DEF Punch, IInv
    <3>2. mem[c] # None /\ mem[c] \in Values
      BY <3>1, EvictFacts
    <3>3. UNCHANGED <<wpc, wchunk>> /\ mem'[c] \in {None, mem[c]}
          /\ \A d \in Chunks \ {c} : mem'[d] = mem[d]
      BY <1>2, <3>1 DEF Punch, workVars, IInv, TypeOK, MemTypes
    <3> QED
      BY <1>2, <3>1, <3>2, <3>3, PunchKeeps
  <2>2. \A j \in DOMAIN victims \ {i} : Moving(j)' <=> Moving(j)
    BY <2>1 DEF Moving
  <2>3. ASSUME NEW j \in DOMAIN victims \ {i}, Moving(j)'
        PROVE  LET d == victims'[j].entry.chunk
               IN  /\ mem'[d] = None /\ UfoOf[d] \notin ReadOnly /\ victims'[j].data \in Values
                   /\ \A x \in Workers : wpc'[x] = "copy" => wchunk'[x] # d
    <3>1. victims[j].entry.chunk \in Chunks
      BY VictimTypes DEF IInv
    <3>2. victims[j].entry.chunk # c
      BY <2>1, <2>2, <2>3 DEF MovedAway
    <3> QED
      BY <2>1, <2>2, <2>3, <3>1, <3>2 DEF MovedAway
  <2>4. ASSUME Moving(i)'
        PROVE  LET d == victims'[i].entry.chunk
               IN  /\ mem'[d] = None /\ UfoOf[d] \notin ReadOnly /\ victims'[i].data \in Values
                   /\ \A x \in Workers : wpc'[x] = "copy" => wchunk'[x] # d
    <3>1. /\ victims'[i] = AtStage(victims[i].entry, "pivot", mem[c])
          /\ mem' = [mem EXCEPT ![c] = None] /\ UfoOf[c] \notin ReadOnly
      BY <1>2, <2>4 DEF Punch, Moving, AtStage
    <3>2. \A x \in Workers : wpc[x] = "copy" => wchunk[x] # c
      BY <2>1 DEF FaultsMissing, Loading
    <3>3. mem'[c] = None
      BY <2>1, <3>1 DEF IInv, TypeOK, MemTypes
    <3> QED
      BY <2>1, <3>1, <3>2, <3>3 DEF AtStage
  <2> QED
    BY <2>1, <2>3, <2>4 DEF MovedAway
<1>3. ASSUME NEW w \in Workers, NEW i \in DOMAIN victims, WriteBack(w, i)
      PROVE  MovedAway'
  <2>1. UNCHANGED <<mem, wpc, wchunk>>
    BY <1>3 DEF WriteBack, workVars
  <2>2. \A j \in DOMAIN victims' : Moving(j)' => j # i /\ j \in DOMAIN victims /\ victims'[j] = victims[j]
    BY <1>3, PunchKeeps DEF Moving
  <2> QED
    BY <2>1, <2>2, MovedStays DEF Moving
<1>4. ASSUME NEW w \in Workers, Fill(w) PROVE MovedAway'
  <2>1. UNCHANGED <<mem, victims, wchunk>>
    BY <1>4 DEF Fill, Panic, memVars, coreVars
  <2>2. \A i \in DOMAIN victims : Moving(i) => victims[i].entry.chunk # wchunk[w]
    BY <1>4 DEF Fill, IInv, LockInv, BitsHeld, FillersHold, MoversHold
  <2>3. \A x \in Workers : wpc'[x] = "copy" => wpc[x] = "copy" \/ x = w
    BY <1>4, OthersKeep DEF WorkerStep, PopulateStep
  <2> QED
    BY <2>1, <2>2, <2>3, MovedStays DEF Moving
<1>5. ASSUME NEW w \in Workers, Copy(w) PROVE MovedAway'
  <2>1. UNCHANGED <<victims, wchunk>> /\ \A d \in Chunks : d # wchunk[w] => mem'[d] = mem[d]
    BY <1>5 DEF Copy, Panic, memVars, coreVars, IInv, TypeOK, MemTypes
  <2>2. \A i \in DOMAIN victims : Moving(i) => victims[i].entry.chunk # wchunk[w]
    BY <1>5 DEF Copy, MovedAway
  <2>3. \A x \in Workers : wpc'[x] = "copy" => wpc[x] = "copy"
    BY <1>5, OthersKeep DEF WorkerStep, PopulateStep, Copy, Fill
  <2> QED
    BY <2>1, <2>2, <2>3, MovedStays DEF Moving
<1>6. ASSUME NEW w \in Workers,
             \/ LockState(w) \/ EnsureCapacity(w) \/ EvictDone(w) \/ SpinLock(w)
             \/ FaultWhilePopulating(w) \/ AddChunk(w) \/ Hash(w)
             \/ WorkerExit(w) \/ \E t \in Threads : ReadEvent(w, t)
      PROVE  MovedAway'
  <2>1. UNCHANGED mem
    BY <1>6 DEF LockState, EnsureCapacity, EvictDone, SpinLock, FaultWhilePopulating, AddChunk,
                Hash, WorkerExit, ReadEvent, Panic, memVars
  <2>2. \A x \in Workers : wpc'[x] = "copy" => wpc[x] = "copy" /\ wchunk'[x] = wchunk[x]
    <3>1. wpc[w] # "copy" /\ wpc'[w] # "copy"
      BY <1>6 DEF LockState, EnsureCapacity, EvictDone, SpinLock, FaultWhilePopulating, AddChunk,
                  Hash, WorkerExit, ReadEvent, Panic, Goto, workVars, IInv, TypeOK, WorkTypes
    <3>2. WorkerStep(w) \/ \E t \in Threads : ReadEvent(w, t)
      BY <1>6 DEF WorkerStep, PopulateStep
    <3> QED
      BY <3>1, <3>2, OthersKeep
  <2>3. \A i \in DOMAIN victims' : Moving(i)' =>
            /\ Moving(i)
            /\ victims'[i].entry.chunk = victims[i].entry.chunk /\ victims'[i].data = victims[i].data
    <3>1. CASE EnsureCapacity(w) /\ NeedsRoom(Object(w))
      BY <3>1, CutKeeps DEF Moving
    <3>2. CASE Hash(w)
      BY <3>2, HashKeeps DEF Moving
    <3>3. CASE EvictDone(w)
      BY <3>3 DEF EvictDone, Moving
    <3>4. CASE ~(EnsureCapacity(w) /\ NeedsRoom(Object(w))) /\ ~Hash(w) /\ ~EvictDone(w)
      <4>1. UNCHANGED victims
        BY <1>6, <3>4 DEF LockState, EnsureCapacity, SpinLock, FaultWhilePopulating, AddChunk,
                          WorkerExit, ReadEvent, coreVars
      <4> QED
        BY <4>1 DEF Moving
    <3> QED
      BY <3>1, <3>2, <3>3, <3>4
  <2> QED
    BY <2>1, <2>2, <2>3, MovedStays
<1> QED
  BY <1>1, <1>2, <1>3, <1>4, <1>5, <1>6 DEF Next, WorkerStep, PopulateStep

(* What becomes of the temporary files.                                     *)
LEMMA BackKeeps ==
  ASSUME Base, MovedAway, [Next]_vars
  PROVE  \/ UNCHANGED back
         \/ /\ LoopAllocate \/ LoopReset \/ LoopFree
            /\ \A c \in Chunks : UfoOf[c] # msg.ufo => back'[c] = back[c]
         \/ \E w \in Workers, i \in DOMAIN victims :
              /\ WriteBack(w, i)
              /\ \A c \in Chunks : c # victims[i].entry.chunk => back'[c] = back[c]
<1>1. CASE \E m \in Mutators : MutatorStep(m)
  BY <1>1, CallKeeps, AccessKeeps DEF MutatorStep, Base
<1>2. CASE LoopStep
  BY <1>2, LoopKeeps DEF Blank
<1>3. ASSUME NEW w \in Workers, NEW i \in DOMAIN victims, WriteBack(w, i)
      PROVE  \A c \in Chunks : c # victims[i].entry.chunk => back'[c] = back[c]
  BY <1>3 DEF WriteBack, Base, IInv, TypeOK, MemTypes
<1>4. ASSUME NEW w \in Workers,
             \/ WorkerStep(w) /\ ~\E i \in DOMAIN victims : WriteBack(w, i)
             \/ \E t \in Threads : ReadEvent(w, t)
      PROVE  UNCHANGED back
  <2>1. CASE \/ LockState(w) \/ EnsureCapacity(w) \/ EvictDone(w) \/ SpinLock(w)
             \/ \E i \in DOMAIN victims : Punch(w, i)
    BY <2>1 DEF LockState, EnsureCapacity, EvictDone, SpinLock, Punch, Panic, memVars
  <2>2. CASE \/ FaultWhilePopulating(w) \/ Fill(w) \/ Copy(w) \/ AddChunk(w) \/ Hash(w)
             \/ WorkerExit(w) \/ \E t \in Threads : ReadEvent(w, t)
    BY <2>2 DEF FaultWhilePopulating, Fill, Copy, AddChunk, Hash, WorkerExit, ReadEvent, Panic,
                memVars
  <2> QED
    BY <1>4, <2>1, <2>2 DEF WorkerStep, PopulateStep
<1>5. CASE UNCHANGED vars
  BY <1>5 DEF vars, memVars
<1> QED
  BY <1>1, <1>2, <1>3, <1>4, <1>5 DEF Next

(* A chunk whose data is being written back is in nobody else's hands: no   *)
(* live entry, no other victim, no worker that has its data.                *)
LEMMA WrittenBackAlone ==
  ASSUME Base, FaultsMissing, MovedAway,
         NEW w \in Workers, wpc[w] = "evict", NEW i \in DOMAIN victims, Moving(i)
  PROVE  LET c == victims[i].entry.chunk
         IN  /\ \A j \in DOMAIN loaded : loaded[j].live => loaded[j].chunk # c
             /\ \A j \in DOMAIN victims \ {i} :
                   victims[j].stage \in {"todo", "pivot"} => victims[j].entry.chunk # c
             /\ \A x \in Workers : wpc[x] \in {"copy", "add"} => wchunk[x] # c
<1> DEFINE c == victims[i].entry.chunk
<1>1. mem[c] = None /\ \A x \in Workers : wpc[x] = "copy" => wchunk[x] # c
  BY DEF MovedAway
<1>2. SingleCarrier(c)
  BY EvictFacts DEF Moving
<1>3. Queued(c) = {} /\ Doomed(c) = {} /\ Copied(c) = {}
  BY <1>1, <1>2 DEF SingleCarrier
<1>4. \A j \in DOMAIN victims \ {i} : victims[j].stage = "pivot" => victims[j].entry.chunk # c
  BY DEF Moving, Base, IInv, LockInv, BitsHeld, MoversDiffer
<1> QED
  BY <1>1, <1>3, <1>4 DEF Queued, Doomed, Copied

LEMMA DataCurrentStep ==
  ASSUME Base, FaultsMissing, MovedAway, DataCurrent, [Next]_vars
  PROVE  DataCurrent'
<1>1. ASSUME NEW w \in Workers, wpc[w] \in {"copy", "add"}
      PROVE  back'[wchunk[w]] = back[wchunk[w]] /\ wchunk[w] \in Chunks
  <2>1. wchunk[w] \in Chunks
    BY <1>1, WorkerChunk DEF Base, IInv
  <2>2. CASE LoopAllocate \/ LoopReset \/ LoopFree
    <3>1. UfoOf[wchunk[w]] # msg.ufo
      BY <1>1, <2>2, BlankAlone DEF ReadPcs, Object
    <3>2. \A c \in Chunks : UfoOf[c] # msg.ufo => back'[c] = back[c]
      BY <2>2 DEF LoopAllocate, LoopReset, LoopFree, Blank
    <3> QED
      BY <2>1, <3>1, <3>2
  <2>3. ASSUME NEW x \in Workers, NEW i \in DOMAIN victims, WriteBack(x, i),
               \A c \in Chunks : c # victims[i].entry.chunk => back'[c] = back[c]
        PROVE  back'[wchunk[w]] = back[wchunk[w]]
    BY <1>1, <2>1, <2>3, WrittenBackAlone DEF WriteBack, Moving
  <2> QED
    BY <2>1, <2>2, <2>3, BackKeeps
<1>2. ASSUME NEW w \in Workers, wpc'[w] \in {"copy", "add"}, ~Fill(w)
      PROVE  wpc[w] \in {"copy", "add"} /\ raw'[w] = raw[w] /\ wchunk'[w] = wchunk[w]
  <2>1. ASSUME NEW x \in Workers, WorkerStep(x) \/ \E t \in Threads : ReadEvent(x, t)
        PROVE  wpc[w] \in {"copy", "add"} /\ raw'[w] = raw[w] /\ wchunk'[w] = wchunk[w]
    <3>1. CASE x # w
      BY <1>2, <2>1, <3>1, OthersKeep DEF Base
    <3>2. CASE x = w
      <4>1. wpc[w] \in {"copy", "add"}
        BY <1>2, <2>1, <3>2, OthersKeep DEF Base, Copy
      <4> QED
        BY <1>2, <2>1, <3>2, <4>1, OthersKeep DEF Base
    <3> QED
      BY <3>1, <3>2
  <2>2. CASE (\E m \in Mutators : MutatorStep(m)) \/ LoopStep \/ UNCHANGED vars
    <3>1. UNCHANGED <<wpc, wchunk, raw>>
      BY <2>2, CallKeeps, AccessKeeps, LoopKeeps DEF MutatorStep, Base, vars, workVars
    <3> QED
      BY <1>2, <3>1
  <2> QED
    BY <2>1, <2>2 DEF Next
<1>3. ASSUME NEW w \in Workers, wpc'[w] \in {"copy", "add"}, Fill(w)
      PROVE  raw'[w] = Loaded(wchunk[w])'
  BY <1>3 DEF Fill, Panic, Goto, memVars, Loaded, Base, IInv, TypeOK, WorkTypes
<1>4. ASSUME NEW w \in Workers, wpc'[w] \in {"copy", "add"}, ~Fill(w)
      PROVE  raw'[w] = Loaded(wchunk[w])'
  BY <1>1, <1>2, <1>4 DEF DataCurrent, Loaded
<1> QED
  BY <1>3, <1>4 DEF DataCurrent


(* The hash of an entry stays known when the file of its chunk does not     *)
(* change and the worker that computes the hash goes on with that.          *)
HashersStay ==
  \A w \in Workers : wpc[w] = "hash" =>
    wpc'[w] = "hash" /\ wchunk'[w] = wchunk[w] /\ raw'[w] = raw[w]

LEMMA HashStays ==
  ASSUME NEW e, HashKnown(e), back'[e.chunk] = back[e.chunk], HashersStay
  PROVE  HashKnown(e)'
BY DEF HashKnown, HashersStay, Loaded

LEMMA HashesStay ==
  ASSUME IInv, HashesKnown, HashersStay, UNCHANGED back,
         UNCHANGED loaded, UNCHANGED victims \/ victims' = <<>>
  PROVE  HashesKnown'
<1>1. \A i \in DOMAIN loaded : HashKnown(loaded[i])'
  BY HashStays DEF HashesKnown, HashKnown
<1>2. \A i \in DOMAIN victims :
        victims'[i] = victims[i] /\ victims[i].stage \in {"todo", "pivot"} => HashKnown(victims[i].entry)'
  BY HashStays DEF HashesKnown, HashKnown
<1> QED
  BY <1>1, <1>2 DEF HashesKnown

LEMMA HashesStep ==
  ASSUME Base, FaultsMissing, MovedAway, DataCurrent, HashesKnown, [Next]_vars
  PROVE  HashesKnown'
<1> USE DEF Base
<1>t. /\ \A i \in DOMAIN loaded : loaded[i] \in Entry /\ loaded[i].chunk \in Chunks
      /\ \A i \in DOMAIN victims : victims[i].entry \in Entry /\ victims[i].entry.chunk \in Chunks
      /\ Len(loaded) \in Nat /\ DOMAIN loaded = 1..Len(loaded)
  BY VictimTypes DEF IInv, Victim, Entry
<1>0. ASSUME NEW w \in Workers, WorkerStep(w) \/ (\E t \in Threads : ReadEvent(w, t)), ~Hash(w)
      PROVE  HashersStay /\ wpc[w] # "hash"
  BY <1>0, OthersKeep DEF HashersStay
<1>1. CASE (\E m \in Mutators : MutatorStep(m)) \/ UNCHANGED vars
  <2>1. UNCHANGED <<back, loaded, victims, wpc, wchunk, raw>>
    BY <1>1, CallKeeps, AccessKeeps DEF MutatorStep, vars, memVars, coreVars, workVars
  <2> QED
    BY <2>1, HashesStay DEF HashersStay
<1>2. CASE LoopStep
  <2>1. CASE UNCHANGED <<mem, back, live, loaded>>
    BY <1>2, <2>1, LoopKeeps, HashesStay DEF HashersStay
  <2>2. CASE LoopAllocate \/ LoopReset \/ LoopFree
    <3>1. victims' = <<>> /\ HashersStay
      BY <1>2, <2>2, LoopKeeps, BlankAlone DEF HashersStay
    <3>2. \A c \in Chunks : UfoOf[c] # msg.ufo => back'[c] = back[c]
      BY <2>2 DEF LoopAllocate, LoopReset, LoopFree, Blank
    <3>3. ASSUME NEW i \in DOMAIN loaded', loaded'[i].live
          PROVE  i \in DOMAIN loaded /\ loaded'[i] = loaded[i] /\ UfoOf[loaded[i].chunk] # msg.ufo
      <4>1. CASE LoopAllocate
        BY <3>3, <4>1, BlankAlone DEF LoopAllocate, coreVars
      <4>2. CASE LoopReset \/ LoopFree
        <5>1. DropUfoChunks(msg.ufo)
          BY <4>2 DEF LoopReset, LoopFree
        <5> QED
          BY <3>3, <5>1, DropKeeps
      <4> QED
        BY <2>2, <4>1, <4>2
    <3>4. \A i \in DOMAIN loaded : \A e :
             e = loaded[i] /\ UfoOf[e.chunk] # msg.ufo => HashKnown(e)'
      BY <1>t, <3>1, <3>2, HashStays DEF HashesKnown, HashKnown
    <3> QED
      BY <3>1, <3>3, <3>4 DEF HashesKnown, HashKnown
  <2> QED
    BY <1>2, <2>1, <2>2, LoopKeeps
<1>3. ASSUME NEW w \in Workers, EnsureCapacity(w) PROVE HashesKnown'
  <2>1. UNCHANGED back /\ HashersStay
    BY <1>0, <1>3 DEF EnsureCapacity, memVars, WorkerStep, PopulateStep, Hash
  <2>2. CASE NeedsRoom(Object(w))
    <3>1. PICK n \in 0..Len(loaded) :
              /\ DOMAIN victims' = 1..n
              /\ \A i \in 1..n : victims'[i].entry = loaded[i]
              /\ DOMAIN loaded' = 1..(Len(loaded) - n)
              /\ \A i \in 1..(Len(loaded) - n) : loaded'[i] = loaded[i + n]
      BY <1>3, <2>2, CutKeeps
    <3>2. \A i \in DOMAIN loaded : \A e : e = loaded[i] => HashKnown(e)'
      BY <2>1, HashStays DEF HashesKnown, HashKnown
    <3>3. \A i \in 1..n : i \in DOMAIN loaded
      BY <1>t
    <3>4. \A i \in 1..(Len(loaded) - n) : i + n \in DOMAIN loaded
      BY <1>t
    <3> QED
      BY <3>1, <3>2, <3>3, <3>4 DEF HashesKnown, HashKnown
  <2>3. CASE ~NeedsRoom(Object(w))
    BY <1>3, <2>1, <2>3, HashesStay DEF EnsureCapacity
  <2> QED
    BY <2>2, <2>3
<1>4. ASSUME NEW w \in Workers, NEW i \in DOMAIN victims, Punch(w, i) PROVE HashesKnown'
  <2>1. UNCHANGED back /\ HashersStay /\ UNCHANGED loaded
    BY <1>0, <1>4 DEF Punch, WorkerStep, PopulateStep, Hash
  <2>2. \A j \in DOMAIN loaded : \A e : e = loaded[j] => HashKnown(e)'
    BY <2>1, HashStays DEF HashesKnown, HashKnown
  <2>3. ASSUME NEW j \in DOMAIN victims', victims'[j].stage \in {"todo", "pivot"}
        PROVE  /\ j \in DOMAIN victims /\ victims[j].stage \in {"todo", "pivot"}
               /\ victims'[j].entry = victims[j].entry
    BY <1>4, <2>3, PunchKeeps
  <2>4. \A j \in DOMAIN victims : \A e : e = victims[j].entry /\ victims[j].stage \in {"todo", "pivot"}
                                           => HashKnown(e)'
    BY <2>1, HashStays DEF HashesKnown, HashKnown
  <2> QED
    BY <2>1, <2>2, <2>3, <2>4 DEF HashesKnown, HashKnown
<1>5. ASSUME NEW w \in Workers, NEW i \in DOMAIN victims, WriteBack(w, i) PROVE HashesKnown'
  <2> DEFINE c == victims[i].entry.chunk
  <2>1. HashersStay /\ UNCHANGED loaded /\ wpc[w] = "evict" /\ Moving(i)
        /\ \A d \in Chunks : d # c => back'[d] = back[d]
    BY <1>0, <1>5 DEF WriteBack, WorkerStep, PopulateStep, Hash, Moving, IInv, TypeOK, MemTypes
  <2>2. /\ \A j \in DOMAIN loaded : loaded[j].live => loaded[j].chunk # c
        /\ \A j \in DOMAIN victims \ {i} :
              victims[j].stage \in {"todo", "pivot"} => victims[j].entry.chunk # c
    BY <2>1, WrittenBackAlone
  <2>3. \A j \in DOMAIN loaded : \A e : e = loaded[j] /\ e.live => HashKnown(e)'
    BY <1>t, <2>1, <2>2, HashStays DEF HashesKnown, HashKnown
  <2>4. ASSUME NEW j \in DOMAIN victims', victims'[j].stage \in {"todo", "pivot"}
        PROVE  /\ j \in DOMAIN victims /\ victims[j].stage \in {"todo", "pivot"} /\ j # i
               /\ victims'[j].entry = victims[j].entry
    BY <1>5, <2>4, PunchKeeps
  <2>5. \A j \in DOMAIN victims \ {i} : \A e :
           e = victims[j].entry /\ victims[j].stage \in {"todo", "pivot"} => HashKnown(e)'
    BY <1>t, <2>1, <2>2, HashStays DEF HashesKnown, HashKnown
  <2> QED
    BY <2>1, <2>3, <2>4, <2>5 DEF HashesKnown, HashKnown
<1>6. ASSUME NEW w \in Workers, AddChunk(w) PROVE HashesKnown'
  <2>1. UNCHANGED <<back, victims>> /\ HashersStay
    BY <1>0, <1>6 DEF AddChunk, Panic, coreVars, memVars, WorkerStep, PopulateStep, Hash
  <2>2. CASE poisoned
    BY <1>6, <2>1, <2>2, HashesStay DEF AddChunk, coreVars
  <2>3. CASE ~poisoned
    <3>1. \A j \in DOMAIN loaded : \A e : e = loaded[j] => HashKnown(e)'
      BY <2>1, HashStays DEF HashesKnown, HashKnown
    <3>2. \A j \in DOMAIN victims : \A e : e = victims[j].entry /\ victims[j].stage \in {"todo", "pivot"}
                                             => HashKnown(e)'
      BY <2>1, HashStays DEF HashesKnown, HashKnown
    <3>3. wpc'[w] = "hash" /\ wchunk'[w] = wchunk[w] /\ raw'[w] = raw[w] /\ raw[w] = Loaded(wchunk[w])
      BY <1>6, <2>3 DEF AddChunk, Goto, DataCurrent, IInv, TypeOK, WorkTypes
    <3>4. \A e : e = loaded'[Len(loaded) + 1] => HashKnown(e)'
      BY <1>6, <2>1, <2>3, <3>3, AddKeeps DEF HashKnown, Loaded
    <3>5. \A j \in DOMAIN loaded' :
             (j \in DOMAIN loaded /\ loaded'[j] = loaded[j]) \/ j = Len(loaded) + 1
      BY <1>6, <1>t, <2>3, AddKeeps
    <3> QED
      BY <2>1, <3>1, <3>2, <3>4, <3>5 DEF HashesKnown, HashKnown
  <2> QED
    BY <2>2, <2>3
<1>7. ASSUME NEW w \in Workers, Hash(w) PROVE HashesKnown'
  <2>1. /\ UNCHANGED back /\ wpc[w] = "hash"
        /\ \A x \in Workers \ {w} : wpc'[x] = wpc[x] /\ wchunk'[x] = wchunk[x] /\ raw'[x] = raw[x]
    BY <1>7, OthersKeep DEF Hash, memVars, WorkerStep, PopulateStep
  <2>2. HashOf(w) \notin Workers
    BY SortAssumption DEF HashOf, IInv, TypeOK, WorkTypes
  <2>3. ASSUME NEW e, NEW f, HashKnown(e), f.chunk = e.chunk, f.live = e.live,
               f.hash = IF e.hash = w THEN HashOf(w) ELSE e.hash
        PROVE  HashKnown(f)'
    BY <2>1, <2>2, <2>3 DEF HashKnown, HashOf, Object, Loaded
  <2>4. \A j \in DOMAIN loaded : \A f : f = loaded'[j] => HashKnown(f)'
    BY <1>7, <2>3, HashKeeps DEF HashesKnown
  <2>5. \A j \in DOMAIN victims : \A f : f = victims'[j].entry /\ victims[j].stage \in {"todo", "pivot"}
                                           => HashKnown(f)'
    BY <1>7, <2>3, HashKeeps DEF HashesKnown
  <2> QED
    BY <1>7, <2>4, <2>5, HashKeeps DEF HashesKnown, HashKnown
<1>8. ASSUME NEW w \in Workers,
             \/ LockState(w) \/ EvictDone(w) \/ SpinLock(w) \/ FaultWhilePopulating(w) \/ Fill(w)
             \/ Copy(w) \/ WorkerExit(w) \/ \E t \in Threads : ReadEvent(w, t)
      PROVE  HashesKnown'
  <2>1. UNCHANGED <<back, loaded>> /\ (UNCHANGED victims \/ victims' = <<>>)
    BY <1>8 DEF LockState, EvictDone, SpinLock, FaultWhilePopulating, Fill, Copy, WorkerExit,
                ReadEvent, Panic, memVars, coreVars
  <2>2. wpc[w] # "hash"
    BY <1>8 DEF LockState, EvictDone, SpinLock, FaultWhilePopulating, Fill, Copy, WorkerExit, ReadEvent
  <2>3. HashersStay
    BY <1>0, <1>8, <2>2 DEF Hash, WorkerStep, PopulateStep
  <2> QED
    BY <2>1, <2>3, HashesStay
<1> QED
  BY <1>1, <1>2, <1>3, <1>4, <1>5, <1>6, <1>7, <1>8 DEF Next, WorkerStep, PopulateStep

LEMMA ReadOnlyStep ==
  ASSUME Base, MovedAway, DataCurrent, ReadOnlyKept, [Next]_vars
  PROVE  ReadOnlyKept'
<1> USE DEF Base
<1>1. ASSUME NEW m \in Mutators,
             \/ \E c \in Touches[m], v \in Written \cup {None} : Touch(m, c, v)
             \/ Retry(m)
      PROVE  ReadOnlyKept'
  <2>1. PICK c \in Chunks, v \in Values \cup {None} :
              /\ Attempt(m, c, v)
              /\ \/ c \in Touches[m] /\ Touch(m, c, v) /\ Idle(m)
                 \/ Retry(m) /\ acc[m] # NoAccess /\ acc[m].chunk = c /\ acc[m].val = v
              /\ \A d \in Chunks : mem'[d] = mem[d] \/ (d = c /\ mem[c] # None /\ mem'[c] = v /\ v # None)
    BY <1>1, AccessKeeps
  <2>2. v # None => UfoOf[c] \notin ReadOnly
    BY <2>1 DEF Touch, ReadOnlyKept
  <2>3. acc' = [acc EXCEPT ![m] = NoAccess] \/ acc' = [acc EXCEPT ![m] = [chunk |-> c, val |-> v]]
    BY <2>1 DEF Attempt
  <2>4. \A n \in Mutators : acc'[n].val # None => UfoOf[acc'[n].chunk] \notin ReadOnly
    BY <2>2, <2>3 DEF ReadOnlyKept, NoAccess, IInv, TypeOK, MutTypes
  <2>5. UNCHANGED back
    BY <1>1, AccessKeeps
  <2> QED
    BY <2>1, <2>2, <2>4, <2>5 DEF ReadOnlyKept
<1>2. ASSUME NEW m \in Mutators,
             \/ \E op \in Ops, u \in Owns[m] : BeginCall(m, op, u)
             \/ TakeGuard(m) \/ Send(m) \/ SendFails(m)
      PROVE  ReadOnlyKept'
  BY <1>2, CallKeeps DEF ReadOnlyKept
<1>3. CASE LoopStep
  <2>1. UNCHANGED acc /\ \A c \in Chunks : mem'[c] \in {None, mem[c]} /\ back'[c] \in {None, back[c]}
    BY <1>3, LoopKeeps DEF Blank
  <2> QED
    BY <2>1 DEF ReadOnlyKept
<1>4. ASSUME NEW w \in Workers, Copy(w) PROVE ReadOnlyKept'
  <2>1. UNCHANGED <<back, acc>> /\ \A c \in Chunks : mem'[c] = mem[c] \/ (c = wchunk[w] /\ mem'[c] = raw[w])
    BY <1>4 DEF Copy, Panic, memVars, mutVars, IInv, TypeOK, MemTypes
  <2>2. raw[w] = Loaded(wchunk[w])
    BY <1>4 DEF Copy, DataCurrent
  <2> QED
    BY <2>1, <2>2 DEF ReadOnlyKept, Loaded
<1>5. ASSUME NEW w \in Workers, NEW i \in DOMAIN victims, Punch(w, i) \/ WriteBack(w, i)
      PROVE  ReadOnlyKept'
  <2>1. UNCHANGED acc /\ \A c \in Chunks : /\ mem'[c] \in {None, mem[c]}
                                           /\ back'[c] = back[c] \/ (c = victims[i].entry.chunk /\ Moving(i))
    BY <1>5 DEF Punch, WriteBack, Moving, mutVars, IInv, TypeOK, MemTypes
  <2> QED
    BY <2>1 DEF ReadOnlyKept, MovedAway
<1>6. ASSUME NEW w \in Workers,
             \/ LockState(w) \/ EnsureCapacity(w) \/ EvictDone(w) \/ SpinLock(w)
             \/ FaultWhilePopulating(w) \/ Fill(w) \/ AddChunk(w) \/ Hash(w)
             \/ WorkerExit(w) \/ \E t \in Threads : ReadEvent(w, t)
      PROVE  ReadOnlyKept'
  <2>1. UNCHANGED <<mem, back, acc>>
    <3>1. CASE LockState(w) \/ EnsureCapacity(w) \/ EvictDone(w) \/ SpinLock(w)
      BY <3>1 DEF LockState, EnsureCapacity, EvictDone, SpinLock, Panic, memVars, mutVars
    <3>2. CASE ~(LockState(w) \/ EnsureCapacity(w) \/ EvictDone(w) \/ SpinLock(w))
      BY <1>6, <3>2 DEF FaultWhilePopulating, Fill, AddChunk, Hash, WorkerExit, ReadEvent, Panic,
                        memVars, mutVars
    <3> QED
      BY <3>1, <3>2
  <2> QED
    BY <2>1 DEF ReadOnlyKept
<1>7. CASE UNCHANGED vars
  BY <1>7 DEF vars, memVars, mutVars, ReadOnlyKept
<1> QED
  BY <1>1, <1>2, <1>3, <1>4, <1>5, <1>6, <1>7 DEF Next, MutatorStep, WorkerStep, PopulateStep

LEMMA SpecMemoryInv == Spec /\ []OneLoader => [](Base /\ MemoryInv)
<1>1. Init => MemoryInv
  <2> SUFFICES ASSUME Init PROVE MemoryInv
    OBVIOUS
  <2>1. FaultsMissing /\ DataCurrent /\ HashesKnown
    BY DEF Init, FaultsMissing, DataCurrent, HashesKnown, Loading
  <2>2. MovedAway
    BY DEF Init, MovedAway, Moving
  <2>3. ReadOnlyKept
    BY DEF Init, ReadOnlyKept, NoAccess
  <2> QED
    BY <2>1, <2>2, <2>3 DEF MemoryInv
<1>2. Base /\ MemoryInv /\ OneLoader /\ [Next]_vars => MemoryInv'
  BY FaultsStep, MovedStep, DataCurrentStep, HashesStep, ReadOnlyStep DEF MemoryInv
<1>3. Spec => []Base
  BY SpecCarriers, PTL DEF Base
<1> QED
  BY <1>1, <1>2, <1>3, PTL DEF Spec
-----------------------------------------------------------------------------
(* The content of the chunks.                                               *)

(* The file of every chunk that can be dirty takes its data.  The last      *)
(* chunk of an object may be shorter than the others: its data is refused.  *)
WritesAccepted == \A c \in Chunks : Accepted(c) \/ UfoOf[c] \in ReadOnly

LEMMA ContentDead == \A c \in Chunks : ~live[UfoOf[c]] => Content(c) = Orig
BY DEF Content

LEMMA ContentThere == \A c \in Chunks : live[UfoOf[c]] /\ mem[c] # None => Content(c) = mem[c]
BY DEF Content

LEMMA ContentAway ==
  \A c \in Chunks : live[UfoOf[c]] /\ mem[c] = None /\ WritingBack(c) = {} => Content(c) = Loaded(c)
BY DEF Content

LEMMA ContentMoving ==
  \A c \in Chunks : \A i : live[UfoOf[c]] /\ mem[c] = None /\ WritingBack(c) = {i}
                              => Content(c) = victims[i].data
BY DEF Content

(* The same for the next state.                                             *)
LEMMA NextContent ==
  ASSUME NEW c \in Chunks
  PROVE  /\ ~live'[UfoOf[c]] => Content(c)' = Orig
         /\ live'[UfoOf[c]] /\ mem'[c] # None => Content(c)' = mem'[c]
         /\ live'[UfoOf[c]] /\ mem'[c] = None /\ WritingBack(c)' = {} => Content(c)' = Loaded(c)'
         /\ \A i : live'[UfoOf[c]] /\ mem'[c] = None /\ WritingBack(c)' = {i}
                      => Content(c)' = victims'[i].data
BY DEF Content

LEMMA ContentStays ==
  ASSUME NEW c \in Chunks, live'[UfoOf[c]] = live[UfoOf[c]], mem'[c] = mem[c], back'[c] = back[c],
         WritingBack(c)' = WritingBack(c),
         \A i \in WritingBack(c) : victims'[i].data = victims[i].data
  PROVE  Content(c)' = Content(c)
<1>1. CASE WritingBack(c) = {}
  BY <1>1 DEF Content, Loaded
<1>2. CASE WritingBack(c) # {}
  <2> DEFINE i == CHOOSE j \in WritingBack(c) : TRUE
  <2>1. i \in WritingBack(c)
    BY <1>2
  <2>2. victims'[i].data = victims[i].data
    BY <2>1
  <2>3. (CHOOSE j \in WritingBack(c)' : TRUE) = i
    OBVIOUS
  <2> QED
    BY <2>2, <2>3 DEF Content, Loaded
<1> QED
  BY <1>1, <1>2

LEMMA MovingContent ==
  ASSUME IInv, MovedAway
  PROVE  /\ \A c \in Chunks, i \in DOMAIN victims : i \in WritingBack(c) =>
              Moving(i) /\ WritingBack(c) = {i} /\ mem[c] = None /\ victims[i].entry.chunk = c
         /\ \A c \in Chunks : mem[c] # None => WritingBack(c) = {}
<1>1. ASSUME NEW c \in Chunks, NEW i \in DOMAIN victims, i \in WritingBack(c)
      PROVE  Moving(i) /\ WritingBack(c) = {i} /\ mem[c] = None /\ victims[i].entry.chunk = c
  <2>1. Moving(i) /\ victims[i].entry.chunk = c
    BY <1>1 DEF WritingBack, Moving
  <2>2. \A j \in WritingBack(c) : j = i
    BY <2>1 DEF WritingBack, Moving, IInv, LockInv, BitsHeld, MoversDiffer
  <2> QED
    BY <1>1, <2>1, <2>2 DEF MovedAway
<1>2. \A c \in Chunks : WritingBack(c) \subseteq DOMAIN victims
  BY DEF WritingBack
<1> QED
  BY <1>1, <1>2

LEMMA PunchContent ==
  ASSUME Base, MemoryInv, NEW w \in Workers, NEW i \in DOMAIN victims, Punch(w, i), NEW c \in Chunks
  PROVE  Content(c)' = Content(c)
<1> USE DEF Base, MemoryInv
<1> DEFINE d == victims[i].entry.chunk
<1>1. /\ UNCHANGED <<back, live>> /\ wpc[w] = "evict" /\ victims[i].stage = "todo" /\ d \in Chunks
      /\ DOMAIN victims' = DOMAIN victims
      /\ \A j \in DOMAIN victims \ {i} : victims'[j] = victims[j]
      /\ victims'[i].entry = victims[i].entry
  BY PunchKeeps, VictimTypes DEF Punch, IInv
<1>2. mem[d] # None /\ live[UfoOf[d]]
  BY <1>1, EvictFacts
<1>3. /\ WritingBack(d) = {}
      /\ \A x \in Chunks \ {d} : WritingBack(x)' = WritingBack(x)
      /\ \A x \in Chunks : i \notin WritingBack(x)
  BY <1>1, <1>2, MovingContent DEF WritingBack
<1>4. \A x \in Chunks \ {d} : mem'[x] = mem[x]
  BY <1>1 DEF Punch, IInv, TypeOK, MemTypes
<1>5. \A x \in Chunks : \A j \in WritingBack(x) : victims'[j].data = victims[j].data
  BY <1>1, <1>3 DEF WritingBack
<1>6. CASE c # d
  BY <1>1, <1>3, <1>4, <1>5, <1>6, ContentStays
<1>7. CASE c = d
  <2>1. Content(c) = mem[c]
    BY <1>2, <1>7, ContentThere
  <2>2. CASE UfoOf[d] \in ReadOnly
    <3>1. CASE mem'[d] = None
      <4>1. victims'[i].stage # "pivot"
        BY <1>2, <2>2 DEF Punch, AtStage
      <4>2. WritingBack(d)' = {}
        BY <1>1, <1>3, <4>1 DEF WritingBack
      <4>3. mem[d] = Orig /\ back[d] = None
        BY <1>1, <1>2, <2>2 DEF ReadOnlyKept
      <4> QED
        BY <1>1, <1>2, <1>7, <2>1, <3>1, <4>2, <4>3, NextContent DEF Loaded
    <3>2. CASE mem'[d] # None
      <4>1. mem'[d] = mem[d]
        BY <1>1, <3>2 DEF Punch, IInv, TypeOK, MemTypes
      <4> QED
        BY <1>1, <1>2, <1>7, <2>1, <4>1, NextContent
    <3> QED
      BY <3>1, <3>2
  <2>3. CASE UfoOf[d] \notin ReadOnly /\ bit[d] = NoOne
    <3>1. victims'[i] = AtStage(victims[i].entry, "pivot", mem[d]) /\ mem'[d] = None
      BY <1>1, <2>3 DEF Punch, IInv, TypeOK, MemTypes
    <3>2. WritingBack(d)' = {i}
      BY <1>1, <1>3, <3>1 DEF WritingBack, AtStage
    <3>3. victims'[i].data = mem[d]
      BY <3>1 DEF AtStage
    <3> QED
      BY <1>1, <1>2, <1>7, <2>1, <3>1, <3>2, <3>3, NextContent
  <2>4. CASE UfoOf[d] \notin ReadOnly /\ bit[d] # NoOne
    <3>1. UNCHANGED mem
      BY <2>4 DEF Punch
    <3> QED
      BY <1>1, <1>2, <1>7, <2>1, <3>1, NextContent
  <2> QED
    BY <2>2, <2>3, <2>4
<1> QED
  BY <1>6, <1>7

LEMMA WriteBackContent ==
  ASSUME Base, MemoryInv, WritesAccepted,
         NEW w \in Workers, NEW i \in DOMAIN victims, WriteBack(w, i), NEW c \in Chunks
  PROVE  Content(c)' = Content(c)
<1> USE DEF Base, MemoryInv
<1> DEFINE d == victims[i].entry.chunk
           e == victims[i].entry
<1>1. /\ UNCHANGED <<mem, live>> /\ wpc[w] = "evict" /\ Moving(i) /\ d \in Chunks
      /\ victims[i].stage = "pivot" /\ i \in WritingBack(d)
      /\ DOMAIN victims' = DOMAIN victims /\ victims'[i].stage = "done"
      /\ \A j \in DOMAIN victims \ {i} : victims'[j] = victims[j]
  BY PunchKeeps, VictimTypes DEF WriteBack, IInv, Moving, WritingBack
<1>2. mem[d] = None /\ WritingBack(d) = {i}
  BY <1>1, MovingContent
<1>3. e.live /\ live[UfoOf[d]]
  BY <1>1, EvictFacts
<1>4. \A x \in Chunks \ {d} : back'[x] = back[x] /\ WritingBack(x)' = WritingBack(x) /\ i \notin WritingBack(x)
  <2>1. \A x \in Chunks \ {d} : back'[x] = back[x]
    BY DEF WriteBack, IInv, TypeOK, MemTypes
  <2>2. \A x \in Chunks \ {d} : i \notin WritingBack(x) /\ i \notin WritingBack(x)'
    BY <1>1 DEF WritingBack
  <2>3. \A x \in Chunks \ {d} : WritingBack(x)' = WritingBack(x)
    BY <1>1, <2>2 DEF WritingBack
  <2> QED
    BY <2>1, <2>2, <2>3
<1>5. CASE c # d
  <2>1. \A j \in WritingBack(c) : victims'[j].data = victims[j].data
    BY <1>1, <1>4, <1>5 DEF WritingBack
  <2> QED
    BY <1>1, <1>4, <1>5, <2>1, ContentStays
<1>6. CASE c = d
  <2>1. Content(c) = victims[i].data
    BY <1>2, <1>3, <1>6, ContentMoving
  <2>2. WritingBack(c)' = {}
    BY <1>1, <1>2, <1>6 DEF WritingBack
  <2>3. Content(c)' = Loaded(c)'
    BY <1>1, <1>2, <1>3, <1>6, <2>2, NextContent
  <2>4. UfoOf[d] \notin ReadOnly /\ victims[i].data \in Values
    BY <1>1 DEF MovedAway
  <2>5. e.hash = Loaded(d)
    <3>1. HashKnown(e)
      BY <1>1 DEF HashesKnown
    <3>2. e.hash \notin Workers
      BY DEF WriteBack
    <3> QED
      BY <1>3, <2>4, <3>1, <3>2 DEF HashKnown
  <2>6. CASE victims[i].data # e.hash
    <3>1. back'[d] = victims[i].data
      BY <1>1, <2>4, <2>6 DEF WriteBack, WritesAccepted, IInv, TypeOK, MemTypes
    <3> QED
      BY <1>6, <2>1, <2>3, <2>4, <3>1, SortAssumption DEF Loaded
  <2>7. CASE victims[i].data = e.hash
    <3>1. UNCHANGED back
      BY <2>7 DEF WriteBack
    <3> QED
      BY <1>6, <2>1, <2>3, <2>5, <2>7, <3>1 DEF Loaded
  <2> QED
    BY <2>6, <2>7
<1> QED
  BY <1>5, <1>6

LEMMA CopyContent ==
  ASSUME Base, MemoryInv, NEW w \in Workers, Copy(w), NEW c \in Chunks
  PROVE  Content(c)' = Content(c)
<1> USE DEF Base, MemoryInv
<1> DEFINE d == wchunk[w]
<1>1. UNCHANGED <<victims, back, live>> /\ wpc[w] = "copy" /\ d \in Chunks
  BY WorkerChunk DEF Copy, Panic, memVars, coreVars, IInv
<1>2. \A x \in Chunks : WritingBack(x)' = WritingBack(x)
  BY <1>1 DEF WritingBack
<1>3. CASE c # d \/ mem[d] # None
  <2>1. mem'[c] = mem[c]
    BY <1>3 DEF Copy, Panic, memVars, IInv, TypeOK, MemTypes
  <2> QED
    BY <1>1, <1>2, <2>1, ContentStays
<1>4. CASE c = d /\ mem[d] = None
  <2>1. mem'[d] = raw[w] /\ raw[w] \in Values
    BY <1>1, <1>4 DEF Copy, IInv, TypeOK, MemTypes, LivesInv, DataRead
  <2>2. WritingBack(d) = {}
    BY <1>1 DEF WritingBack, MovedAway, Moving
  <2>3. raw[w] = Loaded(d)
    BY <1>1 DEF DataCurrent
  <2>4. CASE live[UfoOf[d]]
    BY <1>1, <1>4, <2>1, <2>2, <2>3, <2>4, SortAssumption, ContentAway, NextContent
  <2>5. CASE ~live[UfoOf[d]]
    BY <1>1, <1>4, <2>5, ContentDead, NextContent
  <2> QED
    BY <2>4, <2>5
<1> QED
  BY <1>3, <1>4

LEMMA WorkerContent ==
  ASSUME Base, MemoryInv, WritesAccepted,
         NEW w \in Workers, WorkerStep(w) \/ \E t \in Threads : ReadEvent(w, t),
         NEW c \in Chunks
  PROVE  Content(c)' = Content(c)
<1>1. CASE \/ LockState(w) \/ EnsureCapacity(w) \/ EvictDone(w) \/ SpinLock(w)
           \/ FaultWhilePopulating(w) \/ Fill(w) \/ AddChunk(w) \/ Hash(w)
           \/ WorkerExit(w) \/ \E t \in Threads : ReadEvent(w, t)
  <2>1. UNCHANGED <<mem, back, live>>
    <3>1. CASE LockState(w) \/ EnsureCapacity(w) \/ EvictDone(w) \/ SpinLock(w)
      BY <3>1 DEF LockState, EnsureCapacity, EvictDone, SpinLock, Panic, memVars
    <3>2. CASE ~(LockState(w) \/ EnsureCapacity(w) \/ EvictDone(w) \/ SpinLock(w))
      BY <1>1, <3>2 DEF FaultWhilePopulating, Fill, AddChunk, Hash, WorkerExit, ReadEvent, Panic,
                        memVars
    <3> QED
      BY <3>1, <3>2
  <2>2. /\ WritingBack(c)' = WritingBack(c)
        /\ \A i \in WritingBack(c) : victims'[i].data = victims[i].data
    <3>1. CASE EnsureCapacity(w) /\ NeedsRoom(Object(w))
      <4>1. WritingBack(c) = {} /\ WritingBack(c)' = {}
        BY <3>1, CutKeeps DEF WritingBack, Base
      <4> QED
        BY <4>1
    <3>2. CASE Hash(w)
      BY <3>2, HashKeeps DEF WritingBack, Base
    <3>3. CASE EvictDone(w)
      BY <3>3 DEF EvictDone, WritingBack
    <3>4. CASE ~(EnsureCapacity(w) /\ NeedsRoom(Object(w))) /\ ~Hash(w) /\ ~EvictDone(w)
      <4>1. UNCHANGED victims
        BY <1>1, <3>4 DEF LockState, EnsureCapacity, SpinLock, FaultWhilePopulating, Fill, AddChunk,
                          WorkerExit, ReadEvent, coreVars
      <4> QED
        BY <4>1 DEF WritingBack
    <3> QED
      BY <3>1, <3>2, <3>3, <3>4
  <2> QED
    BY <2>1, <2>2, ContentStays
<1> QED
  BY <1>1, PunchContent, WriteBackContent, CopyContent DEF WorkerStep, PopulateStep

(* How the steps map to steps of the array.                                 *)
LEMMA MapsToMove ==
  ASSUME \A c \in Chunks : Content(c)' = Content(c), UNCHANGED live, Task' = Task
  PROVE  Memory!Next
<1>1. Memory!Move
  BY DEF Memory!Move
<1> QED
  BY <1>1 DEF Memory!Next

LEMMA TaskKeeps ==
  UNCHANGED <<mlpc, msg>> => Task' = Task
BY DEF Task

LEMMA AccessMaps ==
  ASSUME Base, MemoryInv, NEW m \in Mutators,
         \/ \E c \in Touches[m], v \in Written \cup {None} : Touch(m, c, v)
         \/ Retry(m)
  PROVE  Memory!Next
<1> USE DEF Base
<1>1. PICK c \in Chunks, v \in Values \cup {None} :
            /\ Attempt(m, c, v)
            /\ \A d \in Chunks : mem'[d] = mem[d] \/ (d = c /\ mem[c] # None /\ mem'[c] = v /\ v # None)
  BY AccessKeeps
<1>2. UNCHANGED <<back, live, victims, mlpc, msg>> /\ Task' = Task
  BY AccessKeeps, TaskKeeps
<1>3. ASSUME NEW d \in Chunks, mem'[d] = mem[d] PROVE Content(d)' = Content(d)
  <2>1. /\ WritingBack(d)' = WritingBack(d)
        /\ \A i \in WritingBack(d) : victims'[i].data = victims[i].data
    BY <1>2 DEF WritingBack
  <2> QED
    BY <1>2, <1>3, <2>1, ContentStays
<1>4. CASE mem'[c] = mem[c]
  <2>1. \A d \in Chunks : Content(d)' = Content(d)
    BY <1>1, <1>3, <1>4
  <2> QED
    BY <1>2, <2>1, MapsToMove
<1>5. CASE mem'[c] # mem[c]
  <2>1. mem[c] # None /\ mem'[c] = v /\ v \in Values /\ v # None
    BY <1>1, <1>5
  <2>2. \A d \in Chunks \ {c} : Content(d)' = Content(d)
    BY <1>1, <1>3
  <2>3. CASE ~live[UfoOf[c]]
    <3>1. Content(c)' = Content(c)
      BY <1>2, <2>3, ContentDead, NextContent
    <3> QED
      BY <1>2, <2>2, <3>1, MapsToMove
  <2>4. CASE live[UfoOf[c]]
    <3>1. Content(c)' = v
      BY <1>2, <2>1, <2>4, NextContent
    <3>2. [d \in Chunks |-> Content(d)]' = [[d \in Chunks |-> Content(d)] EXCEPT ![c] = v]
      BY <2>2, <3>1
    <3>3. {d \in Chunks : mem[d] # None}' = {d \in Chunks : mem[d] # None}
      BY <1>1, <2>1
    <3>4. c \in {d \in Chunks : mem[d] # None}
      BY <2>1
    <3>5. Memory!Store(c, v)
      BY <1>2, <3>2, <3>3, <3>4 DEF Memory!Store
    <3> QED
      BY <2>1, <3>5 DEF Memory!Next
  <2> QED
    BY <2>3, <2>4
<1> QED
  BY <1>4, <1>5

LEMMA CallMaps ==
  ASSUME Base, MemoryInv, NEW m \in Mutators,
         \/ \E op \in Ops, u \in Owns[m] : BeginCall(m, op, u)
         \/ TakeGuard(m) \/ Send(m) \/ SendFails(m)
  PROVE  Memory!Next
<1>1. UNCHANGED <<mem, back, live, victims>>
  BY CallKeeps
<1>2. \A c \in Chunks : Content(c)' = Content(c)
  <2> SUFFICES ASSUME NEW c \in Chunks PROVE Content(c)' = Content(c)
    OBVIOUS
  <2>1. /\ WritingBack(c)' = WritingBack(c)
        /\ \A i \in WritingBack(c) : victims'[i].data = victims[i].data
    BY <1>1 DEF WritingBack
  <2> QED
    BY <1>1, <2>1, ContentStays
<1>3. CASE ~Send(m)
  <2>1. Task' = Task
    BY <1>3, TaskKeeps DEF BeginCall, TakeGuard, SendFails, msgVars
  <2> QED
    BY <1>1, <1>2, <2>1, MapsToMove
<1>4. CASE Send(m)
  <2>1. api[m] \in Call
    BY <1>4 DEF Send, Base, IInv, TypeOK, MutTypes, NoCall
  <2>2. Task = NoMsg
    BY <1>4 DEF Send, Task
  <2>3. mlpc' = "lock" /\ msg' = [op |-> api[m].op, ufo |-> api[m].ufo, from |-> m]
    BY <1>4 DEF Send
  <2>4. msg'.op = api[m].op /\ msg'.ufo = api[m].ufo
    BY <2>3
  <2>5. CASE api[m].op = "Shutdown"
    <3>1. Task' = Task
      BY <2>2, <2>3, <2>4, <2>5 DEF Task
    <3> QED
      BY <1>1, <1>2, <3>1, MapsToMove
  <2>6. CASE api[m].op # "Shutdown"
    <3> DEFINE o == IF api[m].op \in FreeOps THEN "Free" ELSE api[m].op
    <3>1. o \in {"Allocate", "Reset", "Free"} /\ api[m].ufo \in Ufos /\ api[m].op # "Purge"
      BY <2>1, <2>6 DEF Call, ApiOps, FreeOps
    <3>2. Task' = [op |-> o, ufo |-> api[m].ufo]
      BY <2>3, <2>4, <2>6, <3>1 DEF Task
    <3>3. [c \in Chunks |-> Content(c)]' = [c \in Chunks |-> Content(c)]
      BY <1>2
    <3>4. Memory!Begin(o, api[m].ufo)
      BY <1>1, <2>2, <3>2, <3>3 DEF Memory!Begin
    <3> QED
      BY <3>1, <3>4 DEF Memory!Next
  <2> QED
    BY <2>5, <2>6
<1> QED
  BY <1>3, <1>4

(* While the message loop changes an object it says so.                     *)
LEMMA FinishMaps ==
  ASSUME Base, MemoryInv, LoopAllocate \/ LoopReset \/ LoopFree
  PROVE  Memory!Next
<1>0. PICK o, u : /\ o = IF LoopAllocate THEN "Allocate" ELSE IF LoopReset THEN "Reset" ELSE "Free"
                  /\ u = msg.ufo
  OBVIOUS
<1>1. /\ u \in Ufos /\ victims = <<>> /\ victims' = <<>>
      /\ mlpc = "apply" /\ mlpc' \in {"recv", "next"}
      /\ mem'  = [c \in Chunks |-> IF UfoOf[c] = u THEN None ELSE mem[c]]
      /\ back' = [c \in Chunks |-> IF UfoOf[c] = u THEN None ELSE back[c]]
  BY <1>0, BlankAlone DEF LoopAllocate, LoopReset, LoopFree, Blank, coreVars
<1>2. /\ Task = [op |-> o, ufo |-> u] /\ o \in {"Allocate", "Reset", "Free"}
      /\ Task' = NoMsg
  BY <1>0, <1>1 DEF Task, LoopAllocate, LoopReset, LoopFree, FreeOps
<1>3. (live[u] <=> o # "Allocate") /\ live' = [live EXCEPT ![u] = o # "Free"]
  <2>1. CASE LoopAllocate
    <3>1. ~live[u]
      BY <1>0, <2>1 DEF Base, LivesInv, AllocatesNew, LoopAllocate
    <3> QED
      BY <1>0, <2>1, <3>1 DEF LoopAllocate
  <2>2. CASE LoopReset
    <3>1. o = "Reset"
      BY <1>0, <2>2 DEF LoopAllocate, LoopReset
    <3>2. live' = live /\ live[u] /\ live \in [Ufos -> BOOLEAN]
      BY <1>0, <2>2 DEF LoopReset, Base, IInv, TypeOK, MemTypes
    <3> QED
      BY <3>1, <3>2, <1>1
  <2>3. CASE LoopFree
    <3>1. o = "Free"
      BY <1>0, <2>3 DEF LoopAllocate, LoopReset, LoopFree, FreeOps
    <3> QED
      BY <1>0, <2>3, <3>1 DEF LoopFree
  <2> QED
    BY <2>1, <2>2, <2>3
<1>4. \A c \in Chunks : WritingBack(c) = {} /\ WritingBack(c)' = {}
  BY <1>1 DEF WritingBack
<1>5. ASSUME NEW c \in Chunks
      PROVE  Content(c)' = IF UfoOf[c] = u THEN Orig ELSE Content(c)
  <2>1. UfoOf[c] \in Ufos
    BY ShapeAssumption
  <2>2. CASE UfoOf[c] = u
    <3>1. mem'[c] = None /\ Loaded(c)' = Orig
      BY <1>1, <2>2 DEF Loaded
    <3> QED
      BY <1>4, <2>2, <3>1, NextContent
  <2>3. CASE UfoOf[c] # u
    <3>1. mem'[c] = mem[c] /\ back'[c] = back[c] /\ live'[UfoOf[c]] = live[UfoOf[c]]
      BY <1>1, <1>3, <2>1, <2>3 DEF Base, IInv, TypeOK, MemTypes
    <3> QED
      BY <1>4, <2>3, <3>1, ContentStays
  <2> QED
    BY <2>2, <2>3
<1>6. [c \in Chunks |-> Content(c)]'
         = [c \in Chunks |-> IF UfoOf[c] = u THEN Orig ELSE [d \in Chunks |-> Content(d)][c]]
  BY <1>5
<1>7. {c \in Chunks : mem[c] # None}' = {c \in {d \in Chunks : mem[d] # None} : UfoOf[c] # u}
  BY <1>1
<1>8. Memory!Finish(o, u)
  BY <1>2, <1>3, <1>6, <1>7 DEF Memory!Finish
<1>9. u \in Ufos /\ o \in {"Allocate", "Reset", "Free"}
  BY <1>1, <1>2
<1>10. \E op \in {"Allocate", "Reset", "Free"}, x \in Ufos : Memory!Finish(op, x)
  BY <1>8, <1>9, Zenon
<1> QED
  BY <1>10 DEF Memory!Next

LEMMA LoopMaps ==
  ASSUME Base, MemoryInv, LoopStep
  PROVE  Memory!Next
<1>1. CASE LoopAllocate \/ LoopReset \/ LoopFree
  BY <1>1, FinishMaps
<1>2. CASE ~(LoopAllocate \/ LoopReset \/ LoopFree)
  <2>1. UNCHANGED <<mem, back, live, victims>>
    BY <1>2, LoopKeeps
  <2>2. \A c \in Chunks : Content(c)' = Content(c)
    <3> SUFFICES ASSUME NEW c \in Chunks PROVE Content(c)' = Content(c)
      OBVIOUS
    <3>1. /\ WritingBack(c)' = WritingBack(c)
          /\ \A i \in WritingBack(c) : victims'[i].data = victims[i].data
      BY <2>1 DEF WritingBack
    <3> QED
      BY <2>1, <3>1, ContentStays
  <2>3. [c \in Chunks |-> Content(c)]' = [c \in Chunks |-> Content(c)]
    BY <2>2
  <2>4. {c \in Chunks : mem[c] # None}' = {c \in Chunks : mem[c] # None}
    BY <2>1
  <2>5. CASE LoopLock \/ LoopUnknown \/ LoopCollect \/ LoopClose
    <3>1. Task' = Task \/ Task' = NoMsg
      <4>1. CASE LoopLock /\ ~poisoned
        BY <4>1 DEF LoopLock, Task
      <4>2. CASE ~(LoopLock /\ ~poisoned)
        BY <2>5, <4>2 DEF LoopLock, LoopUnknown, LoopCollect, LoopClose, LoopPanics, Task
      <4> QED
        BY <4>1, <4>2
    <3>2. CASE Task' = Task
      BY <2>1, <2>2, <3>2, MapsToMove
    <3>3. CASE Task' = NoMsg
      <4>1. Memory!GiveUp
        BY <2>1, <2>3, <2>4, <3>3 DEF Memory!GiveUp
      <4> QED
        BY <4>1 DEF Memory!Next
    <3> QED
      BY <3>1, <3>2, <3>3
  <2>6. ASSUME NEW u \in Ufos, LoopNextKey(u) PROVE Memory!Next
    <3>1. Task = NoMsg
      BY <2>6 DEF LoopNextKey, Task
    <3>2. mlpc' = "lock" /\ msg'.op = "Purge" /\ msg'.ufo = u
      BY <2>6 DEF LoopNextKey, Base, IInv, TypeOK, MsgTypes
    <3>3. Task' = [op |-> "Free", ufo |-> u]
      BY <3>2 DEF Task
    <3>4. Memory!Begin("Free", u)
      BY <2>1, <2>3, <2>4, <3>1, <3>3 DEF Memory!Begin
    <3> QED
      BY <3>4 DEF Memory!Next
  <2> QED
    BY <1>2, <2>5, <2>6 DEF LoopStep
<1> QED
  BY <1>1, <1>2

(* While no chunk is loaded twice at the same time, an object behaves like  *)
(* an ordinary array, if its last chunk is full or it is read-only.         *)
LEMMA OneLoaderMemory ==
  ASSUME WritesAccepted
  PROVE  Spec /\ []OneLoader => BehavesLikeMemory
<1>1. Init => Memory!Init
  <2> SUFFICES ASSUME Init PROVE Memory!Init
    OBVIOUS
  <2>1. \A c \in Chunks : Content(c) = Orig
    BY ContentDead, ShapeAssumption DEF Init
  <2>2. Task = NoMsg
    BY DEF Init, Task
  <2>3. {c \in Chunks : mem[c] # None} = {}
    BY DEF Init
  <2> QED
    BY <2>1, <2>2, <2>3 DEF Init, Memory!Init
<1>2. Base /\ MemoryInv /\ [Next]_vars => [Memory!Next]_(Memory!vars)
  <2> SUFFICES ASSUME Base, MemoryInv, [Next]_vars PROVE [Memory!Next]_(Memory!vars)
    OBVIOUS
  <2>1. ASSUME NEW m \in Mutators, MutatorStep(m) PROVE Memory!Next
    BY <2>1, AccessMaps, CallMaps DEF MutatorStep
  <2>2. ASSUME NEW w \in Workers, WorkerStep(w) \/ \E t \in Threads : ReadEvent(w, t)
        PROVE  Memory!Next
    <3>1. UNCHANGED <<live, mlpc, msg>>
      BY <2>2, WorkerKeeps
    <3>2. Task' = Task
      BY <3>1, TaskKeeps
    <3>3. \A c \in Chunks : Content(c)' = Content(c)
      BY <2>2, WorkerContent
    <3> QED
      BY <3>1, <3>2, <3>3, MapsToMove
  <2>3. CASE UNCHANGED vars
    <3>1. UNCHANGED <<mem, back, live, victims, mlpc, msg>>
      BY <2>3 DEF vars, memVars, coreVars, msgVars
    <3>2. Task' = Task
      BY <3>1, TaskKeeps
    <3>3. ASSUME NEW c \in Chunks PROVE Content(c)' = Content(c)
      <4>1. /\ WritingBack(c)' = WritingBack(c)
            /\ \A i \in WritingBack(c) : victims'[i].data = victims[i].data
        BY <3>1 DEF WritingBack
      <4> QED
        BY <3>1, <4>1, ContentStays
    <3> QED
      BY <3>1, <3>2, <3>3, MapsToMove
  <2> QED
    BY <2>1, <2>2, <2>3, LoopMaps DEF Next
<1> QED
  BY <1>1, <1>2, SpecMemoryInv, PTL DEF Spec, BehavesLikeMemory, Memory!Spec
-----------------------------------------------------------------------------
(* A use of the framework in which no chunk is loaded twice at a time.      *)

(* Every application thread has chunks of its own: those it touches, and    *)
(* those that populating them needs.  Populating is not circular.           *)
SoleUse(Uses, Rank) ==
  /\ Uses \in [Mutators -> SUBSET Chunks]
  /\ Rank \in [Chunks -> Nat]
  /\ \A m \in Mutators : Touches[m] \subseteq Uses[m]
  /\ \A m, n \in Mutators : m # n => Uses[m] \cap Uses[n] = {}
  /\ \A m \in Mutators : \A c \in Uses[m] : Needs[c] # None => Needs[c] \in Uses[m]
  /\ \A c \in Chunks : Needs[c] # None => Rank[Needs[c]] < Rank[c]

(* What a blocked thread waits for.                                         *)
WantsKnown ==
  /\ \A m \in Mutators : /\ acc[m] # NoAccess => acc[m].chunk \in Touches[m] /\ api[m] = NoCall
                         /\ want[m] # None => acc[m] # NoAccess /\ acc[m].chunk = want[m]
  /\ \A w \in Workers : want[w] # None => wpc[w] = "fill" /\ want[w] = Needs[wchunk[w]]

(* The loads on behalf of a thread form a chain: it waits for the first,    *)
(* and each load but the last waits for the next.                           *)
Waits(t, c, Rank) == want[t] # None /\ t \notin unread /\ Rank[want[t]] >= Rank[c]
LoadsChained(Uses, Rank) ==
  /\ \A w \in Workers : Loading(w) =>
        /\ \E m \in Mutators : wchunk[w] \in Uses[m] /\ Waits(m, wchunk[w], Rank)
        /\ \E t \in Threads : want[t] = wchunk[w] /\ t \notin unread
  /\ \A m \in Mutators, w, x \in Workers :
        Loading(w) /\ Loading(x) /\ w # x /\ wchunk[w] \in Uses[m] /\ wchunk[x] \in Uses[m] =>
          Waits(w, wchunk[x], Rank) \/ Waits(x, wchunk[w], Rank)

UseInv(Uses, Rank) == WantsKnown /\ LoadsChained(Uses, Rank)

LEMMA WantsStep ==
  ASSUME IInv, WantsKnown, [Next]_vars
  PROVE  WantsKnown'
<1> USE DEF WantsKnown
<1>t. /\ want \in [Threads -> Chunks \cup {None}] /\ api \in [Mutators -> Call \cup {NoCall}]
      /\ acc \in [Mutators -> [chunk : Chunks, val : Values \cup {None}] \cup {NoAccess}]
      /\ Mutators \subseteq Threads /\ Workers \subseteq Threads
      /\ \A m \in Mutators : m \notin Workers
      /\ None \notin Chunks /\ NoCall.pc = "none"
  BY SortAssumption DEF IInv, TypeOK, MutTypes, Threads, NoCall
<1>1. ASSUME NEW m \in Mutators,
             \/ \E c \in Touches[m], v \in Written \cup {None} : Touch(m, c, v)
             \/ Retry(m)
      PROVE  WantsKnown'
  <2>1. PICK c \in Chunks, v \in Values \cup {None} :
              /\ Attempt(m, c, v)
              /\ \/ c \in Touches[m] /\ Touch(m, c, v) /\ Idle(m)
                 \/ Retry(m) /\ acc[m] # NoAccess /\ acc[m].chunk = c /\ acc[m].val = v
    BY <1>1, AccessKeeps
  <2>2. UNCHANGED <<wpc, wchunk, api>>
    BY <1>1, AccessKeeps
  <2>3. c \in Touches[m] /\ want[m] = None /\ api[m] = NoCall
    BY <2>1 DEF Idle, Retry
  <2>4. /\ \A n \in Mutators \ {m} : acc'[n] = acc[n]
        /\ \A t \in Threads \ {m} : want'[t] = want[t]
        /\ \/ acc'[m] = NoAccess /\ want'[m] = None
           \/ acc'[m] = [chunk |-> c, val |-> v] /\ want'[m] = c
    BY <1>t, <2>1, <2>3 DEF Attempt
  <2>5. [chunk |-> c, val |-> v] # NoAccess
    BY <1>t DEF NoAccess
  <2> QED
    BY <1>t, <2>2, <2>3, <2>4, <2>5
<1>2. ASSUME NEW m \in Mutators,
             \/ \E op \in Ops, u \in Owns[m] : BeginCall(m, op, u)
             \/ TakeGuard(m) \/ Send(m) \/ SendFails(m)
      PROVE  WantsKnown'
  <2>1. UNCHANGED <<wpc, wchunk, want, acc>>
    BY <1>2, CallKeeps
  <2>2. acc[m] = NoAccess
    BY <1>2, <1>t DEF BeginCall, Idle, TakeGuard, Send, SendFails
  <2>3. \A n \in Mutators \ {m} : api'[n] = api[n]
    BY <1>2, <1>t DEF BeginCall, TakeGuard, Send, SendFails
  <2> QED
    BY <2>1, <2>2, <2>3
<1>3. CASE LoopStep
  <2>1. UNCHANGED <<wpc, wchunk, want, acc>>
    BY <1>3, LoopKeeps
  <2>2. \A m \in Mutators : api'[m] = api[m] \/ api[m].pc = "wait"
    <3>1. UNCHANGED api \/ Answer
      <4>1. CASE LoopLock
        BY <4>1 DEF LoopLock, LoopPanics
      <4>2. CASE LoopFree
        BY <4>2 DEF LoopFree
      <4>3. CASE LoopAllocate \/ LoopReset \/ LoopUnknown \/ LoopClose
        BY <4>3 DEF LoopAllocate, LoopReset, LoopUnknown, LoopClose, LoopPanics
      <4>4. CASE LoopCollect
        BY <4>4 DEF LoopCollect, mutVars
      <4>5. ASSUME NEW u \in Ufos, LoopNextKey(u) PROVE UNCHANGED api
        BY <4>5 DEF LoopNextKey, mutVars
      <4> QED
        BY <1>3, <4>1, <4>2, <4>3, <4>4, <4>5 DEF LoopStep
    <3> QED
      BY <1>t, <3>1 DEF Answer
  <2> QED
    BY <1>t, <2>1, <2>2
<1>4. ASSUME NEW w \in Workers, WorkerStep(w) \/ \E t \in Threads : ReadEvent(w, t)
      PROVE  WantsKnown'
  <2>1. UNCHANGED <<acc, api>> /\ \A x \in Workers \ {w} : wpc'[x] = wpc[x] /\ wchunk'[x] = wchunk[x]
    BY <1>4, OthersKeep, WorkerKeeps
  <2>2. CASE FaultWhilePopulating(w)
    <3>1. UNCHANGED <<wpc, wchunk>> /\ wpc[w] = "fill" /\ want'[w] = Needs[wchunk[w]]
          /\ \A t \in Threads \ {w} : want'[t] = want[t]
      BY <1>t, <2>2 DEF FaultWhilePopulating, workVars
    <3> QED
      BY <1>t, <2>1, <3>1
  <2>3. CASE Copy(w)
    <3>1. wpc[w] = "copy" /\ \A t \in Threads : want'[t] \in {None, want[t]}
      BY <1>t, <2>3 DEF Copy, Panic, mutVars, Wake
    <3> QED
      BY <1>t, <2>1, <3>1
  <2>4. CASE ~FaultWhilePopulating(w) /\ ~Copy(w)
    <3>1. UNCHANGED want
      <4>1. CASE LockState(w) \/ EnsureCapacity(w) \/ EvictDone(w) \/ SpinLock(w)
                 \/ \E i \in DOMAIN victims : Punch(w, i) \/ WriteBack(w, i)
        BY <4>1 DEF LockState, EnsureCapacity, EvictDone, SpinLock, Punch, WriteBack, Panic, mutVars
      <4>2. CASE Fill(w) \/ AddChunk(w) \/ Hash(w) \/ WorkerExit(w) \/ \E t \in Threads : ReadEvent(w, t)
        BY <4>2 DEF Fill, AddChunk, Hash, WorkerExit, ReadEvent, Panic, mutVars
      <4> QED
        BY <1>4, <2>4, <4>1, <4>2 DEF WorkerStep, PopulateStep
    <3>2. want[w] # None => wpc[w] = "fill" /\ ~Fill(w)
      BY DEF Fill
    <3>3. wpc[w] # "fill" \/ Fill(w)
      BY <1>4, <2>4 DEF WorkerStep, PopulateStep, LockState, EnsureCapacity, EvictDone, SpinLock,
         Punch, WriteBack, AddChunk, Hash, WorkerExit, ReadEvent
    <3> QED
      BY <1>t, <2>1, <3>1, <3>2, <3>3
  <2> QED
    BY <2>2, <2>3, <2>4
<1>5. CASE UNCHANGED vars
  BY <1>5 DEF vars, workVars, mutVars
<1> QED
  BY <1>1, <1>2, <1>3, <1>4, <1>5 DEF Next, MutatorStep

(* The chain stays when whoever waits goes on waiting and nobody begins to  *)
(* load.                                                                    *)
LEMMA ChainStays ==
  ASSUME IInv, NEW Uses, NEW Rank, LoadsChained(Uses, Rank),
         \A t \in Threads : want[t] # None => want'[t] = want[t] /\ (t \in unread' => t \in unread),
         \A w \in Workers : Loading(w)' => Loading(w) /\ wchunk'[w] = wchunk[w]
  PROVE  LoadsChained(Uses, Rank)'
<1>2. \A w \in Workers : Loading(w) => wchunk[w] # None
  BY WorkerChunk, SortAssumption DEF IInv, Loading
<1>3. Mutators \subseteq Threads /\ Workers \subseteq Threads
  BY DEF Threads
<1>4. ASSUME NEW w \in Workers, Loading(w)'
      PROVE  /\ \E m \in Mutators : wchunk'[w] \in Uses[m] /\ Waits(m, wchunk[w], Rank)'
             /\ \E t \in Threads : want'[t] = wchunk'[w] /\ t \notin unread'
  <2>1. Loading(w) /\ wchunk'[w] = wchunk[w]
    BY <1>4
  <2>2. PICK m \in Mutators : wchunk[w] \in Uses[m] /\ Waits(m, wchunk[w], Rank)
    BY <2>1 DEF LoadsChained
  <2>3. PICK t \in Threads : want[t] = wchunk[w] /\ t \notin unread
    BY <2>1 DEF LoadsChained
  <2>4. want'[t] = wchunk'[w] /\ t \notin unread'
    BY <1>2, <2>1, <2>3
  <2>5. Waits(m, wchunk[w], Rank)'
    BY <1>3, <2>1, <2>2 DEF Waits
  <2> QED
    BY <2>1, <2>2, <2>4, <2>5
<1>5. ASSUME NEW m \in Mutators, NEW w \in Workers, NEW x \in Workers,
             Loading(w)', Loading(x)', w # x, wchunk'[w] \in Uses[m], wchunk'[x] \in Uses[m]
      PROVE  Waits(w, wchunk[x], Rank)' \/ Waits(x, wchunk[w], Rank)'
  <2>1. Waits(w, wchunk[x], Rank) \/ Waits(x, wchunk[w], Rank)
    BY <1>5 DEF LoadsChained
  <2> QED
    BY <1>3, <1>5, <2>1 DEF Waits
<1> QED
  BY <1>4, <1>5 DEF LoadsChained

(* Facts about a worker that waits for a chunk its own chunk needs.         *)
LEMMA WorkerWants ==
  ASSUME IInv, NEW Uses, NEW Rank, SoleUse(Uses, Rank), UseInv(Uses, Rank),
         NEW x \in Workers, want[x] # None
  PROVE  /\ Loading(x) /\ wchunk[x] \in Chunks /\ want[x] \in Chunks /\ want[x] = Needs[wchunk[x]]
         /\ Rank[want[x]] \in Nat /\ Rank[wchunk[x]] \in Nat /\ Rank[want[x]] < Rank[wchunk[x]]
         /\ \A m \in Mutators : wchunk[x] \in Uses[m] => want[x] \in Uses[m]
<1>1. wpc[x] = "fill" /\ want[x] = Needs[wchunk[x]]
  BY DEF UseInv, WantsKnown
<1>2. wchunk[x] \in Chunks /\ want[x] \in Chunks
  BY <1>1, WorkerChunk, ShapeAssumption DEF IInv
<1> QED
  BY <1>1, <1>2 DEF Loading, SoleUse

LEMMA MutatorWants ==
  ASSUME IInv, NEW Uses, NEW Rank, SoleUse(Uses, Rank), UseInv(Uses, Rank),
         NEW m \in Mutators, want[m] # None
  PROVE  want[m] \in Chunks /\ Rank[want[m]] \in Nat /\ want[m] \in Uses[m]
BY ShapeAssumption DEF UseInv, WantsKnown, SoleUse

LEMMA ChainOne ==
  ASSUME IInv, NEW Uses, NEW Rank, SoleUse(Uses, Rank), UseInv(Uses, Rank)
  PROVE  OneLoader
<1> SUFFICES ASSUME NEW w \in Workers, NEW x \in Workers, Loading(w), Loading(x),
                    wchunk[w] = wchunk[x], w # x
             PROVE  FALSE
  BY DEF OneLoader
<1>1. PICK m \in Mutators : wchunk[w] \in Uses[m]
  BY DEF UseInv, LoadsChained
<1>2. Waits(w, wchunk[x], Rank) \/ Waits(x, wchunk[w], Rank)
  BY <1>1 DEF UseInv, LoadsChained
<1>3. CASE Waits(w, wchunk[x], Rank)
  <2>1. Rank[want[w]] < Rank[wchunk[w]] /\ Rank[want[w]] \in Nat /\ Rank[wchunk[w]] \in Nat
    BY <1>3, WorkerWants DEF Waits
  <2> QED
    BY <1>3, <2>1 DEF Waits
<1>4. CASE Waits(x, wchunk[w], Rank)
  <2>1. Rank[want[x]] < Rank[wchunk[x]] /\ Rank[want[x]] \in Nat /\ Rank[wchunk[x]] \in Nat
    BY <1>4, WorkerWants DEF Waits
  <2> QED
    BY <1>4, <2>1 DEF Waits
<1> QED
  BY <1>2, <1>3, <1>4

(* A worker begins to load: it becomes the last of the chain.               *)
LEMMA ReadChain ==
  ASSUME IInv, NEW Uses, NEW Rank, SoleUse(Uses, Rank), UseInv(Uses, Rank),
         NEW w \in Workers, NEW t \in Threads, ReadEvent(w, t)
  PROVE  LoadsChained(Uses, Rank)'
<1> DEFINE c == want[t]
<1>1. /\ t \in unread /\ unread' = unread \ {t} /\ UNCHANGED want
      /\ wpc[w] = "idle" /\ wpc'[w] = "lookup" /\ wchunk'[w] = c
      /\ \A x \in Workers \ {w} : wpc'[x] = wpc[x] /\ wchunk'[x] = wchunk[x]
      /\ c # None /\ c \in Chunks
  BY SortAssumption DEF ReadEvent, Goto, IInv, TypeOK, WorkTypes, MutTypes
<1>2. ~Loading(w) /\ \A x \in Workers \ {w} : Loading(x)' <=> Loading(x)
  BY <1>1 DEF Loading
<1>3. /\ \E m \in Mutators : c \in Uses[m] /\ want[m] # None /\ m \notin unread' /\ Rank[want[m]] >= Rank[c]
      /\ \A m \in Mutators, x \in Workers \ {w} : c \in Uses[m] /\ Loading(x) /\ wchunk[x] \in Uses[m] =>
            want[x] # None /\ x \notin unread' /\ Rank[want[x]] >= Rank[c]
  <2>1. CASE t \in Mutators
    <3>1. c \in Uses[t] /\ Rank[c] \in Nat
      BY <1>1, <2>1, MutatorWants
    <3>2. \A m \in Mutators : c \in Uses[m] => m = t
      BY <2>1, <3>1 DEF SoleUse
    <3>3. ASSUME NEW x \in Workers, Loading(x), wchunk[x] \in Uses[t] PROVE FALSE
      <4>1. PICK m \in Mutators : wchunk[x] \in Uses[m] /\ Waits(m, wchunk[x], Rank)
        BY <3>3 DEF UseInv, LoadsChained
      <4>2. m = t
        BY <2>1, <3>3, <4>1 DEF SoleUse
      <4> QED
        BY <1>1, <4>1, <4>2 DEF Waits
    <3> QED
      BY <1>1, <2>1, <3>1, <3>2, <3>3
  <2>2. CASE t \in Workers
    <3>1. /\ Loading(t) /\ wchunk[t] \in Chunks /\ Rank[c] \in Nat /\ Rank[wchunk[t]] \in Nat
          /\ Rank[c] < Rank[wchunk[t]] /\ t # w
          /\ \A m \in Mutators : wchunk[t] \in Uses[m] => c \in Uses[m]
      BY <1>1, <1>2, <2>2, WorkerWants
    <3>2. PICK m \in Mutators : wchunk[t] \in Uses[m] /\ Waits(m, wchunk[t], Rank)
      BY <2>2, <3>1 DEF UseInv, LoadsChained
    <3>3. Rank[want[m]] \in Nat /\ m \notin Workers /\ want[m] # None /\ m \notin unread
      BY <3>2, MutatorWants, SortAssumption DEF Waits
    <3>4. \A n \in Mutators : c \in Uses[n] => n = m
      BY <3>1, <3>2 DEF SoleUse
    <3>5. ASSUME NEW x \in Workers \ {w}, Loading(x), wchunk[x] \in Uses[m]
          PROVE  want[x] # None /\ x \notin unread' /\ Rank[want[x]] >= Rank[c]
      <4>1. CASE x = t
        BY <1>1, <3>1, <4>1
      <4>2. CASE x # t
        <5>1. Waits(x, wchunk[t], Rank)
          BY <1>1, <2>2, <3>1, <3>2, <3>5, <4>2 DEF UseInv, LoadsChained, Waits
        <5>2. Rank[want[x]] \in Nat
          BY <5>1, WorkerWants DEF Waits
        <5> QED
          BY <1>1, <3>1, <5>1, <5>2 DEF Waits
      <4> QED
        BY <4>1, <4>2
    <3>6. c \in Uses[m] /\ Rank[want[m]] >= Rank[c] /\ m \notin unread'
      BY <1>1, <3>1, <3>2, <3>3 DEF Waits
    <3> QED
      BY <3>3, <3>4, <3>5, <3>6
  <2> QED
    BY <2>1, <2>2 DEF Threads
<1>4. ASSUME NEW x \in Workers, Loading(x)'
      PROVE  /\ \E m \in Mutators : wchunk'[x] \in Uses[m] /\ Waits(m, wchunk[x], Rank)'
             /\ \E s \in Threads : want'[s] = wchunk'[x] /\ s \notin unread'
  <2>1. CASE x = w
    BY <1>1, <1>3, <2>1 DEF Waits
  <2>2. CASE x # w
    BY <1>1, <1>2, <1>4, <2>2 DEF UseInv, LoadsChained, Waits
  <2> QED
    BY <2>1, <2>2
<1>5. ASSUME NEW m \in Mutators, NEW y \in Workers, NEW x \in Workers,
             Loading(y)', Loading(x)', y # x, wchunk'[y] \in Uses[m], wchunk'[x] \in Uses[m]
      PROVE  Waits(y, wchunk[x], Rank)' \/ Waits(x, wchunk[y], Rank)'
  <2>1. CASE y = w
    BY <1>1, <1>2, <1>3, <1>5, <2>1 DEF Waits
  <2>2. CASE x = w
    BY <1>1, <1>2, <1>3, <1>5, <2>2 DEF Waits
  <2>3. CASE x # w /\ y # w
    <3>1. Waits(y, wchunk[x], Rank) \/ Waits(x, wchunk[y], Rank)
      BY <1>1, <1>2, <1>5, <2>3 DEF UseInv, LoadsChained
    <3> QED
      BY <1>1, <2>3, <3>1 DEF Waits
  <2> QED
    BY <2>1, <2>2, <2>3
<1> QED
  BY <1>4, <1>5 DEF LoadsChained

(* The last of the chain has loaded: who waits for another load goes on     *)
(* waiting.                                                                 *)
LEMMA CopyChain ==
  ASSUME IInv, NEW Uses, NEW Rank, SoleUse(Uses, Rank), UseInv(Uses, Rank),
         NEW w \in Workers, Copy(w)
  PROVE  LoadsChained(Uses, Rank)'
<1> DEFINE c == wchunk[w]
<1>1. /\ wpc[w] = "copy" /\ wpc'[w] \in {"add", "dead"} /\ c \in Chunks /\ UNCHANGED wchunk
      /\ \A x \in Workers \ {w} : wpc'[x] = wpc[x]
      /\ unread' \subseteq unread
      /\ \A t \in Threads : want'[t] = want[t] \/ want[t] = c
  BY WorkerChunk DEF Copy, Wake, Panic, Goto, mutVars, IInv, TypeOK, WorkTypes, MutTypes
<1>2. Loading(w) /\ want[w] = None /\ \A x \in Workers : Loading(x)' => Loading(x) /\ x # w
  BY <1>1 DEF Loading, UseInv, WantsKnown
<1>3. ASSUME NEW m \in Mutators, NEW y \in Workers \ {w}, Loading(y), wchunk[y] \in Uses[m],
             NEW t \in Threads, Waits(t, wchunk[y], Rank), want[t] = c, c \in Uses[m]
      PROVE  FALSE
  <2>1. Waits(y, c, Rank)
    BY <1>2, <1>3 DEF UseInv, LoadsChained, Waits
  <2>2. Rank[want[y]] \in Nat /\ Rank[wchunk[y]] \in Nat /\ Rank[want[y]] < Rank[wchunk[y]]
    BY <2>1, WorkerWants DEF Waits
  <2>3. Rank[c] \in Nat
    BY <1>1 DEF SoleUse
  <2> QED
    BY <1>3, <2>1, <2>2, <2>3 DEF Waits
<1>4. ASSUME NEW m \in Mutators, NEW y \in Workers \ {w}, Loading(y), wchunk[y] \in Uses[m],
             NEW t \in {m} \cup {x \in Workers : wchunk[x] \in Uses[m]}, Waits(t, wchunk[y], Rank)
      PROVE  Waits(t, wchunk[y], Rank)'
  <2>1. t \in Threads /\ want[t] # None
    BY <1>4 DEF Threads, Waits
  <2>2. want[t] \in Uses[m]
    BY <1>4, <2>1, MutatorWants, WorkerWants
  <2>3. want'[t] = want[t]
    BY <1>1, <1>3, <1>4, <2>1, <2>2
  <2> QED
    BY <1>1, <1>4, <2>1, <2>3 DEF Waits
<1>5. ASSUME NEW y \in Workers, Loading(y)'
      PROVE  /\ \E m \in Mutators : wchunk'[y] \in Uses[m] /\ Waits(m, wchunk[y], Rank)'
             /\ \E s \in Threads : want'[s] = wchunk'[y] /\ s \notin unread'
  <2>1. Loading(y) /\ y # w
    BY <1>2, <1>5
  <2>2. PICK m \in Mutators : wchunk[y] \in Uses[m] /\ Waits(m, wchunk[y], Rank)
    BY <2>1 DEF UseInv, LoadsChained
  <2>3. PICK s \in Threads : want[s] = wchunk[y] /\ s \notin unread
    BY <2>1 DEF UseInv, LoadsChained
  <2>4. wchunk[y] # c
    BY <1>2, <2>1, ChainOne DEF OneLoader
  <2> QED
    BY <1>1, <1>4, <2>1, <2>2, <2>3, <2>4
<1>6. ASSUME NEW m \in Mutators, NEW y \in Workers, NEW x \in Workers,
             Loading(y)', Loading(x)', y # x, wchunk'[y] \in Uses[m], wchunk'[x] \in Uses[m]
      PROVE  Waits(y, wchunk[x], Rank)' \/ Waits(x, wchunk[y], Rank)'
  <2>1. Loading(x) /\ x # w /\ Loading(y) /\ y # w /\ wchunk[x] \in Uses[m] /\ wchunk[y] \in Uses[m]
    BY <1>1, <1>2, <1>6
  <2>2. Waits(y, wchunk[x], Rank) \/ Waits(x, wchunk[y], Rank)
    BY <1>6, <2>1 DEF UseInv, LoadsChained
  <2> QED
    BY <1>4, <2>1, <2>2
<1> QED
  BY <1>5, <1>6 DEF LoadsChained

LEMMA ChainStep ==
  ASSUME IInv, NEW Uses, NEW Rank, SoleUse(Uses, Rank), UseInv(Uses, Rank), [Next]_vars
  PROVE  LoadsChained(Uses, Rank)'
<1>0. LoadsChained(Uses, Rank) /\ WantsKnown
  BY DEF UseInv
<1>1. ASSUME NEW m \in Mutators,
             \/ \E c \in Touches[m], v \in Written \cup {None} : Touch(m, c, v)
             \/ Retry(m)
      PROVE  LoadsChained(Uses, Rank)'
  <2>1. PICK c \in Chunks, v \in Values \cup {None} :
              /\ Attempt(m, c, v)
              /\ \/ c \in Touches[m] /\ Touch(m, c, v) /\ Idle(m)
                 \/ Retry(m) /\ acc[m] # NoAccess /\ acc[m].chunk = c /\ acc[m].val = v
    BY <1>1, AccessKeeps
  <2>2. UNCHANGED <<wpc, wchunk>>
    BY <1>1, AccessKeeps
  <2>3. want[m] = None
    BY <1>0, <2>1 DEF Idle, Retry, WantsKnown
  <2>4. \A t \in Threads \ {m} : want'[t] = want[t] /\ (t \in unread' => t \in unread)
    BY <2>1 DEF Attempt, IInv, TypeOK, MutTypes
  <2> QED
    BY <1>0, <2>2, <2>3, <2>4, ChainStays DEF Loading
<1>2. ASSUME NEW m \in Mutators,
             \/ \E op \in Ops, u \in Owns[m] : BeginCall(m, op, u)
             \/ TakeGuard(m) \/ Send(m) \/ SendFails(m)
      PROVE  LoadsChained(Uses, Rank)'
  BY <1>0, <1>2, CallKeeps, ChainStays DEF Loading
<1>3. CASE LoopStep
  BY <1>0, <1>3, LoopKeeps, ChainStays DEF Loading
<1>4. ASSUME NEW w \in Workers, WorkerStep(w) \/ \E t \in Threads : ReadEvent(w, t)
      PROVE  LoadsChained(Uses, Rank)'
  <2>1. \A x \in Workers \ {w} : wpc'[x] = wpc[x] /\ wchunk'[x] = wchunk[x]
    BY <1>4, OthersKeep
  <2>2. CASE \E t \in Threads : ReadEvent(w, t)
    BY <2>2, ReadChain
  <2>3. CASE Copy(w)
    BY <2>3, CopyChain
  <2>4. CASE FaultWhilePopulating(w)
    <3>1. UNCHANGED <<wpc, wchunk>> /\ want[w] = None
      BY <2>4 DEF FaultWhilePopulating, workVars
    <3>2. \A t \in Threads \ {w} : want'[t] = want[t] /\ (t \in unread' => t \in unread)
      BY <2>4 DEF FaultWhilePopulating, IInv, TypeOK, MutTypes
    <3> QED
      BY <1>0, <3>1, <3>2, ChainStays DEF Loading
  <2>5. CASE WorkerStep(w) /\ ~Copy(w) /\ ~FaultWhilePopulating(w)
    <3>1. UNCHANGED <<want, unread>> /\ (Loading(w)' => Loading(w) /\ wchunk'[w] = wchunk[w])
      <4> USE DEF Goto, Loading, IInv, TypeOK, WorkTypes
      <4>1. CASE LockState(w) \/ EnsureCapacity(w) \/ EvictDone(w) \/ SpinLock(w)
        BY <4>1 DEF LockState, EnsureCapacity, EvictDone, SpinLock, Panic, mutVars
      <4>2. CASE \E i \in DOMAIN victims : Punch(w, i) \/ WriteBack(w, i)
        BY <4>2 DEF Punch, WriteBack, workVars, mutVars
      <4>3. CASE Fill(w) \/ AddChunk(w)
        BY <4>3 DEF Fill, AddChunk, Panic, mutVars
      <4>4. CASE Hash(w) \/ WorkerExit(w)
        BY <4>4 DEF Hash, WorkerExit, mutVars
      <4> QED
        BY <2>5, <4>1, <4>2, <4>3, <4>4 DEF WorkerStep, PopulateStep
    <3> QED
      BY <1>0, <2>1, <3>1, ChainStays DEF Loading
  <2> QED
    BY <1>4, <2>2, <2>3, <2>4, <2>5
<1>5. CASE UNCHANGED vars
  BY <1>0, <1>5, ChainStays DEF vars, workVars, mutVars, Loading
<1> QED
  BY <1>1, <1>2, <1>3, <1>4, <1>5 DEF Next, MutatorStep

LEMMA SpecSoleUse ==
  ASSUME NEW Uses, NEW Rank, SoleUse(Uses, Rank)
  PROVE  Spec => [](OneLoader /\ UseInv(Uses, Rank))
<1>1. Init => UseInv(Uses, Rank)
  <2> SUFFICES ASSUME Init PROVE UseInv(Uses, Rank)
    OBVIOUS
  <2>1. WantsKnown
    BY DEF Init, WantsKnown, Threads
  <2>2. LoadsChained(Uses, Rank)
    BY DEF Init, LoadsChained, Loading
  <2> QED
    BY <2>1, <2>2 DEF UseInv
<1>2. IInv /\ UseInv(Uses, Rank) /\ [Next]_vars => UseInv(Uses, Rank)'
  BY WantsStep, ChainStep DEF UseInv
<1>3. IInv /\ UseInv(Uses, Rank) => OneLoader
  BY ChainOne
<1>4. Spec => []IInv
  BY SpecLocks
<1> QED
  BY <1>1, <1>2, <1>3, <1>4, PTL DEF Spec

(* An object behaves like an ordinary array for every program whose threads *)
(* share no chunk, if the last chunk of every object is full or the object  *)
(* is read-only: a store is seen until the next store or reset, whatever is *)
(* evicted, written back and reloaded meanwhile (ufo_objects.rs:385-451,    *)
(* 498-541).                                                                *)
THEOREM SpecBehavesLikeMemory ==
  ASSUME NEW Uses, NEW Rank, SoleUse(Uses, Rank), WritesAccepted
  PROVE  Spec => BehavesLikeMemory
BY SpecSoleUse, OneLoaderMemory, PTL
-----------------------------------------------------------------------------
(* A use of the framework in which no thread panics.                        *)

(* An object is owned by whoever owns the objects that populating it needs. *)
OwnNeeds ==
  \A c \in Chunks, m, n \in Mutators :
    Needs[c] # None /\ UfoOf[Needs[c]] # UfoOf[c]
      /\ UfoOf[c] \in Owns[m] /\ UfoOf[Needs[c]] \in Owns[n] => m = n

(* Nobody calls the method free of a handle, whose destructor frees the     *)
(* object a second time.                                                    *)
Sound == "FreeHandle" \notin Ops /\ OwnNeeds

(* What the calls in progress rely on: an object that is reset or freed     *)
(* exists, nobody else makes a call about one that is freed, and nobody     *)
(* uses anything that a shutdown is about to free.                          *)
CallsKnown ==
  \A m \in Mutators :
    /\ api[m].op # "FreeHandle"
    /\ api[m].op \in FreeOps \cup {"Allocate", "Reset"} => api[m].ufo \in Owns[m]
    /\ api[m].op \in FreeOps \cup {"Reset"} => live[api[m].ufo]
    /\ api[m].op \in FreeOps => \A n \in Mutators \ {m} : api[n].ufo # api[m].ufo
    /\ api[m].op = "Shutdown" => \A n \in Mutators : /\ acc[n] = NoAccess
                                                     /\ n # m => api[n].op \in {"none", "Allocate"}

(* The message being carried out: whose it is, and that its object exists.  *)
SentBy(op) == msg.from \in Mutators /\ api[msg.from].op = op /\ api[msg.from].pc = "wait"
Purging == mlpc = "next" \/ (mlpc \in {"lock", "apply"} /\ msg.op = "Purge")
MessageKnown ==
  /\ mlpc \in {"lock", "apply"} =>
       /\ msg.op \in FreeOps \cup {"Reset", "Purge"} => live[msg.ufo]
       /\ msg.op \notin {"Drop", "Purge"} => SentBy(msg.op) /\ api[msg.from].ufo = msg.ufo
       /\ msg.op = "Drop" =>
            \A n \in Mutators : api[n].op # "Shutdown" => api[n].ufo # msg.ufo
  /\ Purging => /\ SentBy("Shutdown")
                /\ \A u \in keys : live[u] /\ (mlpc # "next" => u # msg.ufo)

(* Whoever accesses an object, or populates one that needs another, finds   *)
(* it there.                                                                *)
AccessesUsable == \A m \in Mutators : acc[m] # NoAccess => Usable(UfoOf[acc[m].chunk])
NeedsLive == \A c \in Chunks : Needs[c] # None /\ live[UfoOf[c]] => live[UfoOf[Needs[c]]]
NeedsUsable ==
  \A m \in Mutators, c \in Chunks :
    api[m].op = "Allocate" /\ UfoOf[c] = api[m].ufo /\ Needs[c] # None =>
      UfoOf[Needs[c]] = UfoOf[c] \/ Usable(UfoOf[Needs[c]])
FreedUnneeded ==
  \A u \in Ufos, c \in Chunks :
    BeingFreed(u) /\ live[u] /\ DependsOn(c, u) => UfoOf[c] = u \/ ~live[UfoOf[c]]

CallInv == CallsKnown /\ MessageKnown /\ AccessesUsable /\ NeedsLive /\ NeedsUsable /\ FreedUnneeded

(* A chunk's bit is held only by who fills the chunk or moves it away.      *)
BitsOwned ==
  \A c \in Chunks : bit[c] # NoOne =>
    \/ \E w \in Workers : wpc[w] = "fill" /\ wchunk[w] = c
    \/ \E i \in DOMAIN victims : Moving(i) /\ victims[i].entry.chunk = c
Healthy ==
  /\ ~poisoned /\ NoPanic
  /\ \A i \in DOMAIN victims : victims[i].stage # "error"

(* Calls go on or end, accesses begin only to what is there, an object      *)
(* disappears only when it is being freed and appears only with what it     *)
(* needs.                                                                   *)
LEMMA CallsStay ==
  ASSUME IInv, CallInv,
         \A m \in Mutators : \/ api'[m].op = api[m].op /\ api'[m].ufo = api[m].ufo
                             \/ api'[m] = NoCall,
         \A m \in Mutators : acc'[m] # NoAccess =>
             acc'[m].chunk \in Chunks /\ Usable(UfoOf[acc'[m].chunk]),
         \A u \in Ufos : BeingFreed(u)' => BeingFreed(u),
         \A u \in Ufos : live[u] /\ ~live'[u] =>
             BeingFreed(u) /\ \A n \in Mutators : api'[n].op \in FreeOps \cup {"Reset"} => api'[n].ufo # u,
         \A u \in Ufos, c \in Chunks : ~live[u] /\ live'[u] /\ UfoOf[c] = u /\ Needs[c] # None =>
             UfoOf[Needs[c]] = u \/ Usable(UfoOf[Needs[c]])
  PROVE  CallsKnown' /\ AccessesUsable' /\ NeedsLive' /\ NeedsUsable' /\ FreedUnneeded'
<1> USE DEF CallInv
<1>t. /\ NoCall.op = "none" /\ NoCall.ufo = None /\ None \notin Ufos
      /\ \A c \in Chunks : UfoOf[c] \in Ufos
      /\ \A c \in Chunks : Needs[c] # None => Needs[c] \in Chunks /\ UfoOf[Needs[c]] \in Ufos
      /\ \A m \in Mutators : api[m].op # "none" => api[m].ufo \in Ufos
      /\ "none" \notin FreeOps \cup {"Reset", "Allocate", "Shutdown", "FreeHandle"}
  BY SortAssumption, ShapeAssumption DEF NoCall, FreeOps, IInv, TypeOK, MutTypes, Call
<1>1. \A u \in Ufos : Usable(u) => live'[u] /\ ~BeingFreed(u)'
  BY DEF Usable
<1>2. CallsKnown'
  <2> SUFFICES ASSUME NEW m \in Mutators
               PROVE  /\ api'[m].op # "FreeHandle"
                      /\ api'[m].op \in FreeOps \cup {"Allocate", "Reset"} => api'[m].ufo \in Owns[m]
                      /\ api'[m].op \in FreeOps \cup {"Reset"} => live'[api'[m].ufo]
                      /\ api'[m].op \in FreeOps => \A n \in Mutators \ {m} : api'[n].ufo # api'[m].ufo
                      /\ api'[m].op = "Shutdown" =>
                            \A n \in Mutators : /\ acc'[n] = NoAccess
                                                /\ n # m => api'[n].op \in {"none", "Allocate"}
    BY DEF CallsKnown
  <2>1. CASE api'[m] = NoCall
    BY <1>t, <2>1
  <2>2. CASE api'[m].op = api[m].op /\ api'[m].ufo = api[m].ufo /\ api[m].op # "none"
    <3>1. api'[m].op \in FreeOps \cup {"Reset"} => live'[api'[m].ufo]
      BY <1>t, <2>2 DEF CallsKnown
    <3>2. ASSUME api[m].op \in FreeOps, NEW n \in Mutators \ {m} PROVE api'[n].ufo # api'[m].ufo
      BY <1>t, <2>2, <3>2 DEF CallsKnown
    <3>3. ASSUME api[m].op = "Shutdown", NEW n \in Mutators
          PROVE  acc'[n] = NoAccess /\ (n # m => api'[n].op \in {"none", "Allocate"})
      <4>1. \A u \in Ufos : ~Usable(u)
        BY <3>3 DEF Usable, BeingFreed
      <4> QED
        BY <1>t, <3>3, <4>1 DEF CallsKnown
    <3> QED
      BY <2>2, <3>1, <3>2, <3>3 DEF CallsKnown
  <2>3. CASE api'[m].op = api[m].op /\ api[m].op = "none"
    BY <1>t, <2>3
  <2> QED
    BY <2>1, <2>2, <2>3
<1>3. AccessesUsable'
  BY <1>t, <1>1 DEF AccessesUsable, Usable
<1>4. NeedsLive'
  <2> SUFFICES ASSUME NEW c \in Chunks, Needs[c] # None, live'[UfoOf[c]]
               PROVE  live'[UfoOf[Needs[c]]]
    BY DEF NeedsLive
  <2>1. CASE live[UfoOf[c]]
    BY <1>t, <2>1 DEF NeedsLive, FreedUnneeded, DependsOn
  <2>2. CASE ~live[UfoOf[c]]
    BY <1>t, <1>1, <2>2
  <2> QED
    BY <2>1, <2>2
<1>5. NeedsUsable'
  <2> SUFFICES ASSUME NEW m \in Mutators, NEW c \in Chunks,
                      api'[m].op = "Allocate", UfoOf[c] = api'[m].ufo, Needs[c] # None
               PROVE  UfoOf[Needs[c]] = UfoOf[c] \/
                        (live'[UfoOf[Needs[c]]] /\ ~BeingFreed(UfoOf[Needs[c]])')
    BY DEF NeedsUsable, Usable
  <2>1. api'[m].op = api[m].op /\ api'[m].ufo = api[m].ufo
    BY <1>t
  <2> QED
    BY <1>t, <1>1, <2>1 DEF NeedsUsable
<1>6. FreedUnneeded'
  <2> SUFFICES ASSUME NEW u \in Ufos, NEW c \in Chunks,
                      BeingFreed(u)', live'[u], DependsOn(c, u), UfoOf[c] # u, live'[UfoOf[c]]
               PROVE  FALSE
    BY DEF FreedUnneeded, DependsOn
  <2>1. BeingFreed(u) /\ Needs[c] # None /\ UfoOf[Needs[c]] = u
    BY DEF DependsOn
  <2>2. CASE live[UfoOf[c]]
    BY <1>t, <2>1, <2>2 DEF NeedsLive, FreedUnneeded
  <2>3. CASE ~live[UfoOf[c]]
    BY <1>t, <2>1, <2>3 DEF Usable
  <2> QED
    BY <2>2, <2>3
<1> QED
  BY <1>2, <1>3, <1>4, <1>5, <1>6

(* A call begins.                                                           *)
LEMMA CallsBegin ==
  ASSUME IInv, CallInv, Sound, NEW m \in Mutators, NEW op \in Ops, NEW u \in Owns[m],
         BeginCall(m, op, u)
  PROVE  CallInv'
<1> USE DEF CallInv
<1>t. /\ NoCall.op = "none" /\ NoCall.ufo = None /\ NoCall.pc = "none" /\ None \notin Ufos
      /\ \A c \in Chunks : UfoOf[c] \in Ufos
      /\ \A c \in Chunks : Needs[c] # None => Needs[c] \in Chunks /\ UfoOf[Needs[c]] \in Ufos
      /\ \A n \in Mutators : api[n].op # "none" => api[n].ufo \in Ufos
      /\ \A n \in Mutators : acc[n] # NoAccess => acc[n].chunk \in Chunks
      /\ u \in Ufos /\ op \in {"Allocate", "Shutdown", "Reset"} \cup FreeOps /\ op # "FreeHandle"
      /\ "none" \notin FreeOps \cup {"Reset", "Allocate", "Shutdown", "FreeHandle"}
      /\ "Allocate" \notin FreeOps /\ "Shutdown" \notin FreeOps /\ "Reset" \notin FreeOps
  BY SortAssumption, ShapeAssumption DEF NoCall, FreeOps, ApiOps, Sound, IInv, TypeOK, MutTypes, Call
<1>1. /\ UNCHANGED <<live, mlpc, msg, keys, acc>>
      /\ api[m] = NoCall /\ api'[m].op = op /\ api'[m].ufo = u
      /\ \A n \in Mutators \ {m} : api'[n] = api[n]
  BY DEF BeginCall, Idle, memVars, msgVars, IInv, TypeOK, MutTypes
<1>2. \A v \in Ufos : BeingFreed(v)' => BeingFreed(v) \/ (op \in FreeOps /\ v = u) \/ op = "Shutdown"
  BY <1>1 DEF BeingFreed
<1>3. /\ op = "Allocate" => /\ ~live[u] /\ \A n \in Mutators : api[n].ufo # u
                            /\ \A c \in Chunks : UfoOf[c] = u /\ Needs[c] # None =>
                                  UfoOf[Needs[c]] = u \/ Usable(UfoOf[Needs[c]])
      /\ op \in FreeOps \cup {"Reset"} => Usable(u)
      /\ op \in FreeOps => Unused(u)
      /\ op = "Shutdown" => /\ \A v \in Ufos : live[v] => Unused(v)
                            /\ \A n \in Mutators : api[n] = NoCall
  BY <1>t DEF BeginCall, ChunksOf
<1>4. op \in FreeOps \cup {"Reset"} => live[u] /\ \A n \in Mutators :
          /\ api[n].op \in FreeOps => api[n].ufo # u
          /\ api[n].op # "Shutdown"
  BY <1>3 DEF Usable, BeingFreed
<1>5. op = "Shutdown" => \A n \in Mutators : acc[n] = NoAccess
  BY <1>t, <1>3 DEF AccessesUsable, Usable, Unused
<1>6. CallsKnown'
  <2> SUFFICES ASSUME NEW k \in Mutators
               PROVE  /\ api'[k].op # "FreeHandle"
                      /\ api'[k].op \in FreeOps \cup {"Allocate", "Reset"} => api'[k].ufo \in Owns[k]
                      /\ api'[k].op \in FreeOps \cup {"Reset"} => live'[api'[k].ufo]
                      /\ api'[k].op \in FreeOps => \A n \in Mutators \ {k} : api'[n].ufo # api'[k].ufo
                      /\ api'[k].op = "Shutdown" =>
                            \A n \in Mutators : /\ acc'[n] = NoAccess
                                                /\ n # k => api'[n].op \in {"none", "Allocate"}
    BY DEF CallsKnown
  <2>1. CASE k = m
    BY <1>1, <1>3, <1>4, <1>5, <1>t, <2>1 DEF Unused
  <2>2. CASE k # m
    <3>1. /\ api'[k] = api[k]
          /\ api[k].op # "FreeHandle" /\ (api[k].op \in FreeOps \cup {"Allocate", "Reset"} => api[k].ufo \in Owns[k])
          /\ api[k].op \in FreeOps \cup {"Reset"} => live[api[k].ufo]
      BY <1>1, <2>2 DEF CallsKnown
    <3>2. ASSUME api[k].op \in FreeOps, NEW n \in Mutators \ {k} PROVE api'[n].ufo # api[k].ufo
      BY <1>1, <1>3, <1>4, <1>t, <2>2, <3>1, <3>2 DEF CallsKnown
    <3>3. ASSUME api[k].op = "Shutdown", NEW n \in Mutators
          PROVE  acc'[n] = NoAccess /\ (n # k => api'[n].op \in {"none", "Allocate"})
      <4>1. op = "Allocate"
        BY <1>3, <1>4, <1>t, <3>3
      <4> QED
        BY <1>1, <1>t, <3>3, <4>1 DEF CallsKnown
    <3> QED
      BY <1>1, <3>1, <3>2, <3>3
  <2> QED
    BY <2>1, <2>2
<1>7. MessageKnown'
  <2>1. \A o : SentBy(o) => msg.from # m /\ SentBy(o)' /\ api'[msg.from] = api[msg.from]
    BY <1>1, <1>t DEF SentBy
  <2>2. ASSUME mlpc \in {"lock", "apply"}, msg.op = "Drop", op # "Shutdown" PROVE u # msg.ufo
    <3>1. u = msg.ufo => BeingFreed(u) /\ live[u]
      BY <2>2 DEF BeingFreed, MessageKnown, FreeOps
    <3> QED
      BY <1>3, <1>t, <2>2, <3>1 DEF Usable
  <2>3. Purging' <=> Purging
    BY <1>1 DEF Purging
  <2> QED
    BY <1>1, <2>1, <2>2, <2>3 DEF MessageKnown
<1>8. AccessesUsable'
  <2> SUFFICES ASSUME NEW n \in Mutators, acc[n] # NoAccess, NEW v \in Ufos, v = UfoOf[acc[n].chunk]
               PROVE  live[v] /\ ~BeingFreed(v)'
    BY <1>1, <1>t DEF AccessesUsable, Usable
  <2>1. Usable(v)
    BY DEF AccessesUsable
  <2> QED
    BY <1>2, <1>3, <1>5, <1>t, <2>1 DEF Usable, Unused
<1>9. NeedsLive'
  BY <1>1 DEF NeedsLive
<1>10. NeedsUsable'
  <2> SUFFICES ASSUME NEW n \in Mutators, NEW c \in Chunks,
                      api'[n].op = "Allocate", UfoOf[c] = api'[n].ufo, Needs[c] # None,
                      UfoOf[Needs[c]] # UfoOf[c]
               PROVE  live[UfoOf[Needs[c]]] /\ ~BeingFreed(UfoOf[Needs[c]])'
    BY <1>1 DEF NeedsUsable, Usable
  <2>1. CASE n = m
    BY <1>1, <1>2, <1>3, <1>t, <2>1 DEF Usable
  <2>2. CASE n # m
    <3>1. Usable(UfoOf[Needs[c]]) /\ UfoOf[c] \in Owns[n] /\ api[n].op = "Allocate"
      BY <1>1, <2>2 DEF NeedsUsable, CallsKnown
    <3>2. UfoOf[Needs[c]] # u
      BY <2>2, <3>1 DEF Sound, OwnNeeds
    <3> QED
      BY <1>2, <1>3, <1>t, <3>1, <3>2 DEF Usable
  <2> QED
    BY <2>1, <2>2
<1>11. FreedUnneeded'
  <2> SUFFICES ASSUME NEW v \in Ufos, NEW c \in Chunks,
                      BeingFreed(v)', live[v], DependsOn(c, v)
               PROVE  UfoOf[c] = v \/ ~live[UfoOf[c]]
    BY <1>1 DEF FreedUnneeded, DependsOn
  <2> QED
    BY <1>2, <1>3 DEF FreedUnneeded, Unused
<1> QED
  BY <1>6, <1>7, <1>8, <1>9, <1>10, <1>11

LEMMA CallsStep ==
  ASSUME IInv, CallInv, Sound, [Next]_vars
  PROVE  CallInv'
<1>t. /\ NoCall.op = "none" /\ NoCall.ufo = None /\ NoCall.pc = "none" /\ None \notin Ufos
      /\ api \in [Mutators -> Call \cup {NoCall}]
      /\ msg.op \in ApiOps \cup {"Purge", "none"}
      /\ \A c \in Chunks : UfoOf[c] \in Ufos
      /\ \A n \in Mutators : acc[n] # NoAccess => acc[n].chunk \in Chunks
      /\ \A n \in Mutators : api[n].pc # "none" => api[n] \in Call /\ api[n].op \in ApiOps /\ api[n].ufo \in Ufos
      /\ "none" \notin ApiOps /\ "Purge" \notin ApiOps /\ FreeOps \subseteq ApiOps
      /\ "Reset" \notin FreeOps /\ "Allocate" \notin FreeOps /\ "Shutdown" \notin FreeOps
  BY SortAssumption, ShapeAssumption
  DEF NoCall, FreeOps, ApiOps, IInv, TypeOK, MutTypes, MsgTypes, Call
<1>p. /\ CallsKnown /\ MessageKnown /\ AccessesUsable /\ NeedsLive /\ NeedsUsable /\ FreedUnneeded
      /\ \A m \in Mutators : acc[m] # NoAccess =>
             acc[m].chunk \in Chunks /\ Usable(UfoOf[acc[m].chunk])
  BY <1>t DEF CallInv, AccessesUsable
<1>1. ASSUME \A m \in Mutators : api'[m].op = api[m].op /\ api'[m].ufo = api[m].ufo
                                 /\ (api[m].pc = "wait" => api'[m].pc = "wait"),
             \A m \in Mutators : acc'[m] # NoAccess =>
                 acc'[m].chunk \in Chunks /\ Usable(UfoOf[acc'[m].chunk]),
             UNCHANGED <<live, mlpc, msg, keys>>
      PROVE  CallInv'
  <2>1. \A u \in Ufos : BeingFreed(u)' => BeingFreed(u)
    BY <1>1 DEF BeingFreed
  <2>2. CallsKnown' /\ AccessesUsable' /\ NeedsLive' /\ NeedsUsable' /\ FreedUnneeded'
    BY <1>1, <2>1, CallsStay
  <2>3. MessageKnown'
    <3>1. \A o : SentBy(o) => SentBy(o)'
      BY <1>1 DEF SentBy
    <3> QED
      BY <1>p, <1>1, <3>1 DEF MessageKnown, Purging, SentBy
  <2> QED
    BY <2>2, <2>3 DEF CallInv
<1>2. ASSUME NEW m \in Mutators,
             \/ \E c \in Touches[m], v \in Written \cup {None} : Touch(m, c, v)
             \/ Retry(m)
      PROVE  CallInv'
  <2>1. PICK c \in Chunks, v \in Values \cup {None} :
              /\ Attempt(m, c, v)
              /\ \/ c \in Touches[m] /\ Touch(m, c, v) /\ Idle(m)
                 \/ Retry(m) /\ acc[m] # NoAccess /\ acc[m].chunk = c /\ acc[m].val = v
    BY <1>2, AccessKeeps
  <2>2. UNCHANGED <<live, api, mlpc, msg, keys>>
    BY <1>2 DEF Touch, Retry, msgVars
  <2>3. Usable(UfoOf[c])
    BY <1>p, <2>1 DEF Touch
  <2>4. \A n \in Mutators : acc'[n] = acc[n] \/ acc'[n] = NoAccess
                            \/ acc'[n] = [chunk |-> c, val |-> v]
    BY <2>1 DEF Attempt, IInv, TypeOK, MutTypes
  <2>5. \A n \in Mutators : acc'[n] # NoAccess =>
                 acc'[n].chunk \in Chunks /\ Usable(UfoOf[acc'[n].chunk])
    BY <1>p, <2>3, <2>4
  <2> QED
    BY <1>1, <2>2, <2>5
<1>3. ASSUME NEW m \in Mutators, TakeGuard(m) PROVE CallInv'
  <2>1. /\ UNCHANGED <<live, mlpc, msg, keys, acc>> /\ api[m].pc = "guard" /\ api[m] \in Call
        /\ api'[m].op = api[m].op /\ api'[m].ufo = api[m].ufo
        /\ \A n \in Mutators \ {m} : api'[n] = api[n]
    BY <1>3, <1>t DEF TakeGuard, memVars, msgVars, Call
  <2> QED
    BY <1>1, <1>p, <2>1
<1>4. ASSUME NEW m \in Mutators, Send(m) PROVE CallInv'
  <2>1. /\ UNCHANGED <<live, keys, acc>> /\ mlpc = "recv" /\ mlpc' = "lock"
        /\ \A n \in Mutators \ {m} : api'[n] = api[n]
        /\ msg'.op = api[m].op /\ msg'.ufo = api[m].ufo /\ msg'.from = m
        /\ api[m] \in Call
        /\ IF api[m].op = "Drop" THEN api'[m] = NoCall
           ELSE api'[m].op = api[m].op /\ api'[m].ufo = api[m].ufo /\ api'[m].pc = "wait"
    BY <1>4, <1>t DEF Send, memVars, Call
  <2>2. \A u \in Ufos : BeingFreed(u)' => BeingFreed(u)
    BY <2>1, <1>t DEF BeingFreed
  <2>3. CallsKnown' /\ AccessesUsable' /\ NeedsLive' /\ NeedsUsable' /\ FreedUnneeded'
    BY <1>p, <2>1, <2>2, CallsStay
  <2>4. MessageKnown'
    <3>1. api[m].op \in ApiOps /\ api[m].ufo \in Ufos
      BY <2>1 DEF Call
    <3>2. api[m].op # "Drop" => SentBy(api[m].op)' /\ api'[m].ufo = msg'.ufo
      BY <2>1 DEF SentBy
    <3>3. api[m].op \in FreeOps \cup {"Reset"} => live[api[m].ufo]
      BY <1>p DEF CallsKnown
    <3>4. api[m].op = "Drop" => \A n \in Mutators : api'[n].ufo # api[m].ufo
      BY <1>p, <1>t, <2>1, <3>1 DEF CallsKnown, FreeOps
    <3>5. ~Purging'
      BY <1>t, <2>1, <3>1 DEF Purging
    <3> QED
      BY <2>1, <1>t, <3>1, <3>2, <3>3, <3>4, <3>5 DEF MessageKnown
  <2> QED
    BY <2>3, <2>4 DEF CallInv
<1>5. ASSUME NEW m \in Mutators, SendFails(m) PROVE CallInv'
  <2>1. /\ UNCHANGED <<live, mlpc, msg, keys, acc>> /\ mlpc \in {"closed", "dead"}
        /\ api'[m] = NoCall
        /\ \A n \in Mutators \ {m} : api'[n] = api[n]
    BY <1>5, <1>t, <1>p DEF SendFails, memVars, msgVars, Return, CallsKnown
  <2>2. \A u \in Ufos : BeingFreed(u)' => BeingFreed(u)
    BY <2>1, <1>t DEF BeingFreed
  <2>3. CallsKnown' /\ AccessesUsable' /\ NeedsLive' /\ NeedsUsable' /\ FreedUnneeded'
    BY <1>p, <2>1, <2>2, CallsStay
  <2>4. MessageKnown'
    BY <2>1 DEF MessageKnown, Purging
  <2> QED
    BY <2>3, <2>4 DEF CallInv
<1>6. CASE LoopStep
  <2>0. UNCHANGED acc
    BY <1>6, LoopKeeps
  <2>1. ASSUME Answer
        PROVE  /\ \A m \in Mutators : api'[m] = api[m] \/ api'[m] = NoCall
               /\ \A m \in Mutators : m = msg.from /\ api[m].pc = "wait" => api'[m] = NoCall
               /\ msg' = NoMsg
    BY <2>1, <1>p DEF Answer, Return, CallsKnown
  <2>2. ASSUME Answer, mlpc' \in {"recv", "closed", "dead"},
               \A u \in Ufos : live[u] /\ ~live'[u] =>
                  BeingFreed(u) /\ \A n \in Mutators : api'[n].op \in FreeOps \cup {"Reset"} => api'[n].ufo # u,
               \A u \in Ufos, c \in Chunks : ~live[u] /\ live'[u] /\ UfoOf[c] = u /\ Needs[c] # None =>
                  UfoOf[Needs[c]] = u \/ Usable(UfoOf[Needs[c]])
        PROVE  CallInv'
    <3>1. \A u \in Ufos : BeingFreed(u)' => BeingFreed(u)
      BY <2>1, <2>2, <1>t DEF BeingFreed, FreeOps
    <3>2. CallsKnown' /\ AccessesUsable' /\ NeedsLive' /\ NeedsUsable' /\ FreedUnneeded'
      BY <1>p, <2>0, <2>1, <2>2, <3>1, CallsStay
    <3>3. MessageKnown'
      BY <2>2 DEF MessageKnown, Purging
    <3> QED
      BY <3>2, <3>3 DEF CallInv
  <2>3. ASSUME UNCHANGED <<live, api>>,
               \A u \in Ufos : BeingFreed(u)' => BeingFreed(u), MessageKnown'
        PROVE  CallInv'
    <3>1. CallsKnown' /\ AccessesUsable' /\ NeedsLive' /\ NeedsUsable' /\ FreedUnneeded'
      BY <1>p, <2>0, <2>3, CallsStay
    <3> QED
      BY <2>3, <3>1 DEF CallInv
  <2>4. CASE LoopLock
    <3>1. UNCHANGED <<live, keys>>
      BY <2>4 DEF LoopLock, LoopPanics, memVars
    <3>2. CASE poisoned
      BY <2>2, <2>4, <3>1, <3>2 DEF LoopLock, LoopPanics
    <3>3. CASE ~poisoned
      <4>1. UNCHANGED <<msg, api>> /\ mlpc = "lock" /\ mlpc' = "apply"
        BY <2>4, <3>3 DEF LoopLock
      <4>2. \A u \in Ufos : BeingFreed(u)' => BeingFreed(u)
        BY <4>1 DEF BeingFreed
      <4>3. MessageKnown'
        BY <1>p, <3>1, <4>1 DEF MessageKnown, Purging, SentBy
      <4> QED
        BY <2>3, <3>1, <4>1, <4>2, <4>3
    <3> QED
      BY <3>2, <3>3
  <2>5. CASE LoopAllocate
    <3>1. /\ live' = [live EXCEPT ![msg.ufo] = TRUE] /\ mlpc' = "recv" /\ Answer
          /\ SentBy("Allocate") /\ api[msg.from].ufo = msg.ufo
      BY <2>5, <1>p DEF LoopAllocate, MessageKnown
    <3>2. \A u \in Ufos : live'[u] # live[u] => u = msg.ufo /\ live'[u]
      BY <3>1 DEF IInv, TypeOK, MemTypes
    <3>3. \A c \in Chunks : UfoOf[c] = msg.ufo /\ Needs[c] # None =>
             UfoOf[Needs[c]] = UfoOf[c] \/ Usable(UfoOf[Needs[c]])
      BY <1>p, <3>1 DEF NeedsUsable, SentBy
    <3> QED
      BY <2>2, <3>1, <3>2, <3>3
  <2>6. CASE LoopReset
    BY <2>2, <2>6 DEF LoopReset
  <2>7. CASE LoopFree
    <3>1. /\ live' = [live EXCEPT ![msg.ufo] = FALSE] /\ mlpc = "apply" /\ live[msg.ufo]
          /\ msg.op \in FreeOps \cup {"Purge"} /\ UNCHANGED keys
      BY <2>7 DEF LoopFree
    <3>2. \A u \in Ufos : live[u] /\ ~live'[u] => u = msg.ufo /\ BeingFreed(u)
      BY <1>p, <3>1 DEF IInv, TypeOK, MemTypes, BeingFreed, MessageKnown, Purging, SentBy
    <3>3. CASE msg.op = "Purge"
      <4>1. UNCHANGED <<api, msg>> /\ mlpc' = "next" /\ SentBy("Shutdown")
        BY <1>p, <2>7, <3>1, <3>3 DEF LoopFree, MessageKnown, Purging
      <4>2. \A u \in Ufos : BeingFreed(u)' => BeingFreed(u)
        BY <4>1 DEF BeingFreed
      <4>3. \A n \in Mutators : api'[n].op \notin FreeOps \cup {"Reset"}
        BY <1>p, <1>t, <4>1 DEF CallsKnown, SentBy
      <4>4. CallsKnown' /\ AccessesUsable' /\ NeedsLive' /\ NeedsUsable' /\ FreedUnneeded'
        <5>1. \A u \in Ufos : live'[u] => live[u]
          BY <3>1 DEF IInv, TypeOK, MemTypes
        <5> QED
          BY <1>p, <2>0, <3>2, <4>1, <4>2, <4>3, <5>1, CallsStay
      <4>5. MessageKnown'
        <5>1. \A u \in keys : live'[u]
          BY <1>p, <3>1, <3>3 DEF MessageKnown, Purging, IInv, TypeOK, MemTypes, MsgTypes
        <5>2. SentBy("Shutdown")'
          BY <4>1 DEF SentBy
        <5> QED
          BY <3>1, <4>1, <5>1, <5>2 DEF MessageKnown
      <4> QED
        BY <4>4, <4>5 DEF CallInv
    <3>4. CASE msg.op # "Purge"
      <4>1. Answer /\ mlpc' = "recv" /\ msg.op \in FreeOps
        BY <2>7, <3>1, <3>4 DEF LoopFree
      <4>2. ASSUME NEW n \in Mutators, api'[n].op \in FreeOps \cup {"Reset"}, api'[n].ufo = msg.ufo
            PROVE  FALSE
        <5>1. api'[n] = api[n] /\ api[n].op \in FreeOps \cup {"Reset"}
          BY <2>1, <4>1, <4>2, <1>t
        <5>2. msg.op # "Drop"
          BY <1>p, <1>t, <3>1, <4>2, <5>1 DEF MessageKnown
        <5>3. /\ msg.from \in Mutators /\ api[msg.from].op = msg.op
              /\ api[msg.from].pc = "wait" /\ api[msg.from].ufo = msg.ufo
          BY <1>p, <3>1, <3>4, <4>1, <5>2 DEF MessageKnown, SentBy
        <5>4. n = msg.from
          BY <1>p, <4>1, <4>2, <5>1, <5>3 DEF CallsKnown
        <5>5. api'[n] = NoCall
          BY <2>1, <4>1, <5>3, <5>4
        <5> QED
          BY <1>t, <4>2, <5>5
      <4>3. \A u \in Ufos : live'[u] => live[u]
        BY <3>1 DEF IInv, TypeOK, MemTypes
      <4> QED
        BY <2>2, <3>2, <4>1, <4>2, <4>3
    <3> QED
      BY <3>3, <3>4
  <2>8. CASE LoopUnknown
    BY <2>2, <2>8 DEF LoopUnknown, LoopPanics, memVars
  <2>9. CASE LoopCollect
    <3>1. /\ UNCHANGED <<live, api, msg>> /\ mlpc = "apply" /\ mlpc' = "next" /\ SentBy("Shutdown")
          /\ keys' = {u \in Ufos : live[u]}
      BY <2>9, <1>p DEF LoopCollect, memVars, mutVars, MessageKnown
    <3>2. \A u \in Ufos : BeingFreed(u)' => BeingFreed(u)
      BY <3>1 DEF BeingFreed
    <3>3. MessageKnown'
      BY <3>1 DEF MessageKnown, SentBy
    <3> QED
      BY <2>3, <3>1, <3>2, <3>3
  <2>10. ASSUME NEW u \in Ufos, LoopNextKey(u) PROVE CallInv'
    <3>1. /\ UNCHANGED <<live, api>> /\ mlpc = "next" /\ mlpc' = "lock" /\ u \in keys
          /\ keys' = keys \ {u} /\ msg'.op = "Purge" /\ msg'.ufo = u /\ msg'.from = msg.from
          /\ SentBy("Shutdown") /\ \A v \in keys : live[v]
      BY <2>10, <1>p DEF LoopNextKey, memVars, mutVars, MessageKnown, Purging, IInv, TypeOK, MsgTypes
    <3>2. \A v \in Ufos : BeingFreed(v)' => BeingFreed(v)
      BY <3>1, <1>t DEF BeingFreed
    <3>3. MessageKnown'
      BY <3>1 DEF MessageKnown, SentBy
    <3> QED
      BY <2>3, <3>1, <3>2, <3>3
  <2>11. CASE LoopClose
    BY <2>2, <2>11 DEF LoopClose, memVars
  <2> QED
    BY <1>6, <2>4, <2>5, <2>6, <2>7, <2>8, <2>9, <2>10, <2>11 DEF LoopStep
<1>7. ASSUME NEW w \in Workers, WorkerStep(w) \/ \E t \in Threads : ReadEvent(w, t)
      PROVE  CallInv'
  <2>1. UNCHANGED <<live, acc, api, mlpc, msg, keys>>
    BY <1>7, WorkerKeeps
  <2> QED
    BY <1>1, <1>p, <2>1
<1>8. CASE UNCHANGED vars
  BY <1>1, <1>p, <1>8 DEF vars, memVars, mutVars, msgVars
<1> QED
  BY <1>2, <1>3, <1>4, <1>5, <1>6, <1>7, <1>8, CallsBegin DEF Next, MutatorStep

LEMMA SpecCalls ==
  ASSUME Sound
  PROVE  Spec => []CallInv
<1>1. Init => CallInv
  <2> SUFFICES ASSUME Init PROVE CallInv
    OBVIOUS
  <2>1. \A m \in Mutators : api[m] = NoCall /\ acc[m] = NoAccess /\ NoCall.op = "none"
    BY DEF Init, NoCall
  <2>2. CallsKnown /\ AccessesUsable /\ NeedsUsable
    BY <2>1 DEF CallsKnown, AccessesUsable, NeedsUsable, FreeOps
  <2>3. MessageKnown
    BY DEF Init, MessageKnown, Purging
  <2>4. NeedsLive /\ FreedUnneeded
    BY ShapeAssumption DEF Init, NeedsLive, FreedUnneeded
  <2> QED
    BY <2>2, <2>3, <2>4 DEF CallInv
<1> QED
  BY <1>1, CallsStep, SpecLocks, PTL DEF Spec

(* The bit of the chunk an eviction is about to move is free: whoever fills *)
(* or moves a chunk does so while its page is missing.                      *)
LEMMA BitFree ==
  ASSUME Base, MemoryInv, BitsOwned,
         NEW w \in Workers, NEW i \in DOMAIN victims, wpc[w] = "evict", victims[i].stage = "todo"
  PROVE  bit[victims[i].entry.chunk] = NoOne
<1> DEFINE c == victims[i].entry.chunk
<1>1. c \in Chunks /\ mem[c] # None
  BY EvictFacts
<1>2. \A x \in Workers : wpc[x] = "fill" => mem[wchunk[x]] = None
  BY DEF MemoryInv, FaultsMissing, Loading
<1>3. \A j \in DOMAIN victims : Moving(j) => mem[victims[j].entry.chunk] = None
  BY DEF MemoryInv, MovedAway
<1> QED
  BY <1>1, <1>2, <1>3 DEF BitsOwned

(* An object for which a fault is being served exists.                      *)
LEMMA LoaderLives ==
  ASSUME Base, NEW Uses, NEW Rank, UseInv(Uses, Rank), CallInv,
         NEW w \in Workers, Loading(w)
  PROVE  live[Object(w)]
<1>1. PICK t \in Threads : want[t] = wchunk[w] /\ t \notin unread
  BY DEF UseInv, LoadsChained
<1>2. want[t] \in Chunks /\ want[t] # None
  BY <1>1, WorkerChunk, SortAssumption DEF Base, IInv, Loading
<1>3. CASE t \in Mutators
  BY <1>1, <1>2, <1>3 DEF UseInv, WantsKnown, CallInv, AccessesUsable, Usable, Object
<1>4. CASE t \in Workers
  <2>1. wpc[t] = "fill" /\ want[t] = Needs[wchunk[t]] /\ wchunk[t] \in Chunks
    BY <1>2, <1>4, WorkerChunk DEF UseInv, WantsKnown, Base, IInv
  <2>2. live[UfoOf[wchunk[t]]]
    BY <1>4, <2>1 DEF Base, LivesInv, WorkedOnLives, ReadPcs, Object
  <2> QED
    BY <1>1, <1>2, <2>1, <2>2 DEF CallInv, NeedsLive, Object
<1> QED
  BY <1>3, <1>4 DEF Threads

LEMMA BitsStep ==
  ASSUME Base, BitsOwned, [Next]_vars
  PROVE  BitsOwned'
<1> USE DEF BitsOwned
<1>1. ASSUME UNCHANGED <<wpc, wchunk, victims>>, \A c \in Chunks : bit'[c] \in {NoOne, bit[c]}
      PROVE  BitsOwned'
  <2>1. \A i : Moving(i)' <=> Moving(i)
    BY <1>1 DEF Moving
  <2> QED
    BY <1>1, <2>1
<1>2. ASSUME NEW w \in Workers, wpc[w] # "fill", \A x \in Workers \ {w} : wpc'[x] = wpc[x] /\ wchunk'[x] = wchunk[x],
             \A i \in DOMAIN victims : Moving(i) => Moving(i)' /\ victims'[i].entry.chunk = victims[i].entry.chunk,
             \A i \in DOMAIN victims : Moving(i) => i \in DOMAIN victims',
             UNCHANGED bit
      PROVE  BitsOwned'
  <2> SUFFICES ASSUME NEW c \in Chunks, bit[c] # NoOne
               PROVE  \/ \E x \in Workers : wpc'[x] = "fill" /\ wchunk'[x] = c
                      \/ \E i \in DOMAIN victims' : Moving(i)' /\ victims'[i].entry.chunk = c
    BY <1>2
  <2> QED
    BY <1>2
<1>3. ASSUME NEW m \in Mutators, MutatorStep(m) PROVE BitsOwned'
  <2>1. UNCHANGED <<wpc, wchunk, victims, bit>>
    BY <1>3 DEF MutatorStep, Touch, Retry, BeginCall, TakeGuard, Send, SendFails, coreVars, lockVars, workVars
  <2> QED
    BY <1>1, <2>1
<1>4. CASE LoopStep
  <2>1. UNCHANGED <<wpc, wchunk, victims>>
    BY <1>4, LoopKeeps
  <2>2. \A c \in Chunks : bit'[c] \in {NoOne, bit[c]}
    <3>1. CASE LoopReset
      BY <3>1 DEF LoopReset
    <3>2. CASE ~LoopReset
      BY <1>4, <3>2 DEF LoopStep, LoopLock, LoopAllocate, LoopFree, LoopUnknown, LoopCollect,
         LoopNextKey, LoopClose, lockVars
    <3> QED
      BY <3>1, <3>2
  <2> QED
    BY <1>1, <2>1, <2>2
<1>5. ASSUME NEW w \in Workers, WorkerStep(w) \/ \E t \in Threads : ReadEvent(w, t)
      PROVE  BitsOwned'
  <2>0. \A x \in Workers \ {w} : wpc'[x] = wpc[x] /\ wchunk'[x] = wchunk[x]
    BY <1>5, OthersKeep DEF Base
  <2>v. \A i \in DOMAIN victims : victims[i].entry.chunk \in Chunks /\ i \in Nat
    BY VictimTypes DEF Base, IInv
  <2>1. CASE LockState(w) \/ Copy(w) \/ AddChunk(w) \/ WorkerExit(w) \/ \E t \in Threads : ReadEvent(w, t)
    <3>1. wpc[w] # "fill" /\ UNCHANGED <<victims, bit>>
      BY <2>1 DEF LockState, Copy, AddChunk, WorkerExit, ReadEvent, Panic, coreVars, lockVars
    <3>2. \A i : Moving(i)' <=> Moving(i)
      BY <3>1 DEF Moving
    <3> QED
      BY <1>2, <2>0, <3>1, <3>2
  <2>2. CASE EnsureCapacity(w)
    <3>1. wpc[w] = "read" /\ UNCHANGED bit /\ victims = <<>>
      <4>1. wpc[w] = "read" /\ UNCHANGED bit
        BY <2>2 DEF EnsureCapacity
      <4> QED
        BY <4>1 DEF Base, IInv, LockInv, StateHeld
    <3>2. \A i \in DOMAIN victims : FALSE
      BY <3>1
    <3> QED
      BY <1>2, <2>0, <3>1, <3>2
  <2>3. ASSUME NEW i \in DOMAIN victims, Punch(w, i) PROVE BitsOwned'
    <3> DEFINE c == victims[i].entry.chunk
    <3>1. /\ UNCHANGED <<wpc, wchunk>> /\ wpc[w] = "evict" /\ victims[i].stage = "todo"
          /\ DOMAIN victims' = DOMAIN victims
          /\ \A j \in DOMAIN victims : j # i => victims'[j] = victims[j]
          /\ victims'[i].entry = victims[i].entry
      BY <2>3 DEF Punch, AtStage, workVars
    <3>2. \A j \in DOMAIN victims : Moving(j) => Moving(j)' /\ victims'[j].entry.chunk = victims[j].entry.chunk
      BY <3>1 DEF Moving
    <3>3. CASE bit[c] = NoOne /\ bit' = [bit EXCEPT ![c] = w] /\ victims'[i].stage = "pivot"
      <4>1. Moving(i)' /\ i \in DOMAIN victims' /\ victims'[i].entry.chunk = c
        BY <3>1, <3>3 DEF Moving
      <4>2. \A d \in Chunks : d # c => bit'[d] = bit[d]
        BY <3>3 DEF Base, IInv, TypeOK, LockTypes
      <4> QED
        BY <2>0, <3>1, <3>2, <4>1, <4>2
    <3>4. CASE UNCHANGED bit
      BY <1>2, <2>0, <3>1, <3>2, <3>4
    <3> QED
      BY <2>3, <2>v, <3>3, <3>4 DEF Punch, AtStage
  <2>4. ASSUME NEW i \in DOMAIN victims, WriteBack(w, i) PROVE BitsOwned'
    <3> DEFINE c == victims[i].entry.chunk
    <3>1. /\ UNCHANGED <<wpc, wchunk>> /\ wpc[w] = "evict"
          /\ DOMAIN victims' = DOMAIN victims
          /\ \A j \in DOMAIN victims : j # i => victims'[j] = victims[j]
          /\ bit' = [bit EXCEPT ![c] = NoOne]
      BY <2>4 DEF WriteBack, workVars
    <3>2. \A j \in DOMAIN victims : j # i /\ Moving(j) => Moving(j)' /\ victims'[j].entry.chunk = victims[j].entry.chunk
      BY <3>1 DEF Moving
    <3> SUFFICES ASSUME NEW d \in Chunks, bit'[d] # NoOne
                 PROVE  \/ \E x \in Workers : wpc[x] = "fill" /\ wchunk[x] = d
                        \/ \E j \in DOMAIN victims : Moving(j)' /\ victims'[j].entry.chunk = d
      BY <3>1
    <3>3. d # c /\ bit'[d] = bit[d]
      BY <3>1 DEF Base, IInv, TypeOK, LockTypes
    <3> QED
      BY <3>2, <3>3
  <2>5. CASE EvictDone(w)
    <3>1. wpc[w] = "evict" /\ UNCHANGED bit /\ \A i \in DOMAIN victims : ~Moving(i)
      BY <2>5 DEF EvictDone, Moving
    <3> QED
      BY <1>2, <2>0, <3>1
  <2>6. CASE SpinLock(w)
    <3>1. /\ UNCHANGED <<wchunk, victims>> /\ bit' = [bit EXCEPT ![wchunk[w]] = w]
          /\ wpc'[w] = "fill" /\ wpc[w] = "spin"
      BY <2>6 DEF SpinLock, Goto, coreVars, Base, IInv, TypeOK, WorkTypes
    <3>2. \A i : Moving(i)' <=> Moving(i)
      BY <3>1 DEF Moving
    <3>3. \A d \in Chunks : d # wchunk[w] => bit'[d] = bit[d]
      BY <3>1 DEF Base, IInv, TypeOK, LockTypes
    <3> QED
      BY <2>0, <3>1, <3>2, <3>3
  <2>7. CASE FaultWhilePopulating(w)
    BY <1>1, <2>7 DEF FaultWhilePopulating, coreVars, lockVars, workVars
  <2>8. CASE Fill(w)
    <3>1. UNCHANGED victims /\ bit' = [bit EXCEPT ![wchunk[w]] = NoOne]
      BY <2>8 DEF Fill, coreVars
    <3>2. \A i : Moving(i)' <=> Moving(i)
      BY <3>1 DEF Moving
    <3>3. \A d \in Chunks : bit'[d] # NoOne => d # wchunk[w] /\ bit[d] # NoOne
      BY <3>1 DEF Base, IInv, TypeOK, LockTypes
    <3> QED
      BY <2>0, <3>1, <3>2, <3>3
  <2>9. CASE Hash(w)
    <3>1. wpc[w] = "hash" /\ UNCHANGED bit /\ DOMAIN victims' = DOMAIN victims
          /\ \A i \in DOMAIN victims : victims'[i].stage = victims[i].stage
                                       /\ victims'[i].entry.chunk = victims[i].entry.chunk
      BY <2>9, HashKeeps DEF Hash, Base
    <3>2. \A i : Moving(i)' <=> Moving(i)
      BY <3>1 DEF Moving
    <3> QED
      BY <1>2, <2>0, <3>1, <3>2
  <2> QED
    BY <1>5, <2>1, <2>2, <2>3, <2>4, <2>5, <2>6, <2>7, <2>8, <2>9 DEF WorkerStep, PopulateStep
<1>6. CASE UNCHANGED vars
  BY <1>1, <1>6 DEF vars, coreVars, lockVars, workVars
<1> QED
  BY <1>3, <1>4, <1>5, <1>6 DEF Next

LEMMA HealthStep ==
  ASSUME Base, MemoryInv, NEW Uses, NEW Rank, UseInv(Uses, Rank), CallInv, BitsOwned, Healthy,
         Faulty = {}, [Next]_vars
  PROVE  Healthy'
<1> USE DEF Healthy, NoPanic
<1>1. ASSUME UNCHANGED <<poisoned, wpc, mlpc, victims>> PROVE Healthy'
  BY <1>1
<1>2. ASSUME NEW m \in Mutators, MutatorStep(m) PROVE Healthy'
  <2>1. UNCHANGED <<poisoned, wpc, victims>> /\ mlpc' \in {mlpc, "lock"}
    BY <1>2 DEF MutatorStep, Touch, Retry, BeginCall, TakeGuard, Send, SendFails,
                coreVars, lockVars, workVars, msgVars
  <2> QED
    BY <2>1
<1>3. CASE LoopStep
  <2>1. UNCHANGED <<poisoned, wpc, victims>>
    BY <1>3, LoopKeeps
  <2>2. ~LoopUnknown
    BY DEF LoopUnknown, CallInv, MessageKnown
  <2>3. mlpc' # "dead"
    BY <1>3, <2>2 DEF LoopStep, LoopLock, LoopAllocate, LoopReset, LoopFree, LoopCollect,
                      LoopNextKey, LoopClose
  <2> QED
    BY <2>1, <2>3
<1>4. ASSUME NEW w \in Workers, WorkerStep(w) \/ \E t \in Threads : ReadEvent(w, t)
      PROVE  Healthy'
  <2>0. /\ UNCHANGED mlpc /\ \A x \in Workers \ {w} : wpc'[x] = wpc[x]
        /\ wpc \in [Workers -> WorkerPcs]
    BY <1>4, WorkerKeeps, OthersKeep DEF Base, IInv, TypeOK, WorkTypes
  <2>1. CASE LockState(w)
    <3>1. live[Object(w)]
      BY <2>1, LoaderLives DEF LockState, Loading
    <3> QED
      BY <2>0, <2>1, <3>1 DEF LockState, Goto, coreVars
  <2>2. CASE EnsureCapacity(w)
    <3>1. UNCHANGED poisoned /\ wpc'[w] # "dead"
      BY <2>0, <2>2 DEF EnsureCapacity, Goto
    <3>2. CASE NeedsRoom(Object(w))
      <4>1. \A i \in DOMAIN victims' : victims'[i].stage # "error"
        BY <2>2, <3>2, CutKeeps DEF Base
      <4> QED
        BY <2>0, <3>1, <4>1
    <3>3. CASE ~NeedsRoom(Object(w))
      BY <2>0, <2>2, <3>1, <3>3 DEF EnsureCapacity
    <3> QED
      BY <3>2, <3>3
  <2>3. ASSUME NEW i \in DOMAIN victims, Punch(w, i) PROVE Healthy'
    <3>1. bit[victims[i].entry.chunk] = NoOne
      BY <2>3, BitFree DEF Punch
    <3>2. /\ UNCHANGED <<poisoned, wpc>> /\ DOMAIN victims' = DOMAIN victims
          /\ \A j \in DOMAIN victims : j # i => victims'[j] = victims[j]
          /\ victims'[i].stage \in {"done", "pivot"}
      BY <2>3, <3>1 DEF Punch, AtStage, workVars
    <3> QED
      BY <2>0, <3>2
  <2>4. ASSUME NEW i \in DOMAIN victims, WriteBack(w, i) PROVE Healthy'
    BY <2>0, <2>4 DEF WriteBack, AtStage, workVars
  <2>5. CASE EvictDone(w)
    BY <2>0, <2>5 DEF EvictDone, Goto
  <2>6. CASE SpinLock(w) \/ FaultWhilePopulating(w) \/ WorkerExit(w) \/ \E t \in Threads : ReadEvent(w, t)
    BY <2>0, <2>6 DEF SpinLock, FaultWhilePopulating, WorkerExit, ReadEvent, Goto, coreVars,
                      lockVars, workVars
  <2>7. CASE Fill(w)
    BY <2>0, <2>7 DEF Fill, Goto, coreVars
  <2>8. CASE Copy(w)
    <3>1. mem[wchunk[w]] = None
      BY <2>8 DEF Copy, MemoryInv, FaultsMissing, Loading
    <3> QED
      BY <2>0, <2>8, <3>1 DEF Copy, Goto, coreVars, lockVars
  <2>9. CASE AddChunk(w)
    BY <2>0, <2>9 DEF AddChunk, Goto, lockVars
  <2>10. CASE Hash(w)
    <3>1. UNCHANGED poisoned /\ wpc'[w] = "idle"
      BY <2>0, <2>10 DEF Hash, Goto
    <3>2. DOMAIN victims' = DOMAIN victims /\ \A i \in DOMAIN victims : victims'[i].stage = victims[i].stage
      BY <2>10, HashKeeps DEF Base
    <3> QED
      BY <2>0, <3>1, <3>2
  <2> QED
    BY <1>4, <2>1, <2>2, <2>3, <2>4, <2>5, <2>6, <2>7, <2>8, <2>9, <2>10 DEF WorkerStep, PopulateStep
<1>5. CASE UNCHANGED vars
  BY <1>1, <1>5 DEF vars, coreVars, lockVars, workVars, msgVars
<1> QED
  BY <1>2, <1>3, <1>4, <1>5 DEF Next

(* No expect or unwrap of a worker or of the message loop fails             *)
(* (ufo_core.rs:280-417, 635-638) in a program whose threads share no chunk,*)
(* whose populate functions do not fail, and that does not use the method   *)
(* free of a handle: every chunk bit an eviction asks for is free, every    *)
(* page that is copied is missing, every object a fault or a message names  *)
(* exists.                                                                  *)
THEOREM SpecNoPanic ==
  ASSUME NEW Uses, NEW Rank, SoleUse(Uses, Rank), Sound, Faulty = {}
  PROVE  Spec => []NoPanic
<1>1. Init => BitsOwned /\ Healthy
  BY DEF Init, BitsOwned, Healthy, NoPanic
<1>2. Base /\ MemoryInv /\ UseInv(Uses, Rank) /\ CallInv /\ BitsOwned /\ Healthy /\ [Next]_vars
         => BitsOwned' /\ Healthy'
  BY BitsStep, HealthStep
<1>3. Spec => [](Base /\ MemoryInv)
  BY SpecSoleUse, SpecMemoryInv, PTL
<1>4. Spec => []UseInv(Uses, Rank)
  BY SpecSoleUse, PTL
<1>5. Spec => []CallInv
  BY SpecCalls
<1>6. Healthy => NoPanic
  BY DEF Healthy
<1> QED
  BY <1>1, <1>2, <1>3, <1>4, <1>5, <1>6, PTL DEF Spec
-----------------------------------------------------------------------------
(* A use of the framework in which the lock orders do not form a cycle.     *)

(* There are at most two application threads, each uses and calls the API   *)
(* about objects of its own, and calls reset and ufo_free of the C API.     *)
OwnObjects(Uses) ==
  /\ \A l, m, n \in Mutators : l = m \/ l = n \/ m = n
  /\ \A m, n \in Mutators : m # n => Owns[m] \cap Owns[n] = {}
  /\ \A m \in Mutators : \A c \in Uses[m] : UfoOf[c] \in Owns[m]
  /\ Ops \subseteq {"Allocate", "Reset", "Free"}

(* A caller holds an object's lock from when it takes the guard until the   *)
(* loop receives its message, and nobody holds it otherwise.                *)
GuardsHeld ==
  /\ \A m \in Mutators : /\ api[m].op \in {"none", "Allocate", "Reset", "Free"}
                         /\ api[m].pc = "guard" => api[m].op \in {"Reset", "Free"}
  /\ \A u \in Ufos, m \in Mutators :
       wr[u] = m <=> api[m].pc = "send" /\ api[m].op \in {"Reset", "Free"} /\ api[m].ufo = u
  /\ mlpc \in {"lock", "apply"} => msg.op # "Drop"

(* A worker holds the state mutex only while it reserves room for its load. *)
HoldersReserve == \A w \in Workers : st = w => wpc[w] \in {"read", "evict"}

(* The guard has waited until nobody worked on the object, and nobody       *)
(* begins to while its owner waits for the answer.                          *)
CalledQuiet ==
  mlpc \in {"lock", "apply"} /\ msg.op \in {"Reset", "Free"} =>
    \A w \in Workers : wpc[w] \in ReadPcs => Object(w) # msg.ufo

OrderInv == GuardsHeld /\ HoldersReserve /\ CalledQuiet

LEMMA GuardsStep ==
  ASSUME IInv, CallInv, NEW Uses, OwnObjects(Uses), GuardsHeld, [Next]_vars
  PROVE  GuardsHeld'
<1> USE DEF GuardsHeld
<1>t. /\ api \in [Mutators -> Call \cup {NoCall}] /\ wr \in [Ufos -> Mutators \cup {NoOne}]
      /\ NoCall.op = "none" /\ NoCall.pc = "none" /\ NoOne \notin Mutators
      /\ \A n \in Mutators : api[n] # NoCall => api[n] \in Call /\ api[n].ufo \in Ufos
  BY SortAssumption DEF NoCall, IInv, TypeOK, LockTypes, MutTypes, Call
<1>1. ASSUME UNCHANGED wr,
             \A n \in Mutators : api'[n] = api[n] \/ (api[n].pc # "send" /\ api'[n] = NoCall),
             mlpc' \in {"lock", "apply"} => msg'.op = "Purge" \/ (mlpc \in {"lock", "apply"} /\ msg' = msg)
      PROVE  GuardsHeld'
  BY <1>1, <1>t
<1>2. ASSUME NEW m \in Mutators, NEW op \in Ops, NEW u \in Owns[m], BeginCall(m, op, u)
      PROVE  GuardsHeld'
  <2>1. /\ UNCHANGED <<wr, mlpc, msg>> /\ \A n \in Mutators \ {m} : api'[n] = api[n]
        /\ api[m] = NoCall /\ op \in {"Allocate", "Reset", "Free"}
        /\ api'[m].op = op
        /\ api'[m].pc = IF op = "Allocate" THEN "send" ELSE "guard"
    BY <1>2, <1>t DEF BeginCall, Idle, lockVars, msgVars, OwnObjects
  <2> QED
    BY <2>1, <1>t
<1>3. ASSUME NEW m \in Mutators, TakeGuard(m) PROVE GuardsHeld'
  <2>1. /\ api[m].pc = "guard" /\ api[m] \in Call
        /\ \A n \in Mutators \ {m} : api'[n] = api[n]
        /\ api'[m].op = api[m].op /\ api'[m].ufo = api[m].ufo /\ api'[m].pc = "send"
        /\ wr[api[m].ufo] = NoOne /\ wr' = [wr EXCEPT ![api[m].ufo] = m]
        /\ UNCHANGED <<mlpc, msg>>
    BY <1>3, <1>t DEF TakeGuard, Call, msgVars
  <2> QED
    BY <2>1, <1>t
<1>4. ASSUME NEW m \in Mutators, Send(m) \/ SendFails(m) PROVE GuardsHeld'
  <2>1. /\ api[m].pc = "send" /\ api[m] \in Call
        /\ \A n \in Mutators \ {m} : api'[n] = api[n]
        /\ wr' = [u \in Ufos |-> IF wr[u] = m THEN NoOne ELSE wr[u]]
    BY <1>4, <1>t DEF Send, SendFails, DropGuard
  <2>2. /\ api'[m].pc # "send" /\ api'[m].pc # "guard"
        /\ api'[m].op \in {"none", "Allocate", "Reset", "Free"}
        /\ mlpc' \in {"lock", "apply"} => msg'.op # "Drop"
    <3>1. CASE Send(m)
      BY <3>1, <2>1, <1>t DEF Send, Call
    <3>2. CASE SendFails(m)
      BY <3>2, <2>1, <1>t DEF SendFails, Return, msgVars
    <3> QED
      BY <1>4, <3>1, <3>2
  <2> QED
    BY <2>1, <2>2, <1>t
<1>5. CASE LoopStep
  <2>1. UNCHANGED wr /\ (UNCHANGED api \/ Answer)
        /\ (mlpc' \in {"lock", "apply"} => msg'.op = "Purge" \/ (mlpc \in {"lock", "apply"} /\ msg' = msg))
    <3>1. CASE LoopLock
      BY <3>1 DEF LoopLock, LoopPanics
    <3>2. CASE LoopAllocate \/ LoopReset
      BY <3>2 DEF LoopAllocate, LoopReset
    <3>3. CASE LoopFree
      BY <3>3 DEF LoopFree
    <3>4. CASE LoopUnknown \/ LoopClose
      BY <3>4 DEF LoopUnknown, LoopClose, LoopPanics, lockVars
    <3>5. CASE LoopCollect
      BY <3>5 DEF LoopCollect, mutVars
    <3>6. ASSUME NEW u \in Ufos, LoopNextKey(u) PROVE UNCHANGED <<wr, api>> /\ msg'.op = "Purge"
      BY <3>6 DEF LoopNextKey, mutVars, lockVars, IInv, TypeOK, MsgTypes
    <3> QED
      BY <1>5, <3>1, <3>2, <3>3, <3>4, <3>5, <3>6 DEF LoopStep
  <2>2. \A n \in Mutators : api'[n] = api[n] \/ (api[n].pc # "send" /\ api'[n] = NoCall)
    <3>1. \A n \in Mutators : Return(n) = NoCall
      BY DEF Return
    <3> QED
      BY <2>1, <3>1 DEF Answer
  <2> QED
    BY <1>1, <2>1, <2>2
<1>6. CASE \/ UNCHANGED vars
           \/ \E m \in Mutators : \/ \E c \in Touches[m], v \in Written \cup {None} : Touch(m, c, v)
                                  \/ Retry(m)
           \/ \E w \in Workers : WorkerStep(w) \/ \E t \in Threads : ReadEvent(w, t)
  <2>1. ASSUME NEW w \in Workers, WorkerStep(w) \/ \E t \in Threads : ReadEvent(w, t)
        PROVE  UNCHANGED <<wr, api, mlpc, msg>>
    BY <2>1, WorkerKeeps
  <2>2. UNCHANGED <<wr, api, mlpc, msg>>
    BY <1>6, <2>1 DEF vars, Touch, Retry, lockVars, mutVars, msgVars
  <2> QED
    BY <1>1, <2>2
<1> QED
  BY <1>2, <1>3, <1>4, <1>5, <1>6 DEF Next, MutatorStep

LEMMA HoldersStep ==
  ASSUME IInv, HoldersReserve, [Next]_vars
  PROVE  HoldersReserve'
<1> USE DEF HoldersReserve
<1>t. MsgLoop \notin Workers /\ NoOne \notin Workers /\ wpc \in [Workers -> WorkerPcs]
  BY SortAssumption DEF IInv, TypeOK, WorkTypes
<1>1. ASSUME NEW m \in Mutators, MutatorStep(m) PROVE UNCHANGED <<st, wpc>>
  BY <1>1 DEF MutatorStep, Touch, Retry, BeginCall, TakeGuard, Send, SendFails, lockVars, workVars
<1>2. CASE LoopStep
  <2>1. UNCHANGED wpc
    BY <1>2, LoopKeeps
  <2>2. st' \in {st, NoOne, MsgLoop}
    BY <1>2 DEF LoopStep, LoopLock, LoopAllocate, LoopReset, LoopFree, LoopUnknown, LoopCollect,
       LoopNextKey, LoopClose, lockVars
  <2> QED
    BY <1>t, <2>1, <2>2
<1>3. ASSUME NEW w \in Workers, WorkerStep(w) \/ \E t \in Threads : ReadEvent(w, t)
      PROVE  HoldersReserve'
  <2>1. \A x \in Workers \ {w} : wpc'[x] = wpc[x]
    BY <1>3, OthersKeep
  <2>2. \/ UNCHANGED st /\ (wpc[w] \in {"read", "evict"} => wpc'[w] \in {"read", "evict"})
        \/ st' = NoOne
        \/ st' = w /\ wpc'[w] = "read"
    <3>1. CASE LockState(w)
      BY <3>1, <1>t DEF LockState, Goto
    <3>2. CASE EnsureCapacity(w)
      BY <3>2, <1>t DEF EnsureCapacity, UnlockToLoad, Goto
    <3>3. CASE \E i \in DOMAIN victims : Punch(w, i) \/ WriteBack(w, i)
      BY <3>3 DEF Punch, WriteBack, workVars
    <3>4. CASE EvictDone(w)
      BY <3>4 DEF EvictDone, UnlockToLoad
    <3>5. CASE SpinLock(w) \/ FaultWhilePopulating(w) \/ Fill(w) \/ Copy(w) \/ AddChunk(w)
               \/ Hash(w) \/ WorkerExit(w) \/ \E t \in Threads : ReadEvent(w, t)
      <4>1. UNCHANGED st
        BY <3>5 DEF SpinLock, FaultWhilePopulating, Fill, Copy, AddChunk, Hash, WorkerExit,
                    ReadEvent, lockVars
      <4>2. wpc[w] \notin {"read", "evict"}
        BY <3>5 DEF SpinLock, FaultWhilePopulating, Fill, Copy, AddChunk, Hash, WorkerExit, ReadEvent
      <4> QED
        BY <4>1, <4>2
    <3> QED
      BY <1>3, <3>1, <3>2, <3>3, <3>4, <3>5 DEF WorkerStep, PopulateStep
  <2> QED
    BY <1>t, <2>1, <2>2
<1>4. CASE UNCHANGED vars
  BY <1>4 DEF vars, lockVars, workVars
<1> QED
  BY <1>1, <1>2, <1>3, <1>4 DEF Next

(* Whoever begins to work on an object works for its owner.                 *)
LEMMA LoaderWaits ==
  ASSUME IInv, NEW Uses, NEW Rank, UseInv(Uses, Rank), OwnObjects(Uses),
         NEW w \in Workers, Loading(w)
  PROVE  \E m \in Mutators : api[m] = NoCall /\ Object(w) \in Owns[m]
<1>1. PICK m \in Mutators : wchunk[w] \in Uses[m] /\ want[m] # None
  BY DEF UseInv, LoadsChained, Waits
<1> QED
  BY <1>1 DEF UseInv, WantsKnown, OwnObjects, Object

LEMMA QuietStep ==
  ASSUME IInv, CallInv, NEW Uses, NEW Rank, UseInv(Uses, Rank), OwnObjects(Uses),
         GuardsHeld, CalledQuiet, [Next]_vars
  PROVE  CalledQuiet'
<1> USE DEF CalledQuiet
<1>1. ASSUME UNCHANGED <<wpc, wchunk>>,
             mlpc' \in {"lock", "apply"} /\ msg'.op \in {"Reset", "Free"} =>
                 mlpc \in {"lock", "apply"} /\ msg' = msg
      PROVE  CalledQuiet'
  <2>1. \A w : Object(w)' = Object(w)
    BY <1>1 DEF Object
  <2> QED
    BY <1>1, <2>1
<1>2. ASSUME NEW m \in Mutators, Send(m) PROVE CalledQuiet'
  <2>1. UNCHANGED <<wpc, wchunk>> /\ api[m].pc = "send" /\ msg'.op = api[m].op /\ msg'.ufo = api[m].ufo
    BY <1>2 DEF Send, workVars
  <2>2. \A w : Object(w)' = Object(w)
    BY <2>1 DEF Object
  <2>3. ASSUME api[m].op \in {"Reset", "Free"}, NEW w \in Workers, wpc[w] \in ReadPcs
        PROVE  Object(w) # api[m].ufo
    <3>1. api[m].ufo \in Ufos /\ wr[api[m].ufo] = m /\ m # NoOne
      BY <2>1, <2>3, SortAssumption DEF GuardsHeld, IInv, TypeOK, MutTypes, Call, NoCall
    <3>2. rd[api[m].ufo] = {}
      BY <3>1 DEF IInv, LockInv, WriterExcludes
    <3> QED
      BY <2>3, <3>1, <3>2 DEF IInv, LockInv, ReadersKnown, Inside
  <2> QED
    BY <2>1, <2>2, <2>3
<1>3. ASSUME NEW m \in Mutators,
             \/ \E c \in Touches[m], v \in Written \cup {None} : Touch(m, c, v)
             \/ Retry(m)
             \/ \E op \in Ops, u \in Owns[m] : BeginCall(m, op, u)
             \/ TakeGuard(m) \/ SendFails(m)
      PROVE  CalledQuiet'
  <2>1. UNCHANGED <<wpc, wchunk, mlpc, msg>>
    BY <1>3 DEF Touch, Retry, BeginCall, TakeGuard, SendFails, workVars, msgVars
  <2> QED
    BY <1>1, <2>1
<1>4. CASE LoopStep
  <2>1. UNCHANGED <<wpc, wchunk>>
    BY <1>4, LoopKeeps
  <2>2. mlpc' \in {"lock", "apply"} /\ msg'.op \in {"Reset", "Free"} =>
            mlpc \in {"lock", "apply"} /\ msg' = msg
    <3>1. CASE LoopLock
      BY <3>1 DEF LoopLock, LoopPanics
    <3>2. CASE LoopAllocate \/ LoopReset \/ LoopFree
      BY <3>2 DEF LoopAllocate, LoopReset, LoopFree
    <3>3. CASE LoopUnknown \/ LoopCollect \/ LoopClose
      BY <3>3 DEF LoopUnknown, LoopPanics, LoopCollect, LoopClose
    <3>4. ASSUME NEW u \in Ufos, LoopNextKey(u) PROVE msg'.op = "Purge"
      BY <3>4 DEF LoopNextKey, IInv, TypeOK, MsgTypes
    <3> QED
      BY <1>4, <3>1, <3>2, <3>3, <3>4 DEF LoopStep
  <2> QED
    BY <1>1, <2>1, <2>2
<1>5. ASSUME NEW w \in Workers, WorkerStep(w) \/ \E t \in Threads : ReadEvent(w, t)
      PROVE  CalledQuiet'
  <2>1. /\ UNCHANGED <<mlpc, msg, api>>
        /\ \A x \in Workers \ {w} : wpc'[x] = wpc[x] /\ Object(x)' = Object(x)
    BY <1>5, WorkerKeeps, OthersKeep DEF Object
  <2>2. wpc'[w] \in ReadPcs => Object(w)' = Object(w) /\ (wpc[w] \in ReadPcs \/ Loading(w))
    BY <1>5, WorkerEnters DEF Next, Object, Loading, LockState
  <2>3. ASSUME mlpc \in {"lock", "apply"}, msg.op \in {"Reset", "Free"}, Loading(w), Object(w) = msg.ufo
        PROVE  FALSE
    <3>1. /\ msg.from \in Mutators /\ api[msg.from].op = msg.op /\ api[msg.from].pc = "wait"
          /\ api[msg.from].ufo = msg.ufo
      BY <2>3 DEF CallInv, MessageKnown, SentBy
    <3>2. msg.ufo \in Owns[msg.from]
      BY <2>3, <3>1 DEF CallInv, CallsKnown, FreeOps
    <3>3. PICK m \in Mutators : api[m] = NoCall /\ Object(w) \in Owns[m]
      BY <2>3, LoaderWaits
    <3> QED
      BY <2>3, <3>1, <3>2, <3>3 DEF OwnObjects, NoCall
  <2> QED
    BY <2>1, <2>2, <2>3
<1>6. CASE UNCHANGED vars
  BY <1>1, <1>6 DEF vars, workVars, msgVars
<1> QED
  BY <1>2, <1>3, <1>4, <1>5, <1>6 DEF Next, MutatorStep

(* The two orders in which the object locks and the state mutex are taken   *)
(* (ufo_core.rs:312-345 and 547-615) never meet in a cycle in a program of  *)
(* at most two threads with objects of their own that resets and frees but  *)
(* does not shut the core down.                                             *)
THEOREM SpecNoLockCycle ==
  ASSUME NEW Uses, NEW Rank, SoleUse(Uses, Rank), Sound, OwnObjects(Uses)
  PROVE  Spec => []NoLockCycle
<1>1. Init => OrderInv
  <2> SUFFICES ASSUME Init PROVE OrderInv
    OBVIOUS
  <2>1. GuardsHeld
    BY SortAssumption DEF Init, GuardsHeld, NoCall
  <2>2. HoldersReserve /\ CalledQuiet
    BY SortAssumption DEF Init, HoldersReserve, CalledQuiet
  <2> QED
    BY <2>1, <2>2 DEF OrderInv
<1>2. IInv /\ CallInv /\ UseInv(Uses, Rank) /\ OrderInv /\ [Next]_vars => OrderInv'
  BY GuardsStep, HoldersStep, QuietStep DEF OrderInv
<1>3. IInv /\ CallInv /\ UseInv(Uses, Rank) /\ OrderInv => NoLockCycle
  <2> SUFFICES ASSUME IInv, CallInv, UseInv(Uses, Rank), OrderInv
               PROVE  NoLockCycle
    OBVIOUS
  <2>1. ASSUME mlpc \in {"lock", "apply"}
        PROVE  /\ msg.from \in Mutators /\ api[msg.from].op = msg.op /\ api[msg.from].pc = "wait"
               /\ api[msg.from].ufo = msg.ufo
               /\ msg.op \in {"Allocate", "Reset", "Free"}
    <3>1. /\ msg.op # "Drop"
          /\ \A m \in Mutators : api[m].op \in {"none", "Allocate", "Reset", "Free"}
          /\ NoCall.pc = "none"
          /\ \A m \in Mutators : api[m].op = "none" => api[m] = NoCall
      BY <2>1 DEF OrderInv, GuardsHeld, IInv, TypeOK, MutTypes, Call, ApiOps, NoCall
    <3>2. msg.op # "Purge"
      BY <2>1, <3>1 DEF CallInv, MessageKnown, Purging, SentBy
    <3>3. /\ msg.from \in Mutators /\ api[msg.from].op = msg.op /\ api[msg.from].pc = "wait"
          /\ api[msg.from].ufo = msg.ufo
      BY <2>1, <3>1, <3>2 DEF CallInv, MessageKnown, SentBy
    <3> QED
      BY <3>1, <3>3
  <2>2. ASSUME mlpc = "apply", msg.op \in FreeOps \cup {"Reset", "Purge"}
        PROVE  /\ \A w \in Workers : w \in rd[msg.ufo] => wpc[w] # "add"
               /\ wr[msg.ufo] = NoOne
    <3>1. msg.op \in {"Reset", "Free"}
      BY <2>1, <2>2 DEF FreeOps
    <3>2. msg.ufo \in Owns[msg.from] /\ msg.ufo \in Ufos
      BY <2>1, <2>2, <3>1 DEF CallInv, CallsKnown, FreeOps, IInv, TypeOK, MutTypes, Call, NoCall
    <3>3. ASSUME NEW w \in Workers, w \in rd[msg.ufo] PROVE wpc[w] # "add"
      <4>1. w \in Inside(msg.ufo) \/ w \in Nat
        <5>1. Pivoted(msg.ufo) \subseteq Nat
          BY VictimTypes DEF Pivoted, IInv
        <5> QED
          BY <3>2, <3>3, <5>1 DEF IInv, LockInv, ReadersKnown
      <4> QED
        BY <2>2, <3>1, <4>1, SortAssumption DEF OrderInv, CalledQuiet, Inside
    <3>4. wr[msg.ufo] \in Mutators => FALSE
      <4>1. SUFFICES ASSUME NEW n \in Mutators, wr[msg.ufo] = n PROVE FALSE
        OBVIOUS
      <4>2. api[n].pc = "send" /\ api[n].op \in {"Reset", "Free"} /\ api[n].ufo = msg.ufo
        BY <3>2, <4>1 DEF OrderInv, GuardsHeld
      <4>3. msg.ufo \in Owns[n]
        BY <4>2 DEF CallInv, CallsKnown, FreeOps
      <4> QED
        BY <2>1, <2>2, <3>2, <4>2, <4>3 DEF OwnObjects
    <3> QED
      BY <3>2, <3>3, <3>4 DEF IInv, TypeOK, LockTypes
  <2>3. ASSUME mlpc = "lock", st \in Workers, NEW u \in Ufos, wr[u] # NoOne
        PROVE  FALSE
    <3>1. PICK n \in Mutators : wr[u] = n
      BY <2>3 DEF IInv, TypeOK, LockTypes
    <3>2. api[n].pc = "send"
      BY <3>1 DEF OrderInv, GuardsHeld
    <3>3. Loading(st)
      BY <2>3 DEF OrderInv, HoldersReserve, Loading
    <3>4. PICK m \in Mutators : api[m] = NoCall
      BY <2>3, <3>3, LoaderWaits
    <3>5. m # n /\ msg.from # n /\ msg.from # m
      BY <2>1, <2>3, <3>2, <3>4 DEF NoCall
    <3> QED
      BY <2>1, <2>3, <3>5 DEF OwnObjects
  <2>4. ASSUME st \in Workers PROVE Awaited(st) \subseteq Ufos
    <3>1. wpc[st] = "read" => Object(st) \in Ufos
      BY <2>4, WorkerChunk DEF IInv
    <3>2. \A i \in DOMAIN victims : UfoOf[victims[i].entry.chunk] \in Ufos
      BY VictimTypes, ShapeAssumption DEF IInv
    <3> QED
      BY <3>1, <3>2 DEF Awaited
  <2> QED
    BY <2>2, <2>3, <2>4 DEF NoLockCycle
<1> QED
  BY <1>1, <1>2, <1>3, SpecLocks, SpecCalls, SpecSoleUse, PTL DEF Spec
=============================================================================
