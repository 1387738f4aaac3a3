------------------------------ MODULE OnceAwait ------------------------------
(***************************************************************************)
(* The promise of a chunk's hash (ufos/rust/ufos_core/src/once_await.rs):  *)
(* the worker that loaded the chunk fulfils it, an eviction waits for it.  *)
(* The value is an atomic pointer that is written without the mutex; the   *)
(* mutex and the condition variable are there only for those who came too  *)
(* early.                                                                  *)
(***************************************************************************)
EXTENDS Integers, FiniteSets

CONSTANTS
  Fulfillers,   (* Threads that call try_init, each with its own value.     *)
  Readers,      (* Threads that call get.                                   *)
  Empty, NoOne  (* The null pointer; nobody holds the mutex.                *)

ASSUME PromiseAssumption ==
  /\ Fulfillers \cap Readers = {}
  /\ Empty \notin Fulfillers
  /\ NoOne \notin Readers

VARIABLES
  value,   (* The pointer: Empty or the fulfiller whose value it is.        *)
  mutex,   (* The reader that holds the mutex.  A fulfiller locks it only   *)
           (* for one step.                                                 *)
  pc,      (* Where a thread is.                                            *)
  got      (* What get has returned.                                        *)

vars == <<value, mutex, pc, got>>

FulfillerPcs == {"load", "swap", "notify", "done"}
(* get, lock: before and after the first look at the pointer; test: about   *)
(* to evaluate the condition; sleep: the condition said to wait; asleep: in *)
(* the condition variable's queue; awake: out of it, has to lock the mutex  *)
(* again; fetch, held: about to read the result without and with the mutex. *)
ReaderPcs == {"get", "lock", "test", "sleep", "asleep", "awake", "fetch", "held",
              "returned"}

TypeOK ==
  /\ value \in Fulfillers \cup {Empty}
  /\ mutex \in Readers \cup {NoOne}
  /\ pc \in [Fulfillers \cup Readers -> FulfillerPcs \cup ReaderPcs]
  /\ \A f \in Fulfillers : pc[f] \in FulfillerPcs
  /\ \A r \in Readers : pc[r] \in ReaderPcs
  /\ got \in [Readers -> Fulfillers \cup {Empty}]
  /\ \A r \in Readers : mutex = r <=> pc[r] \in {"test", "sleep", "held"}

Init ==
  /\ value = Empty
  /\ mutex = NoOne
  /\ pc = [t \in Fulfillers \cup Readers |-> IF t \in Fulfillers THEN "load" ELSE "get"]
  /\ got = [r \in Readers |-> Empty]

Goto(t, l) == pc' = [pc EXCEPT ![t] = l]
-----------------------------------------------------------------------------
(* try_init.                                                                *)

Load(f) ==
  /\ pc[f] = "load"
  /\ Goto(f, IF value = Empty THEN "swap" ELSE "done")
  /\ UNCHANGED <<value, mutex, got>>

(* Broken variant: a store instead of a compare-and-exchange.               *)
Overwrite(f) ==
  /\ pc[f] = "swap"
  /\ value' = f
  /\ Goto(f, "notify")
  /\ UNCHANGED <<mutex, got>>

(* compare_exchange with the null pointer.                                  *)
Swap(f) ==
  /\ pc[f] = "swap"
  /\ IF value = Empty THEN value' = f /\ Goto(f, "notify")
                      ELSE UNCHANGED value /\ Goto(f, "done")
  /\ UNCHANGED <<mutex, got>>

(* Every reader in the queue is woken.                                      *)
WakeAll(f) == [t \in Fulfillers \cup Readers |->
                 IF t = f THEN "done" ELSE IF pc[t] = "asleep" THEN "awake" ELSE pc[t]]

(* Broken variant: the mutex is not locked to notify.                       *)
NotifyUnlocked(f) ==
  /\ pc[f] = "notify"
  /\ pc' = WakeAll(f)
  /\ UNCHANGED <<value, mutex, got>>

(* The mutex is locked, everybody notified, the mutex unlocked.             *)
Notify(f) ==
  /\ pc[f] = "notify"
  /\ mutex = NoOne
  /\ pc' = WakeAll(f)
  /\ UNCHANGED <<value, mutex, got>>
-----------------------------------------------------------------------------
(* get.                                                                     *)

Get(r) ==
  /\ pc[r] = "get"
  /\ Goto(r, IF value = Empty THEN "lock" ELSE "fetch")
  /\ UNCHANGED <<value, mutex, got>>

(* Lock the mutex, the first time or when the wait is over.                 *)
Lock(r) ==
  /\ pc[r] \in {"lock", "awake"}
  /\ mutex = NoOne
  /\ mutex' = r
  /\ Goto(r, "test")
  /\ UNCHANGED <<value, got>>

(* wait_while evaluates its condition with the mutex locked.                *)
Test(r) ==
  /\ pc[r] = "test"
  /\ Goto(r, IF value = Empty THEN "sleep" ELSE "held")
  /\ UNCHANGED <<value, mutex, got>>

(* Entering the queue and unlocking the mutex are one step.                 *)
Sleep(r) ==
  /\ pc[r] = "sleep"
  /\ mutex' = NoOne
  /\ Goto(r, "asleep")
  /\ UNCHANGED <<value, got>>

Spurious(r) ==
  /\ pc[r] = "asleep"
  /\ Goto(r, "awake")
  /\ UNCHANGED <<value, mutex, got>>

(* Broken variant: the mutex stays locked when get returns.                 *)
FetchAndKeep(r) ==
  /\ pc[r] \in {"fetch", "held"}
  /\ got' = [got EXCEPT ![r] = value]
  /\ Goto(r, "returned")
  /\ UNCHANGED <<value, mutex>>

(* The pointer is read a second time; the guard, if any, is dropped.        *)
Fetch(r) ==
  /\ pc[r] \in {"fetch", "held"}
  /\ got' = [got EXCEPT ![r] = value]
  /\ mutex' = IF pc[r] = "held" THEN NoOne ELSE mutex
  /\ Goto(r, "returned")
  /\ UNCHANGED value
-----------------------------------------------------------------------------
TryInit(f) == Load(f) \/ Swap(f) \/ Notify(f)
GetStep(r) == Get(r) \/ Lock(r) \/ Test(r) \/ Sleep(r) \/ Fetch(r)

Next ==
  \/ \E f \in Fulfillers : TryInit(f)
  \/ \E r \in Readers : GetStep(r) \/ Spurious(r)

Spec == Init /\ [][Next]_vars

(* Threads run.  Nothing makes a thread wake up without reason.             *)
FairSpec ==
  /\ Spec
  /\ \A f \in Fulfillers : WF_vars(TryInit(f))
  /\ \A r \in Readers : WF_vars(GetStep(r))
-----------------------------------------------------------------------------
(* Once the value is there and whoever put it there has notified, nobody is *)
(* in the queue of the condition variable or on the way into it             *)
(* (once_await.rs:33-36, 69-75).                                            *)
NoLostWakeup ==
  value # Empty /\ (\A f \in Fulfillers : pc[f] # "notify") =>
    \A r \in Readers : pc[r] \notin {"sleep", "asleep"}

(* Every call of get returns, because some worker fulfils the promise.      *)
GetReturns == \A r \in Readers : <>(pc[r] = "returned")

(* Readers agree on one value, whoever wins the race to provide it.         *)
Once == INSTANCE WriteOnce WITH Values <- Fulfillers, cell <- value
ImplementsOnce == Once!Spec
=============================================================================
