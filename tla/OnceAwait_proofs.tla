-------------------------- MODULE OnceAwait_proofs --------------------------
(* Theorems about the hash promise.                                         *)
EXTENDS OnceAwait, TLAPS

(* Whoever has swapped, or is about to return, has seen the value; nobody   *)
(* returned anything else.                                                  *)
ValueKnown ==
  /\ \A f \in Fulfillers : pc[f] \in {"notify", "done"} => value # Empty
  /\ \A r \in Readers : pc[r] \in {"fetch", "held"} => value # Empty

PromiseInv == TypeOK /\ ValueKnown /\ NoLostWakeup

LEMMA InitPromise == Init => PromiseInv
BY PromiseAssumption
DEF Init, PromiseInv, TypeOK, ValueKnown, NoLostWakeup, FulfillerPcs, ReaderPcs

LEMMA StepPromise == PromiseInv /\ [Next]_vars => PromiseInv'
<1> SUFFICES ASSUME PromiseInv, [Next]_vars PROVE PromiseInv'
  OBVIOUS
<1> USE PromiseAssumption DEF PromiseInv, TypeOK, FulfillerPcs, ReaderPcs, Goto
<1>1. ASSUME NEW f \in Fulfillers, Load(f) PROVE PromiseInv'
  BY <1>1 DEF Load, ValueKnown, NoLostWakeup
<1>2. ASSUME NEW f \in Fulfillers, Swap(f) PROVE PromiseInv'
  BY <1>2 DEF Swap, ValueKnown, NoLostWakeup
<1>3. ASSUME NEW f \in Fulfillers, Notify(f) PROVE PromiseInv'
  BY <1>3 DEF Notify, WakeAll, ValueKnown, NoLostWakeup
<1>4. ASSUME NEW r \in Readers, Get(r) PROVE PromiseInv'
  BY <1>4 DEF Get, ValueKnown, NoLostWakeup
<1>5. ASSUME NEW r \in Readers, Lock(r) PROVE PromiseInv'
  BY <1>5 DEF Lock, ValueKnown, NoLostWakeup
<1>6. ASSUME NEW r \in Readers, Test(r) PROVE PromiseInv'
  BY <1>6 DEF Test, ValueKnown, NoLostWakeup
<1>7. ASSUME NEW r \in Readers, Sleep(r) PROVE PromiseInv'
  BY <1>7 DEF Sleep, ValueKnown, NoLostWakeup
<1>8. ASSUME NEW r \in Readers, Spurious(r) PROVE PromiseInv'
  BY <1>8 DEF Spurious, ValueKnown, NoLostWakeup
<1>9. ASSUME NEW r \in Readers, Fetch(r) PROVE PromiseInv'
  BY <1>9 DEF Fetch, ValueKnown, NoLostWakeup
<1>10. CASE UNCHANGED vars
  BY <1>10 DEF vars, ValueKnown, NoLostWakeup
<1> QED
  BY <1>1, <1>2, <1>3, <1>4, <1>5, <1>6, <1>7, <1>8, <1>9, <1>10
  DEF Next, TryInit, GetStep

(* The invariant of the promise holds in every state (once_await.rs).       *)
THEOREM PromiseInvariance == Spec => []PromiseInv
<1> QED
  BY InitPromise, StepPromise, PTL DEF Spec

(* However many workers fulfil a promise and however many evictions wait    *)
(* Only the reader that holds the mutex looks at the value or goes to sleep. *)
THEOREM SpecTypeOK == Spec => []TypeOK
BY PromiseInvariance, PTL DEF PromiseInv

(* for it, nobody sleeps on after the notification (once_await.rs:33-36).   *)
THEOREM SpecNoLostWakeup == Spec => []NoLostWakeup
<1>1. PromiseInv => NoLostWakeup
  BY DEF PromiseInv
<1> QED
  BY <1>1, PromiseInvariance, PTL

(* The promise is filled at most once, and get returns what it was filled   *)
(* with (once_await.rs:17-44, 63-77).                                       *)
THEOREM SpecImplementsOnce == Spec => ImplementsOnce
<1>1. Init => Once!Init
  BY DEF Init, Once!Init
<1>2. PromiseInv /\ [Next]_vars => [Once!Next]_Once!vars
  <2> SUFFICES ASSUME PromiseInv, [Next]_vars PROVE [Once!Next]_Once!vars
    OBVIOUS
  <2>1. ASSUME NEW f \in Fulfillers, Swap(f) PROVE Once!Next \/ UNCHANGED Once!vars
    BY <2>1 DEF Swap, Once!Next, Once!Fill, Once!vars
  <2>2. ASSUME NEW r \in Readers, Fetch(r) PROVE Once!Next
    BY <2>2 DEF Fetch, PromiseInv, ValueKnown, Once!Next, Once!Return
  <2>3. CASE UNCHANGED <<value, got>>
    BY <2>3 DEF Once!vars
  <2> QED
    BY <2>1, <2>2, <2>3
    DEF Next, TryInit, GetStep, Load, Notify, Get, Lock, Test, Sleep, Spurious, vars
<1> QED
  BY <1>1, <1>2, PromiseInvariance, PTL DEF Spec, Once!Spec, ImplementsOnce
=============================================================================
