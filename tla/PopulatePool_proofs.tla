------------------------ MODULE PopulatePool_proofs ------------------------
(* Proofs about the pool of populate threads, for any number of threads,    *)
(* faults and initial requests.                                             *)
EXTENDS PopulatePool, FiniteSetTheorems, TLAPS

(* Threads that will look at the number of requests before they sleep, or   *)
(* wake up one that does.                                                   *)
Alert == At("start") \cup At("awake") \cup At("notify")

(* While somebody sleeps there is an alert thread for every request.        *)
EnoughAlert == running /\ At("sleep") # {} => requested <= Cardinality(Alert)

(* Only threads that were spawned do anything.                              *)
Unborn == \A t \in Threads : t > spawned => pc[t] = "unborn"

(* The userfaultfd is closed only after the pool was shut down.             *)
OpenWhileRunning == running => open

PoolInv ==
  /\ TypeOK
  /\ Unborn
  /\ OpenWhileRunning
  /\ TokensConserved
  /\ WaitingCounted
  /\ SuccessorExists
  /\ EnoughAlert

Idle == At("sleep") \cup At("awake")
-----------------------------------------------------------------------------
(* Counting a set of threads that gains, loses or keeps a member.           *)
LEMMA Finite ==
  ASSUME NEW S \in SUBSET Threads
  PROVE  IsFiniteSet(S) /\ Cardinality(S) \in Nat
<1>1. IsFiniteSet(Threads)
  BY PoolAssumption, FS_Interval DEF Threads
<1> QED
  BY <1>1, FS_Subset, FS_CardinalityType

LEMMA Gains ==
  ASSUME NEW S \in SUBSET Threads, NEW t \in Threads, t \notin S
  PROVE  Cardinality(S \cup {t}) = Cardinality(S) + 1
BY Finite, FS_AddElement

LEMMA Loses ==
  ASSUME NEW S \in SUBSET Threads, NEW t \in S
  PROVE  Cardinality(S \ {t}) = Cardinality(S) - 1
BY Finite, FS_RemoveElement

LEMMA Nonempty ==
  ASSUME NEW S \in SUBSET Threads
  PROVE  Cardinality(S) > 0 <=> S # {}
BY Finite, FS_EmptySet

LEMMA Grows ==
  ASSUME NEW S \in SUBSET Threads, NEW T \in SUBSET Threads, S \subseteq T
  PROVE  Cardinality(S) <= Cardinality(T)
BY Finite, FS_Subset

LEMMA Types ==
  ASSUME TypeOK
  PROVE  /\ Holders \in SUBSET Threads /\ Idle \in SUBSET Threads
         /\ Alert \in SUBSET Threads
         /\ Cardinality(Holders) \in Nat /\ Cardinality(Idle) \in Nat
         /\ Cardinality(Alert) \in Nat
         /\ requested \in Nat /\ waiting \in Int /\ Tokens \in Nat
<1>1. Holders \in SUBSET Threads /\ Idle \in SUBSET Threads /\ Alert \in SUBSET Threads
  BY DEF Holders, Idle, Alert, At
<1> QED
  BY <1>1, Finite, PoolAssumption DEF TypeOK

(* Every step keeps the types.                                              *)
LEMMA TypeStep ==
  ASSUME TypeOK, [Next]_vars
  PROVE  TypeOK'
<1> USE PoolAssumption DEF TypeOK, Threads, Pcs
<1>1. ASSUME NEW t \in Threads, AwaitWork(t)
      PROVE  TypeOK'
  BY <1>1 DEF AwaitWork, Leave, Succeed, TakeRequest
<1>2. ASSUME NEW t \in Threads, WakeUp(t)
      PROVE  TypeOK'
  BY <1>2 DEF WakeUp, CountOut, Leave, Succeed, TakeRequest
<1>3. ASSUME NEW t \in Threads,
             EnterRead(t) \/ ReadEvent(t) \/ RequestWorker(t) \/ NotifyOne(t)
               \/ Populated(t) \/ Spurious(t) \/ PopulateFails(t)
      PROVE  TypeOK'
  BY <1>3 DEF EnterRead, ReadEvent, RequestWorker, NotifyOne, Populated, Spurious,
              PopulateFails, At
<1>4. CASE Fault
  BY <1>4 DEF Fault
<1>5. CASE Shutdown
  BY <1>5 DEF Shutdown
<1>6. CASE Close \/ UNCHANGED vars
  BY <1>6 DEF Close, vars
<1> QED
  BY <1>1, <1>2, <1>3, <1>4, <1>5, <1>6 DEF Next, Step

LEMMA InitInv == Init => PoolInv
<1> SUFFICES ASSUME Init PROVE PoolInv
  OBVIOUS
<1> USE PoolAssumption
<1>1. 1 \in Threads
  BY DEF Threads
<1>2. TypeOK
  BY <1>1 DEF Init, TypeOK, Threads, Pcs
<1>3. Holders = {} /\ Idle = {} /\ At("sleep") = {} /\ 1 \in At("start")
  BY <1>1 DEF Init, Holders, Idle, At
<1>4. TokensConserved
  BY <1>3, FS_EmptySet DEF Init, TokensConserved
<1>5. WaitingCounted
  BY <1>3, FS_EmptySet DEF Init, WaitingCounted, Idle
<1> QED
  BY <1>2, <1>3, <1>4, <1>5
  DEF PoolInv, SuccessorExists, EnoughAlert, Unborn, OpenWhileRunning, Init

(* A thread takes a request, and spawns its successor when it has to.       *)
LEMMA TakeStep ==
  ASSUME PoolInv, NEW t \in Threads, pc[t] \in {"start", "awake"}, running,
         UNCHANGED <<running, open>>, requested > 0, TakeRequest, Succeed(t),
         waiting' = IF pc[t] = "awake" THEN waiting - 1 ELSE waiting
  PROVE  /\ TokensConserved' /\ WaitingCounted' /\ SuccessorExists' /\ EnoughAlert'
         /\ Unborn' /\ OpenWhileRunning'
<1>1. /\ Holders' = Holders \cup {t} /\ t \notin Holders
      /\ Idle' = Idle \ {t}
      /\ t \in Idle <=> pc[t] = "awake"
      /\ At("sleep")' = At("sleep")
      /\ Alert \ {t} \subseteq Alert' /\ t \in Alert
      /\ Alert' \in SUBSET Threads
      /\ Unborn'
  <2> USE DEF Holders, Idle, Alert, At
  <2>1. CASE waiting' < 1
    <3>1. /\ spawned + 1 \in Threads /\ spawned' = spawned + 1
          /\ pc[spawned + 1] = "unborn"
          /\ pc' = [pc EXCEPT ![t] = "listen", ![spawned + 1] = "start"]
      BY <2>1, PoolAssumption DEF PoolInv, TypeOK, Unborn, Succeed, Threads
    <3>2. Unborn'
      BY <3>1 DEF PoolInv, TypeOK, Unborn, Threads
    <3> DEFINE n == spawned + 1
    <3> HIDE DEF n
    <3>3. n \in Threads /\ pc[n] = "unborn" /\ n # t
          /\ pc' = [pc EXCEPT ![t] = "listen", ![n] = "start"]
      BY <3>1 DEF n
    <3>4. pc \in [Threads -> Pcs]
      BY DEF PoolInv, TypeOK
    <3> QED
      BY <3>2, <3>3, <3>4
  <2>2. CASE ~(waiting' < 1)
    <3>1. pc' = [pc EXCEPT ![t] = "listen"] /\ UNCHANGED spawned
      BY <2>2 DEF Succeed
    <3> QED
      BY <3>1 DEF PoolInv, TypeOK, Unborn
  <2> QED
    BY <2>1, <2>2
<1>2. TokensConserved'
  BY <1>1, Gains, Types DEF PoolInv, TokensConserved, TakeRequest
<1>3. Cardinality(Idle') = waiting'
  <2>1. CASE pc[t] = "awake"
    BY <1>1, <2>1, Loses, Types DEF PoolInv, WaitingCounted, Idle
  <2>2. CASE pc[t] = "start"
    <3>1. Idle' = Idle
      BY <1>1, <2>2
    <3> QED
      BY <3>1, <2>2 DEF PoolInv, WaitingCounted, Idle
  <2> QED
    BY <2>1, <2>2
<1>4. WaitingCounted'
  BY <1>3 DEF WaitingCounted, Idle
<1>5. SuccessorExists'
  <2>1. CASE waiting' < 1
    <3>1. spawned + 1 \in Threads /\ pc'[spawned + 1] = "start"
      BY <2>1, PoolAssumption DEF PoolInv, TypeOK, Succeed, Threads
    <3> QED
      BY <3>1 DEF SuccessorExists, At
  <2>2. CASE ~(waiting' < 1)
    <3>1. Idle' \in SUBSET Threads /\ waiting' \in Int
      BY <1>1, Types DEF PoolInv
    <3>2. Idle' # {}
      BY <1>3, <2>2, <3>1, FS_EmptySet
    <3> QED
      BY <3>2 DEF SuccessorExists, Idle
  <2> QED
    BY <2>1, <2>2
<1>6. EnoughAlert'
  <2>1. Cardinality(Alert \ {t}) = Cardinality(Alert) - 1
    BY <1>1, Loses, Types DEF PoolInv
  <2>2. Cardinality(Alert \ {t}) <= Cardinality(Alert')
    BY <1>1, Grows, Types DEF PoolInv
  <2>3. Cardinality(Alert') \in Nat
    BY <1>1, Finite
  <2> QED
    BY <1>1, <2>1, <2>2, <2>3, Types DEF PoolInv, EnoughAlert, TakeRequest
<1> QED
  BY <1>1, <1>2, <1>4, <1>5, <1>6 DEF PoolInv, OpenWhileRunning

(* A step that moves threads between places without a request being taken.  *)
LEMMA InvStep ==
  ASSUME PoolInv, [Next]_vars
  PROVE  PoolInv'
<1>1. TypeOK'
  BY TypeStep DEF PoolInv
<1>2. ASSUME NEW t \in Threads, AwaitWork(t)
      PROVE  PoolInv'
  <2>1. CASE requested = 0 /\ running /\ waiting' = waiting + 1
             /\ pc' = [pc EXCEPT ![t] = "sleep"] /\ UNCHANGED <<requested, spawned>>
    <3>1. /\ Holders' = Holders
          /\ Idle' = Idle \cup {t} /\ t \notin Idle
          /\ Alert' \in SUBSET Threads
          /\ Unborn'
      BY <1>2, <2>1 DEF AwaitWork, PoolInv, TypeOK, Unborn, Holders, Idle, Alert, At
    <3>2. WaitingCounted'
      BY <2>1, <3>1, Gains, Types DEF PoolInv, WaitingCounted, Idle
    <3>3. TokensConserved'
      BY <1>2, <2>1, <3>1 DEF AwaitWork, PoolInv, TokensConserved
    <3>4. SuccessorExists'
      BY <3>1 DEF SuccessorExists, Idle
    <3>5. EnoughAlert'
      BY <2>1, <3>1, Finite DEF EnoughAlert
    <3> QED
      BY <1>1, <1>2, <3>1, <3>2, <3>3, <3>4, <3>5 DEF PoolInv, AwaitWork, OpenWhileRunning
  <2>2. CASE waiting' = waiting /\ Leave(t) /\ running
    <3>1. requested > 0 /\ TakeRequest /\ Succeed(t) /\ UNCHANGED <<running, open>>
      BY <1>2, <2>2 DEF Leave, AwaitWork
    <3>2. pc[t] = "start"
      BY <1>2 DEF AwaitWork
    <3> QED
      BY <1>1, <2>2, <3>1, <3>2, TakeStep DEF PoolInv
  <2>3. CASE waiting' = waiting /\ Leave(t) /\ ~running
    <3>1. Idle' = Idle /\ Unborn' /\ ~running'
      BY <1>2, <2>3 DEF AwaitWork, Leave, PoolInv, TypeOK, Unborn, Idle, At
    <3> QED
      BY <1>1, <2>3, <3>1
      DEF PoolInv, TokensConserved, WaitingCounted, SuccessorExists, EnoughAlert, Idle,
          OpenWhileRunning, AwaitWork
  <2> QED
    BY <1>2, <2>1, <2>2, <2>3 DEF AwaitWork, PoolInv, TypeOK
<1>3. ASSUME NEW t \in Threads, WakeUp(t)
      PROVE  PoolInv'
  <2>1. CASE requested = 0 /\ running /\ pc' = [pc EXCEPT ![t] = "sleep"]
             /\ UNCHANGED <<requested, waiting, spawned>>
    <3>1. /\ Holders' = Holders /\ Idle' = Idle /\ t \in Idle
          /\ Alert' \in SUBSET Threads
          /\ Unborn'
      BY <1>3, <2>1 DEF WakeUp, PoolInv, TypeOK, Unborn, Holders, Idle, Alert, At
    <3>2. EnoughAlert'
      BY <2>1, <3>1, Finite DEF EnoughAlert
    <3> QED
      BY <1>1, <1>3, <2>1, <3>1, <3>2
      DEF WakeUp, PoolInv, TokensConserved, WaitingCounted, SuccessorExists, Idle,
          OpenWhileRunning
  <2>2. CASE CountOut /\ Leave(t) /\ running
    <3>1. requested > 0 /\ TakeRequest /\ Succeed(t) /\ UNCHANGED <<running, open>>
      BY <1>3, <2>2 DEF Leave, WakeUp
    <3>2. pc[t] = "awake" /\ waiting' = waiting - 1
      BY <1>3, <2>2 DEF WakeUp, CountOut
    <3> QED
      BY <1>1, <2>2, <3>1, <3>2, TakeStep DEF PoolInv
  <2>3. CASE CountOut /\ Leave(t) /\ ~running
    <3>1. Idle' = Idle \ {t} /\ t \in Idle /\ Unborn' /\ ~running'
      BY <1>3, <2>3 DEF WakeUp, Leave, PoolInv, TypeOK, Unborn, Idle, At
    <3>2. WaitingCounted'
      BY <2>3, <3>1, Loses, Types DEF PoolInv, WaitingCounted, Idle, CountOut
    <3> QED
      BY <1>1, <1>3, <2>3, <3>1, <3>2
      DEF PoolInv, TokensConserved, SuccessorExists, EnoughAlert, OpenWhileRunning, WakeUp
  <2> QED
    BY <1>3, <2>1, <2>2, <2>3 DEF WakeUp, PoolInv, TypeOK
<1>4. ASSUME NEW t \in Threads, Spurious(t)
      PROVE  PoolInv'
  <2>1. /\ Holders' = Holders /\ Idle' = Idle /\ t \in Idle'
        /\ At("sleep")' \subseteq At("sleep")
        /\ Alert' = Alert \cup {t} /\ t \notin Alert
        /\ Unborn'
    BY <1>4 DEF Spurious, PoolInv, TypeOK, Unborn, Holders, Idle, Alert, At
  <2>2. EnoughAlert'
    BY <1>4, <2>1, Gains, Types DEF Spurious, PoolInv, EnoughAlert
  <2> QED
    BY <1>1, <1>4, <2>1, <2>2
    DEF Spurious, PoolInv, TokensConserved, WaitingCounted, SuccessorExists, Idle,
        OpenWhileRunning
<1>5. ASSUME NEW t \in Threads, EnterRead(t)
      PROVE  PoolInv'
  <2>1. /\ Idle' = Idle /\ At("sleep")' = At("sleep") /\ Alert' = Alert
        /\ At("start")' = At("start") /\ At("awake")' = At("awake")
        /\ open => Holders' = Holders
        /\ Unborn'
    BY <1>5 DEF EnterRead, PoolInv, TypeOK, Unborn, Holders, Idle, Alert, At
  <2>2. running => open
    BY DEF PoolInv, OpenWhileRunning
  <2> QED
    BY <1>1, <1>5, <2>1, <2>2
    DEF EnterRead, PoolInv, TokensConserved, WaitingCounted, SuccessorExists,
        EnoughAlert, Idle, OpenWhileRunning
<1>6. ASSUME NEW t \in Threads, ReadEvent(t)
      PROVE  PoolInv'
  <2>1. /\ Idle' = Idle /\ At("sleep")' = At("sleep") /\ Alert' = Alert
        /\ At("start")' = At("start") /\ At("awake")' = At("awake")
        /\ Holders' = Holders
        /\ Unborn'
    BY <1>6 DEF ReadEvent, PoolInv, TypeOK, Unborn, Holders, Idle, Alert, At
  <2> QED
    BY <1>1, <1>6, <2>1
    DEF ReadEvent, PoolInv, TokensConserved, WaitingCounted, SuccessorExists,
        EnoughAlert, Idle, OpenWhileRunning
<1>7. ASSUME NEW t \in Threads, RequestWorker(t)
      PROVE  PoolInv'
  <2>1. /\ Idle' = Idle /\ At("sleep")' = At("sleep")
        /\ At("start")' = At("start") /\ At("awake")' = At("awake")
        /\ Alert' = Alert \cup {t} /\ t \notin Alert
        /\ Holders' = Holders \ {t} /\ t \in Holders
        /\ Unborn'
    BY <1>7 DEF RequestWorker, PoolInv, TypeOK, Unborn, Holders, Idle, Alert, At
  <2>2. TokensConserved'
    BY <1>7, <2>1, Loses, Types DEF RequestWorker, PoolInv, TokensConserved
  <2>3. EnoughAlert'
    BY <1>7, <2>1, Gains, Types DEF RequestWorker, PoolInv, EnoughAlert
  <2> QED
    BY <1>1, <1>7, <2>1, <2>2, <2>3
    DEF RequestWorker, PoolInv, WaitingCounted, SuccessorExists, Idle, OpenWhileRunning
<1>8. ASSUME NEW t \in Threads, NotifyOne(t)
      PROVE  PoolInv'
  <2>1. CASE At("sleep") = {} /\ pc' = [pc EXCEPT ![t] = "busy"]
    <3>1. /\ Holders' = Holders /\ Idle' = Idle /\ At("sleep")' = {}
          /\ At("start")' = At("start") /\ At("awake")' = At("awake")
          /\ Unborn'
      BY <1>8, <2>1 DEF NotifyOne, PoolInv, TypeOK, Unborn, Holders, Idle, At
    <3> QED
      BY <1>1, <1>8, <2>1, <3>1
      DEF NotifyOne, PoolInv, TokensConserved, WaitingCounted, SuccessorExists,
          EnoughAlert, Idle, OpenWhileRunning
  <2>2. ASSUME NEW s \in At("sleep"), pc' = [pc EXCEPT ![t] = "busy", ![s] = "awake"]
        PROVE  PoolInv'
    <3>1. /\ Holders' = Holders /\ Idle' = Idle /\ s \in Idle'
          /\ At("sleep")' = At("sleep") \ {s}
          /\ Unborn'
      BY <1>8, <2>2 DEF NotifyOne, PoolInv, TypeOK, Unborn, Holders, Idle, At
    <3>2. /\ Alert' = (Alert \ {t}) \cup {s}
          /\ t \in Alert /\ s \in Threads /\ s \notin Alert
      BY <1>8, <2>2 DEF NotifyOne, PoolInv, TypeOK, Alert, At
    <3>3. Cardinality(Alert \ {t}) = Cardinality(Alert) - 1
      BY <3>2, Loses, Types DEF PoolInv
    <3>4. Cardinality((Alert \ {t}) \cup {s}) = Cardinality(Alert \ {t}) + 1
      BY <3>2, Gains, Types DEF PoolInv
    <3>5. Cardinality(Alert') = Cardinality(Alert)
      BY <3>2, <3>3, <3>4, Types DEF PoolInv
    <3>6. EnoughAlert'
      BY <1>8, <2>2, <3>5 DEF NotifyOne, PoolInv, EnoughAlert
    <3> QED
      BY <1>1, <1>8, <3>1, <3>6
      DEF NotifyOne, PoolInv, TokensConserved, WaitingCounted, SuccessorExists, Idle,
          OpenWhileRunning
  <2> QED
    BY <1>8, <2>1, <2>2 DEF NotifyOne
<1>9. ASSUME NEW t \in Threads, Populated(t)
      PROVE  PoolInv'
  <2>1. /\ Holders' = Holders /\ Idle' = Idle /\ At("sleep")' = At("sleep")
        /\ At("awake")' = At("awake")
        /\ t \in At("start")'
        /\ Alert' = Alert \cup {t} /\ t \notin Alert
        /\ Unborn'
    BY <1>9 DEF Populated, PoolInv, TypeOK, Unborn, Holders, Idle, Alert, At
  <2>2. EnoughAlert'
    BY <1>9, <2>1, Gains, Types DEF Populated, PoolInv, EnoughAlert
  <2> QED
    BY <1>1, <1>9, <2>1, <2>2
    DEF Populated, PoolInv, TokensConserved, WaitingCounted, SuccessorExists, Idle,
        OpenWhileRunning
<1>10. ASSUME NEW t \in Threads, PopulateFails(t)
       PROVE  PoolInv'
  <2>1. /\ Holders' = Holders /\ Idle' = Idle /\ At("sleep")' = At("sleep")
        /\ At("start")' = At("start") /\ At("awake")' = At("awake")
        /\ Alert' = Alert
        /\ Unborn'
    BY <1>10 DEF PopulateFails, PoolInv, TypeOK, Unborn, Holders, Idle, Alert, At
  <2> QED
    BY <1>1, <1>10, <2>1
    DEF PopulateFails, PoolInv, TokensConserved, WaitingCounted, SuccessorExists,
        EnoughAlert, Idle, OpenWhileRunning
<1>11. CASE Shutdown
  <2>1. Idle' = Idle /\ Unborn'
    BY <1>11 DEF Shutdown, PoolInv, TypeOK, Unborn, Idle, At
  <2> QED
    BY <1>1, <1>11, <2>1
    DEF Shutdown, PoolInv, TokensConserved, WaitingCounted, SuccessorExists,
        EnoughAlert, Idle, OpenWhileRunning
<1>12. CASE Fault \/ Close \/ UNCHANGED vars
  BY <1>1, <1>12
  DEF Fault, Close, vars, PoolInv, TokensConserved, WaitingCounted, SuccessorExists,
      EnoughAlert, Unborn, OpenWhileRunning, Holders, Alert, Idle, At
<1> QED
  BY <1>2, <1>3, <1>4, <1>5, <1>6, <1>7, <1>8, <1>9, <1>10, <1>11, <1>12 DEF Next, Step
-----------------------------------------------------------------------------
(* The counts of threads, requests and faults fit together in every state   *)
(* (populate_workers.rs).                                                   *)
THEOREM Invariance == Spec => []PoolInv
<1>1. PoolInv /\ UNCHANGED vars => PoolInv'
  BY InvStep
<1> QED
  BY InitInv, InvStep, PTL DEF Spec

(* The counts stay counts: no request is taken that is not there.            *)
THEOREM SpecTypeOK == Spec => []TypeOK
BY Invariance, PTL DEF PoolInv

(* The pool neither loses nor makes up requests.                            *)
THEOREM SpecTokensConserved == Spec => []TokensConserved
BY Invariance, PTL DEF PoolInv

(* The counter of waiting threads is exact.                                 *)
THEOREM SpecWaitingCounted == Spec => []WaitingCounted
BY Invariance, PTL DEF PoolInv

(* Some thread is always left to take the next request.                     *)
THEOREM SpecSuccessorExists == Spec => []SuccessorExists
BY Invariance, PTL DEF PoolInv

(* No request is ever left to threads that all sleep: if somebody sleeps,   *)
(* there is an alert thread for every request; if nobody sleeps, a thread   *)
(* that waits is alert.                                                     *)
THEOREM SpecNoLostWakeup == Spec => []NoLostWakeup
<1>1. PoolInv => NoLostWakeup
  <2> SUFFICES ASSUME PoolInv, running, requested > 0
               PROVE  Alert # {}
    BY DEF NoLostWakeup, Alert
  <2>1. CASE At("sleep") = {}
    BY <2>1 DEF PoolInv, SuccessorExists, Alert
  <2>2. CASE At("sleep") # {}
    BY <2>2, Types, FS_EmptySet DEF PoolInv, EnoughAlert
  <2> QED
    BY <2>1, <2>2
<1> QED
  BY <1>1, Invariance, PTL
============================================================================
