---------------------------- MODULE PopulatePool ----------------------------
(***************************************************************************)
(* The pool of populate threads (ufos/rust/ufos_core/src/                  *)
(* populate_workers.rs) under the loop that runs on each of them           *)
(* (ufo_core.rs:405-440).                                                  *)
(*                                                                         *)
(* A thread may read the userfaultfd only when it has taken a request; it  *)
(* hands a request back as soon as it has read a fault.  Requests are thus *)
(* tokens that circulate: as long as none is lost, somebody listens while  *)
(* others are busy, and a fault raised by a populate function is served.   *)
(***************************************************************************)
EXTENDS Integers, FiniteSets

CONSTANTS
  MaxThreads,   (* Bound: threads the pool ever spawns.                     *)
  MaxFaults,    (* Bound: faults the application ever raises.               *)
  Tokens        (* Requests the pool starts with.                           *)

(* PopulatePool::new starts with one request, UfoCore::new makes another.   *)
ASSUME PoolAssumption ==
  /\ MaxThreads \in Nat \ {0}
  /\ MaxFaults \in Nat
  /\ Tokens \in Nat \ {0}

Threads == 1..MaxThreads

VARIABLES
  requested,  (* workers_requested.                                         *)
  waiting,    (* workers_waiting.                                           *)
  running,    (* should_run.                                                *)
  spawned,    (* Threads spawned so far.                                    *)
  pc,         (* Where a thread is.                                         *)
  faults,     (* Unread events of the userfaultfd.                          *)
  raised,     (* Faults raised so far.                                      *)
  open        (* The userfaultfd is open.                                   *)

vars == <<requested, waiting, running, spawned, pc, faults, raised, open>>

(* unborn, start: about to call await_work; sleep: in the condition         *)
(* variable's queue; awake: notified, has to lock the pool's mutex again;   *)
(* listen: about to read; blocked: inside read; request, notify: the halves *)
(* of request_worker; busy: in populate_impl; done; dead.                   *)
Pcs == {"unborn", "start", "sleep", "awake", "listen", "blocked", "request",
        "notify", "busy", "done", "dead"}

At(l) == {t \in Threads : pc[t] = l}

TypeOK ==
  /\ requested \in Nat
  /\ waiting \in Int
  /\ running \in BOOLEAN
  /\ spawned \in Threads
  /\ pc \in [Threads -> Pcs]
  /\ faults \in Nat
  /\ raised \in 0..MaxFaults
  /\ open \in BOOLEAN

Init ==
  /\ requested = Tokens
  /\ waiting = 0
  /\ running = TRUE
  /\ spawned = 1
  /\ pc = [t \in Threads |-> IF t = 1 THEN "start" ELSE "unborn"]
  /\ faults = 0
  /\ raised = 0
  /\ open = TRUE

(* Broken variant: nobody takes the place of the last waiting thread.       *)
NoSuccessor(t) ==
  /\ pc' = [pc EXCEPT ![t] = "listen"]
  /\ UNCHANGED spawned

(* The thread goes to listen; when it was the last one waiting it spawns    *)
(* its successor.                                                           *)
Succeed(t) ==
  IF waiting' < 1
  THEN /\ spawned < MaxThreads
       /\ spawned' = spawned + 1
       /\ pc' = [pc EXCEPT ![t] = "listen", ![spawned + 1] = "start"]
  ELSE /\ pc' = [pc EXCEPT ![t] = "listen"]
       /\ UNCHANGED spawned

(* Broken variant: the request stays.                                       *)
KeepRequest == UNCHANGED requested

TakeRequest == requested' = requested - 1

(* Broken variant: a thread that wakes up believes there is a request.      *)
LeaveUnchecked(t) ==
  \/ /\ ~running
     /\ pc' = [pc EXCEPT ![t] = "done"]
     /\ UNCHANGED <<requested, spawned>>
  \/ running /\ TakeRequest /\ Succeed(t)

(* The part of await_work after its wait: the predicate is false.           *)
Leave(t) ==
  \/ /\ ~running
     /\ pc' = [pc EXCEPT ![t] = "done"]
     /\ UNCHANGED <<requested, spawned>>
  \/ /\ running
     /\ requested > 0
     /\ TakeRequest
     /\ Succeed(t)

(* await_work, called: sleep while there is no request.                     *)
AwaitWork(t) ==
  /\ pc[t] = "start"
  /\ \/ /\ requested = 0 /\ running
        /\ waiting' = waiting + 1
        /\ pc' = [pc EXCEPT ![t] = "sleep"]
        /\ UNCHANGED <<requested, spawned>>
     \/ /\ waiting' = waiting
        /\ Leave(t)
  /\ UNCHANGED <<running, faults, raised, open>>

(* Broken variant: the thread is counted as waiting for ever.               *)
StayCounted == UNCHANGED waiting

CountOut == waiting' = waiting - 1

(* A thread that was notified, or woke up by itself, tests again.           *)
WakeUp(t) ==
  /\ pc[t] = "awake"
  /\ \/ /\ requested = 0 /\ running
        /\ pc' = [pc EXCEPT ![t] = "sleep"]
        /\ UNCHANGED <<requested, waiting, spawned>>
     \/ /\ CountOut
        /\ Leave(t)
  /\ UNCHANGED <<running, faults, raised, open>>

(* Condition variables may wake up without a notification.                  *)
Spurious(t) ==
  /\ pc[t] = "sleep"
  /\ pc' = [pc EXCEPT ![t] = "awake"]
  /\ UNCHANGED <<requested, waiting, running, spawned, faults, raised, open>>

(* read_event blocks while there is no event, or fails on a closed file.    *)
EnterRead(t) ==
  /\ pc[t] = "listen"
  /\ pc' = [pc EXCEPT ![t] = IF open THEN "blocked" ELSE "done"]
  /\ UNCHANGED <<requested, waiting, running, spawned, faults, raised, open>>

ReadEvent(t) ==
  /\ pc[t] = "blocked"
  /\ faults > 0
  /\ faults' = faults - 1
  /\ pc' = [pc EXCEPT ![t] = "request"]
  /\ UNCHANGED <<requested, waiting, running, spawned, raised, open>>

(* request_worker: the mutex is released before notify_one.                 *)
RequestWorker(t) ==
  /\ pc[t] = "request"
  /\ requested' = requested + 1
  /\ pc' = [pc EXCEPT ![t] = "notify"]
  /\ UNCHANGED <<waiting, running, spawned, faults, raised, open>>

(* Broken variant: the request is made and nobody is told.                  *)
NotifyNobody(t) ==
  /\ pc[t] = "notify"
  /\ pc' = [pc EXCEPT ![t] = "busy"]
  /\ UNCHANGED <<requested, waiting, running, spawned, faults, raised, open>>

NotifyOne(t) ==
  /\ pc[t] = "notify"
  /\ \/ /\ At("sleep") = {}
        /\ pc' = [pc EXCEPT ![t] = "busy"]
     \/ \E s \in At("sleep") : pc' = [pc EXCEPT ![t] = "busy", ![s] = "awake"]
  /\ UNCHANGED <<requested, waiting, running, spawned, faults, raised, open>>

(* populate_impl returns, and the loop starts again, or fails, and expect   *)
(* ends the thread.                                                         *)
Populated(t) ==
  /\ pc[t] = "busy"
  /\ pc' = [pc EXCEPT ![t] = "start"]
  /\ UNCHANGED <<requested, waiting, running, spawned, faults, raised, open>>

PopulateFails(t) ==
  /\ pc[t] = "busy"
  /\ pc' = [pc EXCEPT ![t] = "dead"]
  /\ UNCHANGED <<requested, waiting, running, spawned, faults, raised, open>>

(* The environment: a thread touches a missing page.                        *)
Fault ==
  /\ open
  /\ raised < MaxFaults
  /\ raised' = raised + 1
  /\ faults' = faults + 1
  /\ UNCHANGED <<requested, waiting, running, spawned, pc, open>>

(* PopulateWorkers::shutdown, called by the message loop.                   *)
Shutdown ==
  /\ running
  /\ running' = FALSE
  /\ pc' = [t \in Threads |-> IF pc[t] = "sleep" THEN "awake" ELSE pc[t]]
  /\ UNCHANGED <<requested, waiting, spawned, faults, raised, open>>

(* UfoCore::shutdown closes the file when the message loop has answered.  A *)
(* thread that is already inside read keeps its reference to the open file  *)
(* and stays where it is.                                                   *)
Close ==
  /\ ~running
  /\ open
  /\ open' = FALSE
  /\ UNCHANGED <<requested, waiting, running, spawned, pc, faults, raised>>

Step(t) ==
  \/ AwaitWork(t) \/ WakeUp(t) \/ EnterRead(t) \/ ReadEvent(t)
  \/ RequestWorker(t) \/ NotifyOne(t) \/ Populated(t)

Next ==
  \/ \E t \in Threads : Step(t) \/ Spurious(t) \/ PopulateFails(t)
  \/ Fault \/ Shutdown \/ Close

Spec == Init /\ [][Next]_vars

(* Threads run, populate functions return, the core closes the file it has  *)
(* decided to close.  Nothing makes the application fault or shut down.     *)
FairSpec ==
  /\ Spec
  /\ \A t \in Threads : WF_vars(Step(t))
  /\ WF_vars(Close)
-----------------------------------------------------------------------------
(* Threads that hold a token.                                               *)
Holders == At("listen") \cup At("blocked") \cup At("request")

(* No request is lost or made up: what the threads have not asked for is in *)
(* the hands of threads that listen.  The pool would starve or read without *)
(* a successor otherwise (ufo_core.rs:416: "while we work someone else      *)
(* waits").                                                                 *)
TokensConserved == running => requested + Cardinality(Holders) = Tokens

(* Whoever sleeps is counted: the decision to spawn a successor looks only  *)
(* at the counter.                                                          *)
WaitingCounted == waiting = Cardinality(At("sleep") \cup At("awake"))

(* A request is never left to threads that all sleep: between the increment *)
(* and the notification, and while a notified thread is overtaken, somebody *)
(* else is on the way to take it.                                           *)
NoLostWakeup ==
  running /\ requested > 0 => At("start") \cup At("awake") \cup At("notify") # {}

(* There is always a thread left to take the next request: if it fails, the *)
(* pool never serves another fault.                                         *)
SuccessorExists == running => At("start") \cup At("sleep") \cup At("awake") # {}

(* Every fault is read, however many populate functions fail, until the     *)
(* core shuts down.                                                         *)
FaultsAreRead == faults > 0 ~> faults = 0 \/ ~running
=============================================================================
