------------------------------ MODULE UfoMemory ------------------------------
(***************************************************************************)
(* What the framework promises to the application: objects are arrays that *)
(* start out with the content their populate function produces, keep what  *)
(* is stored in them, and return to that content only when they are reset. *)
(* Part of the array is in memory; which part changes at any time, and     *)
(* that never changes the content.                                         *)
(***************************************************************************)
CONSTANTS Ufos, Chunks, UfoOf, Values, Orig, NoTask

VARIABLES
  val,   (* The content of a chunk.                                        *)
  here,  (* The chunks that are in memory.                                 *)
  live,  (* The objects that exist.                                        *)
  task   (* The API call that is being carried out.                        *)

vars == <<val, here, live, task>>

Init ==
  /\ val = [c \in Chunks |-> Orig]
  /\ here = {}
  /\ live = [u \in Ufos |-> FALSE]
  /\ task = NoTask

(* Chunks are loaded and evicted behind the application's back.             *)
Move ==
  /\ here' \in SUBSET Chunks
  /\ UNCHANGED <<val, live, task>>

Store(c, v) ==
  /\ c \in here
  /\ val' = [val EXCEPT ![c] = v]
  /\ UNCHANGED <<here, live, task>>

Begin(op, u) ==
  /\ task = NoTask
  /\ task' = [op |-> op, ufo |-> u]
  /\ UNCHANGED <<val, here, live>>

(* The call fails or is no concern of an object.                            *)
GiveUp ==
  /\ task' = NoTask
  /\ UNCHANGED <<val, here, live>>

Finish(op, u) ==
  /\ task = [op |-> op, ufo |-> u]
  /\ task' = NoTask
  /\ live[u] <=> op # "Allocate"
  /\ live' = [live EXCEPT ![u] = op # "Free"]
  /\ val' = [c \in Chunks |-> IF UfoOf[c] = u THEN Orig ELSE val[c]]
  /\ here' = {c \in here : UfoOf[c] # u}

Next ==
  \/ Move
  \/ \E c \in Chunks, v \in Values : Store(c, v)
  \/ \E op \in {"Allocate", "Reset", "Free"}, u \in Ufos : Begin(op, u) \/ Finish(op, u)
  \/ GiveUp

Spec == Init /\ [][Next]_vars
==============================================================================
