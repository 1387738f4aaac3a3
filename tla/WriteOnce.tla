------------------------------ MODULE WriteOnce ------------------------------
(***************************************************************************)
(* What a hash promise promises: a cell that is filled once, and readers   *)
(* that return only with what it is filled with.                           *)
(***************************************************************************)
CONSTANTS Readers, Values, Empty

VARIABLES cell, got

vars == <<cell, got>>

Init ==
  /\ cell = Empty
  /\ got = [r \in Readers |-> Empty]

Fill(v) ==
  /\ cell = Empty
  /\ cell' = v
  /\ UNCHANGED got

Return(r) ==
  /\ cell # Empty
  /\ got' = [got EXCEPT ![r] = cell]
  /\ UNCHANGED cell

Next == (\E v \in Values : Fill(v)) \/ \E r \in Readers : Return(r)

Spec == Init /\ [][Next]_vars
==============================================================================
