------------------------------ MODULE MCUfoCore ------------------------------
(* Instances of UfoCore.                                                    *)
EXTENDS UfoCore

CONSTANTS m1, m2

MCOne == {m1}
MCTwo == {m1, m2}
MCSymmetry == Permutations(Workers)

(* Object "a" is writable, object "b" depends on the instance.              *)
MCUfos == {"a", "b"}
MCChunks == {"a1", "a2", "b1"}
MCUfoOf == [c \in MCChunks |-> IF c = "b1" THEN "b" ELSE "a"]
MCFull == [c \in MCChunks |-> 2]
MCPartial == [c \in MCChunks |-> IF c = "a2" THEN 1 ELSE 2]
MCLoadSize == [u \in MCUfos |-> 2]
MCLoadLarge == [u \in MCUfos |-> IF u = "b" THEN 3 ELSE 2]
MCLarge == [c \in MCChunks |-> IF c = "b1" THEN 3 ELSE 2]
MCNeedsNone == [c \in MCChunks |-> None]
MCNeedsB == [c \in MCChunks |-> IF c = "a1" THEN "b1" ELSE None]
MCTouchAll == [m \in Mutators |-> MCChunks]

(* The smallest instance in which a load always evicts the other chunk.     *)
MCTight == {"a1", "a2"}
MCTightUfoOf == [c \in MCTight |-> "a"]
MCTightSize == [c \in MCTight |-> 2]
MCTightLoad == [u \in {"a"} |-> 2]
MCTightNeeds == [c \in MCTight |-> None]
MCTightTouch == [m \in Mutators |-> MCTight]
MCTightOwnOne == [m \in Mutators |-> IF m = m1 THEN {"a"} ELSE {}]
MCTightOwn == [m \in Mutators |-> {"a"}]

MCOwnAll == [m \in Mutators |-> MCUfos]
MCOwnOne == [m \in Mutators |-> IF m = m1 THEN {"a"} ELSE {"b"}]
MCTouchObject == [m \in Mutators |-> {c \in MCChunks : MCUfoOf[c] \in MCOwnOne[m]}]
==============================================================================
