SPECIFICATION Spec
CONSTANTS
  m1 = m1 m2 = m2
  Workers = {w1, w2}
  Mutators <- MCTwo
  Ufos <- MCUfos
  Chunks <- MCChunks
  UfoOf <- MCUfoOf
  Size <- MCFull
  LoadSize <- MCLoadSize
  ReadOnly = {"b"}
  Needs <- MCNeedsNone
  Faulty = {}
  Touches <- MCTouchObject
  Owns <- MCOwnOne
  Written = {"x"}
  Orig = "orig"
  HighWater = 3
  LowWater = 0
  Ops = {"Allocate", "Reset", "Free"}
  MaxQueue = 2
  None = None NoOne = NoOne MsgLoop = MsgLoop
SYMMETRY MCSymmetry
INVARIANTS  OvershootBounded
PROPERTY BehavesLikeMemory
