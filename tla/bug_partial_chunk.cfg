SPECIFICATION Spec
CONSTANTS
  m1 = m1 m2 = m2
  Workers = {w1, w2}
  Mutators <- MCOne
  Ufos <- MCUfos
  Chunks <- MCChunks
  UfoOf <- MCUfoOf
  Size <- MCPartial
  LoadSize <- MCLoadSize
  ReadOnly = {"b"}
  Needs <- MCNeedsNone
  Faulty = {}
  Touches <- MCTouchAll
  Owns <- MCOwnAll
  Written = {"x"}
  Orig = "orig"
  HighWater = 4
  LowWater = 1
  Ops = {"Allocate"}
  MaxQueue = 3
  None = None NoOne = NoOne MsgLoop = MsgLoop
SYMMETRY MCSymmetry

PROPERTY BehavesLikeMemory
