SPECIFICATION Spec
CONSTANTS
  m1 = m1 m2 = m2
  Workers = {w1, w2}
  Mutators <- MCOne
  Ufos = {"a"}
  Chunks <- MCTight
  UfoOf <- MCTightUfoOf
  Size <- MCTightSize
  LoadSize <- MCTightLoad
  ReadOnly = {}
  Needs <- MCTightNeeds
  Faulty = {}
  Touches <- MCTightTouch
  Owns <- MCTightOwn
  Written = {"x"}
  Orig = "orig"
  HighWater = 3
  LowWater = 0
  Ops = {"Allocate", "FreeHandle"}
  MaxQueue = 2
  None = None NoOne = NoOne MsgLoop = MsgLoop
SYMMETRY MCSymmetry
INVARIANT MessagesSucceed
CHECK_DEADLOCK FALSE
