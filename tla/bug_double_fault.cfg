SPECIFICATION Spec
CONSTANTS
  m1 = m1 m2 = m2
  Workers = {w1, w2}
  Mutators <- MCTwo
  Ufos = {"a"}
  Chunks <- MCTight
  UfoOf <- MCTightUfoOf
  Size <- MCTightSize
  LoadSize <- MCTightLoad
  ReadOnly = {}
  Needs <- MCTightNeeds
  Faulty = {}
  Touches <- MCTightTouch
  Owns <- MCTightOwnOne
  Written = {"x"}
  Orig = "orig"
  HighWater = 3
  LowWater = 0
  Ops = {"Allocate"}
  MaxQueue = 2
  None = None NoOne = NoOne MsgLoop = MsgLoop
SYMMETRY MCSymmetry
INVARIANT NoPanic
CHECK_DEADLOCK FALSE
