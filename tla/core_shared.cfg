SPECIFICATION Spec
CONSTANTS
  m1 = m1 m2 = m2
  Workers = {w1, w2, w3}
  Mutators <- MCTwo
  Ufos = {"a"}
  Chunks <- MCTight
  UfoOf <- MCTightUfoOf
  Size <- MCTightSize
  LoadSize <- MCTightLoad
  ReadOnly = {}
  Needs <- MCTightNeeds
  Faulty = {"a2"}
  Touches <- MCTightTouch
  Owns <- MCTightOwn
  Written = {"x"}
  Orig = "orig"
  HighWater = 3
  LowWater = 0
  Ops = {"Allocate", "Reset", "FreeHandle", "Shutdown"}
  MaxQueue = 2
  None = None NoOne = NoOne MsgLoop = MsgLoop
SYMMETRY MCSymmetry
INVARIANTS TypeOK ChunkExclusive UsedIsQueued ResidentOnce
CHECK_DEADLOCK FALSE
