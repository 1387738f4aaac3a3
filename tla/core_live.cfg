SPECIFICATION FairSpec
CONSTANTS
  m1 = m1 m2 = m2
  Workers = {w1, w2}
  Mutators <- MCOne
  Ufos <- MCUfos
  Chunks <- MCChunks
  UfoOf <- MCUfoOf
  Size <- MCLarge
  LoadSize <- MCLoadLarge
  ReadOnly = {"b"}
  Needs <- MCNeedsB
  Faulty = {}
  Touches <- MCTouchAll
  Owns <- MCOwnAll
  Written = {"x"}
  Orig = "orig"
  HighWater = 4
  LowWater = 0
  Ops = {"Allocate", "Reset", "Free"}
  MaxQueue = 2
  None = None NoOne = NoOne MsgLoop = MsgLoop
INVARIANT NoPanic
PROPERTIES FaultsAreServed CallsReturn
