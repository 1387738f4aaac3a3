SPECIFICATION FairSpec
CONSTANTS
  f1 = f1 f2 = f2 r1 = r1 r2 = r2 r3 = r3
  Fulfillers <- MCFulfillers
  Readers <- MCReaders
  Empty = Empty NoOne = NoOne
INVARIANTS TypeOK NoLostWakeup
PROPERTIES GetReturns ImplementsOnce
CHECK_DEADLOCK FALSE
