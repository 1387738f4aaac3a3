SPECIFICATION FairSpec
CONSTANTS
  MaxFaults = 2
  Tokens = 2
  MaxThreads = 5
INVARIANTS TypeOK TokensConserved WaitingCounted NoLostWakeup SuccessorExists
PROPERTY FaultsAreRead
CHECK_DEADLOCK FALSE
