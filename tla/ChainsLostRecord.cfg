CONSTANTS
  Chain <- OneChain
  Program <- TwoEdits
  MaxRequests = 2
  Workers = 1
  Faults <- DebugLog
SPECIFICATION Spec
INVARIANT EveryWriteOnRecord
