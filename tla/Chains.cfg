CONSTANTS
  Chain <- MCChain
  Program <- MCProgram
  MaxRequests = 2
  Workers = 1
  Faults <- MCFaults
SPECIFICATION Spec
INVARIANTS
  TypeOK
  
  StrictlyInOrder
  FailureNamesFirstError
  ResultsSound
  WritesOnRecord
  NoSilentEffect
  ErrorBlockAtItsStep
  OneBlockPerChain
PROPERTIES
  FirstFailureKept
  ChainsEnd
  ImplementsBatch
