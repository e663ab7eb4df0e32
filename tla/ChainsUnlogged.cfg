CONSTANTS
  Chain <- OneChain
  Program <- ListCreate
  MaxRequests = 2
  Workers = 1
  Faults <- Refusals
SPECIFICATION Spec
INVARIANT FailureIsLogged
