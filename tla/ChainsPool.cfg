CONSTANTS
  Chain <- Three
  Program <- Contend
  MaxRequests = 1
  Workers = 1
  Faults <- UserErrors
SPECIFICATION Spec

  
PROPERTIES
  ChainsEnd
