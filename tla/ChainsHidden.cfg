CONSTANTS
  Chain <- OneChain
  Program <- ListThenRaise
  MaxRequests = 2
  Workers = 1
  Faults <- UserErrors
SPECIFICATION Spec
INVARIANT CallbackExceptionRecorded
