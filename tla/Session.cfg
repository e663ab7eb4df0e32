CONSTANTS
  MaxChains = 3
  Outcomes <- MCOutcomes
SPECIFICATION Spec
INVARIANTS
  TypeOK
  ExitTellsFailures
  FirstCallbackRaised
  TallyExact
  FlagsAgree
PROPERTIES
  RunAtMostOnce
