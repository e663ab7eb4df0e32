CONSTANTS
  MaxChains = 2
  Outcomes <- MCOutcomes
SPECIFICATION Spec
PROPERTIES
  NoChainDropped
