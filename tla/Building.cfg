CONSTANTS
  Asset = {a}
  MaxChains = 3
  MaxNodes = 2
  MaxList = 2
SPECIFICATION Spec
INVARIANTS
  TypeOK
  LedgerParity
  
