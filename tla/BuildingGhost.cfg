CONSTANTS
  Asset = {a}
  MaxChains = 2
  MaxNodes = 1
  MaxList = 1
SPECIFICATION Spec
INVARIANT RegisteredIsHeld
