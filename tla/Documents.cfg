SPECIFICATION Spec
CONSTANTS
  Ident = {a, b}
  Missing = Missing
  MaxTree = 4
  MaxPath = 2
SYMMETRY Symmetry
INVARIANTS
  TypeOK
  
  
  FirstPerGroup
  DirectIsOwn
