SPECIFICATION Spec
CONSTANTS
  Chain = {c1, c2}
  Script = Script
  Batch = Batch
  MaxNodes = 4
  MaxWalks = 3
  MaxReads = 3
  MaxChanges = 1
SYMMETRY Symmetry
INVARIANTS
  TypeOK
  
  WritesWhatIsHeld
  DoneMeansAll
PROPERTIES
  EditAloneKeepsChanges
  
