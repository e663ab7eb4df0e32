SPECIFICATION Spec
CONSTANTS
  Thread = {t1, t2}
  Callback = {w1, w2}
  Run = {r1, r2}
  None = None
  MaxNotes = 2
SYMMETRY Symmetry
INVARIANTS
  TypeOK
  ActiveIsInnermost
  NotesStayHome
  NoteLostOnlyLate
  CleanupReported
  
