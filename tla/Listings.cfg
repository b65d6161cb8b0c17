SPECIFICATION Spec
CONSTANTS
  Writers = {w1, w2}
  OldNotes = 1
  MaxNotes = 3
  MaxWrites = 3
  MaxLimit = 2
SYMMETRY Symmetry
INVARIANT TypeOK
INVARIANT PagesInOrder
INVARIANT MissesOnlyLate
INVARIANT NoteFitsEntry
INVARIANT OneStatePerNote
PROPERTY NewestFirst
CHECK_DEADLOCK FALSE
