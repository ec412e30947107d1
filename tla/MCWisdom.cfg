CONSTANTS
  Decodes = {d1, d2, d3}
  Pieces = 2
  MaxFaults = 2
  None = None
SPECIFICATION Spec
INVARIANTS
  TypeOK
  CompleteUnlessRaced
  StagedIsComplete
  SettlesComplete
SYMMETRY DecodeSymmetry
CHECK_DEADLOCK FALSE
