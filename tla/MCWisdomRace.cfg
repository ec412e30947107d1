CONSTANTS
  Decodes = {d1, d2}
  Pieces = 2
  MaxFaults = 0
  None = None
SPECIFICATION Spec
INVARIANT InstalledIsComplete
CHECK_DEADLOCK FALSE
