CONSTANTS
  Windows = {w1, w2}
  MaxSpots = 2
  WindowChanCap = 1
  MaxFaults = 1
SPECIFICATION Spec
INVARIANT AckedIsReadable
CHECK_DEADLOCK FALSE
