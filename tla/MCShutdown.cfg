CONSTANTS
  PacketChanCap = 2
  WindowChanCap = 1
  MaxWindows = 3
  MaxSignals = 2
SPECIFICATION FairSpec
INVARIANTS
  TypeOK
  NoTaskStopsUnasked
PROPERTIES
  CascadeExit
  HeardBySocketsStops
CHECK_DEADLOCK FALSE
