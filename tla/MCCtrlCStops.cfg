CONSTANTS
  PacketChanCap = 1
  WindowChanCap = 1
  MaxWindows = 1
  MaxSignals = 1
SPECIFICATION FairSpec
PROPERTY CtrlCStops
CHECK_DEADLOCK FALSE
