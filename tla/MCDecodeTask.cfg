CONSTANTS
  Windows = {w1, w2}
  MaxSpots = 2
  WindowChanCap = 1
  MaxFaults = 2
SPECIFICATION FairSpec
INVARIANTS
  TypeOK
  TableIsBatches
  OutputsAgree
  DamageContained
PROPERTY EveryDecodeReported
CHECK_DEADLOCK FALSE
