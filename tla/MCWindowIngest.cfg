CONSTANTS
  RtpWrap = 26
  SeqWrap = 8
  Second = 1
  CycleSeconds = 5
  None = None
  Silence = Silence
  CaptureSeconds = 4
  Rate = 2
  PacketSamples = 2
  MaxLatency = 2
  MaxNow = 7
  MaxGaps = 2
SPECIFICATION Spec
INVARIANTS
  TypeOK
  FaithfulPlacement
  NoGapNoHole
  HighWaterMark
  AnchorSkewBounded
  FullIsGenuine
CHECK_DEADLOCK FALSE
