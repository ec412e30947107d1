CONSTANTS
  RtpWrap = 32
  SeqWrap = 32
  Second = 1
  CycleSeconds = 4
  None = None
  Silence = Silence
  Ssrcs = {s1, s2}
  Filter = None
  Malformed = Malformed
  CaptureSeconds = 2
  MaxLateness = 1
  PacketChanCap = 1
  WindowChanCap = 1
  SourceRate = 1
  PacketSamples = 1
  MaxLate = 0
  MaxLatency = 1
  StatusUpdates <- CompleteOnly
  MaxNow = 6
SPECIFICATION Spec
INVARIANT SameCycle
PROPERTIES
  NoWindowDiscarded
  ImplementsDelivery
SYMMETRY Streams
CHECK_DEADLOCK FALSE
