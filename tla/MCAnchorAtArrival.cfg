CONSTANTS
  RtpWrap = 64
  SeqWrap = 64
  Second = 2
  CycleSeconds = 4
  None = None
  Silence = Silence
  Ssrcs = {s1}
  Filter = None
  Malformed = Malformed
  CaptureSeconds = 2
  MaxLateness = 2
  PacketChanCap = 2
  WindowChanCap = 1
  SourceRate = 2
  PacketSamples = 1
  MaxLate = 0
  MaxLatency = 2
  StatusUpdates <- CompleteOnly
  MaxNow = 15
SPECIFICATION EagerSpec
INVARIANT AnchorAtArrival
CHECK_DEADLOCK FALSE
