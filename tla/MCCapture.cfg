CONSTANTS
  RtpWrap = 64
  SeqWrap = 64
  Second = 2
  CycleSeconds = 4
  None = None
  Silence = Silence
  Ssrcs = {s1}
  Filter = None
  Malformed = Malformed
  CaptureSeconds = 2
  MaxLateness = 2
  PacketChanCap = 1
  WindowChanCap = 2
  SourceRate = 1
  PacketSamples = 1
  MaxLate = 1
  MaxLatency = 2
  StatusUpdates <- CompleteOnly
  MaxNow = 13
SPECIFICATION FairSpec
PROPERTY DeliversAll
INVARIANTS
  TypeOK
  SameCycle
  PromptSeal
  AudioOnce
CHECK_DEADLOCK FALSE
