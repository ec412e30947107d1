CONSTANTS
  NoValue = NoValue
  NoSpot = NoSpot
  NoGrid = NoGrid
  FieldSet <- MCFieldSet
  OtherSsrc <- MCOtherSsrc
  Words <- MCWords
  SampleSet <- MCSamples
  MaxFields = 3
  MaxLines = 2
  MaxSamples = 4
  MaxCsrc = 2
  MaxPadding = 2
  WordCounts <- MCWordCounts
  U32Wrap = 42
  SampleRate = 12
  MaxPayload = 3
SPECIFICATION Spec
INVARIANTS
  StatusExact
  PeekAgrees
  RtpExact
  NoShiftedColumn
  SpotsOrError
  WavReadable
CHECK_DEADLOCK FALSE
