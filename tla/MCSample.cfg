SPECIFICATION SampleSpec
CONSTANTS
  W = 8
  And <- TheAnd
  Unknown = Unknown
  Unused = Unused
  Modulus = 256
  Block = 8
  Import = 24
  Areas <- TheAreas
  AreaBytes = 66
  Byte = 4
  SetCalls <- TheSetCalls
  SetBytes = 200
  ChrXor <- TheXor
  ChrCalls <- TheChrCalls
  Memories <- TheMemories
  Half = 64
  Characters <- TheCharacters
  LongWord = 7
  HighFrac = 1
  SrcExp = 5
  DstExp = 3
  DstFrac = 3
  Size = 4
  Fd = 1
  Texts <- TheTexts
INVARIANTS
  ExactlyTheArea
  Converted
  OutputHeld
  BitTricksRight
PROPERTIES
  ErrorStays
  AllReturn
CHECK_DEADLOCK FALSE
