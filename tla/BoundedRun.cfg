SPECIFICATION FairSpec
CONSTANTS
  BytesPerChar = 3
  OutputLimit = 1
  ChunkBytes = 2
  PipeBytes = 1
  InputBytes = 2
  Texts <- MCTexts
INVARIANT TypeOK
INVARIANT CaptureExact
PROPERTY HostNeverBlocksPayload
PROPERTY RunReturns
