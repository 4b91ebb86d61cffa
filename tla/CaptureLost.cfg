SPECIFICATION Spec
CONSTANTS
  BytesPerChar = 3
  OutputLimit = 1
  ChunkBytes = 2
  PipeBytes = 1
  InputBytes = 2
  Texts <- MCTexts
INVARIANT EmittedIsReturned
