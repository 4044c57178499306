SPECIFICATION FairSpec
CONSTANTS
  ContentLengths = {3, 5, 7, 17}
  MULTIPART_CHUNK_SIZE = 3
  IntMax = 8
  LongMod = 32
  PageSize = 2
  Retries = 1
  XmlSize = 2
  MaxUploads = 2
  MaxRuns = 3
  NoPart = NoPart
INVARIANTS
  PartsAreChunks
  EtagsOfParts
PROPERTIES
  ProgramEnds
  ImplementsAtomicPut
CHECK_DEADLOCK FALSE
