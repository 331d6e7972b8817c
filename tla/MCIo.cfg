SPECIFICATION IoSpec
CONSTANTS
  Bytes = {"x", "n", "r", "u"}
  MaxLength = 3
  Capacity = 2
  Chunk = 2
  Sizes = {1, 3}
  WriterCapacity = 2
  CopyChunk = 2
  MaxBytes = 4
  Vectors <- SomeVectors
  Size = 3
  PipeCapacity = 2
  MaxSent = 4
  MaxInput = 3
  MaxCalls = 3
  StdSizes = {1, 2}
  FileBytes = {0, 1}
  FileLength = 2
  Requests <- SomeRequests
  max_buf_size = 2
INVARIANTS
  ReadersAreExact
  WritesAreExact
  NoUninitializedByte
  StreamsConserve
PROPERTY FileIsAtomic
CHECK_DEADLOCK FALSE
