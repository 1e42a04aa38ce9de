SPECIFICATION MessageSpec
CONSTANTS
  U8 = 255
  U16 = 65535
  U32 = 100000
  U64 = 1000000
  Publishers <- MCPublishers
  Readers <- MCReaders
  Samples <- MCSamples
  Payloads <- MCPayloads
  SeqStarts = {0, 65535}
  MaxPublished = 1
INVARIANTS RoundTrip ChunksFit Delivered AcceptedIsSent
CHECK_DEADLOCK FALSE
