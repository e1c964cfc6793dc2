SPECIFICATION SpecC
CONSTANTS
  None = None
  CR = "CR"
  LF = "LF"
  Chunked = Chunked
  Text = Text
  Byte <- MCByte
  NotUtf8 <- MCNotUtf8
  HeaderOf <- MCHeaderOf
  ChunkSize <- MCChunkSize
  Keys <- MCKeys
  LengthKeys <- MCLengthKeys
  CodingKeys <- MCCodingKeys
  Wires <- OneChunk
  MaxStatusLine = 5
  MaxHeaders = 8
  MaxLengthLine = 4
  Modulus <- MCModulus
  OverflowChecks = TRUE
INVARIANTS
  BodyIsWhole
