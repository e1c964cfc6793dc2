SPECIFICATION Spec
CONSTANTS
  None = None
  CR = "CR"
  LF = "LF"
  Chunked = Chunked
  Text = Text
  Byte <- MCByte
  NotUtf8 <- MCNotUtf8
  HeaderOf <- MCHeaderOf
  ChunkSize <- MCChunkSize
  Keys <- MCKeys
  LengthKeys <- MCLengthKeys
  CodingKeys <- MCCodingKeys
  Wires <- LineFeeds
  MaxStatusLine = None
  MaxHeaders = 5
  MaxLengthLine = 4
  Modulus <- MCModulus
  OverflowChecks = FALSE
INVARIANTS
  CapHolds
