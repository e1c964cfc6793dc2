SPECIFICATION FairSpecC
CONSTANTS
  None = None
  CR = "CR"
  LF = "LF"
  Chunked = Chunked
  Text = Text
  Byte <- MCByte
  NotUtf8 <- MCNotUtf8
  HeaderOf <- MCHeaderOf
  ChunkSize <- MCChunkSize
  Keys <- MCKeys
  LengthKeys <- MCLengthKeys
  CodingKeys <- MCCodingKeys
  Wires <- EveryWire
  MaxStatusLine = 5
  MaxHeaders = 8
  MaxLengthLine = 4
  Modulus <- MCModulus
  OverflowChecks = TRUE
INVARIANTS
  TypeOK
  BodyByteExact
  LengthLedger
  LineWithinLimit
  LimitsHold
  ChunksDecoded
  EndsWhole
PROPERTIES
  EndIsFinal
  Ends
