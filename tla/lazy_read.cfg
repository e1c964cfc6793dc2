SPECIFICATION FairSpec
CONSTANTS
  Byte <- MCByte
  Bodies <- MCBodies
  Rooms = {1, 2, 3, 7}
  ChunkMax = 2
INVARIANTS
  TypeOK
  ExactWhenRoomy
  NoFalseEnd
PROPERTIES
  ReadsBody
  ReadsToEnd
