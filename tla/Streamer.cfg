CONSTANTS
  PACKET_SIZE = 3
  Handoff = 3
  BufferSize = 5
  SizeMod = 256
  UnitLen <- Lengths
  Later <- PictureKinds
  MaxUnits = 5
  MaxConns = 2
  WireMax = 2
  SemMax = 1
SPECIFICATION FairSpec
INVARIANTS
  TypeOK
  SessionIntact
  DecodedInOrder
  SetsFirst
  GapsEndInIDR
  NoStandoff
CHECK_DEADLOCK FALSE
PROPERTIES
  SendEnds
