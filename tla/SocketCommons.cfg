CONSTANTS
  s1 = s1
  s2 = s2
  Nobody = Nobody
  Senders <- OneSender
  HdrSz = 3
  Width = 8
  Sizes <- SizesThatFit
  MaxSent = 3
SPECIFICATION FairSpec
INVARIANTS
  TypeOK
  Intact
  NothingSkipped
PROPERTIES
  Arrives
  ChannelSpec
CHECK_DEADLOCK FALSE
