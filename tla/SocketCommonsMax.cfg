CONSTANTS
  s1 = s1
  s2 = s2
  Nobody = Nobody
  Senders <- OneSender
  HdrSz = 3
  Width = 8
  Sizes <- SizesToMax
  MaxSent = 3
SPECIFICATION Spec
INVARIANTS
  ArraysToMaxAreSent
CHECK_DEADLOCK FALSE
