CONSTANTS
  s1 = s1
  s2 = s2
  Nobody = Nobody
  Senders <- TwoSenders
  HdrSz = 3
  Width = 8
  Sizes <- SizesThatFit
  MaxSent = 3
SPECIFICATION Spec
INVARIANTS
  CallsAreThreadSafe
CHECK_DEADLOCK FALSE
