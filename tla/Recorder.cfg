CONSTANTS
  MaxClips = 5
  MaxRuns = 2
  ClipSize <- Sizes
  MB = 1
  max_size_mb = 2
SPECIFICATION FairSpec
INVARIANTS
  TypeOK
  NamesFollowAge
  RawAccounted
PROPERTIES
  OldestFirst
  LimitKept
CHECK_DEADLOCK FALSE
