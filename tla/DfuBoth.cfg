SPECIFICATION FairSpec
CONSTANTS
  N = 2
  Chunk = 2
  Rooms <- ThreeEach
  Sizes = {0, 3, 4, 10}
  Bitmaps <- FiveMaps
  MaxReqs = 3
  MaxFails = 1
  MaxResets = 1
CHECK_DEADLOCK FALSE
INVARIANTS DoneIsWhole
PROPERTIES RepliesKept Served
