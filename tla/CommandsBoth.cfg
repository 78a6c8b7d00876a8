SPECIFICATION FairSpec
CONSTANTS
  Msg = {m1, m2}
  Null = Null
  Bad = Bad
  Buf = Buf
  N = 5
  QueueSize = 2
  MaxFails = 3
INVARIANTS BuffersKept
PROPERTIES IsChannel Served
