SPECIFICATION FairSpec
CONSTANTS
  Msg = {m1, m2}
  Null = Null
  Bad = Bad
  Buf = Buf
  N = 3
  QueueSize = 2
  MaxFails = 3
PROPERTIES ServedData
