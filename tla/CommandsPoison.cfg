SPECIFICATION Spec
CONSTANTS
  Msg = {m1, m2}
  Null = Null
  Bad = Bad
  Buf = Buf
  N = 4
  QueueSize = 2
  MaxFails = 1
INVARIANTS LosesOnePerFailure

