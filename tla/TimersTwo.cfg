SPECIFICATION FairSpec
CONSTANTS
  HandleNum = 2
  Nodes = 3
  Durations = {1, 2}
  Periods = {2}
  QLen = 2
  MaxTime = 4
  MaxCalls = 3
INVARIANTS ListSound Programmed OnceOrStopped Delivered
PROPERTIES PhaseKept Expires
