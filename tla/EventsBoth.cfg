SPECIFICATION FairSpec
CONSTANTS
  Msg = {m1, m2}
  Null = Null
  N = 3
  QueueSize = 2
INVARIANTS UnreadKept
PROPERTIES IsChannel NeverJams
