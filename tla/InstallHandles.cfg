SPECIFICATION Spec
CONSTANTS
  FwdSupportNum = 2
  BlockSize = 2
  FlashBlocks = 15
  Word = 1000
  SblSize = 2
  MaxHandles = 10
  MaxChunk = 5
  NoFs = FALSE
  Factories <- OneLong
  Packages <- OnlyShipped
  MaxSessions = 5
  MaxMounts = 1
INVARIANTS AreaFree
