SPECIFICATION Spec
CONSTANTS
  FwdSupportNum = 2
  BlockSize = 2
  FlashBlocks = 15
  Word = 1000
  SblSize = 2
  MaxHandles = 10
  MaxChunk = 5
  NoFs = FALSE
  Factories <- BothSets
  Packages <- FewPackages
  MaxSessions = 3
  MaxMounts = 1
INVARIANTS SetsIntact AreaFree FsPair
PROPERTIES InstalledIsPackage RunningDataKept
