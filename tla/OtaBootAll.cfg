SPECIFICATION FairSpec
CONSTANTS
  FwdSupportNum = 2
  Packages <- AllPackages
  Auth = TRUE
  DoneReboots = TRUE
  MaxCrash = 2
  MaxRank = 4
INVARIANTS AcceptedImageBootable DistinctRanks RramMatchesRunning ValidIsComplete
PROPERTIES AcceptsRunningTrial BootsUnlessSpoilt
