SPECIFICATION FairSpec
CONSTANTS
  FwdSupportNum = 2
  Packages <- SblPackages
  Auth = TRUE
  DoneReboots = TRUE
  MaxCrash = 1
  MaxRank = 2
PROPERTIES BootsAgain
