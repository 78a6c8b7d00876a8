SPECIFICATION FairSpec
CONSTANTS
  FwdSupportNum = 2
  Packages <- BadLoadPackages
  Auth = TRUE
  DoneReboots = TRUE
  MaxCrash = 0
  MaxRank = 2
PROPERTIES BootsAgain
