SPECIFICATION Spec
CONSTANTS
  FwdSupportNum = 2
  Packages <- AppPackages
  Auth = TRUE
  DoneReboots = FALSE
  MaxCrash = 0
  MaxRank = 3
PROPERTIES AcceptsRunningTrial
