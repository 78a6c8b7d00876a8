SPECIFICATION Spec
CONSTANTS
  FwdSupportNum = 2
  Packages <- AppPackages
  Auth = TRUE
  DoneReboots = TRUE
  MaxCrash = 1
  MaxRank = 3
INVARIANTS CurrentAgreed
