SPECIFICATION Spec
CONSTANTS
  FwdSupportNum = 3
  Packages <- AllPackages
  Auth = FALSE
  DoneReboots = FALSE
  MaxCrash = 2
  MaxRank = 3
INVARIANTS IInv
PROPERTIES RunningImageUntouched GoldenUntouched
