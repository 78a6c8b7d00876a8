SPECIFICATION FairSpec
CONSTANTS
  Workers = {w1, w2}
  ImgLen <- EmptyMiddle
  FsImages = {2}
  CfgLen = 2
  BufLen = 2
  Formats = {TRUE, FALSE}
  EnvFails = TRUE
  AutoReboot = FALSE
  Calls = {"start", "cancel", "suspend"}
  Polite = TRUE
  MaxCalls = 3
INVARIANTS ContextAlive SuccessReported NothingHeld
PROPERTIES CallsReturn
