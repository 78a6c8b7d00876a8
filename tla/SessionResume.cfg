SPECIFICATION Spec
CONSTANTS
  Workers = {w1}
  ImgLen <- EmptyMiddle
  FsImages = {2}
  CfgLen = 2
  BufLen = 3
  Formats = {TRUE, FALSE}
  EnvFails = TRUE
  AutoReboot = FALSE
  Calls = {"start", "cancel", "suspend", "resume"}
  Polite = FALSE
  MaxCalls = 4
INVARIANTS ValidIsVerified StreamAligned
