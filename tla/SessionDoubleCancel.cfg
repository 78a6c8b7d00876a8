SPECIFICATION Spec
CONSTANTS
  Workers = {w1}
  ImgLen <- TwoImages
  FsImages = {}
  CfgLen = 2
  BufLen = 2
  Formats = {FALSE}
  EnvFails = FALSE
  AutoReboot = FALSE
  Calls = {"start", "cancel"}
  Polite = FALSE
  MaxCalls = 3
INVARIANTS ContextAlive
