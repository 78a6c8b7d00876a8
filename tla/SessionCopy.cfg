SPECIFICATION Spec
CONSTANTS
  Workers = {w1}
  ImgLen <- TwoImages
  FsImages = {}
  CfgLen = 2
  BufLen = 3
  Formats = {TRUE, FALSE}
  EnvFails = TRUE
  AutoReboot = FALSE
  Calls = {"start"}
  Polite = FALSE
  MaxCalls = 1
INVARIANTS ValidIsIntact
