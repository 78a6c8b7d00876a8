SPECIFICATION FairSpec
CONSTANTS
  Workers = {w1}
  ImgLen <- EmptyMiddle
  FsImages = {2}
  CfgLen = 2
  BufLen = 3
  Formats = {TRUE, FALSE}
  EnvFails = FALSE
  AutoReboot = TRUE
  Calls = {"start"}
  Polite = TRUE
  MaxCalls = 2
PROPERTIES Completes
