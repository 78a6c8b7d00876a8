SPECIFICATION FairSpec
CONSTANTS
  Payload = 2
  Slots = 2
  ReadLen = 4
  SeqMod = 5
  MaxRetry = 1
  NFiles = 1
  Setups <- OneFile
  Noise = {"junk", "oack"}
  EnvFails = TRUE
  NetCap = 2
  UpCap = 1
  MaxResend = 1
  MaxFaults = 1
CHECK_DEADLOCK FALSE
INVARIANTS StreamIntact EndMeansEnd AckedIsStored
PROPERTIES Terminates
