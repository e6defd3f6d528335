SPECIFICATION TSpec
CONSTANTS
  s1 = s1
  k1 = k1
  Starts <- MCStarts
  Kills <- MCKills
  WithCallback <- MCStarts
  OneCaller = TRUE
  MaxTries = 3
  SdkVersions <- MCSdkVersions
PROPERTY ProcessIsDestroyed
CHECK_DEADLOCK FALSE
