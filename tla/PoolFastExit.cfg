SPECIFICATION Spec
CONSTANTS
  s1 = s1
  s2 = s2
  k1 = k1
  k2 = k2
  Starts <- MCStarts
  Kills <- OneKill
  WithCallback <- MCWithCallback
  OneCaller = TRUE
INVARIANT FastExitStopsGuard
CHECK_DEADLOCK FALSE
