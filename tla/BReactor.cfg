SPECIFICATION FairSpec
CONSTANTS
  f1 = f1
  f2 = f2
  Jobs = {j1, j2}
  Timers = {1, 2}
  Fds <- MCFds
  Kinds = {"in"}
  Programs <- MCPrograms
  None = None
  MaxDepth = 4
  MaxDelay = 2
  MaxTime = 3
  MaxAdds = 2
  IntMax = 1
  MaxResults = 2
INVARIANTS SyncRunsSince TimersFit ResultsFresh
PROPERTY TimersFire
CHECK_DEADLOCK FALSE
