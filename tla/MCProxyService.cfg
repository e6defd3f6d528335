CONSTANTS
  MaxStarts = 2
  MaxCalls = 3
  MaxTurns = 1
  MaxWorkers = 3
SPECIFICATION MCSpec
INVARIANTS FlagFollowsThreads FieldFollowsActivity AnswerFits ProtectPathServed
PROPERTIES LoneStartServes ShutdownEndsServer EveryCallAnswered
CHECK_DEADLOCK FALSE
