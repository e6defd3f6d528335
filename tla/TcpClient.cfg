SPECIFICATION MCSpec
CONSTANTS
  TCP_WND = 3
  TCP_SND_BUF = 3
  CLIENT_SOCKS_RECV_BUF_SIZE = 2
  MaxUp = 4
  MaxDown = 5
  Garbage <- MCGarbage
  Limit = 2
INVARIANTS
  UpStreamInOrder
  DownStreamInOrder
  WindowIsFreeSpace
  RelayIsArmed
  DeadVarIsNotStale
  BusyIsServed
  ClosedOnce
PROPERTIES
  HalfClosedIsFreed
  UpDataDelivered
  ImplementsRelay
  
  SendFinishes
CHECK_DEADLOCK FALSE
