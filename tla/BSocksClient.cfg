SPECIFICATION FairSpec
CONSTANTS
  AuthInfos <- MCAuthInfos
  NameLens <- MCNameLens
  MaxData = 2
INVARIANTS
  OwnershipFollowsState
  OneTransferInBuffer
  NoRelayedByteSwallowed
PROPERTY HandshakeEnds
CHECK_DEADLOCK FALSE
