CONSTANTS
  Commands <- MCCommands
  TIMEOUT = 2
  MaxUnderWay = 2
SPECIFICATION FairSpec
INVARIANTS
  OkIsOwnReply
PROPERTIES
  TransferEnds
  ServiceRecovers
