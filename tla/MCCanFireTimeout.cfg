CONSTANTS
  None = None
  COMMAND_TIMEOUT = 20
  COMMAND_WATCH_INTERVAL = 2
  CAN_RECOVERY_RETRY_INTERVAL = 20
  CAN_TX_TIMEOUT = 1
SPECIFICATION Spec
INVARIANT LowAfterTimeout
