CONSTANTS
  None = None
  COMMAND_TIMEOUT = 10
  COMMAND_WATCH_INTERVAL = 3
  CAN_RECOVERY_RETRY_INTERVAL = 10
  CAN_TX_TIMEOUT = 2
SPECIFICATION Spec
PROPERTY ProbeAfterHeard
