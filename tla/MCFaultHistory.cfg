CONSTANTS
  None = None
  Frames = {{}, {"FIRE", "DUMP", "VALVE_OPEN"}}
  RaisedCanFaults = {"CAN_TX_TIMEOUT", "CAN_TX_FRAME_CREATE_FAILED"}
  RESET_ACK_MODULUS = 2
  IGNITION_WAIT = 1
  MAIN_VALVE_OPEN_DELAY = 1
  O2_OFF_DELAY_AFTER_VALVE_OPEN = 1
  RUNNING_DURATION = 1
  SERVO_POLL_INTERVAL = 1
  OPEN_LATCH_RELEASE_DELAY = 1
  FIRING_OPEN_SEND_MAX = 1
  Delays = {1}
SPECIFICATION FaultHistorySpec
INVARIANTS
  HeldFaultEndsFiring
  OutputsOffWhenInhibited
  CanFaultWithoutLinkAborts
PROPERTY FiringAbortNeedsAck
