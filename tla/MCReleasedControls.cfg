CONSTANTS
  None = None
  Frames = {{}, {"FIRE"}}
  RaisedCanFaults = {"CAN_BUS_OFF"}
  RESET_ACK_MODULUS = 3
  IGNITION_WAIT = 1
  MAIN_VALVE_OPEN_DELAY = 1
  O2_OFF_DELAY_AFTER_VALVE_OPEN = 1
  RUNNING_DURATION = 1
  SERVO_POLL_INTERVAL = 1
  OPEN_LATCH_RELEASE_DELAY = 1
  FIRING_OPEN_SEND_MAX = 1
  Delays = {0, 1}
SPECIFICATION HistorySpec
PROPERTY IdleNeedsReleasedControls
