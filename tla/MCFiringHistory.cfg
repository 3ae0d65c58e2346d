CONSTANTS
  None = None
  Frames = {{}, {"FIRE"}, {"VALVE_SET"}}
  RaisedCanFaults = {"CAN_BUS_OFF"}
  RESET_ACK_MODULUS = 2
  IGNITION_WAIT = 2
  MAIN_VALVE_OPEN_DELAY = 1
  O2_OFF_DELAY_AFTER_VALVE_OPEN = 1
  RUNNING_DURATION = 5
  SERVO_POLL_INTERVAL = 2
  OPEN_LATCH_RELEASE_DELAY = 2
  FIRING_OPEN_SEND_MAX = 2
  Delays = {0, 1}
SPECIFICATION FiringHistorySpec
INVARIANTS
  IInv
  IgniterOnlyInWindow
  LatchReleasable
  FiringOnlyOpensValve
  NoStaleAngle
  ServoFaultAborts
  OpenSendsBounded
PROPERTIES
  ServoAbortIsFinal
  ImplementsSequence
  OpenSendsSpaced
  ValveLeftAlone
