CONSTANTS
  None = None
  Frames = {{}, {"FIRE"}}
  RaisedCanFaults = {"CAN_PEER_LOST", "CAN_BUS_OFF", "CAN_TX_TIMEOUT", "CAN_TX_FRAME_CREATE_FAILED"}
  RESET_ACK_MODULUS = 2
  IGNITION_WAIT = 1
  MAIN_VALVE_OPEN_DELAY = 1
  O2_OFF_DELAY_AFTER_VALVE_OPEN = 1
  RUNNING_DURATION = 1
  SERVO_POLL_INTERVAL = 1
  OPEN_LATCH_RELEASE_DELAY = 1
  FIRING_OPEN_SEND_MAX = 1
  COMMUNICATION_TIMEOUT = 2
  TxResults = {"Ok", "TransmitFailed", "TimedOutUnknownState", "BusOff", "FrameCreateFailed"}
SPECIFICATION FairHistorySpec
INVARIANTS
  TypeOK
  BusOffStopsInputs
PROPERTIES
  GuaranteesCanStep
  SilentPanelIsLost
  TransmissionResumes
  SilentUntilHeard
  TimeoutClearedBySend
  RestartsEarned
  AckIsEdge
