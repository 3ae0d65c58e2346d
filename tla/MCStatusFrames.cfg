CONSTANTS
  None = None
  OutputBits = {0, 17}
  InputBits = {5}
  PhaseFlags <- MCPhaseFlags
  ReachedAngles <- MCReachedAngles
  AdcValues = {300}
  COUNTER_MODULUS = 3
SPECIFICATION FairSpec
INVARIANT SampleStillDue
PROPERTIES
  PanelCatchesUp
  LastSampleArrives
