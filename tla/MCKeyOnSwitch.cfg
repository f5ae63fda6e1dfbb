SPECIFICATION Spec
CONSTANTS
  Tracks = {t1, t2}
  NoTrack = NoTrack
  NoFrame = NoFrame
  NumBuffers = 2
  MaxTs = 2
  KeyFrameRatio = 1
  EncBuffers = 1
  MaxSwitches = 1
  Faults = {}
PROPERTY KeyFrameOnSwitch
CHECK_DEADLOCK FALSE
