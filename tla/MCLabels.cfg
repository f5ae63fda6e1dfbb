SPECIFICATION Spec
CONSTANTS
  Tracks = {t1}
  NoTrack = NoTrack
  NoFrame = NoFrame
  NumBuffers = 2
  MaxTs = 2
  KeyFrameRatio = 1
  EncBuffers = 1
  MaxSwitches = 0
  Faults = {"encode"}
INVARIANT BlocksOwnLabel
CHECK_DEADLOCK FALSE
