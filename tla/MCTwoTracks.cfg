SPECIFICATION Spec
CONSTANTS
  Tracks = {t1, t2}
  NoTrack = NoTrack
  NoFrame = NoFrame
  NumBuffers = 2
  MaxTs = 2
  KeyFrameRatio = 1
  EncBuffers = 2
  MaxSwitches = 1
  Faults = {"bits", "mux"}
SYMMETRY Symmetry
INVARIANT LabelsInStep
PROPERTY FileSpec
CHECK_DEADLOCK FALSE
