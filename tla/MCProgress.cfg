SPECIFICATION FairSpec
CONSTANTS
  Tracks = {t1}
  NoTrack = NoTrack
  NoFrame = NoFrame
  NumBuffers = 2
  MaxTs = 3
  KeyFrameRatio = 0
  EncBuffers = 2
  MaxSwitches = 1
  Faults = {"init"}
INVARIANTS
  SlotsConserved
  KeyFrameInterval
PROPERTIES
  FramesGivenBack
  SwitchHappens
  SubmittedIsSaved
CHECK_DEADLOCK FALSE
