SPECIFICATION Spec
CONSTANTS
  Tracks = {t1}
  NoTrack = NoTrack
  NoFrame = NoFrame
  NumBuffers = 3
  MaxTs = 4
  KeyFrameRatio = 1
  EncBuffers = 2
  MaxSwitches = 0
  Faults = {"init", "copy", "encode", "bits", "mux"}
INVARIANTS
  TypeOK
  RunningTracksHaveBuffers
PROPERTIES
  ContractSpec
CHECK_DEADLOCK FALSE
