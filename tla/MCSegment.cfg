CONSTANTS
  TimecodeScale = 2
  MaxBlockTimecode = 4
  MaxClusterDuration = 5
  Extras = 1
  VideoSteps <- MCBack
  AudioSteps <- MCSmooth
  MaxSkew = 2
  MaxFrames = 5
  Forcing = TRUE
SPECIFICATION Spec
INVARIANTS CuesIndexClusters KeyFramesOpenClusters AcceptedIsKept FrameInOrderIsWritten
PROPERTIES VideoCanBeFinished AudioWithKeyFrame
CHECK_DEADLOCK FALSE
