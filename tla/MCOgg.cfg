SPECIFICATION MCSpec
CONSTANTS
  Full = 2
  MaxSegments = 2
  SpanPackets = 1
  NominalFill = 1
  Capture = 1
  WildValue = 3
  Lengths = {0, 1, 4}
  Faults = {"lost", "cut", "damaged", "memory", "foreign", "seek"}
  MaxPackets = 3
  Disguised = {2}
  Portions = {6, 100}
  MaxFaults = 1
  PackOps = 3
  ReadOps = 2
  PackWidths = {0, 1, 5, 12, 13}
  CrcBody = 100
  Outcome <- MCOutcome
INVARIANTS PagesSpanOnlyWhenFull PacketsKeepLabels IntactPacketsArrive ReadsWhatWasPacked SelfTestsPass
PROPERTIES ChannelSpec
CHECK_DEADLOCK FALSE
