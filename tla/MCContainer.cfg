SPECIFICATION CaptionSpec
CONSTANTS
  Confs <- MCConfs
  Mux <- MCMux
  ParserCall <- MCParse
  Captions <- MCCaptions
INVARIANTS
  NeverRefused
  HeadersReadBack
  BlocksReadBack
  IndexesLead
  WalksInOrder
  SeeksByTime
  CaptionsReadBack

PROPERTY ReadsToTheEnd
CHECK_DEADLOCK FALSE
