SPECIFICATION FairSpec
CONSTANTS
  Clients = {c1, c2}
  Mic = Mic
  Ptt = Ptt
  Tap = Tap
  Taps = {Tap}
  Externals <- NoExternals
  None = None
  Invalid = Invalid
  Kwd = FALSE
  MicFd = TRUE
  QMax = 6
  HalBacklog = 1
  Ops = {"open", "close", "record", "stop", "detect"}
  Requests <- TapAsync
  StopIndexes <- AllIndexes
  HalSources <- NoHal
CHECK_DEADLOCK FALSE
PROPERTY ImplementsRecording
PROPERTY CallsReturn
