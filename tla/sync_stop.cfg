SPECIFICATION FairSpec
CONSTANTS
  Clients = {c1, c2}
  Mic = Mic
  Ptt = Ptt
  Tap = Tap
  Taps <- NoTaps
  Externals <- NoExternals
  None = None
  Invalid = Invalid
  Kwd = TRUE
  MicFd = FALSE
  QMax = 5
  HalBacklog = 1
  Ops = {"open", "record", "stop"}
  Requests <- SyncMicStream
  StopIndexes <- AllIndexes
  HalSources <- NoHal
CHECK_DEADLOCK FALSE
PROPERTIES StopReturns
