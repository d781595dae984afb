SPECIFICATION Spec
CONSTANTS
  Clients = {c1, c2}
  Mic = Mic
  Ptt = Ptt
  Tap = Tap
  Taps <- NoTaps
  Externals = {Ptt}
  None = None
  Invalid = Invalid
  Kwd = TRUE
  MicFd = FALSE
  QMax = 6
  HalBacklog = 2
  Ops = {"open", "close", "record", "stop", "detect", "detectStop"}
  Requests <- MixedRequests
  StopIndexes <- FirstIndex
  HalSources = {Ptt}
INVARIANTS TypeOK OneWakeup NoWaiterOnDeadThread DetectorStreamExclusive ClientBacklog
SYMMETRY ClientSymmetry
CHECK_DEADLOCK FALSE
PROPERTY ImplementsRecording
