SPECIFICATION FairSpec
CONSTANTS
  c1 = c1
  c2 = c2
  o1 = o1
  o2 = o2
  None = None
  Callers = {c1, c2}
  Objects = {o1}
  Serves <- Shared
  Ops = {"create", "open", "close", "power", "poll"}
  Devices <- MicOnly
  Modes = {"full", "low"}
  Failures = {"hal", "queue"}
  GetsWhenOpen = TRUE
  Detector = TRUE
  SlowPolls = FALSE
  QMax = 6
  QIds = 2
  MaxCalls = 3
  MaxOpens = 2
INVARIANT SemaphoresLive
INVARIANT Reopens
CHECK_DEADLOCK FALSE
PROPERTY CallsReturn
