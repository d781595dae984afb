SPECIFICATION Spec
CONSTANTS
  c1 = c1
  c2 = c2
  o1 = o1
  o2 = o2
  None = None
  Callers = {c1}
  Objects = {o1, o2}
  Serves <- Both
  Ops = {"create", "destroy", "open", "close", "power", "limits"}
  Devices <- AllDevices
  Modes = {"full"}
  Failures = {"hal", "queue"}
  GetsWhenOpen = TRUE
  Detector = FALSE
  SlowPolls = FALSE
  QMax = 3
  QIds = 2
  MaxCalls = 7
  MaxOpens = 3
SYMMETRY ObjectSymmetry
INVARIANT NothingLeaks
CHECK_DEADLOCK FALSE
