SPECIFICATION Spec
CONSTANTS
  c1 = c1
  c2 = c2
  o1 = o1
  o2 = o2
  None = None
  Callers = {c1}
  Objects = {o1}
  Serves <- Alone
  Ops = {"create", "destroy", "open", "close", "power", "privacy", "privacyGet", "limits", "poll"}
  Devices <- AllDevices
  Modes = {"full", "low"}
  Failures = {"hal", "queue", "ppr", "mic", "thread", "channels", "refusal"}
  GetsWhenOpen = TRUE
  Detector = TRUE
  SlowPolls = TRUE
  QMax = 3
  QIds = 2
  MaxCalls = 6
  MaxOpens = 2
INVARIANT TypeOK
INVARIANT Served
INVARIANT PrivacyTold
INVARIANT VoiceFollows
CHECK_DEADLOCK FALSE
