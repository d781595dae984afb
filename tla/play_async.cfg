SPECIFICATION Spec
CONSTANTS
  c1 = c1
  c2 = c2
  Clients = {c1, c2}
  Main = Main
  None = None
  Ops = {"open", "play", "stop", "pause", "resume", "intensity", "close", "hfpStart", "hfpStop"}
  Plays <- FileUser
  Reads <- ToTheEnd
  HalWrites <- GoodWrite
  MicRuns = TRUE
  CallbackStops = FALSE
  QMax = 3
  MaxPlays = 1
  MaxOpens = 2
  MaxFrames = 1
INVARIANTS ObjectLive StateTellsHal
SYMMETRY ClientSymmetry
CHECK_DEADLOCK FALSE
