SPECIFICATION FairSpec
CONSTANTS
  c1 = c1
  c2 = c2
  Clients = {c1, c2}
  Main = Main
  None = None
  Ops = {"open", "play", "stop", "volume", "close", "hfpStart"}
  Plays <- NoPipe
  Reads <- AllReads
  HalWrites <- AnyWrite
  MicRuns = FALSE
  CallbackStops = FALSE
  QMax = 4
  MaxPlays = 2
  MaxOpens = 2
  MaxFrames = 2
INVARIANTS TypeOK SemaphoresLive HandlesLive IdleIsQuiet EofOnce
CHECK_DEADLOCK FALSE
PROPERTY CallsReturn
