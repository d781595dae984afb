SPECIFICATION Spec
CONSTANTS
  Groups = {"default", "tap"}
  Kinds = {"pcm", "raw", "decoded"}
  Types <- AllInputs
  Qtys = {2}
  Failures = {"fopen", "rawOn", "write", "crash"}
  MaxClock = 2
INVARIANT TypeOK
INVARIANT CapturesFinished
INVARIANT NothingLeft
PROPERTY RotationSound
CHECK_DEADLOCK FALSE
