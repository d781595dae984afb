SPECIFICATION Spec
CONSTANTS
  ChanQty = 2
  FrameQty = 2
  RingFrames = 3
  Threshold = 1
  ByteQty = 256
  WordQty = 256
  Requests <- Asked
  Care = {"answers", "oneFrame", "heard", "once"}
  Begins <- SomeBegins
  Scores = {1, 2}
  MaxFrames = 5
INVARIANT TypeOK
INVARIANT RingHoldsNewest
INVARIANT StreamExact
INVARIANT ReportTrue
CHECK_DEADLOCK FALSE
