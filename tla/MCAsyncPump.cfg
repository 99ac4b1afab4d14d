CONSTANTS
  f1 = f1
  f2 = f2
  f3 = f3
  t1 = t1
  t2 = t2
  p1 = p1
  p2 = p2
  x1 = x1
  x2 = x2
  Frames <- TwoFrames
  Consumers <- OneTask
  Parsers <- TwoParsers
  Xfers <- TwoXfers
  MaxAgg = 2
  RawCap = 1
  MayUnplug = TRUE
SPECIFICATION FairSpec
INVARIANTS
  InflightIsLive
  NoFrameSleeps
  NoBufferSleeps
PROPERTIES
  ImplementsService
  
  HeldIsDelivered
CHECK_DEADLOCK FALSE
