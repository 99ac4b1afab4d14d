CONSTANTS
  f1 = f1
  f2 = f2
  f3 = f3
  t1 = t1
  t2 = t2
  r1 = r1
  r2 = r2
  Frames <- TwoFrames
  Consumers <- OneTask
  Readers <- TwoReaders
  MaxAgg = 1
  MAX_CONSEC = 1
  MaxErrors = 0
  MayUnplug = FALSE
SPECIFICATION FairSpec
PROPERTIES
  ReadersExit
CHECK_DEADLOCK FALSE
