CONSTANTS
  f1 = f1
  f2 = f2
  f3 = f3
  t1 = t1
  t2 = t2
  r1 = r1
  r2 = r2
  Frames <- TwoFrames
  Consumers <- TwoTasks
  Readers <- TwoReaders
  MaxAgg = 2
  MAX_CONSEC = 1
  MaxErrors = 3
  MayUnplug = TRUE
SPECIFICATION FairSpec
INVARIANTS
  NoFrameSleeps
PROPERTIES
  ImplementsService
  HeldIsDelivered
CHECK_DEADLOCK FALSE
