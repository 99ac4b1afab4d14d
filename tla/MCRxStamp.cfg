CONSTANTS
  HwOk = TRUE
  Wrap = 4
  Word = 4
  MaxLate = 1
  BootEnd = 2
  MaxNow = 4
  MaxFrames = 3
  MaxResets = 1
  MaxLeaves = 1
  MaxLost = 1
SPECIFICATION Spec
CHECK_DEADLOCK FALSE
INVARIANTS
  TypeOK
  CapturedIsOwn
  CleanIsCaptured
  ReportedOnce
  NoteCostsOneFrame
