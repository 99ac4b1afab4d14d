CONSTANTS
  control = control
  sampler = sampler
  Threads <- TwoThreads
  Ops <- KnobsAndClock
  Channels = {3}
  TopLevel = 1
  CalApplied = 1
  SeqMod = 4
  RecvTries = 2
  ClockWord = 2
  HomeChannel = 1
  HomeWidth = 20
  MaxCalls <- TwoAndOne
  MaxFaults = 1
  MaxEvents = 1
  MaxTime = 2
SPECIFICATION FairSpec
CHECK_DEADLOCK FALSE
INVARIANTS
  OwnReply
  KnobsAreProgrammed
PROPERTIES
  ImplementsRegisterFile
  ClockIsCurrent
  CallsReturn
