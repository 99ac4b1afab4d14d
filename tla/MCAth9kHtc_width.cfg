CONSTANTS
  control = control
  sampler = sampler
  Threads <- OneThread
  Ops <- KnobsOnly
  Channels = {1, 3}
  TopLevel = 1
  CalApplied = 1
  SeqMod = 4
  RecvTries = 2
  ClockWord = 2
  HomeChannel = 1
  HomeWidth = 40
  MaxCalls <- TwoCalls
  MaxFaults = 0
  MaxEvents = 0
  MaxTime = 2
SPECIFICATION Spec
CHECK_DEADLOCK FALSE
INVARIANT
  WidthIsProgrammed
