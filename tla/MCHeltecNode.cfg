CONSTANTS
  f1 = f1
  f2 = f2
  m1 = m1
  m2 = m2
  Freqs <- TwoFreqs
  Mods <- TwoMods
  HomeFreq = f1
  HomeMod = m1
  Refused <- Wide
  HopLists <- TwoLists
  Delays <- Soon
  Ops = {"tx", "lbt", "knob", "freq", "mod", "beacon", "standby", "scan", "sense", "hop", "at", "abs"}
  QueueCap = 1
  StageBudget = 1
  LbtAttempts = 2
  MaxCmds = 3
  MaxTime = 0
  MaxFaults = 1
  MaxHops = 1
  MaxRx = 1
  MaxBeacons = 1
SPECIFICATION FairSpec
CHECK_DEADLOCK FALSE
INVARIANTS
  StagedIsLoaded
  ArmedIsListening
  NoneForgotten
  AtMostOnce
  HopStartsAtBase
PROPERTIES
  EveryRequestAnswered
  NeverDeafForGood
