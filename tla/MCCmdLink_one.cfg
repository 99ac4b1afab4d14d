CONSTANTS
  c1 = c1
  c2 = c2
  v1 = v1
  v2 = v2
  lora = lora
  gfsk = gfsk
  Callers <- OneCaller
  NoCaller = NoCaller
  Ops = {"tx", "freq", "txat", "mod", "phy"}
  Values <- TwoValues
  Phys <- TwoPhys
  LoRa = lora
  RingCap = 0
  KNOB_ATTEMPTS = 2
  MaxReqs = 3
  MaxBeacons = 0
  MaxPushes = 1
  MaxLost = 0
  PortMayFail = FALSE
SPECIFICATION Spec
INVARIANTS
  QuietMirrorIsLive
  QuietProfileIsCurrent
  WokenCallerSeesCap
SYMMETRY Symmetry
CHECK_DEADLOCK FALSE
