CONSTANTS
  c1 = c1
  c2 = c2
  v1 = v1
  v2 = v2
  lora = lora
  gfsk = gfsk
  Callers <- TwoCallers
  NoCaller = NoCaller
  Ops = {"tx", "txat", "freq", "mod", "phy"}
  Values <- OneValue
  Phys <- TwoPhys
  LoRa = lora
  RingCap = 0
  KNOB_ATTEMPTS = 2
  MaxReqs = 2
  MaxBeacons = 1
  MaxPushes = 0
  MaxLost = 1
  PortMayFail = TRUE
SPECIFICATION Spec
INVARIANTS
  SentOnce
  OkWasServed
  RepliesAreOwned
  NoOverrun
  CleanLinkAttributes
SYMMETRY Symmetry
CHECK_DEADLOCK FALSE
