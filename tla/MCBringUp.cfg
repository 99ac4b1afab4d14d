CONSTANTS
  Requests <- MCRequests
  StepIds = {"a", "b", "c", "d"}
  Stages = {"Tune", "Power", "Verify"}
  Facts = {"FusedBase"}
  GuardNames = {"PowerTracker"}
  AssertIds = {"TXENAB", "CR"}
SPECIFICATION Spec
INVARIANTS
  RanInOrder
  ReportTellsWhatRan
  EffectsAreReported
  NothingLostSilently
  TransmitterExamined
CHECK_DEADLOCK FALSE
