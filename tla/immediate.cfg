SPECIFICATION Spec
CONSTANTS
  a = a
  b = b
  MaxOffset = 0
  SensorDelta = 10
  AlphaNum = 1
  AlphaDen = 1
  Grid = 1
  Sources = {a, b}
  TimeStepCount = 2
  Players = {}
  SourceMode = "IMMEDIATE_RETURN"
  MissingSourceEventMode = "WAIT_FOR_EVENT"
  Timestamps = {10, 20, 30, 40}
  MinGap = 1
  MaxSkip = 1
  Persistent = {}
  RequestPhases = {"running", "stopping", "tearing", "flushing"}
  MaxParams = 1
  ParamPhases = {"running"}
  StopTimeouts = FALSE
  Now = 1000
INVARIANTS
  NeverOverrun
  RingWindow
SYMMETRY Symmetry
CHECK_DEADLOCK FALSE
