SPECIFICATION Spec
CONSTANTS
  a = a
  b = b
  MaxOffset = 1
  SensorDelta = 10
  AlphaNum = 1
  AlphaDen = 1
  Grid = 1
  Sources = {a, b}
  TimeStepCount = 2
  Players = {a}
  SourceMode = "WAIT_FOR_BUFFER"
  MissingSourceEventMode = "WAIT_FOR_EVENT"
  Timestamps = {9, 11, 21, 29, 39}
  MinGap = 5
  MaxSkip = 1
  Persistent = {}
  RequestPhases = {"running", "stopping", "tearing", "flushing"}
  MaxParams = 0
  ParamPhases = {"running"}
  StopTimeouts = FALSE
  Now = 1000
INVARIANTS
  BufferInv
  BufferMatchesRequest
  FrameSynchronised
PROPERTIES
  ImplementsPipeline
CHECK_DEADLOCK FALSE
