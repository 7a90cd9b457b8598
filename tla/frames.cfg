SPECIFICATION LiveSpec
CONSTANTS
  a = a
  b = b
  MaxOffset = 0
  SensorDelta = 10
  AlphaNum = 1
  AlphaDen = 1
  Grid = 1
  Sources = {a, b}
  TimeStepCount = 2
  Players = {}
  SourceMode = "WAIT_FOR_BUFFER"
  MissingSourceEventMode = "WAIT_FOR_EVENT"
  Timestamps = {10, 20, 30}
  MinGap = 1
  MaxSkip = 1
  Persistent = {}
  RequestPhases = {"running", "stopping", "tearing", "flushing"}
  MaxParams = 0
  ParamPhases = {"running"}
  StopTimeouts = FALSE
  Now = 1000
INVARIANTS
  TypeOK
  NoFutureError
  OnlySelfCancel
  PaddingNeverOvershoots
  EndsAfterTeardown
PROPERTIES
  SinkOrder
  StartReturns
  StopReturns
  RequestAnswered
CHECK_DEADLOCK FALSE
