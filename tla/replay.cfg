SPECIFICATION Spec
CONSTANTS
  TimeDomainCount = 1
  Programs = {"console", "application", "test"}
  Finishing = {0}
  Players = {0}
  SignalPhases = {"waiting"}
  RingSize = 1
  MaxFrames = 1
  MaxParams = 0
  StopTimeouts = FALSE
  PlayerComponents = {"left", "right"}
  RecordedTimes = {1, 3}
  ReplayStart = 1000
INVARIANTS
  SameOffset
  ReplayComplete
PROPERTIES
  ReplayOrder
CHECK_DEADLOCK FALSE
