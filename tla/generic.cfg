SPECIFICATION Spec
CONSTANTS
  TimeStepCount = 2
  MaxFrames = 2
  MaxFired = 2
  MaxChanges = 1
  Changeable = {"loader"}
  MaxRuns = 2
INVARIANTS
  EventOnce
  ReadWindow
  Recorded
