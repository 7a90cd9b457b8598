SPECIFICATION FairSpec
CONSTANTS
  TimeDomainCount = 2
  Programs = {"console", "application", "test"}
  Finishing = {1}
  Players = {1}
  SignalPhases = {"load", "create", "start", "starting", "waiting"}
  RingSize = 3
  MaxFrames = 3
  MaxParams = 1
  StopTimeouts = TRUE
  PlayerComponents = {}
  RecordedTimes = {1}
  ReplayStart = 1000
INVARIANTS
  TypeOK
  PromiseSetOnce
  NoUseAfterReset
  NoThreadLeft
PROPERTIES
  StopEndsProgram
CHECK_DEADLOCK FALSE
