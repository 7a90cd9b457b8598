CONSTANTS
  Instances = {"cam", "mix", "warp", "track", "clk", "show"}
  PatternOf <- Patterns
  TimeDomainConfigs <- Configs
  ParameterValues = {"2"}
  ModuleKey <- NoModules
  CudaGraphName <- Cuda
  MaxGroupInstances <- GroupInstances
  TimeStepCount = 2
  Workers = 2
  Frames = 1
  LoadedWith = {"cam", "mix", "warp", "track", "show"}
  Executed <- FlowLinks
SPECIFICATION FairSpec
INVARIANTS
  TypeOK
  NoLoop
  RoundTrip
  Wired
  OwnSourceBuffer
  InputsStable
  SerialInOrder
  StepComplete
  FreshData
PROPERTY FlowEnds
CHECK_DEADLOCK FALSE
