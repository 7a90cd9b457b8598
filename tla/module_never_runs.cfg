CONSTANTS
  Instances = {"cam", "filter"}
  PatternOf <- ModulePatterns
  TimeDomainConfigs <- Configs
  ParameterValues = {"2"}
  ModuleKey <- ModuleKeys
  CudaGraphName <- ModuleNoCuda
  MaxGroupInstances <- ModuleGroupInstances
  TimeStepCount = 2
  Workers = 2
  Frames = 1
  LoadedWith = {"cam", "filter"}
  Executed <- ModuleLinks
SPECIFICATION FairSpec
PROPERTY ModuleRuns
CHECK_DEADLOCK FALSE
