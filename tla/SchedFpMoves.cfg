\* Two cores: a program that uses floating point on both.
SPECIFICATION OrderedSpec
CONSTANTS
  Cores = {0, 1}
  MaxTasks = 5
  Events = {1}
  Uart = 1
  Workloads = {{"spawn_user", "fp"}}
  MaxSleep = 1
  MaxGeneration = 2
  MaxNest = 2
  FpVersions = 2
  NoTask = NoTask
  Kernel = Kernel
INVARIANTS
  FpLatestValues
