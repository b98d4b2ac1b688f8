\* Two cores, without the ordering assumption.
SPECIFICATION Spec
CONSTANTS
  Cores = {0, 1}
  MaxTasks = 4
  Events = {1}
  Uart = 1
  Workloads = {{"spawn", "wait", "post"}}
  MaxSleep = 1
  MaxGeneration = 2
  MaxNest = 2
  FpVersions = 2
  NoTask = NoTask
  Kernel = Kernel
INVARIANTS
  OneStackUser
