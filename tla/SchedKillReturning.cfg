\* One core: a program killed on its way out of a system call.
SPECIFICATION Spec
CONSTANTS
  Cores = {0}
  MaxTasks = 3
  Events = {1}
  Uart = 1
  Workloads = {{"spawn_user", "kill"}}
  MaxSleep = 1
  MaxGeneration = 2
  MaxNest = 2
  FpVersions = 2
  NoTask = NoTask
  Kernel = Kernel
INVARIANTS
  KilledUserIsRedirected
