\* Two cores, the second of which starts at any time or never.
SPECIFICATION FairSpec
CONSTANTS
  Cores = {0, 1}
  MaxTasks = 4
  Events = {1}
  Uart = 1
  Workloads = {{"spawn", "no_preempt"},
               {"spawn_user", "kill"}}
  MaxSleep = 0
  MaxGeneration = 2
  MaxNest = 1
  FpVersions = 1
  NoTask = NoTask
  Kernel = Kernel
PROPERTIES
  EveryoneRuns
  KilledWhileRunningExits
