\* Two cores, the second of which starts at any time or never; five workloads.
SPECIFICATION OrderedSpec
CONSTANTS
  Cores = {0, 1}
  MaxTasks = 4
  Events = {1}
  Uart = 1
  Workloads = {{"spawn", "sleep", "block", "wake", "exit", "yield"},
               {"spawn", "wait", "post", "uart"},
               {"spawn_user", "wait", "kill", "exit"},
               {"spawn", "no_preempt"},
               {"spawn_user", "fp"}}
  MaxSleep = 1
  MaxGeneration = 2
  MaxNest = 2
  FpVersions = 1
  NoTask = NoTask
  Kernel = Kernel
INVARIANTS
  TypeOK
  OneStackUser
  ResumesSavedCode
  NothingInUseIsReaped
  IdleTasksStay
  NoLostWakeup
  NoPreemptHolds
  OwnLiveSpace
  FpOwnValues
