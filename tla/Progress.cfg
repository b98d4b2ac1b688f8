SPECIFICATION FairSpec
CONSTANTS
  t1 = t1
  t2 = t2
  t3 = t3
  l1 = l1
  l2 = l2
  root = root
  hub = hub
  k = k
  peer = peer
  gateway = gateway
  far = far
  s1 = s1
  s2 = s2
  c1 = c1
  c2 = c2
  n1 = n1
  pool = pool
  bad = bad
  maker = maker
  second = second
  \* SdCard
  Blocks = {0, 1}
  AddressSpan = 1024
  BlockBytes = 512
  MaxPerTransfer = 2
  Cards <- MCCards
  MaxCalls = 1
  MaxLength = 2
  CardMaxFaults = 1
  \* UsbTree
  Devices = {hub, k}
  Root = root
  Kind <- MCKind
  SpeedOf <- MCSpeedOf
  PortsOf <- MCPortsOf
  Arrangements <- MCArrangements
  MaxDepth = 3
  MaxAddress = 2
  MaxPlugs = 2
  TreeMaxFaults = 1
  \* UsbHost
  Uses <- MCUses
  Packets = 2
  MaxSplitErrors = 3
  MaxNyets = 2
  HostMaxFaults = 2
  MaxNaks = 1
  \* RxQueue
  RxLength = 2
  RxMaxBytes = 4
  \* Dhcp
  Servers = {s1, s2}
  RetryTime = 1
  RenewTime = 1
  RequestTries = 2
  MaxXid = 2
  \* Neighbours
  Local = {peer, gateway}
  Remote = {far}
  Gateway = gateway
  ArpCache = 1
  ArpRetry = 1
  ArpGiveUp = 2
  PingTimeout = 1
  PingWait = 1
  MaxPackets = 1
  MaxMoves = 1
  \* NetTask
  Callers = {c1, c2}
  Names = {n1}
  Pool = pool
  Bad = bad
  IdMod = 5
  Seed = 3
  DnsTries = 2
  DnsRetry = 1
  MaxAnswers = 2
  UsbWait = 0
  \* ClockSync
  SntpTries = 2
  SntpRetry = 1
  Resync = 1
  ClockRetry = 1
  MaxLate = 1
  MaxAge = 2
  \* Programs
  MaxTasks = 2
  MaxHandles = 1
  Asids = {1, 2}
  MaxFile = 0
  Sizes = {1}
  Budget = 1
  MaxInput = 0
  \* Pipe
  PipePrograms = {maker, second}
  Maker = maker
  Readers = {second}
  Writers = {maker}
  Killable = {second}
  PipeCapacity = 1
  PipeMaxBytes = 2
  \* Mutex
  Tasks = {t1, t2, t3}
  Locks = {l1, l2}
  Nil = Nil
CHECK_DEADLOCK FALSE
INVARIANTS
  Exclusion
  BlockReturnsToOwner
PROPERTIES
  CallsReturn
  NothingForgotten
  ImplementsFifoLock
